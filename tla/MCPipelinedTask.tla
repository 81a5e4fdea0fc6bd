-------------------------- MODULE MCPipelinedTask --------------------------
(***************************************************************************)
(* Instances of PipelinedTask for TLC, and the evacuation it implements.   *)
(***************************************************************************)
EXTENDS PipelinedTask

RangeOf(s) == { s[i] : i \in DOMAIN s }

\* The records held by some goroutine or channel.
InPipe ==
    raw \cup (UNION RangeOf(input)) \cup (UNION RangeOf(submit))
        \cup (UNION { batch[p] : p \in Processors })
        \cup (UNION { bulk[s] : s \in Sinkers })

\* The evacuation the pipeline carries out.
Evac == INSTANCE Evacuation WITH inPipe <- InPipe, stopped <- (stopPc = "returned")

\* The pipeline (pipelined.go) moves records the way Evacuation allows: none is
\* lost without a log line, none counted both as posted and as lost, and none is
\* fetched once a blocking Stop has returned.
EvacuationSpec == Evac!Spec
=============================================================================
