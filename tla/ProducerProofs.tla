-------------------------- MODULE ProducerProofs ---------------------------
(***************************************************************************)
(* Theorems about what the producer does with the data in Redis.           *)
(*                                                                         *)
(* The pipeline (Spec, TypeOK and IInv are those of PipelinedTask): that   *)
(* it loses nothing silently, for any number of records and goroutines and *)
(* every size of its buffers.  Whose data is served, for any number of     *)
(* configurations, starts and crashes; how often keys and calls are        *)
(* reported, for any number of keys, calls and processors; that the newest *)
(* configuration of each SDK instance gets through, in order, for any      *)
(* number of them; and that the workers of the impressions task make sound *)
(* bulks and share none, for any number of workers, impressions, instances *)
(* and buffers and every size of a bulk.                                   *)
(***************************************************************************)
EXTENDS MCPipelinedTask, RedisOwner, UniqueKeys, SdkTelemetry, ImpressionBatches,
        FiniteSetTheorems, TLAPS

-----------------------------------------------------------------------------
(* PipelinedTask                                                           *)

\* How the goroutines' program counters, the channels and the values in
\* transit depend on each other: a closed channel has no sender left, a
\* goroutine that ended found its input closed and empty, and holds nothing.
PipeInv ==
    /\ inputClosed => fillPc = "done"
    /\ fillPc # "push" => raw = {}
    /\ \A p \in Processors : last[p] => inputClosed /\ input = <<>>
    /\ \A p \in Processors : procPc[p] = "done" => last[p] /\ batch[p] = {}
    /\ submitClosed => \A p \in Processors : procPc[p] = "done"
    /\ \A s \in Sinkers : sinkPc[s] = "done" => submitClosed /\ submit = <<>>
    /\ \A s \in Sinkers : sinkPc[s] # "post" => bulk[s] = {}
    /\ stopPc = "returned" => AllDone

IInv == TypeOK /\ PipeInv

-----------------------------------------------------------------------------
\* The pipeline starts with a well-typed state (NewPipelinedTask).
LEMMA InitTypeOK == Init => TypeOK
<1> SUFFICES ASSUME Init PROVE TypeOK
  OBVIOUS
<1> USE PipelineAssumption DEF Init
<1>1. 0 \in 0..Attempts - 1 /\ Len(<<>>) = 0
  OBVIOUS
<1>2. <<>> \in Seq(SUBSET Items) /\ {} \in SUBSET Items
  OBVIOUS
<1>3. input \in Seq(SUBSET Items) /\ submit \in Seq(SUBSET Items)
  BY <1>2
<1>4. Len(input) <= InputBufferSize /\ Len(submit) <= SubmitBufferSize
  BY <1>1
<1>5. tries \in [Sinkers -> 0..Attempts - 1]
  BY <1>1
<1>6. batch \in [Processors -> SUBSET Items] /\ bulk \in [Sinkers -> SUBSET Items]
  BY <1>2
<1> QED
  BY <1>3, <1>4, <1>5, <1>6 DEF TypeOK

\* The pipeline starts open and empty (NewPipelinedTask).
LEMMA InitPipeInv == Init => PipeInv
BY DEF Init, PipeInv

\* Every step keeps the types of the state (pipelined.go, all goroutines).
LEMMA NextTypeOK == TypeOK /\ [Next]_vars => TypeOK'
<1> SUFFICES ASSUME TypeOK, [Next]_vars PROVE TypeOK'
  OBVIOUS
<1> USE PipelineAssumption DEF TypeOK, fillVars, procVars, sinkVars, inVars, outVars, stopVars, endVars
<1>1. CASE FillerTest
  BY <1>1 DEF FillerTest
<1>2. ASSUME NEW S \in SUBSET queue, Fetch(S) PROVE TypeOK'
  BY <1>2 DEF Fetch
<1>3. CASE SelectTimer
  BY <1>3 DEF SelectTimer
<1>4. CASE SelectShutdown
  BY <1>4 DEF SelectShutdown
<1>5. CASE Push
  <2>1. CASE Len(input) < InputBufferSize
    <3>1. Append(input, raw) \in Seq(SUBSET Items) /\ Len(Append(input, raw)) = Len(input) + 1
      OBVIOUS
    <3>2. input' = Append(input, raw) /\ dropped' = dropped /\ raw' = {} /\ fillPc' = "test"
      BY <1>5, <2>1 DEF Push
    <3>3. input' \in Seq(SUBSET Items) /\ Len(input') <= InputBufferSize
      BY <2>1, <3>1, <3>2
    <3> QED
      BY <1>5, <3>2, <3>3 DEF Push
  <2>2. CASE Len(input) >= InputBufferSize
    BY <1>5, <2>2 DEF Push
  <2> QED
    BY <2>1, <2>2, <1>5 DEF Push
<1>6. ASSUME NEW p \in Processors, Collect(p) PROVE TypeOK'
  <2>1. Head(input) \in SUBSET Items /\ Tail(input) \in Seq(SUBSET Items)
    BY <1>6 DEF Collect
  <2>2. Len(input') <= InputBufferSize
    BY <1>6 DEF Collect
  <2> QED
    BY <1>6, <2>1, <2>2 DEF Collect
<1>7. ASSUME NEW p \in Processors, CollectClosed(p) PROVE TypeOK'
  BY <1>7 DEF CollectClosed
<1>8. ASSUME NEW p \in Processors, AccumTimeout(p) PROVE TypeOK'
  BY <1>8 DEF AccumTimeout
<1>9. ASSUME NEW p \in Processors, NEW S \in SUBSET batch[p], Emit(p, S) PROVE TypeOK'
  <2>1. S \in SUBSET Items
    OBVIOUS
  <2>2. Append(submit, S) \in Seq(SUBSET Items) /\ Len(Append(submit, S)) = Len(submit) + 1
    BY <2>1
  <2> QED
    BY <1>9, <2>1, <2>2 DEF Emit, Consumed
<1>10. ASSUME NEW p \in Processors, NEW S \in SUBSET batch[p], Skip(p, S) PROVE TypeOK'
  BY <1>10 DEF Skip, Consumed
<1>11. CASE Close
  BY <1>11 DEF Close
<1>12. ASSUME NEW s \in Sinkers, Receive(s) PROVE TypeOK'
  <2>1. Head(submit) \in SUBSET Items /\ Tail(submit) \in Seq(SUBSET Items)
    BY <1>12 DEF Receive
  <2>2. Len(submit') <= SubmitBufferSize
    BY <1>12 DEF Receive
  <2> QED
    BY <1>12, <2>1, <2>2 DEF Receive
<1>13. ASSUME NEW s \in Sinkers, ReceiveClosed(s) PROVE TypeOK'
  BY <1>13 DEF ReceiveClosed
<1>14. ASSUME NEW s \in Sinkers, PostOk(s) PROVE TypeOK'
  BY <1>14 DEF PostOk, Recycle
<1>15. ASSUME NEW s \in Sinkers, PostFail(s) PROVE TypeOK'
  <2>1. CASE tries[s] + 1 < Attempts
    <3>1. tries[s] + 1 \in 0..Attempts - 1
      BY <2>1
    <3>2. tries' = [tries EXCEPT ![s] = @ + 1] /\ UNCHANGED <<bulk, sinkPc, dropped>>
      BY <1>15, <2>1 DEF PostFail
    <3>3. tries' \in [Sinkers -> 0..Attempts - 1]
      BY <3>1, <3>2
    <3> QED
      BY <1>15, <3>2, <3>3 DEF PostFail
  <2>2. CASE tries[s] + 1 >= Attempts
    <3>1. UNCHANGED tries /\ dropped' = dropped \cup bulk[s] /\ Recycle(s)
      BY <1>15, <2>2 DEF PostFail
    <3>2. bulk' \in [Sinkers -> SUBSET Items] /\ sinkPc' \in [Sinkers -> {"receive", "post", "done"}]
      BY <3>1 DEF Recycle
    <3>3. dropped' \subseteq Items
      BY <3>1
    <3> QED
      BY <1>15, <3>1, <3>2, <3>3 DEF PostFail
  <2> QED
    BY <2>1, <2>2
<1>16. CASE StopClear
  BY <1>16 DEF StopClear
<1>17. CASE StopSignal
  BY <1>17 DEF StopSignal
<1>18. CASE StopReturn
  BY <1>18 DEF StopReturn
<1>19. CASE UNCHANGED vars
  BY <1>19 DEF vars
<1> QED
  BY <1>1, <1>2, <1>3, <1>4, <1>5, <1>6, <1>7, <1>8, <1>9, <1>10, <1>11, <1>12,
     <1>13, <1>14, <1>15, <1>16, <1>17, <1>18, <1>19
     DEF Next, Filler, Processor, Sinker

\* Every step keeps PipeInv.
LEMMA NextPipeInv == IInv /\ [Next]_vars => PipeInv'
<1> SUFFICES ASSUME TypeOK, PipeInv, [Next]_vars PROVE PipeInv'
  BY DEF IInv
<1> USE DEF TypeOK, PipeInv, AllDone, fillVars, procVars, sinkVars, inVars, outVars, stopVars, endVars
<1>1. CASE FillerTest
  BY <1>1 DEF FillerTest
<1>2. ASSUME NEW S \in SUBSET queue, Fetch(S) PROVE PipeInv'
  BY <1>2 DEF Fetch
<1>3. CASE SelectTimer
  BY <1>3 DEF SelectTimer
<1>4. CASE SelectShutdown
  BY <1>4 DEF SelectShutdown
<1>5. CASE Push
  \* No processor saw the end of the input: the filler is still there.
  <2>1. \A p \in Processors : ~last[p]
    BY <1>5 DEF Push
  <2> QED
    BY <1>5, <2>1 DEF Push
<1>6. ASSUME NEW p \in Processors, Collect(p) PROVE PipeInv'
  \* There was something to collect, so again no processor saw the end.
  <2>1. \A q \in Processors : ~last[q]
    BY <1>6 DEF Collect
  <2> QED
    BY <1>6, <2>1 DEF Collect
<1>7. ASSUME NEW p \in Processors, CollectClosed(p) PROVE PipeInv'
  BY <1>7 DEF CollectClosed
<1>8. ASSUME NEW p \in Processors, AccumTimeout(p) PROVE PipeInv'
  BY <1>8 DEF AccumTimeout
<1>9. ASSUME NEW p \in Processors, NEW S \in SUBSET batch[p], Emit(p, S) PROVE PipeInv'
  \* p is still processing, so preSubmitBuffer is open and every sinker awake.
  <2>1. ~submitClosed /\ \A s \in Sinkers : sinkPc[s] # "done"
    BY <1>9 DEF Emit, Consumed
  <2> QED
    BY <1>9, <2>1 DEF Emit, Consumed
<1>10. ASSUME NEW p \in Processors, NEW S \in SUBSET batch[p], Skip(p, S) PROVE PipeInv'
  BY <1>10 DEF Skip, Consumed
<1>11. CASE Close
  BY <1>11 DEF Close
<1>12. ASSUME NEW s \in Sinkers, Receive(s) PROVE PipeInv'
  BY <1>12 DEF Receive
<1>13. ASSUME NEW s \in Sinkers, ReceiveClosed(s) PROVE PipeInv'
  BY <1>13 DEF ReceiveClosed
<1>14. ASSUME NEW s \in Sinkers, PostOk(s) PROVE PipeInv'
  BY <1>14 DEF PostOk, Recycle
<1>15. ASSUME NEW s \in Sinkers, PostFail(s) PROVE PipeInv'
  BY <1>15 DEF PostFail, Recycle
<1>16. CASE StopClear
  BY <1>16 DEF StopClear
<1>17. CASE StopSignal
  BY <1>17 DEF StopSignal
<1>18. CASE StopReturn
  BY <1>18 DEF StopReturn
<1>19. CASE UNCHANGED vars
  BY <1>19 DEF vars
<1> QED
  BY <1>1, <1>2, <1>3, <1>4, <1>5, <1>6, <1>7, <1>8, <1>9, <1>10, <1>11, <1>12,
     <1>13, <1>14, <1>15, <1>16, <1>17, <1>18, <1>19
     DEF Next, Filler, Processor, Sinker

-----------------------------------------------------------------------------
\* Type correctness of the pipeline, buffers within their capacities included.
THEOREM TypeCorrect == Spec => []TypeOK
BY InitTypeOK, NextTypeOK, PTL DEF Spec

\* The inductive invariant holds of every behaviour.
LEMMA Inductive == Spec => []IInv
<1>1. Init => IInv
  BY InitTypeOK, InitPipeInv DEF IInv
<1>2. IInv /\ [Next]_vars => IInv'
  BY NextTypeOK, NextPipeInv DEF IInv
<1> QED
  BY <1>1, <1>2, PTL DEF Spec

\* No goroutine sends on a closed channel (pipelined.go Start, filler).
THEOREM NeverSendOnClosed == Spec => []NoSendOnClosed
<1>1. IInv => NoSendOnClosed
  BY DEF IInv, PipeInv, NoSendOnClosed
<1> QED
  BY <1>1, Inductive, PTL

\* A blocking Stop that returns leaves nothing in the pipe (pipelined.go:143),
\* provided there is at least one processor: with none, the input buffer has
\* no reader.
THEOREM StopLeavesNothing == ASSUME Processors # {} /\ Sinkers # {} PROVE Spec => []StopDrains
<1>1. IInv => StopDrains
  BY DEF IInv, PipeInv, StopDrains, Drained, AllDone
<1> QED
  BY <1>1, Inductive, PTL

-----------------------------------------------------------------------------
(* The pipeline implements Evacuation                                      *)

\* A record is in one place at most.
OnePlace ==
    /\ \A i \in DOMAIN input : \A j \in DOMAIN input : i # j => input[i] \cap input[j] = {}
    /\ \A i \in DOMAIN submit : \A j \in DOMAIN submit : i # j => submit[i] \cap submit[j] = {}
    /\ \A p, q \in Processors : p # q => batch[p] \cap batch[q] = {}
    /\ \A s, t \in Sinkers : s # t => bulk[s] \cap bulk[t] = {}
    /\ \A i \in DOMAIN input : input[i] \cap (queue \cup raw) = {}
    /\ \A i \in DOMAIN submit : submit[i] \cap (queue \cup raw) = {}
    /\ \A p \in Processors : batch[p] \cap (queue \cup raw) = {}
    /\ \A s \in Sinkers : bulk[s] \cap (queue \cup raw) = {}
    /\ \A i \in DOMAIN input, j \in DOMAIN submit : input[i] \cap submit[j] = {}
    /\ \A i \in DOMAIN input, p \in Processors : input[i] \cap batch[p] = {}
    /\ \A i \in DOMAIN input, s \in Sinkers : input[i] \cap bulk[s] = {}
    /\ \A i \in DOMAIN submit, p \in Processors : submit[i] \cap batch[p] = {}
    /\ \A i \in DOMAIN submit, s \in Sinkers : submit[i] \cap bulk[s] = {}
    /\ \A p \in Processors, s \in Sinkers : batch[p] \cap bulk[s] = {}
    /\ queue \cap raw = {}

Moves == TypeOK /\ OnePlace

\* What is in a channel after a send and after a receive.
LEMMA SentAndReceived ==
    ASSUME NEW c \in Seq(SUBSET Items)
    PROVE  /\ \A S \in SUBSET Items :
                 /\ DOMAIN Append(c, S) = DOMAIN c \cup {Len(c) + 1}
                 /\ Len(c) + 1 \notin DOMAIN c
                 /\ Append(c, S)[Len(c) + 1] = S
                 /\ \A i \in DOMAIN c : Append(c, S)[i] = c[i]
           /\ c # <<>> =>
                 /\ 1 \in DOMAIN c /\ Head(c) = c[1]
                 /\ \A i \in DOMAIN Tail(c) : i + 1 \in DOMAIN c /\ i + 1 # 1 /\ Tail(c)[i] = c[i + 1]
                 /\ \A i \in DOMAIN Tail(c) : \A j \in DOMAIN Tail(c) : i # j => i + 1 # j + 1
                 /\ \A i \in DOMAIN c : i = 1 \/ (i - 1 \in DOMAIN Tail(c) /\ Tail(c)[i - 1] = c[i])
OBVIOUS

\* Where a record is in the pipe.
LEMMA InPipeIs ==
    \A x : x \in InPipe <=>
        \/ x \in raw
        \/ \E i \in DOMAIN input : x \in input[i]
        \/ \E i \in DOMAIN submit : x \in submit[i]
        \/ \E p \in Processors : x \in batch[p]
        \/ \E s \in Sinkers : x \in bulk[s]
<1>1. \A x : x \in UNION RangeOf(input) <=> \E i \in DOMAIN input : x \in input[i]
  BY Zenon DEF RangeOf
<1>2. \A x : x \in UNION RangeOf(submit) <=> \E i \in DOMAIN submit : x \in submit[i]
  BY Zenon DEF RangeOf
<1>3. \A x : x \in UNION { batch[p] : p \in Processors } <=> \E p \in Processors : x \in batch[p]
  BY Zenon
<1>4. \A x : x \in UNION { bulk[s] : s \in Sinkers } <=> \E s \in Sinkers : x \in bulk[s]
  BY Zenon
<1> DEFINE I == UNION RangeOf(input)
           U == UNION RangeOf(submit)
           B == UNION { batch[p] : p \in Processors }
           K == UNION { bulk[s] : s \in Sinkers }
<1>5. InPipe = raw \cup I \cup U \cup B \cup K
  BY DEF InPipe
<1> HIDE DEF I, U, B, K
<1>6. \A x : x \in InPipe <=> x \in raw \/ x \in I \/ x \in U \/ x \in B \/ x \in K
  BY <1>5
<1> QED
  BY <1>1, <1>2, <1>3, <1>4, <1>6, Zenon DEF I, U, B, K

\* No step puts a record in a second place.
LEMMA OnePlaceStep == Moves /\ [Next]_vars => OnePlace'
<1> SUFFICES ASSUME Moves, [Next]_vars PROVE OnePlace'
  OBVIOUS
<1>0. TypeOK /\ OnePlace
  BY DEF Moves
<1> USE DEF fillVars, procVars, sinkVars, inVars, outVars, stopVars, endVars
<1>1. ASSUME UNCHANGED <<queue, raw, input, submit, batch, bulk>> PROVE OnePlace'
  BY <1>0, <1>1 DEF OnePlace
<1>2. ASSUME NEW S \in SUBSET queue, Fetch(S) PROVE OnePlace'
  <2>1. raw' = S /\ queue' = queue \ S /\ UNCHANGED <<input, submit, batch, bulk>>
    BY <1>2 DEF Fetch
  <2>2. raw' \subseteq queue /\ queue' \subseteq queue /\ raw' \cap queue' = {}
    BY <2>1
  <2> QED
    BY <1>0, <2>1, <2>2 DEF OnePlace
<1>3. CASE Push
  <2>1. raw' = {} /\ raw \in SUBSET Items /\ input \in Seq(SUBSET Items)
        /\ UNCHANGED <<queue, submit, batch, bulk>>
        /\ (input' = Append(input, raw) \/ input' = input)
    BY <1>0, <1>3 DEF Push, TypeOK
  <2>2. CASE input' = input
    BY <1>0, <2>1, <2>2 DEF OnePlace
  <2>3. CASE input' = Append(input, raw)
    <3>1. /\ DOMAIN input' = DOMAIN input \cup {Len(input) + 1} /\ Len(input) + 1 \notin DOMAIN input
          /\ input'[Len(input) + 1] = raw /\ \A i \in DOMAIN input : input'[i] = input[i]
      BY <2>1, <2>3, SentAndReceived
    <3> QED
      BY <1>0, <2>1, <3>1 DEF OnePlace
  <2> QED
    BY <2>1, <2>2, <2>3
<1>4. ASSUME NEW p \in Processors, Collect(p) PROVE OnePlace'
  <2>1. /\ input # <<>> /\ input \in Seq(SUBSET Items) /\ input' = Tail(input)
        /\ batch'[p] = batch[p] \cup Head(input)
        /\ \A q \in Processors : q # p => batch'[q] = batch[q]
        /\ UNCHANGED <<queue, raw, submit, bulk>>
    BY <1>0, <1>4 DEF Collect, TypeOK
  <2>2. /\ 1 \in DOMAIN input /\ Head(input) = input[1]
        /\ \A i \in DOMAIN input' : i + 1 \in DOMAIN input /\ i + 1 # 1 /\ input'[i] = input[i + 1]
        /\ \A i \in DOMAIN input' : \A j \in DOMAIN input' : i # j => i + 1 # j + 1
    BY <2>1, SentAndReceived
  <2> QED
    BY <1>0, <2>1, <2>2 DEF OnePlace
<1>5. ASSUME NEW p \in Processors, NEW S \in SUBSET batch[p], Emit(p, S) PROVE OnePlace'
  <2>1. /\ submit \in Seq(SUBSET Items) /\ submit' = Append(submit, S) /\ S \in SUBSET Items
        /\ batch'[p] = batch[p] \ S
        /\ \A q \in Processors : q # p => batch'[q] = batch[q]
        /\ UNCHANGED <<queue, raw, input, bulk>>
    BY <1>0, <1>5 DEF Emit, Consumed, TypeOK
  <2>2. /\ DOMAIN submit' = DOMAIN submit \cup {Len(submit) + 1} /\ Len(submit) + 1 \notin DOMAIN submit
        /\ submit'[Len(submit) + 1] = S /\ \A i \in DOMAIN submit : submit'[i] = submit[i]
    BY <2>1, SentAndReceived
  <2> QED
    BY <1>0, <2>1, <2>2 DEF OnePlace
<1>6. ASSUME NEW p \in Processors, NEW S \in SUBSET batch[p], Skip(p, S) PROVE OnePlace'
  <2>1. /\ batch'[p] = batch[p] \ S
        /\ \A q \in Processors : q # p => batch'[q] = batch[q]
        /\ UNCHANGED <<queue, raw, input, submit, bulk>>
    BY <1>0, <1>6 DEF Skip, Consumed, TypeOK
  <2>2. \A q \in Processors : batch'[q] \subseteq batch[q]
    BY <2>1
  <2> QED
    BY <1>0, <2>1, <2>2 DEF OnePlace
<1>7. ASSUME NEW s \in Sinkers, Receive(s) PROVE OnePlace'
  <2>1. /\ submit # <<>> /\ submit \in Seq(SUBSET Items) /\ submit' = Tail(submit)
        /\ bulk'[s] = Head(submit)
        /\ \A t \in Sinkers : t # s => bulk'[t] = bulk[t]
        /\ UNCHANGED <<queue, raw, input, batch>>
    BY <1>0, <1>7 DEF Receive, TypeOK
  <2>2. /\ 1 \in DOMAIN submit /\ Head(submit) = submit[1]
        /\ \A i \in DOMAIN submit' : i + 1 \in DOMAIN submit /\ i + 1 # 1 /\ submit'[i] = submit[i + 1]
        /\ \A i \in DOMAIN submit' : \A j \in DOMAIN submit' : i # j => i + 1 # j + 1
    BY <2>1, SentAndReceived
  <2> QED
    BY <1>0, <2>1, <2>2 DEF OnePlace
<1>8. ASSUME NEW s \in Sinkers, PostOk(s) \/ PostFail(s) PROVE OnePlace'
  <2>1. UNCHANGED <<queue, raw, input, submit, batch>>
    BY <1>8 DEF PostOk, PostFail
  <2>2. \A t \in Sinkers : bulk'[t] \subseteq bulk[t]
    BY <1>0, <1>8 DEF PostOk, PostFail, Recycle, TypeOK
  <2> QED
    BY <1>0, <2>1, <2>2 DEF OnePlace
<1> QED
  BY <1>1, <1>2, <1>3, <1>4, <1>5, <1>6, <1>7, <1>8
  DEF Next, Filler, Processor, Sinker, FillerTest, SelectTimer, SelectShutdown, CollectClosed, AccumTimeout,
      Close, ReceiveClosed, StopClear, StopSignal, StopReturn, vars

\* A step of the pipeline is a step of Evacuation or none.
LEMMA StepEvacuates ==
    ASSUME Processors # {}, Sinkers # {}, IInv, OnePlace, [Next]_vars
    PROVE  [Evac!Next]_(Evac!vars)
<1>0. TypeOK /\ PipeInv
  BY DEF IInv
<1> DEFINE stopped == stopPc = "returned"
           Held(x) == \/ x \in raw
                      \/ \E i \in DOMAIN input : x \in input[i]
                      \/ \E i \in DOMAIN submit : x \in submit[i]
                      \/ \E p \in Processors : x \in batch[p]
                      \/ \E s \in Sinkers : x \in bulk[s]
           Stays == (UNCHANGED <<queue, delivered, dropped>>) /\ stopped' = stopped
<1>1. \A x : x \in InPipe <=> Held(x)
  BY InPipeIs
<1>2. (\A x : x \in InPipe <=> Held(x))'
  BY InPipeIs, PTL
<1> HIDE DEF Held
<1>3. ASSUME Stays, \A x : Held(x)' <=> Held(x) PROVE UNCHANGED Evac!vars
  <2>1. InPipe' = InPipe
    BY <1>1, <1>2, <1>3
  <2> QED
    BY <2>1, <1>3 DEF Evac!vars
<1>4. ASSUME NEW S, UNCHANGED <<queue, delivered>>, dropped' = dropped \cup S, stopped' = stopped,
             \A x : x \in S => Held(x), \A x : Held(x)' <=> Held(x) /\ x \notin S
      PROVE  [Evac!Next]_(Evac!vars)
  <2>1. InPipe' = InPipe \ S /\ S \subseteq InPipe
    BY <1>1, <1>2, <1>4
  <2>2. CASE S = {}
    BY <1>4, <2>1, <2>2 DEF Evac!vars
  <2>3. CASE S # {}
    <3>1. Evac!GiveUp(S)
      BY <1>4, <2>1, <2>3 DEF Evac!GiveUp
    <3> QED
      BY <2>1, <3>1 DEF Evac!Next
  <2> QED
    BY <2>2, <2>3
<1> USE DEF fillVars, procVars, sinkVars, inVars, outVars, stopVars, endVars
<1>5. ASSUME NEW S \in SUBSET queue, Fetch(S) PROVE [Evac!Next]_(Evac!vars)
  <2>1. /\ queue' = queue \ S /\ raw = {} /\ raw' = S /\ fillPc = "fetch"
        /\ UNCHANGED <<input, submit, batch, bulk, delivered, dropped, stopPc>>
    BY <1>0, <1>5 DEF Fetch, PipeInv
  <2>2. \A x : Held(x)' <=> Held(x) \/ x \in S
    BY <2>1 DEF Held
  <2>3. CASE S = {}
    BY <1>3, <2>1, <2>2, <2>3
  <2>4. CASE S # {}
    <3>1. InPipe' = InPipe \cup S
      BY <1>1, <1>2, <2>2
    <3>2. ~stopped
      BY <1>0, <2>1 DEF PipeInv, AllDone
    <3>3. Evac!Take(S)
      BY <2>1, <2>4, <3>1, <3>2 DEF Evac!Take
    <3> QED
      BY <3>3 DEF Evac!Next
  <2> QED
    BY <2>3, <2>4
<1>6. CASE Push
  <2>1. raw' = {} /\ input \in Seq(SUBSET Items) /\ raw \in SUBSET Items
        /\ UNCHANGED <<queue, submit, batch, bulk, delivered, stopPc>>
    BY <1>0, <1>6 DEF Push, TypeOK
  <2>2. CASE input' = Append(input, raw) /\ UNCHANGED dropped
    <3>1. /\ DOMAIN input' = DOMAIN input \cup {Len(input) + 1}
          /\ input'[Len(input) + 1] = raw /\ \A i \in DOMAIN input : input'[i] = input[i]
      BY <2>1, <2>2, SentAndReceived
    <3>2. \A x : Held(x)' <=> Held(x)
      BY <2>1, <3>1 DEF Held
    <3> QED
      BY <1>3, <2>1, <2>2, <3>2
  <2>3. CASE input' = input /\ dropped' = dropped \cup raw
    <3>1. \A x : x \in raw => Held(x)
      BY DEF Held
    <3>2. \A x : Held(x)' <=> Held(x) /\ x \notin raw
      BY <2>1, <2>3 DEF Held, OnePlace
    <3> QED
      BY <1>4, <2>1, <2>3, <3>1, <3>2
  <2> QED
    BY <1>6, <2>2, <2>3 DEF Push
<1>7. ASSUME NEW p \in Processors, Collect(p) PROVE UNCHANGED Evac!vars
  <2>1. /\ input # <<>> /\ input \in Seq(SUBSET Items) /\ input' = Tail(input)
        /\ batch'[p] = batch[p] \cup Head(input)
        /\ \A q \in Processors : q # p => batch'[q] = batch[q]
        /\ UNCHANGED <<queue, raw, submit, bulk, delivered, dropped, stopPc>>
    BY <1>0, <1>7 DEF Collect, TypeOK
  <2>2. /\ 1 \in DOMAIN input /\ Head(input) = input[1]
        /\ \A i \in DOMAIN input' : i + 1 \in DOMAIN input /\ input'[i] = input[i + 1]
        /\ \A i \in DOMAIN input : i = 1 \/ (i - 1 \in DOMAIN input' /\ input'[i - 1] = input[i])
    BY <2>1, SentAndReceived
  <2>3. \A x : (\E q \in Processors : x \in batch'[q])
                 <=> x \in input[1] \/ \E q \in Processors : x \in batch[q]
    BY <2>1, <2>2
  <2>4. \A x : (\E i \in DOMAIN input : x \in input[i])
                 <=> x \in input[1] \/ \E i \in DOMAIN input' : x \in input'[i]
    BY <2>2
  <2>5. \A x : Held(x)' <=> Held(x)
    BY <2>1, <2>3, <2>4 DEF Held
  <2> QED
    BY <1>3, <2>1, <2>5
<1>8. ASSUME NEW p \in Processors, NEW S \in SUBSET batch[p], Emit(p, S) PROVE UNCHANGED Evac!vars
  <2>1. /\ submit \in Seq(SUBSET Items) /\ submit' = Append(submit, S) /\ S \in SUBSET Items
        /\ batch'[p] = batch[p] \ S
        /\ \A q \in Processors : q # p => batch'[q] = batch[q]
        /\ UNCHANGED <<queue, raw, input, bulk, delivered, dropped, stopPc>>
    BY <1>0, <1>8 DEF Emit, Consumed, TypeOK
  <2>2. /\ DOMAIN submit' = DOMAIN submit \cup {Len(submit) + 1}
        /\ submit'[Len(submit) + 1] = S /\ \A i \in DOMAIN submit : submit'[i] = submit[i]
    BY <2>1, SentAndReceived
  <2>3. \A x : (\E q \in Processors : x \in batch[q])
                 <=> x \in S \/ \E q \in Processors : x \in batch'[q]
    BY <2>1
  <2>4. \A x : (\E i \in DOMAIN submit' : x \in submit'[i])
                 <=> x \in S \/ \E i \in DOMAIN submit : x \in submit[i]
    BY <2>2
  <2>5. \A x : Held(x)' <=> Held(x)
    BY <2>1, <2>3, <2>4 DEF Held
  <2> QED
    BY <1>3, <2>1, <2>5
<1>9. ASSUME NEW p \in Processors, NEW S \in SUBSET batch[p], Skip(p, S)
      PROVE  [Evac!Next]_(Evac!vars)
  <2>1. /\ batch'[p] = batch[p] \ S
        /\ \A q \in Processors : q # p => batch'[q] = batch[q]
        /\ UNCHANGED <<queue, raw, input, submit, bulk, delivered, stopPc>>
        /\ dropped' = dropped \cup S
    BY <1>0, <1>9 DEF Skip, Consumed, TypeOK
  <2>2. \A x : x \in S => Held(x)
    BY DEF Held
  <2>3. \A x : (\E q \in Processors : x \in batch'[q])
                 <=> x \notin S /\ \E q \in Processors : x \in batch[q]
    BY <2>1 DEF OnePlace
  <2>4. \A x \in S : /\ x \notin raw
                     /\ \A i \in DOMAIN input : x \notin input[i]
                     /\ \A i \in DOMAIN submit : x \notin submit[i]
                     /\ \A s \in Sinkers : x \notin bulk[s]
    BY DEF OnePlace
  <2>5. \A x : Held(x)' <=> Held(x) /\ x \notin S
    <3>1. \A x : Held(x)' <=> x \in raw \/ (\E i \in DOMAIN input : x \in input[i])
                              \/ (\E i \in DOMAIN submit : x \in submit[i])
                              \/ (\E q \in Processors : x \in batch'[q])
                              \/ (\E s \in Sinkers : x \in bulk[s])
      BY <2>1 DEF Held
    <3>2. ASSUME NEW x \in S PROVE ~Held(x)'
      <4>1. ~\E q \in Processors : x \in batch'[q]
        BY <2>3
      <4>2. /\ x \notin raw /\ ~\E i \in DOMAIN input : x \in input[i]
            /\ ~\E i \in DOMAIN submit : x \in submit[i]
            /\ ~\E s \in Sinkers : x \in bulk[s]
        BY <2>4
      <4> QED
        BY <2>1, <4>1, <4>2 DEF Held
    <3>3. \A x : x \notin S => (Held(x)' <=> Held(x))
      BY <2>3, <3>1, Zenon DEF Held
    <3> QED
      BY <2>2, <3>2, <3>3, Zenon
  <2> QED
    BY <1>4, <2>1, <2>2, <2>5
<1>10. ASSUME NEW s \in Sinkers, Receive(s) PROVE UNCHANGED Evac!vars
  <2>1. /\ submit # <<>> /\ submit \in Seq(SUBSET Items) /\ submit' = Tail(submit)
        /\ bulk[s] = {} /\ bulk'[s] = Head(submit)
        /\ \A t \in Sinkers : t # s => bulk'[t] = bulk[t]
        /\ UNCHANGED <<queue, raw, input, batch, delivered, dropped, stopPc>>
    BY <1>0, <1>10 DEF Receive, TypeOK, PipeInv
  <2>2. /\ 1 \in DOMAIN submit /\ Head(submit) = submit[1]
        /\ \A i \in DOMAIN submit' : i + 1 \in DOMAIN submit /\ submit'[i] = submit[i + 1]
        /\ \A i \in DOMAIN submit : i = 1 \/ (i - 1 \in DOMAIN submit' /\ submit'[i - 1] = submit[i])
    BY <2>1, SentAndReceived
  <2>3. \A x : (\E t \in Sinkers : x \in bulk'[t]) <=> x \in submit[1] \/ \E t \in Sinkers : x \in bulk[t]
    BY <2>1, <2>2
  <2>4. \A x : (\E i \in DOMAIN submit : x \in submit[i])
                 <=> x \in submit[1] \/ \E i \in DOMAIN submit' : x \in submit'[i]
    BY <2>2
  <2>5. \A x : Held(x)' <=> Held(x)
    BY <2>1, <2>3, <2>4 DEF Held
  <2> QED
    BY <1>3, <2>1, <2>5
\* A bulk that leaves its sinker leaves the pipe.
<1>11. ASSUME NEW s \in Sinkers, bulk' = [bulk EXCEPT ![s] = {}], UNCHANGED <<raw, input, submit, batch>>
       PROVE  (\A x : x \in bulk[s] => Held(x)) /\ (\A x : Held(x)' <=> Held(x) /\ x \notin bulk[s])
  <2>1. \A x : x \in bulk[s] => Held(x)
    BY DEF Held
  <2>2. \A x : (\E t \in Sinkers : x \in bulk'[t])
                 <=> x \notin bulk[s] /\ \E t \in Sinkers : x \in bulk[t]
    BY <1>0, <1>11 DEF OnePlace, TypeOK
  <2>3. \A x \in bulk[s] : /\ x \notin raw
                           /\ \A i \in DOMAIN input : x \notin input[i]
                           /\ \A i \in DOMAIN submit : x \notin submit[i]
                           /\ \A p \in Processors : x \notin batch[p]
    BY DEF OnePlace
  <2> QED
    <3>1. \A x : Held(x)' <=> x \in raw \/ (\E i \in DOMAIN input : x \in input[i])
                              \/ (\E i \in DOMAIN submit : x \in submit[i])
                              \/ (\E p \in Processors : x \in batch[p])
                              \/ (\E t \in Sinkers : x \in bulk'[t])
      BY <1>11 DEF Held
    <3>2. ASSUME NEW x \in bulk[s] PROVE ~Held(x)'
      <4>1. ~\E t \in Sinkers : x \in bulk'[t]
        BY <2>2
      <4>2. /\ x \notin raw /\ ~\E i \in DOMAIN input : x \in input[i]
            /\ ~\E i \in DOMAIN submit : x \in submit[i]
            /\ ~\E p \in Processors : x \in batch[p]
        BY <2>3
      <4> QED
        BY <1>11, <4>1, <4>2 DEF Held
    <3>3. \A x : x \notin bulk[s] => (Held(x)' <=> Held(x))
      BY <2>2, <3>1, Zenon DEF Held
    <3> QED
      BY <2>1, <3>2, <3>3, Zenon
<1>12. ASSUME NEW s \in Sinkers, PostOk(s) PROVE [Evac!Next]_(Evac!vars)
  <2>1. /\ bulk' = [bulk EXCEPT ![s] = {}] /\ delivered' = delivered \cup bulk[s]
        /\ UNCHANGED <<queue, raw, input, submit, batch, dropped, stopPc>>
    BY <1>12 DEF PostOk, Recycle
  <2>2. InPipe' = InPipe \ bulk[s] /\ bulk[s] \subseteq InPipe
    BY <1>1, <1>2, <1>11, <2>1
  <2>3. CASE bulk[s] = {}
    BY <2>1, <2>2, <2>3 DEF Evac!vars
  <2>4. CASE bulk[s] # {}
    <3>1. Evac!Confirm(bulk[s])
      BY <2>1, <2>2, <2>4 DEF Evac!Confirm
    <3> QED
      BY <2>2, <3>1 DEF Evac!Next
  <2> QED
    BY <2>3, <2>4
<1>13. ASSUME NEW s \in Sinkers, PostFail(s) PROVE [Evac!Next]_(Evac!vars)
  <2>1. UNCHANGED <<queue, raw, input, submit, batch, delivered, stopPc>>
    BY <1>13 DEF PostFail
  <2>2. CASE UNCHANGED <<bulk, dropped>>
    <3>1. \A x : Held(x)' <=> Held(x)
      BY <2>1, <2>2 DEF Held
    <3> QED
      BY <1>3, <2>1, <2>2, <3>1
  <2>3. CASE bulk' = [bulk EXCEPT ![s] = {}] /\ dropped' = dropped \cup bulk[s]
    BY <1>4, <1>11, <2>1, <2>3
  <2> QED
    BY <1>13, <2>2, <2>3 DEF PostFail, Recycle
<1>14. CASE StopReturn
  <2>1. /\ stopPc = "waiting" /\ stopPc' = "returned" /\ AllDone
        /\ UNCHANGED <<queue, raw, input, submit, batch, bulk, delivered, dropped>>
    BY <1>14 DEF StopReturn
  <2>2. /\ raw = {} /\ input = <<>> /\ submit = <<>>
        /\ (\A p \in Processors : batch[p] = {}) /\ \A s \in Sinkers : bulk[s] = {}
    BY <1>0, <2>1 DEF PipeInv, AllDone
  <2>3. \A x : ~Held(x) /\ ~Held(x)'
    BY <2>1, <2>2 DEF Held
  <2>4. InPipe = {} /\ InPipe' = {}
    BY <1>1, <1>2, <2>3
  <2>5. Evac!Stop
    BY <2>1, <2>4 DEF Evac!Stop
  <2> QED
    BY <2>5 DEF Evac!Next
<1>15. ASSUME UNCHANGED <<queue, raw, input, submit, batch, bulk, delivered, dropped>>, stopped' = stopped
       PROVE  UNCHANGED Evac!vars
  <2>1. \A x : Held(x)' <=> Held(x)
    BY <1>15 DEF Held
  <2> QED
    BY <1>3, <1>15, <2>1
<1>16. CASE \/ FillerTest \/ SelectTimer \/ SelectShutdown \/ Close \/ UNCHANGED vars
            \/ \E p \in Processors : CollectClosed(p) \/ AccumTimeout(p)
            \/ \E s \in Sinkers : ReceiveClosed(s)
  <2>1. UNCHANGED <<queue, raw, input, submit, batch, bulk, delivered, dropped, stopPc>>
    BY <1>16 DEF FillerTest, SelectTimer, SelectShutdown, CollectClosed, AccumTimeout, Close, ReceiveClosed, vars
  <2> QED
    BY <1>15, <2>1
<1>17. CASE StopClear \/ StopSignal
  <2>1. UNCHANGED <<queue, raw, input, submit, batch, bulk, delivered, dropped>>
        /\ stopPc # "returned" /\ stopPc' # "returned"
    BY <1>17 DEF StopClear, StopSignal
  <2> QED
    BY <1>15, <2>1
<1> QED
  BY <1>5, <1>6, <1>7, <1>8, <1>9, <1>10, <1>12, <1>13, <1>14, <1>16, <1>17
  DEF Next, Filler, Processor, Sinker

\* The pipeline (pipelined.go) implements Evacuation: no record is lost without
\* a log line, none is both posted and counted as lost by the same step, none is
\* fetched after a blocking Stop returned.
THEOREM PipelineEvacuates == ASSUME Processors # {}, Sinkers # {} PROVE Spec => EvacuationSpec
<1>1. Init => Evac!Init
  <2> SUFFICES ASSUME Init PROVE Evac!Init
    OBVIOUS
  <2>1. \A x : x \notin InPipe
    BY InPipeIs DEF Init
  <2> QED
    BY <2>1 DEF Init, Evac!Init
<1>2. Init => OnePlace
  BY DEF Init, OnePlace
<1>3. IInv /\ OnePlace /\ [Next]_vars => OnePlace'
  BY OnePlaceStep DEF Moves, IInv
<1>4. IInv /\ OnePlace /\ [Next]_vars => [Evac!Next]_(Evac!vars)
  BY StepEvacuates
<1> QED
  BY <1>1, <1>2, <1>3, <1>4, Inductive, PTL DEF Spec, EvacuationSpec, Evac!Spec

-----------------------------------------------------------------------------
(* RedisOwner                                                              *)

\* What sanitizeRedis has established at each of its points: the hash was found
\* right, or Redis was cleared, before data of the owner goes in, unless a command
\* failed.
OwnerInv ==
    /\ OwnerTypeOK /\ ServesOwnData
    /\ phase # "off" => owner # NoOwner
    /\ phase = "stampAndFail" => tainted
    /\ phase \in {"stamp", "run"} /\ ~tainted =>
          data \subseteq {owner} /\ stored \in {owner, NoOwner}

\* Redis starts empty, and no synchronizer runs.
LEMMA OwnerInitInv == OwnerInit => OwnerInv
BY DEF OwnerInit, OwnerInv, OwnerTypeOK, ServesOwnData

\* Every command of a start, and every crash, keeps that.
LEMMA OwnerNextInv == OwnerInv /\ [OwnerNext]_ownerVars => OwnerInv'
<1> SUFFICES ASSUME OwnerInv, [OwnerNext]_ownerVars PROVE OwnerInv'
  OBVIOUS
<1> USE OwnerAssumption DEF OwnerInv, OwnerTypeOK, ServesOwnData
<1>1. ASSUME NEW o \in Owners, StartAs(o) PROVE OwnerInv'
  BY <1>1 DEF StartAs
<1>2. CASE Compare
  BY <1>2 DEF Compare
<1>3. CASE Clear
  BY <1>3 DEF Clear
<1>4. CASE Stamp
  BY <1>4 DEF Stamp
<1>5. CASE Store
  BY <1>5 DEF Store
<1>6. CASE Leave
  BY <1>6 DEF Leave
<1>7. CASE UNCHANGED ownerVars
  BY <1>7 DEF ownerVars
<1> QED
  BY <1>1, <1>2, <1>3, <1>4, <1>5, <1>6, <1>7 DEF OwnerNext

\* A synchronizer that runs has its own data in Redis only, and the hash never names
\* one owner over another's data, unless a clear or a comparison failed.
THEOREM OwnDataServed == OwnerSpec => []ServesOwnData
<1>1. OwnerInv => ServesOwnData
  BY DEF OwnerInv
<1> QED
  BY OwnerInitInv, OwnerNextInv, <1>1, PTL DEF OwnerSpec

-----------------------------------------------------------------------------
(* UniqueKeys                                                              *)

\* Where a key stands: in the tracker since some cleaning, not reported since then;
\* known to the filter and tracked or reported since the last cleaning; unknown to it
\* and not reported since. What is being tracked is tracked by a busy processor.
UniqueInv ==
    /\ UniqueTypeOK /\ KeysReportedOnce
    /\ \A p \in KeyProcessors : toTrack[p] # {} => busy[p]
    /\ \A k \in tracker : uniques[<<k, since[k]>>] = 0 /\ since[k] <= cleanings
    /\ \A k \in filter : (k \in tracker /\ since[k] = cleanings) \/ uniques[<<k, cleanings>>] = 1
    /\ \A k \in Keys \ filter :
          uniques[<<k, cleanings>>] = 0 /\ (k \in tracker => since[k] < cleanings)
    /\ \A k \in Keys, n \in 0..MaxCleanings : n > cleanings => uniques[<<k, n>>] = 0

\* Nothing has been tracked or reported at first.
LEMMA UniqueInitInv == UniqueInit => UniqueInv
BY UniqueAssumption DEF UniqueInit, UniqueInv, UniqueTypeOK, KeysReportedOnce

\* Parsing, tracking, reporting and cleaning keep that, whichever processor does it.
LEMMA UniqueNextInv == UniqueInv /\ [UniqueNext]_uniqueVars => UniqueInv'
<1> SUFFICES ASSUME UniqueInv, [UniqueNext]_uniqueVars PROVE UniqueInv'
  OBVIOUS
<1> USE UniqueAssumption DEF UniqueInv, UniqueTypeOK, KeysReportedOnce
<1>1. ASSUME NEW p \in KeyProcessors, NEW keys \in SUBSET Keys, Parse(p, keys) PROVE UniqueInv'
  BY <1>1 DEF Parse
<1>2. ASSUME NEW p \in KeyProcessors, NEW k \in Keys, Track(p, k) PROVE UniqueInv'
  BY <1>2 DEF Track
<1>3. ASSUME NEW p \in KeyProcessors, PopAll(p) PROVE UniqueInv'
  BY <1>3 DEF PopAll
<1>4. CASE CleanFilter
  <2>1. cleanings' \in 0..MaxCleanings /\ cleanings' > cleanings /\ filter' = {}
    BY <1>4 DEF CleanFilter
  <2>2. \A k \in Keys : uniques[<<k, cleanings'>>] = 0
    BY <2>1
  <2>3. ASSUME NEW k \in tracker PROVE since[k] < (cleanings')
    <3>1. k \in Keys /\ since[k] \in Nat /\ cleanings \in Nat /\ cleanings' \in Nat
      BY <2>1
    <3>2. since[k] <= cleanings
      OBVIOUS
    <3> QED
      BY <2>1, <3>1, <3>2
  <2> QED
    BY <1>4, <2>1, <2>2, <2>3 DEF CleanFilter
<1>5. CASE UNCHANGED uniqueVars
  BY <1>5 DEF uniqueVars
<1> QED
  BY <1>1, <1>2, <1>3, <1>4, <1>5 DEF UniqueNext

\* No key is reported twice between two cleanings of the filter and none stays behind,
\* for any number of keys, processors and batches.
THEOREM KeysAreReportedOnce == UniqueSpec => []KeysReportedOnce
<1>1. UniqueInv => KeysReportedOnce
  BY DEF UniqueInv
<1> QED
  BY UniqueInitInv, UniqueNextInv, <1>1, PTL DEF UniqueSpec

-----------------------------------------------------------------------------
(* SdkTelemetry                                                            *)

\* The types of what the statistics are kept in.
CallTypes ==
    /\ counts \in [CallKinds -> SUBSET Calls]
    /\ step \in {"idle"} \cup StatSteps \cup ConfigSteps
    /\ popped \subseteq Calls /\ made \subseteq Calls
    /\ posts \in [Calls -> Nat]

\* The command that deletes the hash of a kind comes next.
Deleting(kind) == step = IF kind = "latency" THEN "deleteLatency" ELSE "deleteException"

\* A hash holds calls of its kind; when it is about to be deleted, all that it holds was
\* read or came too late. A call that was read is in its hash only until then, or for good
\* when that fails, and it was not posted yet; one that was posted is nowhere else.
CallInv ==
    /\ CallTypes /\ CallsReportedOnce
    /\ \A k \in CallKinds : \A c \in counts[k] : c.kind = k /\ c \in made
    /\ \A k \in CallKinds :
          Deleting(k) => \A c \in counts[k] : c.known => c \in popped \cup missed
    /\ popped \subseteq made
    /\ \A c \in Calls : posts[c] > 0 => c \in made
    /\ \A c \in Calls \ again :
          /\ posts[c] > 0 => c \notin popped /\ c \notin counts[c.kind]
          /\ c \in popped /\ c \in counts[c.kind] => Deleting(c.kind)

\* No call has been made at first.
LEMMA CallInitInv == TelemetryInit => CallInv
BY TelemetryAssumption
DEF TelemetryInit, CallInv, CallTypes, CallsReportedOnce, CallKinds, Deleting

\* What the fetch of configurations changes has no part in this.
LEMMA ConfigStepsKeepCalls ==
    ASSUME CallInv, UNCHANGED <<counts, popped, made, posts, missed, again>>,
           step \notin StatSteps, step' \in {"idle"} \cup StatSteps \cup ConfigSteps,
           \A k \in CallKinds : ~Deleting(k)'
    PROVE  CallInv'
BY DEF CallInv, CallTypes, CallsReportedOnce, CallKinds, Deleting, StatSteps, ConfigSteps

\* A call is counted once, in the hash of its kind.
LEMMA CallKeepsInv == ASSUME CallInv, NEW c \in Calls, Call(c) PROVE CallInv'
<1> USE TelemetryAssumption DEF CallInv, CallTypes, CallsReportedOnce, CallKinds, Deleting
<1>1. c.kind \in CallKinds /\ c \notin made /\ c \notin popped /\ posts[c] = 0
  BY DEF Call
<1> QED
  BY <1>1 DEF Call

\* Every step keeps that.
LEMMA CallNextInv == CallInv /\ [TelemetryNext]_telemetryVars => CallInv'
<1> SUFFICES ASSUME CallInv, [TelemetryNext]_telemetryVars PROVE CallInv'
  OBVIOUS
<1> USE TelemetryAssumption
<1>1. ASSUME NEW c \in Calls, Call(c) PROVE CallInv'
  BY <1>1, CallKeepsInv
<1>2. ASSUME NEW i \in Instances, Configure(i) PROVE CallInv'
  BY <1>2 DEF Configure, callHistory, CallInv, CallTypes, CallsReportedOnce, Deleting
<1>3. CASE SynchronizeStats
  <2> USE DEF CallInv, CallTypes, CallsReportedOnce, CallKinds, Deleting, StatSteps, ConfigSteps
  <2>1. CASE Tick
    BY <2>1 DEF Tick, redisVars, callHistory
  <2>2. CASE Read("latency", "readLatency", "deleteLatency", "readException")
    BY <2>2 DEF Read, Known, redisVars, callHistory
  <2>3. CASE Read("exception", "readException", "deleteException", "postStats")
    BY <2>3 DEF Read, Known, redisVars, callHistory
  <2>4. CASE Delete("latency", "deleteLatency", "readException")
    BY <2>4 DEF Delete
  <2>5. CASE Delete("exception", "deleteException", "postStats")
    BY <2>5 DEF Delete
  <2>6. ASSUME NEW i \in Instances, PostStats(i) PROVE CallInv'
    BY <2>6 DEF PostStats, redisVars
  <2>7. CASE StatsDone
    BY <2>7 DEF StatsDone, Stats, redisVars, callHistory
  <2> QED
    BY <1>3, <2>1, <2>2, <2>3, <2>4, <2>5, <2>6, <2>7 DEF SynchronizeStats
<1>4. CASE SyncrhonizeConfigs
  BY <1>4, ConfigStepsKeepCalls
  DEF SyncrhonizeConfigs, ReadHash, DeleteHash, ReadList, TrimList, PostConfig, ConfigsDone,
      UnchangedByFetch, redisVars, callHistory, StatSteps, ConfigSteps, CallKinds, Deleting
<1>5. CASE UNCHANGED telemetryVars
  BY <1>5 DEF telemetryVars, CallInv, CallTypes, CallsReportedOnce, Deleting
<1> QED
  BY <1>1, <1>2, <1>3, <1>4, <1>5 DEF TelemetryNext, TelemetryTask

\* A call is reported once: lost only if it was counted between HGETALL and DEL or if its
\* method is unknown, reported again only if a DEL failed; for any calls and instances.
THEOREM CallsAreReportedOnce == TelemetrySpec => []CallsReportedOnce
<1>1. CallInv => CallsReportedOnce
  BY DEF CallInv
<1> QED
  BY CallInitInv, CallNextInv, <1>1, PTL DEF TelemetrySpec

-----------------------------------------------------------------------------
(* SdkTelemetry: configurations                                            *)

ConfigTypes ==
    /\ initHash \subseteq Configs /\ fromHash \subseteq Configs /\ configs \subseteq Configs
    /\ configList \in Seq(Configs) /\ fromList \in Seq(Configs)
    /\ version \in [Instances -> 0..MaxVersion] /\ sent \in [Instances -> 0..MaxVersion]

\* No configuration in S is older than one of the same instance in R.
NotBefore(R, S) == \A c \in R, d \in S : c.of = d.of => c.version <= d.version

\* One configuration per instance.
OneEach(S) == \A c, d \in S : c.of = d.of => c = d

InList == {configList[k] : k \in 1..Len(configList)}

\* The list has the configurations of an instance in order.
ListOrdered == \A k, l \in 1..Len(configList) :
    k < l /\ configList[k].of = configList[l].of => configList[k].version <= configList[l].version

\* What was read from the list is still its beginning.
ReadIsFirst ==
    fromList = <<>> \/ /\ step = "trimList" /\ Len(fromList) <= Len(configList)
                       /\ \A k \in 1..Len(fromList) : fromList[k] = configList[k]

\* What was posted is no newer than what will be, that no newer than what this fetch has
\* read, and that no newer than what is left in Redis; an instance uses the hash or the
\* list.
ConfigInv ==
    /\ ConfigTypes
    /\ OneEach(initHash) /\ OneEach(fromHash) /\ OneEach(configs)
    /\ \A c \in initHash \cup fromHash : c.of \in HashInstances
    /\ \A c \in InList : c.of \notin HashInstances
    /\ NotBefore(fromHash, initHash) /\ NotBefore(configs, initHash \cup fromHash \cup InList)
    /\ ListOrdered /\ ReadIsFirst
    /\ \A c \in initHash \cup fromHash \cup configs \cup InList :
          sent[c.of] <= c.version /\ c.version <= version[c.of]
    /\ \A i \in Instances : sent[i] <= version[i]

\* No configuration was left at first.
LEMMA ConfigInitInv == TelemetryInit => ConfigInv
BY TelemetryAssumption
DEF TelemetryInit, ConfigInv, ConfigTypes, NotBefore, OneEach, InList, ListOrdered, ReadIsFirst

\* Whatever is listed somewhere is a configuration.
LEMMA ConfigsListed ==
    ASSUME ConfigInv
    PROVE  \A c \in initHash \cup fromHash \cup configs \cup InList :
              c.of \in Instances /\ c.version \in 1..MaxVersion
<1>1. \A k \in 1..Len(configList) : configList[k] \in Configs
  BY DEF ConfigInv, ConfigTypes
<1>2. InList \subseteq Configs
  BY <1>1 DEF InList
<1> QED
  BY <1>2 DEF ConfigInv, ConfigTypes, Configs

\* The list is left alone, and nothing comes from elsewhere than the hash.
LEMMA HashKeepsConfigs ==
    ASSUME ConfigInv, UNCHANGED <<configList, fromList, configs, version, sent>>,
           initHash' \in {initHash, {}}, fromHash' \in {fromHash, initHash, {}},
           step # "trimList" \/ UNCHANGED step
    PROVE  ConfigInv'
<1>1. InList' = InList /\ ListOrdered' /\ ReadIsFirst'
  BY DEF ConfigInv, InList, ListOrdered, ReadIsFirst
<1>2. initHash' \cup fromHash' \subseteq initHash \cup fromHash
  OBVIOUS
<1>3. ConfigTypes'
  BY <1>2 DEF ConfigInv, ConfigTypes
<1>4. OneEach(initHash') /\ OneEach(fromHash')
  BY DEF ConfigInv, OneEach
<1>5. NotBefore(fromHash', initHash')
  <2> SUFFICES ASSUME NEW c \in fromHash', NEW d \in initHash', c.of = d.of PROVE c.version <= d.version
    BY DEF NotBefore
  <2>1. c \in fromHash \/ c = d
    BY DEF ConfigInv, OneEach
  <2>2. d \in initHash /\ d.version \in Nat
    BY ConfigsListed, TelemetryAssumption
  <2> QED
    BY <2>1, <2>2 DEF ConfigInv, NotBefore
<1> QED
  BY <1>1, <1>2, <1>3, <1>4, <1>5 DEF ConfigInv, NotBefore

\* A new configuration is newer than all of its instance.
LEMMA ConfigureKeepsConfigs ==
    ASSUME ConfigInv, NEW i \in Instances, Configure(i)
    PROVE  ConfigInv'
<1> DEFINE new == [of |-> i, version |-> version[i] + 1]
<1> USE TelemetryAssumption
<1>1. /\ new \in Configs /\ version' = [version EXCEPT ![i] = @ + 1]
      /\ UNCHANGED <<step, fromHash, fromList, configs, sent>>
      /\ version' \in [Instances -> 0..MaxVersion] /\ version'[i] = version[i] + 1
      /\ \A j \in Instances : version[j] \in Nat /\ sent[j] \in Nat /\ version[j] <= version'[j]
  BY DEF Configure, ConfigInv, ConfigTypes, Configs
<1>2. \A c \in initHash \cup fromHash \cup configs \cup InList :
         c.of \in Instances /\ c.version \in Nat /\ (c.of = i => c.version <= version[i])
  BY ConfigsListed DEF ConfigInv
<1>3. CASE i \in HashInstances
  <2>1. initHash' = {d \in initHash : d.of # i} \cup {new} /\ configList' = configList
    BY <1>3 DEF Configure
  <2>2. InList' = InList /\ ListOrdered' /\ ReadIsFirst'
    BY <1>1, <2>1 DEF ConfigInv, InList, ListOrdered, ReadIsFirst
  <2>3. ConfigTypes' /\ OneEach(initHash') /\ \A c \in initHash' : c.of \in HashInstances
    BY <1>1, <1>3, <2>1 DEF ConfigInv, ConfigTypes, OneEach
  <2>4. NotBefore(fromHash, initHash') /\ NotBefore(configs, initHash')
    BY <1>1, <1>2, <2>1 DEF ConfigInv, ConfigTypes, NotBefore
  <2>5. \A c \in initHash' : sent[c.of] <= c.version /\ c.version <= version'[c.of]
    BY <1>1, <1>2, <2>1 DEF ConfigInv, ConfigTypes
  <2>6. \A c \in fromHash \cup configs \cup InList : sent[c.of] <= c.version /\ c.version <= version'[c.of]
    BY <1>1, <1>2 DEF ConfigInv, ConfigTypes
  <2> QED
    BY <1>1, <2>2, <2>3, <2>4, <2>5, <2>6 DEF ConfigInv, NotBefore
<1>4. CASE i \notin HashInstances
  <2>1. configList' = Append(configList, new) /\ initHash' = initHash
    BY <1>4 DEF Configure
  <2>2. /\ Len(configList) \in Nat /\ Len(configList') = Len(configList) + 1
        /\ configList'[Len(configList) + 1] = new /\ configList' \in Seq(Configs)
        /\ \A k \in 1..Len(configList) : configList'[k] = configList[k]
    BY <1>1, <2>1 DEF ConfigInv, ConfigTypes
  <2>3. InList' = InList \cup {new}
    BY <2>2 DEF InList
  <2>4. ListOrdered'
    <3> SUFFICES ASSUME NEW k \in 1..Len(configList'), NEW l \in 1..Len(configList'), k < l,
                        configList'[k].of = configList'[l].of
                 PROVE  configList'[k].version <= configList'[l].version
      BY DEF ListOrdered
    <3>1. k \in 1..Len(configList) /\ configList'[k] = configList[k] /\ configList[k] \in InList
      BY <2>2 DEF InList
    <3>2. CASE l \in 1..Len(configList)
      BY <2>2, <3>1, <3>2 DEF ConfigInv, ListOrdered
    <3>3. CASE l = Len(configList) + 1
      <4>1. configList[k].of = i /\ version[i] \in Nat /\ new.version = version[i] + 1
        BY <1>1, <2>2, <3>1, <3>3
      <4> QED
        BY <1>2, <2>2, <3>1, <3>3, <4>1
    <3> QED
      BY <2>2, <3>2, <3>3
  <2>5. ReadIsFirst'
    BY <1>1, <2>2 DEF ConfigInv, ConfigTypes, ReadIsFirst
  <2>6. ConfigTypes' /\ \A c \in InList' : c.of \notin HashInstances
    BY <1>1, <1>4, <2>1, <2>2, <2>3 DEF ConfigInv, ConfigTypes
  <2>7. NotBefore(configs, InList')
    BY <1>1, <1>2, <2>3 DEF ConfigInv, ConfigTypes, NotBefore
  <2>8. \A c \in initHash' \cup fromHash \cup configs \cup InList' :
           sent[c.of] <= c.version /\ c.version <= version'[c.of]
    BY <1>1, <1>2, <2>1, <2>3 DEF ConfigInv, ConfigTypes
  <2> QED
    BY <1>1, <2>1, <2>4, <2>5, <2>6, <2>7, <2>8 DEF ConfigInv, NotBefore
<1> QED
  BY <1>3, <1>4

\* The last of each instance wins, and nothing that is left is older.
LEMMA TrimKeepsConfigs == ASSUME ConfigInv, TrimList PROVE ConfigInv'
<1> DEFINE Last == {k \in 1..Len(fromList) :
                      \A m \in (k + 1)..Len(fromList) : fromList[m].of # fromList[k].of}
           ofList == {fromList[k] : k \in Last}
           new == ofList \cup {c \in fromHash : \A d \in ofList : d.of # c.of}
<1> USE TelemetryAssumption
<1>1. /\ initHash' = initHash /\ fromHash' = {} /\ fromList' = <<>>
      /\ version' = version /\ sent' = sent
      /\ configs' \in {configs, Deduped} /\ configList' \in {configList, Remaining}
      /\ configs' = Deduped => configList' = Remaining \/ configs' = configs
  BY DEF TrimList, UnchangedByFetch
<1>2. /\ Len(fromList) \in Nat /\ Len(configList) \in Nat /\ Len(fromList) <= Len(configList)
      /\ \A k \in 1..Len(fromList) : fromList[k] = configList[k] /\ fromList[k] \in Configs
      /\ \A k \in 1..Len(configList) : configList[k] \in Configs
  BY DEF ConfigInv, ConfigTypes, ReadIsFirst
<1>3. /\ Remaining \in Seq(Configs) /\ Len(Remaining) = Len(configList) - Len(fromList)
      /\ \A k \in 1..Len(Remaining) :
            /\ Remaining[k] = configList[k + Len(fromList)]
            /\ k + Len(fromList) \in 1..Len(configList)
  BY <1>2 DEF Remaining, ConfigInv, ConfigTypes
<1>4. InList' \subseteq InList /\ ListOrdered' /\ ReadIsFirst' /\ configList' \in Seq(Configs)
  <2>1. CASE configList' = configList
    BY <1>1, <2>1 DEF ConfigInv, ConfigTypes, InList, ListOrdered, ReadIsFirst
  <2>2. CASE configList' = Remaining
    <3>1. InList' \subseteq InList
      BY <1>3, <2>2 DEF InList
    <3>2. \A k, l \in 1..Len(Remaining) : k < l =>
             /\ k + Len(fromList) < l + Len(fromList)
             /\ k + Len(fromList) \in 1..Len(configList) /\ l + Len(fromList) \in 1..Len(configList)
      BY <1>2, <1>3
    <3>3. ListOrdered'
      <4> SUFFICES ASSUME NEW k \in 1..Len(Remaining), NEW l \in 1..Len(Remaining), k < l,
                          Remaining[k].of = Remaining[l].of
                   PROVE  Remaining[k].version <= Remaining[l].version
        BY <2>2 DEF ListOrdered
      <4>1. /\ Remaining[k] = configList[k + Len(fromList)]
            /\ Remaining[l] = configList[l + Len(fromList)]
        BY <1>3
      <4> QED
        BY <3>2, <4>1 DEF ConfigInv, ListOrdered
    <3> QED
      BY <1>1, <1>3, <2>2, <3>1, <3>3 DEF ReadIsFirst
  <2> QED
    BY <1>1, <2>1, <2>2
<1>5. /\ ofList \subseteq InList /\ ofList \subseteq Configs /\ OneEach(ofList)
      /\ \A c \in ofList : c.of \notin HashInstances
  BY <1>2 DEF ConfigInv, InList, OneEach
<1>6. NotBefore(ofList, {Remaining[k] : k \in 1..Len(Remaining)})
  <2> SUFFICES ASSUME NEW k \in Last, NEW l \in 1..Len(Remaining), fromList[k].of = Remaining[l].of
               PROVE  fromList[k].version <= Remaining[l].version
    BY DEF NotBefore
  <2>1. /\ k \in 1..Len(configList) /\ l + Len(fromList) \in 1..Len(configList)
        /\ k < l + Len(fromList)
    BY <1>2, <1>3
  <2>2. fromList[k] = configList[k] /\ Remaining[l] = configList[l + Len(fromList)]
    BY <1>2, <1>3
  <2> QED
    BY <2>1, <2>2 DEF ConfigInv, ListOrdered
<1>7. Deduped = new \cup {c \in configs : \A d \in new : d.of # c.of}
  BY DEF Deduped
<1>8. OneEach(new) /\ OneEach(Deduped) /\ Deduped \subseteq Configs
  BY <1>5, <1>7 DEF ConfigInv, ConfigTypes, OneEach
<1>9. NotBefore(Deduped, initHash)
  BY <1>5, <1>7 DEF ConfigInv, NotBefore
<1>10. NotBefore(Deduped, {Remaining[k] : k \in 1..Len(Remaining)})
  <2>1. {Remaining[k] : k \in 1..Len(Remaining)} \subseteq InList
    BY <1>3 DEF InList
  <2>2. NotBefore(configs, {Remaining[k] : k \in 1..Len(Remaining)})
    BY <2>1 DEF ConfigInv, NotBefore
  <2>3. \A c \in fromHash, d \in InList : c.of # d.of
    BY DEF ConfigInv
  <2> QED
    BY <1>6, <1>7, <2>1, <2>2, <2>3 DEF NotBefore
<1>11. NotBefore(configs', initHash' \cup InList')
  <2>1. CASE configs' = configs
    BY <1>1, <1>4, <2>1 DEF ConfigInv, NotBefore
  <2>2. CASE configList' = Remaining /\ configs' = Deduped
    BY <1>1, <1>9, <1>10, <2>2 DEF NotBefore, InList
  <2> QED
    BY <1>1, <2>1, <2>2
<1>12. \A c \in configs' : sent[c.of] <= c.version /\ c.version <= version[c.of]
  BY <1>1, <1>5, <1>7 DEF ConfigInv
<1>13. OneEach(configs') /\ configs' \subseteq Configs
  BY <1>1, <1>8 DEF ConfigInv, ConfigTypes
<1> QED
  BY <1>1, <1>4, <1>11, <1>12, <1>13 DEF ConfigInv, ConfigTypes, NotBefore, OneEach

\* Every step keeps that.
LEMMA ConfigNextInv == ConfigInv /\ [TelemetryNext]_telemetryVars => ConfigInv'
<1> SUFFICES ASSUME ConfigInv, [TelemetryNext]_telemetryVars PROVE ConfigInv'
  OBVIOUS
<1> USE TelemetryAssumption
<1>1. ASSUME NEW i \in Instances, Configure(i) PROVE ConfigInv'
  BY <1>1, ConfigureKeepsConfigs
<1>2. CASE /\ UNCHANGED <<initHash, configList, configs, fromHash, fromList, version, sent>>
           /\ step # "trimList" \/ UNCHANGED step
  BY <1>2, HashKeepsConfigs
<1>3. CASE ReadHash
  BY <1>3, HashKeepsConfigs DEF ReadHash, UnchangedByFetch, redisVars
<1>4. CASE DeleteHash
  BY <1>4, HashKeepsConfigs DEF DeleteHash, UnchangedByFetch
<1>5. CASE ReadList
  <2>1. fromList' = <<>> \/ fromList' = First(configList, Limit + 1)
    BY <1>5 DEF ReadList
  <2>2. configList \in Seq(Configs) /\ Len(configList) \in Nat /\ Limit + 1 \in Nat
    BY DEF ConfigInv, ConfigTypes
  <2>3. DEFINE s == First(configList, Limit + 1)
  <2>4. /\ s \in Seq(Configs) /\ Len(s) <= Len(configList)
        /\ \A k \in 1..Len(s) : s[k] = configList[k]
    BY <2>2 DEF First
  <2>5. UNCHANGED <<initHash, configList, fromHash, configs, version, sent>> /\ step' = "trimList"
    BY <1>5 DEF ReadList, UnchangedByFetch, redisVars
  <2>6. InList' = InList /\ ListOrdered'
    BY <2>5 DEF ConfigInv, InList, ListOrdered
  <2>7. ReadIsFirst' /\ fromList' \in Seq(Configs)
    <3>1. CASE fromList' = <<>>
      BY <3>1 DEF ReadIsFirst
    <3>2. CASE fromList' = s
      BY <2>4, <2>5, <3>2 DEF ReadIsFirst
    <3> QED
      BY <2>1, <3>1, <3>2
  <2> QED
    BY <2>5, <2>6, <2>7 DEF ConfigInv, ConfigTypes, NotBefore, OneEach
<1>6. CASE TrimList
  BY <1>6, TrimKeepsConfigs
<1>7. ASSUME NEW c \in configs, PostConfig(c) PROVE ConfigInv'
  <2>1. /\ configs' = configs \ {c} /\ sent' = [sent EXCEPT ![c.of] = c.version]
        /\ UNCHANGED <<step, initHash, configList, fromHash, fromList, version>>
    BY <1>7 DEF PostConfig, redisVars
  <2>2. c.of \in Instances /\ c.version \in 1..MaxVersion /\ c.version <= version[c.of]
    BY ConfigsListed DEF ConfigInv
  <2>3. /\ sent' \in [Instances -> 0..MaxVersion] /\ sent'[c.of] = c.version
        /\ \A i \in Instances \ {c.of} : sent'[i] = sent[i]
    BY <2>1, <2>2 DEF ConfigInv, ConfigTypes
  <2>4. \A d \in initHash \cup fromHash \cup configs' \cup InList : sent'[d.of] <= d.version
    <3> TAKE d \in initHash \cup fromHash \cup configs' \cup InList
    <3>1. d.of \in Instances
      BY <2>1, ConfigsListed
    <3>2. CASE d.of = c.of
      BY <2>1, <2>3, <3>2 DEF ConfigInv, NotBefore, OneEach
    <3> QED
      BY <2>1, <2>3, <3>1, <3>2 DEF ConfigInv
  <2>5. InList' = InList /\ ListOrdered' /\ ReadIsFirst'
    BY <2>1 DEF ConfigInv, InList, ListOrdered, ReadIsFirst
  <2>6. \A i \in Instances : sent'[i] <= version[i]
    BY <2>2, <2>3 DEF ConfigInv
  <2> QED
    BY <2>1, <2>3, <2>4, <2>5, <2>6 DEF ConfigInv, ConfigTypes, NotBefore, OneEach
<1>8. CASE SynchronizeStats
  BY <1>2, <1>8
  DEF SynchronizeStats, Tick, Read, Delete, PostStats, StatsDone, redisVars, configVars
<1>9. ASSUME NEW c \in Calls, Call(c) PROVE ConfigInv'
  BY <1>2, <1>9 DEF Call, configVars
<1>10. CASE ConfigsDone
  BY <1>2, <1>10 DEF ConfigsDone, redisVars, configVars
<1>11. CASE UNCHANGED telemetryVars
  BY <1>2, <1>11 DEF telemetryVars
<1> QED
  BY <1>1, <1>3, <1>4, <1>5, <1>6, <1>7, <1>8, <1>9, <1>10, <1>11
  DEF TelemetryNext, TelemetryTask, SyncrhonizeConfigs

\* Configurations of an instance are posted in the order they were left in, whatever
\* commands fail (telemetry.go dedupeAndAdd); for any instances, versions and limit.
THEOREM ConfigsAreInOrder == TelemetrySpec => ConfigsNeverGoBack
<1>1. ConfigInv /\ [TelemetryNext]_telemetryVars
        => [\A i \in Instances : sent'[i] >= sent[i]]_telemetryVars
  <2> SUFFICES ASSUME ConfigInv, TelemetryNext, NEW i \in Instances PROVE sent'[i] >= sent[i]
    OBVIOUS
  <2>1. sent[i] \in Nat
    BY DEF ConfigInv, ConfigTypes
  <2>2. CASE UNCHANGED sent
    BY <2>1, <2>2
  <2>3. ASSUME NEW c \in configs, PostConfig(c) PROVE sent'[i] >= sent[i]
    BY <2>1, <2>3 DEF PostConfig, ConfigInv, ConfigTypes, Configs
  <2> QED
    BY <2>2, <2>3
    DEF TelemetryNext, TelemetryTask, SynchronizeStats, SyncrhonizeConfigs, Call, Configure,
        Tick, Read, Delete, PostStats, StatsDone, ReadHash, DeleteHash, ReadList, TrimList,
        ConfigsDone, UnchangedByFetch, configVars
<1> QED
  BY ConfigInitInv, ConfigNextInv, <1>1, PTL DEF TelemetrySpec, ConfigsNeverGoBack

\* The newest configuration of an instance, and where a configuration may be waiting.
Newest(i) == [of |-> i, version |-> version[i]]
Waiting == initHash \cup fromHash \cup configs \cup InList

\* While no command fails, what is in the hash is also in what was read from it, until the
\* hash is deleted, unless it came in between; nothing read is left from a fetch before.
NewestInv ==
    /\ ConfigInv
    /\ \A i \in Instances \ mishap :
          version[i] = 0 \/ sent[i] = version[i] \/ Newest(i) \in Waiting
    /\ failing \in BOOLEAN /\ (failing => mishap = Instances)
    /\ fromHash # {} => step \in {"deleteHash", "readList", "trimList"}
    /\ step = "deleteHash" => \A c \in initHash : c.of \in mishap \/ c \in fromHash

\* No configuration was left at first.
LEMMA NewestInitInv == TelemetryInit => NewestInv
BY ConfigInitInv DEF TelemetryInit, NewestInv

\* A configuration that waits and is as new as the newest is the newest.
LEMMA OnlyOneIsNewest ==
    ASSUME ConfigInv, NEW i \in Instances, NEW c \in Waiting, c.of = i, version[i] <= c.version
    PROVE  c = Newest(i)
<1>1. c \in Configs
  <2>1. InList \subseteq Configs
    <3>1. \A k \in 1..Len(configList) : configList[k] \in Configs
      BY DEF ConfigInv, ConfigTypes
    <3> QED
      BY <3>1 DEF InList
  <2> QED
    BY <2>1 DEF Waiting, ConfigInv, ConfigTypes
<1>2. c.version <= version[i] /\ version[i] \in Nat /\ c.version \in Nat
  <2>1. version[i] \in 0..MaxVersion /\ c.version \in 1..MaxVersion
    BY <1>1 DEF ConfigInv, ConfigTypes, Configs
  <2> QED
    BY <2>1, TelemetryAssumption DEF Waiting, ConfigInv
<1>3. c.version = version[i]
  BY <1>2
<1> QED
  BY <1>1, <1>3 DEF Newest, Configs

\* A nonempty set of places in a sequence has a last one.
LEMMA LastPlace ==
    ASSUME NEW n \in Nat, NEW S \in SUBSET (1..n), S # {}
    PROVE  \E k \in S : \A j \in S : j <= k
<1> DEFINE R == {u \in Nat \X Nat : u[1] < u[2]}
           T == {n - k : k \in S}
<1>1. IsWellFoundedOn(R, Nat)
  <2>1. R = OpToRel(<, Nat)
    BY DEF OpToRel
  <2> QED
    BY <2>1, NatLessThanWellFounded
<1>2. \A k \in S : k \in 1..n /\ n - k \in Nat
  OBVIOUS
<1>3. T \subseteq Nat /\ T # {}
  BY <1>2
<1>4. PICK t \in T : \A u \in T : ~(<<u, t>> \in R)
  <2> HIDE DEF R, T
  <2> QED
    BY <1>1, <1>3, WFMin
<1>5. PICK k \in S : t = n - k
  OBVIOUS
<1>6. ASSUME NEW j \in S PROVE j <= k
  <2>1. ~(<<n - j, t>> \in R) /\ n - j \in Nat /\ t \in Nat
    BY <1>2, <1>3, <1>4
  <2>2. ~(n - j < t)
    BY <2>1
  <2> QED
    BY <1>2, <1>5, <2>2
<1> QED
  BY <1>6

\* Of what a fetch has read and what is left, the newest is in what dedupeAndAdd gives or
\* in what is left.
LEMMA DedupedKeepsNewest ==
    ASSUME ConfigInv, step = "trimList", NEW i \in Instances, Newest(i) \in Waiting
    PROVE  Newest(i) \in initHash \cup Deduped \cup {Remaining[k] : k \in 1..Len(Remaining)}
<1> DEFINE Last == {k \in 1..Len(fromList) :
                      \A m \in (k + 1)..Len(fromList) : fromList[m].of # fromList[k].of}
           ofList == {fromList[k] : k \in Last}
           new == ofList \cup {c \in fromHash : \A d \in ofList : d.of # c.of}
<1>1. Deduped = new \cup {c \in configs : \A d \in new : d.of # c.of}
  BY DEF Deduped
<1>2. /\ Len(fromList) \in Nat /\ Len(configList) \in Nat /\ Len(fromList) <= Len(configList)
      /\ \A k \in 1..Len(fromList) : fromList[k] = configList[k] /\ fromList[k] \in InList
  BY DEF ConfigInv, ConfigTypes, ReadIsFirst, InList
<1>3. ofList \subseteq InList /\ new \subseteq Waiting
  BY <1>2 DEF Waiting
<1>4. Newest(i).of = i /\ Newest(i).version = version[i]
  BY DEF Newest
<1>5. CASE Newest(i) \in fromHash
  BY <1>1, <1>3, <1>4, <1>5 DEF ConfigInv
<1>6. CASE Newest(i) \in InList
  <2>1. PICK k \in 1..Len(configList) : configList[k] = Newest(i)
    BY <1>6 DEF InList
  <2>2. CASE k > Len(fromList)
    <3>1. /\ Len(Remaining) = Len(configList) - Len(fromList)
          /\ k - Len(fromList) \in 1..Len(Remaining)
          /\ Remaining[k - Len(fromList)] = configList[k]
      BY <1>2, <2>2 DEF Remaining, ConfigInv, ConfigTypes
    <3> QED
      BY <2>1, <3>1
  <2>3. CASE k <= Len(fromList)
    <3> DEFINE S == {m \in 1..Len(fromList) : fromList[m].of = i}
    <3>1. k \in S
      BY <1>2, <1>4, <2>1, <2>3
    <3>2. PICK m \in S : \A j \in S : j <= m
      <4>1. S \in SUBSET (1..Len(fromList)) /\ S # {}
        BY <3>1
      <4> HIDE DEF S
      <4> QED
        BY <1>2, <4>1, LastPlace
    <3>3. m \in Last
      BY <1>2, <3>2
    <3>4. version[i] <= fromList[m].version
      <4>1. CASE m = k
        BY <1>2, <1>4, <2>1, <4>1, <3>1 DEF ConfigInv, ConfigTypes
      <4>2. CASE m # k
        <5>1. k < m /\ m \in 1..Len(configList) /\ fromList[m] = configList[m]
          BY <1>2, <3>1, <3>2, <4>2
        <5> QED
          BY <1>4, <2>1, <3>2, <5>1 DEF ConfigInv, ListOrdered
      <4> QED
        BY <4>1, <4>2
    <3>5. fromList[m] = Newest(i)
      BY <1>2, <3>2, <3>4, OnlyOneIsNewest DEF Waiting
    <3> QED
      BY <1>1, <3>3, <3>5
  <2> QED
    BY <1>2, <2>2, <2>3
<1>7. CASE Newest(i) \in configs
  <2>1. ASSUME NEW d \in new, d.of = i PROVE d = Newest(i)
    <3>1. version[i] <= d.version
      BY <1>3, <1>4, <1>7, <2>1 DEF ConfigInv, NotBefore
    <3> QED
      BY <1>3, <2>1, <3>1, OnlyOneIsNewest
  <2> QED
    BY <1>1, <1>4, <1>7, <2>1
<1> QED
  BY <1>5, <1>6, <1>7 DEF Waiting

\* Where nothing goes from where configurations wait, the newest one does not either.
LEMMA NothingLostKeepsNewest ==
    ASSUME NewestInv, ConfigInv', UNCHANGED <<version, sent, mishap>>, Waiting \subseteq Waiting'
    PROVE  \A i \in Instances \ mishap' :
              version'[i] = 0 \/ sent'[i] = version'[i] \/ Newest(i)' \in Waiting'
<1> TAKE i \in Instances \ mishap'
<1>1. Newest(i)' = Newest(i)
  BY DEF Newest
<1> QED
  BY <1>1 DEF NewestInv

\* Every step keeps that.
LEMMA NewestNextInv == NewestInv /\ [TelemetryNext]_telemetryVars => NewestInv'
<1> SUFFICES ASSUME NewestInv, [TelemetryNext]_telemetryVars PROVE NewestInv'
  OBVIOUS
<1>c. ConfigInv /\ ConfigInv'
  BY ConfigNextInv DEF NewestInv
<1>m. ASSUME mishap' = Instances PROVE \A i \in Instances \ mishap' :
              version'[i] = 0 \/ sent'[i] = version'[i] \/ Newest(i)' \in Waiting'
  BY <1>m
<1>1. ASSUME NEW i \in Instances, Configure(i) PROVE NewestInv'
  <2>1. /\ version' = [version EXCEPT ![i] = @ + 1]
        /\ UNCHANGED <<step, fromHash, fromList, failing, configs, sent>>
    BY <1>1 DEF Configure
  <2>2. \A j \in Instances \ {i} : version'[j] = version[j] /\ Newest(j)' = Newest(j)
    BY <1>c, <2>1 DEF ConfigInv, ConfigTypes, Newest
  <2>3. Newest(i)' = [of |-> i, version |-> version[i] + 1]
    BY <1>c, <2>1 DEF ConfigInv, ConfigTypes, Newest
  <2>4. mishap \subseteq mishap' \/ mishap' = mishap
    BY <1>1 DEF Configure
  <2>5. Newest(i)' \in Waiting' /\ \A c \in Waiting : c.of = i \/ c \in Waiting'
    <3>1. CASE i \in HashInstances
      BY <1>1, <2>1, <2>3, <3>1 DEF Configure, Waiting, InList
    <3>2. CASE i \notin HashInstances
      <4>1. configList' = Append(configList, Newest(i)') /\ initHash' = initHash
        BY <1>1, <2>3, <3>2 DEF Configure
      <4>2. /\ Len(configList) \in Nat /\ Len(configList') = Len(configList) + 1
            /\ configList'[Len(configList) + 1] = Newest(i)'
            /\ \A k \in 1..Len(configList) : configList'[k] = configList[k]
        BY <1>c, <4>1 DEF ConfigInv, ConfigTypes
      <4>3. InList' = InList \cup {Newest(i)'}
        BY <4>2 DEF InList
      <4> QED
        BY <2>1, <4>1, <4>3 DEF Waiting
    <3> QED
      BY <3>1, <3>2
  <2>6. ASSUME NEW j \in Instances \ mishap'
        PROVE  version'[j] = 0 \/ sent'[j] = version'[j] \/ Newest(j)' \in Waiting'
    <3>1. CASE j = i
      BY <2>5, <3>1
    <3>2. CASE j # i
      <4>1. Newest(j).of = j
        BY DEF Newest
      <4> QED
        BY <2>1, <2>2, <2>4, <2>5, <2>6, <3>2, <4>1 DEF NewestInv
    <3> QED
      BY <3>1, <3>2
  <2>7. failing => mishap' = Instances
    BY <1>1, <2>4 DEF NewestInv, Configure
  <2>8. step = "deleteHash" => \A c \in initHash' : c.of \in mishap' \/ c \in fromHash
    <3> SUFFICES ASSUME step = "deleteHash", NEW c \in initHash'
                 PROVE  c.of \in mishap' \/ c \in fromHash
      OBVIOUS
    <3>1. CASE c \in initHash
      BY <2>4, <3>1 DEF NewestInv
    <3>2. CASE c \notin initHash
      BY <1>1, <3>2 DEF Configure
    <3> QED
      BY <3>1, <3>2
  <2> QED
    BY <1>c, <2>1, <2>6, <2>7, <2>8 DEF NewestInv
<1>2. CASE /\ UNCHANGED configVars /\ UNCHANGED <<initHash, configList>>
           /\ step' = step \/ step' \notin {"deleteHash", "readList", "trimList"}
           /\ step' = step \/ step \notin {"deleteHash", "readList", "trimList"}
  <2>1. Waiting' = Waiting
    BY <1>2 DEF Waiting, InList, configVars
  <2> QED
    BY <1>2, <1>c, <2>1, NothingLostKeepsNewest DEF NewestInv, configVars
<1>3. CASE ReadHash
  <2>1. /\ step = "readHash" /\ step' = "deleteHash" /\ fromHash = {}
        /\ UNCHANGED <<initHash, configList, configs, version, sent>>
    BY <1>3 DEF ReadHash, UnchangedByFetch, redisVars, NewestInv
  <2>2. CASE Fails(FALSE) /\ fromHash' = initHash
    <3>1. mishap' = mishap /\ failing' = failing /\ Waiting \subseteq Waiting'
      BY <2>1, <2>2 DEF Fails, Waiting, InList, NewestInv
    <3> QED
      BY <1>c, <2>1, <2>2, <3>1, NothingLostKeepsNewest DEF NewestInv
  <2>3. CASE Fails(TRUE) /\ fromHash' = {}
    BY <1>c, <1>m, <2>1, <2>3, ConfigsListed DEF Fails, NewestInv
  <2> QED
    BY <1>3, <2>2, <2>3 DEF ReadHash
<1>4. CASE DeleteHash
  <2>1. /\ step = "deleteHash" /\ step' = "readList" /\ UNCHANGED <<configList, fromHash, configs, version, sent>>
    BY <1>4 DEF DeleteHash, UnchangedByFetch
  <2>2. CASE Fails(FALSE) /\ initHash' = {}
    <3>1. mishap' = mishap /\ failing' = failing /\ InList' = InList
      BY <2>1, <2>2 DEF Fails, InList, NewestInv
    <3>2. ASSUME NEW i \in Instances \ mishap', Newest(i) \in Waiting PROVE Newest(i)' \in Waiting'
      <4>1. Newest(i)' = Newest(i) /\ Newest(i).of = i
        BY <2>1 DEF Newest
      <4> QED
        BY <2>1, <2>2, <3>1, <3>2, <4>1 DEF Waiting, NewestInv
    <3> QED
      BY <1>c, <2>1, <3>1, <3>2 DEF NewestInv
  <2>3. CASE Fails(TRUE)
    BY <1>c, <1>m, <2>1, <2>3 DEF Fails, NewestInv
  <2> QED
    BY <1>4, <2>2, <2>3 DEF DeleteHash
<1>5. CASE ReadList
  <2>1. /\ step = "readList" /\ step' = "trimList"
        /\ UNCHANGED <<initHash, configList, fromHash, configs, version, sent>>
    BY <1>5 DEF ReadList, UnchangedByFetch, redisVars
  <2>2. Waiting' = Waiting
    BY <2>1 DEF Waiting, InList
  <2>3. CASE Fails(FALSE)
    BY <1>c, <2>1, <2>2, <2>3, NothingLostKeepsNewest DEF Fails, NewestInv
  <2>4. CASE Fails(TRUE)
    BY <1>c, <1>m, <2>1, <2>4 DEF Fails, NewestInv
  <2> QED
    BY <1>5, <2>3, <2>4 DEF ReadList
<1>6. CASE TrimList
  <2>1. /\ step = "trimList" /\ step' \in {"postConfigs", "readHash"}
        /\ failing' = FALSE /\ fromHash' = {}
        /\ UNCHANGED <<initHash, version, sent>>
    BY <1>6 DEF TrimList, UnchangedByFetch
  <2>2. PICK fails \in BOOLEAN :
          /\ mishap' = IF fails THEN Instances ELSE mishap
          /\ IF fails THEN configList' \in {configList, Remaining} ELSE configList' = Remaining
          /\ configs' = IF failing \/ fails THEN configs ELSE Deduped
    BY <1>6 DEF TrimList
  <2>3. CASE failing \/ fails
    <3>1. mishap' = Instances
      BY <2>2, <2>3 DEF NewestInv
    <3> QED
      BY <1>c, <1>m, <2>1, <3>1 DEF NewestInv
  <2>4. CASE ~failing /\ ~fails
    <3>1. mishap' = mishap /\ configs' = Deduped /\ configList' = Remaining
      BY <2>2, <2>4
    <3>2. Waiting' = initHash \cup Deduped \cup {Remaining[k] : k \in 1..Len(Remaining)}
      BY <2>1, <3>1 DEF Waiting, InList
    <3>3. ASSUME NEW i \in Instances, Newest(i) \in Waiting PROVE Newest(i)' \in Waiting'
      <4>1. Newest(i)' = Newest(i)
        BY <2>1 DEF Newest
      <4> QED
        BY <1>c, <2>1, <3>2, <3>3, <4>1, DedupedKeepsNewest
    <3> QED
      BY <1>c, <2>1, <3>1, <3>3 DEF NewestInv
  <2> QED
    BY <2>3, <2>4
<1>7. ASSUME NEW c \in configs, PostConfig(c) PROVE NewestInv'
  <2>1. /\ configs' = configs \ {c} /\ sent' = [sent EXCEPT ![c.of] = c.version]
        /\ UNCHANGED <<step, initHash, configList, fromHash, fromList, failing, version, mishap>>
    BY <1>7 DEF PostConfig, redisVars
  <2>2. c.of \in Instances /\ sent'[c.of] = c.version
        /\ \A j \in Instances \ {c.of} : sent'[j] = sent[j]
    BY <1>c, <2>1, ConfigsListed DEF ConfigInv, ConfigTypes
  <2>3. ASSUME NEW i \in Instances \ mishap'
        PROVE  version'[i] = 0 \/ sent'[i] = version'[i] \/ Newest(i)' \in Waiting'
    <3>1. Newest(i)' = Newest(i) /\ Newest(i).of = i /\ Newest(i).version = version[i]
      BY <2>1 DEF Newest
    <3>2. CASE Newest(i) \in Waiting
      <4>1. CASE Newest(i) = c
        BY <2>1, <2>2, <3>1, <4>1
      <4>2. CASE Newest(i) # c
        BY <2>1, <3>1, <3>2, <4>2 DEF Waiting, InList
      <4> QED
        BY <4>1, <4>2
    <3>3. CASE sent[i] = version[i]
      <4>1. CASE c.of = i
        <5>1. sent[i] <= c.version /\ c.version <= version[i]
          BY <1>c, <4>1 DEF ConfigInv
        <5>2. version[i] \in Nat /\ c.version \in Nat
          BY <1>c, ConfigsListed, TelemetryAssumption DEF ConfigInv, ConfigTypes
        <5> QED
          BY <2>1, <2>2, <3>3, <4>1, <5>1, <5>2
      <4>2. CASE c.of # i
        BY <2>1, <2>2, <3>3, <4>2
      <4> QED
        BY <4>1, <4>2
    <3> QED
      BY <2>1, <2>3, <3>2, <3>3 DEF NewestInv
  <2> QED
    BY <1>c, <2>1, <2>3 DEF NewestInv
<1>8. CASE SynchronizeStats
  BY <1>2, <1>8 DEF SynchronizeStats, Tick, Read, Delete, PostStats, StatsDone, redisVars
<1>9. ASSUME NEW c \in Calls, Call(c) PROVE NewestInv'
  BY <1>2, <1>9 DEF Call
<1>10. CASE ConfigsDone
  BY <1>2, <1>10 DEF ConfigsDone, redisVars
<1>11. CASE UNCHANGED telemetryVars
  BY <1>2, <1>11 DEF telemetryVars, configVars
<1> QED
  BY <1>1, <1>3, <1>4, <1>5, <1>6, <1>7, <1>8, <1>9, <1>10, <1>11
  DEF TelemetryNext, TelemetryTask, SyncrhonizeConfigs

\* The newest configuration of an instance is on its way, or posted, unless it came while
\* the hash was being read, or a command failed (storage/telemetry.go PopConfigs).
THEOREM NewestGetsThrough == TelemetrySpec => []NewestConfigOnItsWay
<1>1. NewestInv => NewestConfigOnItsWay
  <2> SUFFICES ASSUME NewestInv, NEW i \in Instances \ mishap, Newest(i) \in InList
               PROVE  \E k \in 1..Len(configList) : configList[k] = Newest(i)
    BY DEF NewestInv, NewestConfigOnItsWay, Newest, Waiting
  <2> QED
    BY DEF InList
<1> QED
  BY NewestInitInv, NewestNextInv, <1>1, PTL DEF TelemetrySpec

-----------------------------------------------------------------------------
(* ImpressionBatches                                                       *)

Group == [metadata : Metadatas, count : Nat, buffer : Buffers, imps : UNION {[F -> SUBSET Impressions] : F \in SUBSET Features}]

\* Its items are of one instance, under their features, and are counted.
SoundGroup(g) ==
    /\ g \in Group
    /\ \A f \in DOMAIN g.imps : \A x \in g.imps[f] : item[x] = [metadata |-> g.metadata, feature |-> f]
    /\ IsFiniteSet(ItemsOf(g)) /\ g.count = Cardinality(ItemsOf(g)) /\ g.count \in 1..(BulkSize + 1)

\* A bulk is begun when the last one of its instance is as large as it can be.
FullBefore(s) ==
    \A k, l \in 1..Len(s) : k < l /\ s[k].metadata = s[l].metadata => s[k].count = BulkSize + 1
\* The index has the last bulk of each instance.
Indexed(s, ix) ==
    /\ \A m \in DOMAIN ix : s[ix[m]].metadata = m
    /\ \A n \in 1..Len(s) : s[n].metadata \in DOMAIN ix /\ n <= ix[s[n].metadata]

Separate(g, h) == g.buffer # h.buffer /\ ItemsOf(g) \cap ItemsOf(h) = {}

\* Wherever two bulks are.
Apart ==
    /\ \A p, q \in BatchProcessors : \A k \in 1..Len(groups[p]), l \in 1..Len(groups[q]) :
          p # q \/ k # l => Separate(groups[p][k], groups[q][l])
    /\ \A p \in BatchProcessors : \A k \in 1..Len(groups[p]) : \A h \in sink : Separate(groups[p][k], h)
    /\ \A g, h \in sink : g # h => Separate(g, h)

BatchTyped ==
    /\ item \in [Impressions -> [metadata : Metadatas, feature : Features]]
    /\ todo \subseteq Impressions /\ lost \subseteq Impressions /\ posted \subseteq Impressions /\ told \subseteq Impressions
    /\ mode \in [BatchProcessors -> {"idle", "add", "send"}]
    /\ groups \in [BatchProcessors -> Seq(Group)] /\ sink \subseteq Group
    /\ \A p \in BatchProcessors : \A m \in DOMAIN index[p] : m \in Metadatas /\ index[p][m] \in 1..Len(groups[p])
    /\ DOMAIN index = BatchProcessors
    /\ free \subseteq used /\ used \subseteq Buffers

BatchInv ==
    /\ BatchTyped /\ Apart
    /\ \A g \in Live : SoundGroup(g) /\ g.buffer \in used \ free /\ ItemsOf(g) \cap (todo \cup lost \cup posted) = {}
    /\ \A p \in BatchProcessors :
          /\ FullBefore(groups[p])
          /\ mode[p] = "add" => Indexed(groups[p], index[p])
          /\ mode[p] = "idle" => groups[p] = <<>>
    /\ Impressions = todo \cup lost \cup posted \cup UNION {ItemsOf(g) : g \in Live}
    /\ posted \subseteq told /\ todo \cap (lost \cup posted) = {}
    /\ \A g \in sink : ItemsOf(g) \subseteq told
    /\ \A p \in BatchProcessors : mode[p] = "send" => \A g \in GroupsOf(p) : ItemsOf(g) \subseteq told

LEMMA ItemIn ==
    ASSUME NEW g, NEW x
    PROVE  x \in ItemsOf(g) <=> \E f \in DOMAIN g.imps : x \in g.imps[f]
BY DEF ItemsOf

LEMMA LiveIs ==
    ASSUME NEW g
    PROVE  g \in Live <=> g \in sink \/ \E p \in BatchProcessors : \E k \in 1..Len(groups[p]) : g = groups[p][k]
BY DEF Live, GroupsOf

\* A bulk that grows.
LEMMA GrownIs ==
    ASSUME NEW g \in Group, NEW x \in Impressions, item[x] \in [metadata : Metadatas, feature : Features]
    PROVE  /\ Grown(g, x) \in Group /\ Grown(g, x).metadata = g.metadata /\ Grown(g, x).buffer = g.buffer
           /\ Grown(g, x).count = g.count + 1
           /\ ItemsOf(Grown(g, x)) = ItemsOf(g) \cup {x}
           /\ \A f \in DOMAIN Grown(g, x).imps : \A y \in Grown(g, x).imps[f] :
                 (f \in DOMAIN g.imps /\ y \in g.imps[f]) \/ (y = x /\ f = item[x].feature)
<1> DEFINE f == item[x].feature
           D == DOMAIN g.imps \cup {f}
           imps == [h \in D |-> (IF h \in DOMAIN g.imps THEN g.imps[h] ELSE {}) \cup (IF h = f THEN {x} ELSE {})]
           G == Grown(g, x)
<1>1. PICK F \in SUBSET Features : g.imps \in [F -> SUBSET Impressions]
  BY DEF Group
<1>2. g = [metadata |-> g.metadata, count |-> g.count, buffer |-> g.buffer, imps |-> g.imps] /\ g.count \in Nat
      /\ g.metadata \in Metadatas /\ g.buffer \in Buffers /\ f \in Features
  BY DEF Group
<1>3. G = [metadata |-> g.metadata, count |-> g.count + 1, buffer |-> g.buffer, imps |-> imps]
  <2>1. G = [g EXCEPT !.count = g.count + 1, !.imps = imps]
    BY <1>2 DEF Grown
  <2> HIDE DEF G, imps
  <2> QED
    BY <1>2, <2>1
<1>4. /\ DOMAIN imps = D
      /\ \A h \in D : imps[h] = (IF h \in DOMAIN g.imps THEN g.imps[h] ELSE {}) \cup (IF h = f THEN {x} ELSE {})
  OBVIOUS
<1>5. imps \in UNION {[E -> SUBSET Impressions] : E \in SUBSET Features}
  <2>1. D \in SUBSET Features
    BY <1>1, <1>2
  <2>2. \A h \in D : imps[h] \in SUBSET Impressions
    BY <1>1
  <2>3. imps \in [D -> SUBSET Impressions]
    BY <2>2
  <2> HIDE DEF D, imps
  <2> QED
    BY <2>1, <2>3
<1> HIDE DEF imps, G
<1>6. G \in Group /\ G.metadata = g.metadata /\ G.buffer = g.buffer /\ G.count = g.count + 1 /\ G.imps = imps
  BY <1>2, <1>3, <1>5 DEF Group
<1>7. \A y : y \in ItemsOf(G) <=> y \in ItemsOf(g) \/ y = x
  <2> SUFFICES ASSUME NEW y PROVE y \in ItemsOf(G) <=> y \in ItemsOf(g) \/ y = x
    OBVIOUS
  <2>1. y \in ItemsOf(G) <=> \E h \in D : y \in imps[h]
    BY <1>4, <1>6, ItemIn
  <2>2. y \in ItemsOf(g) <=> \E h \in DOMAIN g.imps : y \in g.imps[h]
    BY ItemIn
  <2> QED
    BY <1>4, <2>1, <2>2
<1>8. ItemsOf(G) = ItemsOf(g) \cup {x}
  BY <1>7
<1> QED
  BY <1>4, <1>6, <1>8 DEF G

LEMMA GrownIsSound ==
    ASSUME BatchAssumption, NEW g \in Group, NEW x \in Impressions, item[x] \in [metadata : Metadatas, feature : Features],
           item[x].metadata = g.metadata, x \notin ItemsOf(g), g.count = Cardinality(ItemsOf(g)), IsFiniteSet(ItemsOf(g)),
           g.count <= BulkSize,
           \A f \in DOMAIN g.imps : \A y \in g.imps[f] : item[y] = [metadata |-> g.metadata, feature |-> f]
    PROVE  SoundGroup(Grown(g, x))
<1> DEFINE G == Grown(g, x)
<1>1. /\ G \in Group /\ G.metadata = g.metadata /\ G.count = g.count + 1 /\ ItemsOf(G) = ItemsOf(g) \cup {x}
      /\ \A f \in DOMAIN G.imps : \A y \in G.imps[f] :
            (f \in DOMAIN g.imps /\ y \in g.imps[f]) \/ (y = x /\ f = item[x].feature)
  BY GrownIs
<1>2. IsFiniteSet(ItemsOf(G)) /\ Cardinality(ItemsOf(G)) = g.count + 1 /\ g.count \in Nat
  BY <1>1, FS_AddElement, FS_CardinalityType
<1>3. item[x] = [metadata |-> g.metadata, feature |-> item[x].feature]
  OBVIOUS
<1> HIDE DEF G
<1>4. G.count \in 1..(BulkSize + 1)
  BY <1>1, <1>2 DEF BatchAssumption
<1>5. \A f \in DOMAIN G.imps : \A y \in G.imps[f] : item[y] = [metadata |-> G.metadata, feature |-> f]
  BY <1>1, <1>3
<1>6. SoundGroup(G)
  BY <1>1, <1>2, <1>4, <1>5 DEF SoundGroup
<1> QED
  BY <1>6 DEF G

LEMMA BatchStarts == BatchInit => BatchInv
<1> SUFFICES ASSUME BatchInit PROVE BatchInv
  OBVIOUS
<1> USE DEF BatchInit
<1>1. Live = {} /\ \A p \in BatchProcessors : groups[p] = <<>> /\ 1..Len(groups[p]) = {}
  BY LiveIs
<1>2. BatchTyped
  BY DEF BatchTyped
<1>3. Apart
  BY <1>1 DEF Apart
<1> QED
  BY <1>1, <1>2, <1>3 DEF BatchInv, FullBefore, Indexed, GroupsOf

\* What is true of each bulk wherever it is.
LEMMA LiveAre ==
    ASSUME BatchInv
    PROVE  /\ \A p \in BatchProcessors : groups[p] \in Seq(Group) /\ Len(groups[p]) \in Nat
           /\ \A p \in BatchProcessors : \A k \in 1..Len(groups[p]) :
                 groups[p][k] \in Live /\ groups[p][k] \in Group /\ groups[p][k] \in GroupsOf(p)
           /\ \A g \in sink : g \in Live /\ g \in Group
<1>1. \A p \in BatchProcessors : groups[p] \in Seq(Group)
  BY DEF BatchInv, BatchTyped
<1>2. \A p \in BatchProcessors : Len(groups[p]) \in Nat /\ \A k \in 1..Len(groups[p]) : groups[p][k] \in Group
  BY <1>1
<1> QED
  BY <1>1, <1>2, LiveIs DEF BatchInv, BatchTyped, GroupsOf

\* A step of one processor that leaves the bulks alone.
LEMMA TellKeeps ==
    ASSUME BatchInv, NEW p \in BatchProcessors, Tell(p) \/ EndProcess(p) \/ (\E x \in Impressions : Ignore(p, x))
    PROVE  BatchInv'
<1>1. UNCHANGED <<item, groups, index, free, used, sink, posted>> /\ Live' = Live
      /\ \A q \in BatchProcessors : GroupsOf(q)' = GroupsOf(q)
  BY DEF Tell, EndProcess, Ignore, Live, GroupsOf
<1>2. Apart'
  BY <1>1 DEF Apart, BatchInv
<1>3. CASE Tell(p)
  <2> DEFINE heard == UNION {ItemsOf(g) : g \in GroupsOf(p)}
  <2>1. /\ mode[p] = "add" /\ mode' = [mode EXCEPT ![p] = "send"] /\ told' = told \cup heard /\ UNCHANGED <<todo, lost>>
    BY <1>3 DEF Tell
  <2>2. heard \subseteq Impressions
    BY LiveIs DEF BatchInv, GroupsOf
  <2> HIDE DEF heard
  <2>3. BatchTyped'
    BY <1>1, <2>1, <2>2 DEF BatchInv, BatchTyped
  <2>4. \A q \in BatchProcessors : mode'[q] = "send" => \A g \in GroupsOf(q) : ItemsOf(g) \subseteq told'
    <3>1. \A g \in GroupsOf(p) : ItemsOf(g) \subseteq told'
      BY <2>1 DEF heard
    <3> QED
      BY <2>1, <3>1 DEF BatchInv, BatchTyped
  <2>5. \A q \in BatchProcessors : (mode'[q] = "add" => mode[q] = "add") /\ (mode'[q] = "idle" => mode[q] = "idle")
    BY <2>1 DEF BatchInv, BatchTyped
  <2>6. posted' \subseteq told' /\ \A g \in sink' : ItemsOf(g) \subseteq told'
    BY <1>1, <2>1 DEF BatchInv
  <2>7. \A g : SoundGroup(g)' <=> SoundGroup(g)
    BY <1>1 DEF SoundGroup
  <2> QED
    BY <1>1, <1>2, <2>1, <2>3, <2>4, <2>5, <2>6, <2>7 DEF BatchInv
<1>4. CASE EndProcess(p)
  <2>1. /\ mode[p] = "send" /\ groups[p] = <<>> /\ mode' = [mode EXCEPT ![p] = "idle"] /\ UNCHANGED <<told, todo, lost>>
    BY <1>4 DEF EndProcess
  <2>2. BatchTyped'
    BY <1>1, <2>1 DEF BatchInv, BatchTyped
  <2>3. \A q \in BatchProcessors :
          /\ mode'[q] = "add" => mode[q] = "add"
          /\ mode'[q] = "send" => mode[q] = "send"
          /\ mode'[q] = "idle" => mode[q] = "idle" \/ groups[q] = <<>>
    BY <2>1 DEF BatchInv, BatchTyped
  <2>4. \A g : SoundGroup(g)' <=> SoundGroup(g)
    BY <1>1 DEF SoundGroup
  <2> QED
    BY <1>1, <1>2, <2>1, <2>2, <2>3, <2>4 DEF BatchInv
<1>5. ASSUME NEW x \in Impressions, Ignore(p, x) PROVE BatchInv'
  <2>1. x \in todo /\ todo' = todo \ {x} /\ lost' = lost \cup {x} /\ UNCHANGED <<told, mode>>
    BY <1>5 DEF Ignore
  <2>2. BatchTyped'
    BY <1>1, <2>1 DEF BatchInv, BatchTyped
  <2>3. todo' \cup lost' \cup posted' = todo \cup lost \cup posted
    BY <1>1, <2>1
  <2>4. \A g : SoundGroup(g)' <=> SoundGroup(g)
    BY <1>1 DEF SoundGroup
  <2> QED
    BY <1>1, <1>2, <2>1, <2>2, <2>3, <2>4 DEF BatchInv
<1> QED
  BY <1>3, <1>4, <1>5

LEMMA BeginKeeps ==
    ASSUME BatchInv, NEW p \in BatchProcessors, BeginProcess(p)
    PROVE  BatchInv'
<1>1. /\ mode[p] = "idle" /\ mode' = [mode EXCEPT ![p] = "add"] /\ index' = [index EXCEPT ![p] = <<>>]
      /\ groups' = [groups EXCEPT ![p] = <<>>] /\ UNCHANGED <<item, todo, free, used, sink, told, lost, posted>>
  BY DEF BeginProcess
<1>2. groups[p] = <<>> /\ groups' = groups
  <2>1. groups[p] = <<>> /\ groups \in [BatchProcessors -> Seq(Group)]
    BY <1>1 DEF BatchInv, BatchTyped
  <2> QED
    BY <1>1, <2>1
<1>3. Live' = Live /\ \A q \in BatchProcessors : GroupsOf(q)' = GroupsOf(q)
  BY <1>1, <1>2 DEF Live, GroupsOf
<1>4. Apart'
  BY <1>1, <1>2 DEF Apart, BatchInv
<1>5. BatchTyped'
  BY <1>1, <1>2 DEF BatchInv, BatchTyped
<1>6. \A g : SoundGroup(g)' <=> SoundGroup(g)
  BY <1>1 DEF SoundGroup
<1>7. \A q \in BatchProcessors :
        /\ FullBefore(groups'[q])
        /\ mode'[q] = "add" => Indexed(groups'[q], index'[q])
        /\ mode'[q] = "idle" => groups'[q] = <<>>
        /\ mode'[q] = "send" => mode[q] = "send"
  <2>1. Len(<<>>) = 0 /\ 1..0 = {}
    OBVIOUS
  <2>2. Indexed(<<>>, <<>>)
    BY <2>1 DEF Indexed
  <2> QED
    BY <1>1, <1>2, <2>2 DEF BatchInv, BatchTyped
<1> QED
  BY <1>1, <1>3, <1>4, <1>5, <1>6, <1>7 DEF BatchInv

\* A bulk goes to the sinker.
LEMMA SendKeeps ==
    ASSUME BatchInv, NEW p \in BatchProcessors, Send(p)
    PROVE  BatchInv'
<1> DEFINE s == groups[p]
           t == Tail(s)
           g == Head(s)
<1>1. /\ mode[p] = "send" /\ s # <<>> /\ sink' = sink \cup {g} /\ groups' = [groups EXCEPT ![p] = t]
      /\ index' = [index EXCEPT ![p] = <<>>] /\ UNCHANGED <<item, todo, mode, free, used, told, lost, posted>>
  BY DEF Send
<1>2. /\ s \in Seq(Group) /\ Len(s) \in Nat \ {0} /\ t \in Seq(Group) /\ Len(t) = Len(s) - 1 /\ g = s[1] /\ g \in Group
      /\ \A k \in 1..Len(t) : t[k] = s[k + 1] /\ k + 1 \in 1..Len(s) /\ k + 1 # 1
      /\ 1 \in 1..Len(s)
  <2>1. s \in Seq(Group)
    BY DEF BatchInv, BatchTyped
  <2> QED
    BY <1>1, <2>1
<1> HIDE DEF t, g
<1>3. /\ groups'[p] = t /\ \A q \in BatchProcessors \ {p} : groups'[q] = groups[q]
  BY <1>1 DEF BatchInv, BatchTyped
<1>4. \A q \in BatchProcessors : \A k \in 1..Len(groups'[q]) :
        \E l \in 1..Len(groups[q]) : /\ groups'[q][k] = groups[q][l] /\ (q = p => l = k + 1 /\ l # 1)
                                    /\ (q # p => l = k)
  <2> SUFFICES ASSUME NEW q \in BatchProcessors, NEW k \in 1..Len(groups'[q])
               PROVE  \E l \in 1..Len(groups[q]) : /\ groups'[q][k] = groups[q][l] /\ (q = p => l = k + 1 /\ l # 1)
                                                  /\ (q # p => l = k)
    OBVIOUS
  <2>1. CASE q = p
    BY <1>2, <1>3, <2>1
  <2>2. CASE q # p
    BY <1>3, <2>2
  <2> QED
    BY <2>1, <2>2
<1>5. \A h : h \in Live' <=> h \in Live
  <2>1. ASSUME NEW h \in Live' PROVE h \in Live
    <3>1. h \in sink' \/ \E q \in BatchProcessors : \E k \in 1..Len(groups'[q]) : h = groups'[q][k]
      BY LiveIs DEF Live, GroupsOf
    <3>2. CASE h \in sink'
      <4>1. g \in Live
        BY <1>2, LiveIs
      <4> QED
        BY <1>1, <3>2, <4>1, LiveIs
    <3>3. CASE \E q \in BatchProcessors : \E k \in 1..Len(groups'[q]) : h = groups'[q][k]
      BY <1>4, <3>3, LiveIs
    <3> QED
      BY <3>1, <3>2, <3>3
  <2>2. ASSUME NEW h \in Live PROVE h \in Live'
    <3>1. h \in Live' <=> h \in sink' \/ \E q \in BatchProcessors : \E k \in 1..Len(groups'[q]) : h = groups'[q][k]
      BY DEF Live, GroupsOf
    <3>2. CASE h \in sink
      BY <1>1, <3>1, <3>2
    <3>3. ASSUME NEW q \in BatchProcessors, NEW k \in 1..Len(groups[q]), h = groups[q][k] PROVE h \in Live'
      <4>1. CASE q # p
        BY <1>3, <3>1, <3>3, <4>1
      <4>2. CASE q = p /\ k = 1
        BY <1>1, <1>2, <3>1, <3>3, <4>2
      <4>3. CASE q = p /\ k # 1
        <5>1. k - 1 \in 1..Len(t) /\ t[k - 1] = h
          BY <1>2, <3>3, <4>3
        <5> QED
          BY <1>3, <3>1, <4>3, <5>1
      <4> QED
        BY <4>1, <4>2, <4>3
    <3> QED
      BY <3>2, <3>3, LiveIs
  <2> QED
    BY <2>1, <2>2
<1>6. Apart'
  <2>1. ASSUME NEW q \in BatchProcessors, NEW r \in BatchProcessors,
               NEW k \in 1..Len(groups'[q]), NEW l \in 1..Len(groups'[r]), q # r \/ k # l
        PROVE  Separate(groups'[q][k], groups'[r][l])
    <3>1. PICK i \in 1..Len(groups[q]) : /\ groups'[q][k] = groups[q][i] /\ (q = p => i = k + 1) /\ (q # p => i = k)
      BY <1>4
    <3>2. PICK j \in 1..Len(groups[r]) : /\ groups'[r][l] = groups[r][j] /\ (r = p => j = l + 1) /\ (r # p => j = l)
      BY <1>4
    <3>3. q # r \/ i # j
      <4>1. k \in Int /\ l \in Int
        OBVIOUS
      <4> QED
        BY <2>1, <3>1, <3>2, <4>1
    <3> QED
      BY <3>1, <3>2, <3>3 DEF BatchInv, Apart
  <2>2. ASSUME NEW q \in BatchProcessors, NEW k \in 1..Len(groups'[q]), NEW h \in sink'
        PROVE  Separate(groups'[q][k], h)
    <3>1. PICK i \in 1..Len(groups[q]) : groups'[q][k] = groups[q][i] /\ (q = p => i # 1)
      BY <1>4
    <3>2. CASE h \in sink
      BY <3>1, <3>2 DEF BatchInv, Apart
    <3>3. CASE h = g
      BY <1>2, <3>1, <3>3 DEF BatchInv, Apart
    <3> QED
      BY <1>1, <3>2, <3>3
  <2>3. ASSUME NEW h \in sink', NEW i \in sink', h # i PROVE Separate(h, i)
    <3>1. \A j \in sink : Separate(g, j) /\ Separate(j, g)
      BY <1>2 DEF BatchInv, Apart, Separate
    <3> QED
      BY <1>1, <2>3, <3>1 DEF BatchInv, Apart
  <2> QED
    BY <2>1, <2>2, <2>3 DEF Apart
<1>7. BatchTyped'
  <2>1. groups' \in [BatchProcessors -> Seq(Group)] /\ sink' \subseteq Group
    BY <1>1, <1>2 DEF BatchInv, BatchTyped
  <2>2. /\ DOMAIN index' = BatchProcessors
        /\ \A q \in BatchProcessors : \A m \in DOMAIN index'[q] : m \in Metadatas /\ index'[q][m] \in 1..Len(groups'[q])
    <3>1. DOMAIN index'[p] = {} /\ DOMAIN index' = BatchProcessors /\ \A q \in BatchProcessors \ {p} : index'[q] = index[q]
      BY <1>1 DEF BatchInv, BatchTyped
    <3> QED
      BY <1>3, <3>1 DEF BatchInv, BatchTyped
  <2> QED
    BY <1>1, <2>1, <2>2 DEF BatchInv, BatchTyped
<1>8. \A q \in BatchProcessors : FullBefore(groups'[q])
  <2>1. FullBefore(t)
    <3>1. FullBefore(s)
      BY DEF BatchInv
    <3>2. ASSUME NEW k \in 1..Len(t), NEW l \in 1..Len(t), k < l, t[k].metadata = t[l].metadata
          PROVE  t[k].count = BulkSize + 1
      <4>1. k + 1 < l + 1
        BY <3>2
      <4> QED
        BY <1>2, <3>1, <3>2, <4>1 DEF FullBefore
    <3> QED
      BY <3>2 DEF FullBefore
  <2> QED
    BY <1>3, <2>1 DEF BatchInv
<1>9. \A q \in BatchProcessors : mode'[q] = "send" => \A h \in GroupsOf(q)' : ItemsOf(h) \subseteq told'
  <2> SUFFICES ASSUME NEW q \in BatchProcessors, mode[q] = "send", NEW k \in 1..Len(groups'[q])
               PROVE  ItemsOf(groups'[q][k]) \subseteq told
    BY <1>1 DEF GroupsOf
  <2>1. groups'[q][k] \in GroupsOf(q)
    BY <1>4 DEF GroupsOf
  <2> QED
    BY <2>1 DEF BatchInv
<1>10. \A h \in sink' : ItemsOf(h) \subseteq told'
  <2>1. g \in GroupsOf(p)
    BY <1>2 DEF GroupsOf
  <2>2. ItemsOf(g) \subseteq told
    BY <1>1, <2>1 DEF BatchInv
  <2> QED
    BY <1>1, <2>2 DEF BatchInv
<1>11. \A q \in BatchProcessors :
        /\ mode'[q] = "add" => Indexed(groups'[q], index'[q])
        /\ mode'[q] = "idle" => groups'[q] = <<>>
  BY <1>1, <1>3 DEF BatchInv, BatchTyped
<1>12. Live' = Live /\ \A h : SoundGroup(h)' <=> SoundGroup(h)
  BY <1>1, <1>5 DEF SoundGroup
<1> QED
  BY <1>1, <1>6, <1>7, <1>8, <1>9, <1>10, <1>11, <1>12 DEF BatchInv

\* A bulk is recycled.
LEMMA RecycleKeeps ==
    ASSUME BatchInv, NEW g \in sink, RecycleBulk(g)
    PROVE  BatchInv'
<1>1. /\ sink' = sink \ {g} /\ posted' = posted \cup ItemsOf(g) /\ free' = free \cup {g.buffer}
      /\ UNCHANGED <<item, todo, mode, groups, index, used, told, lost>>
  BY DEF RecycleBulk
<1>2. \A h : h \in Live' <=> h \in sink' \/ \E p \in BatchProcessors : \E k \in 1..Len(groups[p]) : h = groups[p][k]
  BY <1>1 DEF Live, GroupsOf
<1>3. \A h : h \in Live' => h \in Live /\ Separate(h, g)
  <2>1. ASSUME NEW p \in BatchProcessors, NEW k \in 1..Len(groups[p]) PROVE groups[p][k] \in Live /\ Separate(groups[p][k], g)
    BY LiveIs DEF BatchInv, Apart
  <2>2. ASSUME NEW h \in sink' PROVE h \in Live /\ Separate(h, g)
    BY <1>1, LiveIs DEF BatchInv, Apart
  <2> QED
    BY <1>2, <2>1, <2>2
<1>4. \A h : h \in Live => h = g \/ h \in Live'
  BY <1>1, <1>2, LiveIs
<1>5. g \in Live /\ g \in Group
  BY LiveAre
<1>6. ItemsOf(g) \subseteq Impressions /\ ItemsOf(g) \subseteq told /\ g.buffer \in used
  BY <1>5 DEF BatchInv
<1>7. BatchTyped'
  BY <1>1, <1>6 DEF BatchInv, BatchTyped
<1>8. Apart'
  BY <1>1 DEF BatchInv, Apart
<1>9. \A h \in Live' : SoundGroup(h)' /\ h.buffer \in used' \ free' /\ ItemsOf(h) \cap (todo' \cup lost' \cup posted') = {}
  <2> SUFFICES ASSUME NEW h \in Live' PROVE SoundGroup(h)' /\ h.buffer \in used' \ free' /\ ItemsOf(h) \cap (todo' \cup lost' \cup posted') = {}
    OBVIOUS
  <2>1. h \in Live /\ h.buffer # g.buffer /\ ItemsOf(h) \cap ItemsOf(g) = {}
    BY <1>3 DEF Separate
  <2>2. SoundGroup(h) /\ h.buffer \in used \ free /\ ItemsOf(h) \cap (todo \cup lost \cup posted) = {}
    BY <2>1 DEF BatchInv
  <2> QED
    BY <1>1, <2>1, <2>2 DEF SoundGroup
<1>10. Impressions = todo' \cup lost' \cup posted' \cup UNION {ItemsOf(h) : h \in Live'}
  <2>1. ASSUME NEW y \in Impressions PROVE y \in todo' \cup lost' \cup posted' \cup UNION {ItemsOf(h) : h \in Live'}
    <3>1. y \in todo \cup lost \cup posted \/ \E h \in Live : y \in ItemsOf(h)
      BY DEF BatchInv
    <3> QED
      BY <1>1, <1>4, <3>1
  <2>2. ASSUME NEW h \in Live' PROVE ItemsOf(h) \subseteq Impressions
    BY <1>3 DEF BatchInv
  <2>3. todo' \cup lost' \cup posted' \subseteq Impressions
    BY <1>1, <1>6 DEF BatchInv, BatchTyped
  <2> QED
    BY <2>1, <2>2, <2>3
<1>11. posted' \subseteq told' /\ \A h \in sink' : ItemsOf(h) \subseteq told'
  BY <1>1, <1>6 DEF BatchInv
<1>13. todo' \cap (lost' \cup posted') = {}
  BY <1>1, <1>5 DEF BatchInv
<1>12. \A p \in BatchProcessors :
          /\ FullBefore(groups'[p])
          /\ mode'[p] = "add" => Indexed(groups'[p], index'[p])
          /\ mode'[p] = "idle" => groups'[p] = <<>>
          /\ mode'[p] = "send" => \A h \in GroupsOf(p)' : ItemsOf(h) \subseteq told'
  BY <1>1 DEF BatchInv, GroupsOf
<1> QED
  BY <1>7, <1>8, <1>9, <1>10, <1>11, <1>12, <1>13 DEF BatchInv

\* Item x has gone to bulk i of p, which is G now.
Placed(p, x, i, G) ==
    /\ mode[p] = "add" /\ x \in todo /\ todo' = todo \ {x} /\ UNCHANGED <<item, mode, sink, told, lost, posted>>
    /\ groups' \in [BatchProcessors -> Seq(Group)] /\ i \in 1..Len(groups'[p]) /\ groups'[p][i] = G
    /\ \A q \in BatchProcessors \ {p} : groups'[q] = groups[q]
    /\ \A k \in 1..Len(groups'[p]) : k # i => k \in 1..Len(groups[p]) /\ groups'[p][k] = groups[p][k]
    /\ \A k \in 1..Len(groups[p]) : k \in 1..Len(groups'[p])
    /\ G \in Group /\ SoundGroup(G)
    /\ \/ /\ i \in 1..Len(groups[p]) /\ ItemsOf(G) = ItemsOf(groups[p][i]) \cup {x}
          /\ G.buffer = groups[p][i].buffer /\ UNCHANGED <<free, used>>
       \/ /\ i \notin 1..Len(groups[p]) /\ ItemsOf(G) = {x}
          /\ G.buffer \in free \cup (Buffers \ used) /\ free' = free \ {G.buffer} /\ used' = used \cup {G.buffer}

\* The other bulks stay apart from it.
LEMMA PlacedApart ==
    ASSUME BatchInv, NEW p \in BatchProcessors, NEW x, NEW i, NEW G, Placed(p, x, i, G)
    PROVE  /\ \A q \in BatchProcessors : \A k \in 1..Len(groups'[q]) :
                 q # p \/ k # i => /\ k \in 1..Len(groups[q]) /\ groups'[q][k] = groups[q][k]
                                   /\ Separate(groups[q][k], G) /\ Separate(G, groups[q][k])
           /\ \A h \in sink : Separate(G, h)
<1>1. \A h \in Live : h.buffer \in used \ free /\ x \notin ItemsOf(h)
  BY DEF BatchInv, Placed
<1>2. ASSUME NEW h \in Live, i \in 1..Len(groups[p]) => Separate(groups[p][i], h) PROVE Separate(G, h) /\ Separate(h, G)
  <2>1. CASE i \in 1..Len(groups[p])
    BY <1>1, <1>2, <2>1 DEF Placed, Separate
  <2>2. CASE i \notin 1..Len(groups[p])
    BY <1>1, <2>2 DEF Placed, Separate
  <2> QED
    BY <2>1, <2>2
<1>3. ASSUME NEW q \in BatchProcessors, NEW k \in 1..Len(groups'[q]), q # p \/ k # i
      PROVE  /\ k \in 1..Len(groups[q]) /\ groups'[q][k] = groups[q][k]
             /\ Separate(groups[q][k], G) /\ Separate(G, groups[q][k])
  <2>1. k \in 1..Len(groups[q]) /\ groups'[q][k] = groups[q][k]
    BY <1>3 DEF Placed
  <2>2. groups[q][k] \in Live /\ (i \in 1..Len(groups[p]) => Separate(groups[p][i], groups[q][k]))
    BY <1>3, <2>1, LiveIs DEF BatchInv, Apart
  <2> QED
    BY <1>2, <2>1, <2>2
<1>4. ASSUME NEW h \in sink PROVE Separate(G, h)
  BY <1>2, LiveIs DEF BatchInv, Apart
<1> QED
  BY <1>3, <1>4

LEMMA PlacedKeeps ==
    ASSUME BatchInv, NEW p \in BatchProcessors, NEW x, NEW i, NEW G, Placed(p, x, i, G),
           FullBefore(groups'[p]), Indexed(groups'[p], index'[p]), DOMAIN index' = BatchProcessors,
           \A q \in BatchProcessors \ {p} : index'[q] = index[q],
           \A m \in DOMAIN index'[p] : m \in Metadatas /\ index'[p][m] \in 1..Len(groups'[p])
    PROVE  BatchInv'
<1>1. /\ mode[p] = "add" /\ x \in todo /\ todo' = todo \ {x} /\ UNCHANGED <<item, mode, sink, told, lost, posted>>
      /\ groups' \in [BatchProcessors -> Seq(Group)] /\ i \in 1..Len(groups'[p]) /\ groups'[p][i] = G
      /\ \A q \in BatchProcessors \ {p} : groups'[q] = groups[q]
  BY DEF Placed
<1>2. /\ \A q \in BatchProcessors : \A k \in 1..Len(groups'[q]) :
            q # p \/ k # i => /\ k \in 1..Len(groups[q]) /\ groups'[q][k] = groups[q][k]
                              /\ Separate(groups[q][k], G) /\ Separate(G, groups[q][k])
      /\ \A h \in sink : Separate(G, h)
  BY PlacedApart
<1>3. G.buffer \in Buffers /\ free' \subseteq used' /\ used' \subseteq Buffers /\ G.buffer \in used' \ free'
      /\ \A h \in Live : h.buffer # G.buffer => h.buffer \in used' \ free'
  <2>1. free \subseteq used /\ used \subseteq Buffers /\ \A h \in Live : h.buffer \in used \ free
    BY DEF BatchInv, BatchTyped
  <2>2. CASE i \in 1..Len(groups[p])
    <3>1. groups[p][i] \in Live
      BY <2>2, LiveIs
    <3> QED
      BY <2>1, <2>2, <3>1 DEF Placed
  <2>3. CASE i \notin 1..Len(groups[p])
    BY <2>1, <2>3 DEF Placed
  <2> QED
    BY <2>2, <2>3
<1>4. \A h : h \in Live' <=> h \in sink \/ \E q \in BatchProcessors : \E k \in 1..Len(groups'[q]) : h = groups'[q][k]
  BY <1>1 DEF Live, GroupsOf
<1>5. ASSUME NEW h \in Live' PROVE h = G \/ (h \in Live /\ Separate(h, G))
  <2>1. CASE h \in sink
    BY <1>2, <2>1, LiveIs DEF Separate
  <2>2. ASSUME NEW q \in BatchProcessors, NEW k \in 1..Len(groups'[q]), h = groups'[q][k] PROVE h = G \/ (h \in Live /\ Separate(h, G))
    <3>1. CASE q = p /\ k = i
      BY <1>1, <2>2, <3>1
    <3>2. CASE q # p \/ k # i
      BY <1>2, <2>2, <3>2, LiveIs
    <3> QED
      BY <3>1, <3>2
  <2> QED
    BY <1>4, <2>1, <2>2
<1>6. G \in Live' /\ x \in ItemsOf(G) /\ ItemsOf(G) \subseteq Impressions /\ ItemsOf(G) \cap (todo' \cup lost' \cup posted') = {}
  <2>1. G \in Live'
    BY <1>1, <1>4
  <2>2. x \in Impressions /\ todo \subseteq Impressions /\ x \notin lost \cup posted
    BY <1>1 DEF BatchInv, BatchTyped
  <2>3. CASE i \in 1..Len(groups[p])
    <3>1. /\ groups[p][i] \in Live /\ ItemsOf(G) = ItemsOf(groups[p][i]) \cup {x}
      BY <2>3, LiveIs DEF Placed
    <3>2. ItemsOf(groups[p][i]) \cap (todo \cup lost \cup posted) = {} /\ ItemsOf(groups[p][i]) \subseteq Impressions
      BY <3>1 DEF BatchInv
    <3> QED
      BY <1>1, <2>1, <2>2, <3>1, <3>2
  <2>4. CASE i \notin 1..Len(groups[p])
    BY <1>1, <2>1, <2>2, <2>4 DEF Placed
  <2> QED
    BY <2>3, <2>4
<1>7. \A h \in Live : h \in Live' \/ (ItemsOf(h) \subseteq ItemsOf(G))
  <2>1. ASSUME NEW q \in BatchProcessors, NEW k \in 1..Len(groups[q]) PROVE groups[q][k] \in Live' \/ ItemsOf(groups[q][k]) \subseteq ItemsOf(G)
    <3>1. CASE q = p /\ k = i
      BY <3>1 DEF Placed
    <3>2. CASE q # p \/ k # i
      <4>1. k \in 1..Len(groups'[q])
        BY <3>2 DEF Placed
      <4>2. groups'[q][k] = groups[q][k]
        BY <1>2, <3>2, <4>1
      <4> QED
        BY <1>4, <4>1, <4>2
    <3> QED
      BY <3>1, <3>2
  <2> QED
    BY <1>4, <2>1, LiveIs
<1>8. BatchTyped'
  <2>1. \A q \in BatchProcessors : \A m \in DOMAIN index'[q] : m \in Metadatas /\ index'[q][m] \in 1..Len(groups'[q])
    BY <1>1 DEF BatchInv, BatchTyped
  <2> QED
    BY <1>1, <1>3, <2>1 DEF BatchInv, BatchTyped
<1>9. Apart'
  <2>1. ASSUME NEW q \in BatchProcessors, NEW r \in BatchProcessors,
               NEW k \in 1..Len(groups'[q]), NEW l \in 1..Len(groups'[r]), q # r \/ k # l
        PROVE  Separate(groups'[q][k], groups'[r][l])
    <3>1. CASE q = p /\ k = i
      BY <1>1, <1>2, <2>1, <3>1
    <3>2. CASE r = p /\ l = i
      BY <1>1, <1>2, <2>1, <3>2
    <3>3. CASE (q # p \/ k # i) /\ (r # p \/ l # i)
      BY <1>2, <2>1, <3>3 DEF BatchInv, Apart
    <3> QED
      BY <3>1, <3>2, <3>3
  <2>2. ASSUME NEW q \in BatchProcessors, NEW k \in 1..Len(groups'[q]), NEW h \in sink
        PROVE  Separate(groups'[q][k], h)
    BY <1>1, <1>2 DEF BatchInv, Apart
  <2>3. sink' = sink /\ \A g, h \in sink : g # h => Separate(g, h)
    BY <1>1 DEF BatchInv, Apart
  <2> QED
    BY <2>1, <2>2, <2>3 DEF Apart
<1>10. \A h \in Live' : SoundGroup(h)' /\ h.buffer \in used' \ free' /\ ItemsOf(h) \cap (todo' \cup lost' \cup posted') = {}
  <2> SUFFICES ASSUME NEW h \in Live' PROVE SoundGroup(h)' /\ h.buffer \in used' \ free' /\ ItemsOf(h) \cap (todo' \cup lost' \cup posted') = {}
    OBVIOUS
  <2>1. SoundGroup(h)' <=> SoundGroup(h)
    BY <1>1 DEF SoundGroup
  <2>2. CASE h = G
    BY <1>3, <1>6, <2>1, <2>2 DEF Placed
  <2>3. CASE h \in Live /\ Separate(h, G)
    BY <1>1, <1>3, <2>1, <2>3 DEF BatchInv, Separate
  <2> QED
    BY <1>5, <2>2, <2>3
<1>11. Impressions = todo' \cup lost' \cup posted' \cup UNION {ItemsOf(h) : h \in Live'}
  <2>1. ASSUME NEW y \in Impressions PROVE y \in todo' \cup lost' \cup posted' \cup UNION {ItemsOf(h) : h \in Live'}
    <3>1. y \in todo \cup lost \cup posted \/ \E h \in Live : y \in ItemsOf(h)
      BY DEF BatchInv
    <3> QED
      BY <1>1, <1>6, <1>7, <3>1
  <2>2. ASSUME NEW h \in Live' PROVE ItemsOf(h) \subseteq Impressions
    BY <1>5, <1>6 DEF BatchInv
  <2>3. todo' \cup lost' \cup posted' \subseteq Impressions
    BY <1>1 DEF BatchInv, BatchTyped
  <2> QED
    BY <2>1, <2>2, <2>3
<1>12. posted' \subseteq told' /\ (\A h \in sink' : ItemsOf(h) \subseteq told') /\ todo' \cap (lost' \cup posted') = {}
  BY <1>1 DEF BatchInv
<1>13. \A q \in BatchProcessors :
          /\ FullBefore(groups'[q])
          /\ mode'[q] = "add" => Indexed(groups'[q], index'[q])
          /\ mode'[q] = "idle" => groups'[q] = <<>>
          /\ mode'[q] = "send" => \A h \in GroupsOf(q)' : ItemsOf(h) \subseteq told'
  <2>1. \A q \in BatchProcessors : q = p \/ (groups'[q] = groups[q] /\ index'[q] = index[q])
    BY <1>1
  <2>2. \A q \in BatchProcessors : groups'[q] = groups[q] => GroupsOf(q)' = GroupsOf(q)
    BY DEF GroupsOf
  <2> QED
    BY <1>1, <2>1, <2>2 DEF BatchInv
<1> QED
  BY <1>8, <1>9, <1>10, <1>11, <1>12, <1>13 DEF BatchInv

\* An item goes to the last bulk of its instance.
LEMMA AddGrows ==
    ASSUME BatchAssumption, BatchInv, NEW p \in BatchProcessors, NEW x \in Impressions, Add(p, x),
           item[x].metadata \in DOMAIN index[p], HasRoom(groups[p][index[p][item[x].metadata]])
    PROVE  BatchInv'
<1> DEFINE m == item[x].metadata
           s == groups[p]
           i == index[p][m]
           G == Grown(s[i], x)
           t == [s EXCEPT ![i] = G]
<1>1. /\ mode[p] = "add" /\ x \in todo /\ todo' = todo \ {x} /\ UNCHANGED <<item, mode, sink, told, lost, posted>>
      /\ groups' = [groups EXCEPT ![p] = t] /\ UNCHANGED <<index, free, used>>
  BY DEF Add
<1>2. /\ s \in Seq(Group) /\ Len(s) \in Nat /\ i \in 1..Len(s) /\ s[i] \in Live /\ s[i] \in Group
      /\ groups \in [BatchProcessors -> Seq(Group)]
  BY LiveAre DEF BatchInv, BatchTyped
<1>3. SoundGroup(s[i]) /\ x \notin ItemsOf(s[i]) /\ s[i].metadata = m /\ s[i].count <= BulkSize
      /\ item[x] \in [metadata : Metadatas, feature : Features]
  BY <1>1, <1>2 DEF BatchInv, BatchTyped, Indexed, HasRoom
<1>4. /\ G \in Group /\ G.metadata = m /\ G.buffer = s[i].buffer /\ ItemsOf(G) = ItemsOf(s[i]) \cup {x}
  BY <1>2, <1>3, GrownIs
<1>5. SoundGroup(G)
  BY <1>2, <1>3, GrownIsSound DEF SoundGroup
<1> HIDE DEF G
<1>6. t \in Seq(Group) /\ Len(t) = Len(s) /\ t[i] = G /\ \A k \in 1..Len(s) : k # i => t[k] = s[k]
  BY <1>2, <1>4
<1> HIDE DEF t
<1>7. groups' \in [BatchProcessors -> Seq(Group)] /\ groups'[p] = t /\ \A q \in BatchProcessors \ {p} : groups'[q] = groups[q]
  BY <1>1, <1>2, <1>6
<1>8. Placed(p, x, i, G)
  BY <1>1, <1>2, <1>4, <1>5, <1>6, <1>7 DEF Placed
<1>9. \A k \in 1..Len(s) : t[k].metadata = s[k].metadata
  BY <1>3, <1>4, <1>6
<1>10. FullBefore(t)
  <2> SUFFICES ASSUME NEW k \in 1..Len(s), NEW l \in 1..Len(s), k < l, t[k].metadata = t[l].metadata
               PROVE  t[k].count = BulkSize + 1
    BY <1>6 DEF FullBefore
  <2>1. FullBefore(s)
    BY DEF BatchInv
  <2>2. s[k].count = BulkSize + 1
    BY <1>9, <2>1 DEF FullBefore
  <2>3. k # i
    BY <1>3, <2>2 DEF BatchAssumption
  <2> QED
    BY <1>6, <2>2, <2>3
<1>11. Indexed(t, index[p])
  <2>1. Indexed(s, index[p]) /\ \A h \in DOMAIN index[p] : index[p][h] \in 1..Len(s)
    BY <1>1 DEF BatchInv, BatchTyped
  <2> QED
    BY <1>6, <1>9, <2>1 DEF Indexed
<1>12. /\ DOMAIN index' = BatchProcessors /\ \A q \in BatchProcessors \ {p} : index'[q] = index[q]
       /\ \A h \in DOMAIN index'[p] : h \in Metadatas /\ index'[p][h] \in 1..Len(groups'[p])
  BY <1>1, <1>6, <1>7 DEF BatchInv, BatchTyped
<1>13. FullBefore(groups'[p]) /\ Indexed(groups'[p], index'[p])
  BY <1>1, <1>7, <1>10, <1>11
<1> HIDE DEF i
<1> QED
  BY <1>8, <1>12, <1>13, PlacedKeeps

\* A bulk of one item.
LEMMA FirstIsSound ==
    ASSUME BatchAssumption, NEW x \in Impressions, NEW b \in Buffers, item[x] \in [metadata : Metadatas, feature : Features]
    PROVE  LET G == Grown([metadata |-> item[x].metadata, count |-> 0, imps |-> <<>>, buffer |-> b], x) IN
           G \in Group /\ SoundGroup(G) /\ G.metadata = item[x].metadata /\ G.buffer = b /\ ItemsOf(G) = {x}
<1> DEFINE e == [metadata |-> item[x].metadata, count |-> 0, imps |-> <<>>, buffer |-> b]
           G == Grown(e, x)
<1>1. /\ e.imps = <<>> /\ DOMAIN e.imps = {} /\ e.count = 0 /\ e.metadata = item[x].metadata /\ e.buffer = b
  OBVIOUS
<1>2. e \in Group
  <2>1. <<>> \in [{} -> SUBSET Impressions] /\ {} \in SUBSET Features
    OBVIOUS
  <2>2. <<>> \in UNION {[F -> SUBSET Impressions] : F \in SUBSET Features}
    BY <2>1
  <2>3. 0 \in Nat
    OBVIOUS
  <2> QED
    BY <2>2, <2>3 DEF Group
<1> HIDE DEF e
<1>3. ItemsOf(e) = {} /\ IsFiniteSet({}) /\ Cardinality({}) = 0
  BY <1>1, ItemIn, FS_EmptySet
<1>4. G \in Group /\ G.metadata = item[x].metadata /\ G.buffer = b /\ ItemsOf(G) = {x}
  BY <1>1, <1>2, <1>3, GrownIs
<1>5. SoundGroup(G)
  <2>1. /\ item[x].metadata = e.metadata /\ x \notin ItemsOf(e) /\ e.count = Cardinality(ItemsOf(e)) /\ IsFiniteSet(ItemsOf(e))
        /\ e.count <= BulkSize
    BY <1>1, <1>3 DEF BatchAssumption
  <2>2. \A f \in DOMAIN e.imps : \A y \in e.imps[f] : item[y] = [metadata |-> e.metadata, feature |-> f]
    BY <1>1
  <2> HIDE DEF G
  <2> QED
    BY <1>2, <2>1, <2>2, GrownIsSound DEF G
<1> HIDE DEF G
<1> QED
  BY <1>4, <1>5 DEF G, e

\* An item begins a bulk.
LEMMA AddBegins ==
    ASSUME BatchAssumption, BatchInv, NEW p \in BatchProcessors, NEW x \in Impressions, Add(p, x),
           ~(item[x].metadata \in DOMAIN index[p] /\ HasRoom(groups[p][index[p][item[x].metadata]]))
    PROVE  BatchInv'
<1> DEFINE m == item[x].metadata
           s == groups[p]
           i == Len(s) + 1
           ix == [h \in DOMAIN index[p] \cup {m} |-> IF h = m THEN i ELSE index[p][h]]
<1>1. PICK b \in free \cup (Buffers \ used) :
         /\ mode[p] = "add" /\ x \in todo /\ todo' = todo \ {x} /\ UNCHANGED <<item, mode, sink, told, lost, posted>>
         /\ groups' = [groups EXCEPT ![p] = Append(@, Grown([metadata |-> m, count |-> 0, imps |-> <<>>, buffer |-> b], x))]
         /\ index' = [index EXCEPT ![p] = [h \in DOMAIN @ \cup {m} |-> IF h = m THEN Len(groups[p]) + 1 ELSE @[h]]]
         /\ free' = free \ {b} /\ used' = used \cup {b}
  BY DEF Add
<1> DEFINE G == Grown([metadata |-> m, count |-> 0, imps |-> <<>>, buffer |-> b], x)
           t == Append(s, G)
<1>2. /\ s \in Seq(Group) /\ Len(s) \in Nat /\ groups \in [BatchProcessors -> Seq(Group)]
      /\ item[x] \in [metadata : Metadatas, feature : Features] /\ b \in Buffers
      /\ DOMAIN index = BatchProcessors /\ m \in Metadatas
  BY <1>1, LiveAre DEF BatchInv, BatchTyped
<1>3. G \in Group /\ SoundGroup(G) /\ G.metadata = m /\ G.buffer = b /\ ItemsOf(G) = {x}
  BY <1>2, FirstIsSound
<1> HIDE DEF G
<1>4. groups' = [groups EXCEPT ![p] = t] /\ index' = [index EXCEPT ![p] = ix]
  BY <1>1 DEF G
<1>5. t \in Seq(Group) /\ Len(t) = i /\ t[i] = G /\ i \in 1..Len(t) /\ i \notin 1..Len(s) /\ i \in Nat
      /\ \A k \in 1..i : k # i => k \in 1..Len(s) /\ k < i /\ t[k] = s[k]
  <2>1. t \in Seq(Group) /\ Len(t) = i /\ t[i] = G
    BY <1>2, <1>3
  <2>2. i \in 1..Len(t) /\ i \notin 1..Len(s) /\ i \in Nat
    BY <1>2, <2>1
  <2>3. \A k \in 1..Len(s) : t[k] = s[k]
    BY <1>2, <1>3
  <2> HIDE DEF t
  <2> QED
    BY <1>2, <2>1, <2>2, <2>3
<1>6. DOMAIN ix = DOMAIN index[p] \cup {m} /\ ix[m] = i /\ \A h \in DOMAIN index[p] : h # m => ix[h] = index[p][h]
  <2> HIDE DEF i, m
  <2> QED
    OBVIOUS
<1> HIDE DEF t, ix
<1>7. /\ groups' \in [BatchProcessors -> Seq(Group)] /\ groups'[p] = t /\ \A q \in BatchProcessors \ {p} : groups'[q] = groups[q]
      /\ DOMAIN index' = BatchProcessors /\ index'[p] = ix /\ \A q \in BatchProcessors \ {p} : index'[q] = index[q]
  BY <1>2, <1>4, <1>5
<1>8. \A k \in 1..Len(s) : k \in 1..i /\ k # i
  BY <1>2
<1> HIDE DEF i
<1>9. Placed(p, x, i, G)
  BY <1>1, <1>2, <1>3, <1>5, <1>7, <1>8 DEF Placed
<1>10. /\ FullBefore(s) /\ Indexed(s, index[p])
       /\ \A h \in DOMAIN index[p] : h \in Metadatas /\ index[p][h] \in 1..Len(s)
       /\ \A k \in 1..Len(s) : SoundGroup(s[k])
  BY <1>1, LiveAre DEF BatchInv, BatchTyped
<1>11. \A k \in 1..Len(s) : s[k].metadata = m => s[k].count = BulkSize + 1
  <2> SUFFICES ASSUME NEW k \in 1..Len(s), s[k].metadata = m PROVE s[k].count = BulkSize + 1
    OBVIOUS
  <2> DEFINE j == index[p][m]
  <2>1. m \in DOMAIN index[p] /\ k <= j /\ s[j].metadata = m /\ j \in 1..Len(s)
    BY <1>10 DEF Indexed
  <2>2. s[j].count \in 1..(BulkSize + 1) /\ ~(s[j].count <= BulkSize)
    BY <1>10, <2>1 DEF SoundGroup, HasRoom
  <2> HIDE DEF j
  <2>3. s[j].count = BulkSize + 1
    BY <2>2 DEF BatchAssumption
  <2>4. k = j \/ k < j
    BY <2>1
  <2> QED
    BY <1>10, <2>1, <2>3, <2>4 DEF FullBefore
<1>12. FullBefore(t)
  <2> SUFFICES ASSUME NEW k \in 1..i, NEW l \in 1..i, k < l, t[k].metadata = t[l].metadata
               PROVE  t[k].count = BulkSize + 1
    BY <1>5 DEF FullBefore
  <2>1. k # i
    BY <1>5
  <2>2. CASE l = i
    BY <1>3, <1>5, <1>11, <2>1, <2>2
  <2>3. CASE l # i
    BY <1>5, <1>10, <2>1, <2>3 DEF FullBefore
  <2> QED
    BY <2>2, <2>3
<1>13. Indexed(t, ix)
  <2>1. ASSUME NEW h \in DOMAIN ix PROVE t[ix[h]].metadata = h
    <3>1. CASE h = m
      BY <1>3, <1>5, <1>6, <3>1
    <3>2. CASE h # m
      <4>1. h \in DOMAIN index[p] /\ ix[h] = index[p][h]
        BY <1>6, <3>2
      <4>2. index[p][h] \in 1..Len(s) /\ s[index[p][h]].metadata = h
        BY <1>10, <4>1 DEF Indexed
      <4>3. t[ix[h]] = s[index[p][h]]
        BY <1>5, <1>8, <4>1, <4>2
      <4> QED
        BY <4>2, <4>3
    <3> QED
      BY <3>1, <3>2
  <2>2. ASSUME NEW n \in 1..i PROVE t[n].metadata \in DOMAIN ix /\ n <= ix[t[n].metadata]
    <3>1. CASE n = i
      BY <1>3, <1>5, <1>6, <3>1
    <3>2. CASE n # i
      <4>1. n \in 1..Len(s) /\ t[n] = s[n] /\ n < i
        BY <1>5, <3>2
      <4>2. s[n].metadata \in DOMAIN index[p] /\ n <= index[p][s[n].metadata]
        BY <1>10, <4>1 DEF Indexed
      <4> QED
        BY <1>5, <1>6, <4>1, <4>2
    <3> QED
      BY <3>1, <3>2
  <2> QED
    BY <1>5, <2>1, <2>2 DEF Indexed
<1>14. \A h \in DOMAIN index'[p] : h \in Metadatas /\ index'[p][h] \in 1..Len(groups'[p])
  BY <1>2, <1>5, <1>6, <1>7, <1>8, <1>10
<1>15. FullBefore(groups'[p]) /\ Indexed(groups'[p], index'[p])
  BY <1>7, <1>12, <1>13
<1> QED
  BY <1>7, <1>9, <1>14, <1>15, PlacedKeeps

LEMMA BatchStep ==
    ASSUME BatchAssumption, BatchInv, [BatchNext]_batchVars
    PROVE  BatchInv'
<1>1. CASE UNCHANGED batchVars
  <2>1. Live' = Live /\ \A p \in BatchProcessors : GroupsOf(p)' = GroupsOf(p)
    BY <1>1 DEF batchVars, Live, GroupsOf
  <2>2. Apart'
    BY <1>1 DEF batchVars, BatchInv, Apart
  <2>3. BatchTyped'
    BY <1>1 DEF batchVars, BatchInv, BatchTyped
  <2>4. \A g : SoundGroup(g)' <=> SoundGroup(g)
    BY <1>1 DEF batchVars, SoundGroup
  <2> QED
    BY <1>1, <2>1, <2>2, <2>3, <2>4 DEF batchVars, BatchInv
<1>2. ASSUME NEW p \in BatchProcessors, BeginProcess(p) PROVE BatchInv'
  BY <1>2, BeginKeeps
<1>3. ASSUME NEW p \in BatchProcessors, Tell(p) \/ EndProcess(p) \/ (\E x \in Impressions : Ignore(p, x)) PROVE BatchInv'
  BY <1>3, TellKeeps
<1>4. ASSUME NEW p \in BatchProcessors, Send(p) PROVE BatchInv'
  BY <1>4, SendKeeps
<1>5. ASSUME NEW p \in BatchProcessors, NEW x \in Impressions, Add(p, x) PROVE BatchInv'
  BY <1>5, AddGrows, AddBegins
<1>6. ASSUME NEW g \in sink, RecycleBulk(g) PROVE BatchInv'
  BY <1>6, RecycleKeeps
<1> QED
  BY <1>1, <1>2, <1>3, <1>4, <1>5, <1>6 DEF BatchNext

LEMMA BatchesKept == BatchSpec => []BatchInv
<1>1. BatchInit => BatchInv
  BY BatchStarts
<1>2. BatchInv /\ [BatchNext]_batchVars => BatchInv'
  BY BatchStep, BatchAssumption
<1> QED
  BY <1>1, <1>2, PTL DEF BatchSpec

\* Every bulk that a processor makes or a sinker holds has items of one instance, each
\* under its feature, as many as it counts and at most one more than defaultBulkSize, and
\* of two bulks of an instance the earlier is as large as a bulk can be: for any number of
\* processors, items and buffers, and for every defaultBulkSize.
THEOREM BulksStaySound == BatchSpec => []BulksAreSound
<1>1. ASSUME BatchInv PROVE BulksAreSound
  <2>1. \A g \in Group : IsGroup(g)
    <3> SUFFICES ASSUME NEW g \in Group PROVE IsGroup(g)
      OBVIOUS
    <3>1. PICK F \in SUBSET Features : g.imps \in [F -> SUBSET Impressions]
      BY DEF Group
    <3>2. ItemsOf(g) \subseteq Impressions
      BY <3>1, ItemIn
    <3> QED
      BY <3>1, <3>2 DEF Group, IsGroup
  <2>2. \A g \in Live : SoundGroup(g) /\ IsGroup(g)
    BY <1>1, <2>1 DEF BatchInv, SoundGroup
  <2>3. BatchTypeOK
    BY <1>1, <2>2 DEF BatchInv, BatchTyped, BatchTypeOK
  <2>4. \A p \in BatchProcessors : FullBefore(groups[p])
    BY <1>1 DEF BatchInv
  <2> QED
    BY <2>2, <2>3, <2>4 DEF BulksAreSound, SoundGroup, FullBefore
<1> QED
  BY <1>1, BatchesKept, PTL

\* No buffer is in two bulks, or in a bulk and in the pool; no item is in two bulks, or in
\* a bulk and still to do, lost or posted, and each is in one of those places; and what is
\* sent was told to the listener: workers of any number never write over each other's bulks.
THEOREM NothingGetsShared == BatchSpec => []NothingIsShared
<1>1. ASSUME BatchInv PROVE NothingIsShared
  <2>1. ASSUME NEW g \in Live, NEW h \in Live, g # h PROVE Separate(g, h)
    <3>1. CASE g \in sink
      BY <1>1, <2>1, <3>1, LiveIs DEF BatchInv, Apart, Separate
    <3>2. ASSUME NEW p \in BatchProcessors, NEW k \in 1..Len(groups[p]), g = groups[p][k] PROVE Separate(g, h)
      <4>1. CASE h \in sink
        BY <1>1, <3>2, <4>1 DEF BatchInv, Apart
      <4>2. ASSUME NEW q \in BatchProcessors, NEW l \in 1..Len(groups[q]), h = groups[q][l] PROVE Separate(g, h)
        <5>1. p # q \/ k # l
          BY <2>1, <3>2, <4>2
        <5> QED
          BY <1>1, <3>2, <4>2, <5>1 DEF BatchInv, Apart
      <4> QED
        BY <4>1, <4>2, LiveIs
    <3> QED
      BY <3>1, <3>2, LiveIs
  <2>2. \A g \in Live : g.buffer \notin free /\ ItemsOf(g) \cap (todo \cup lost \cup posted) = {}
    BY <1>1 DEF BatchInv
  <2>3. Impressions = todo \cup lost \cup posted \cup UNION {ItemsOf(g) : g \in Live}
    BY <1>1 DEF BatchInv
  <2>4. posted \cup UNION {ItemsOf(g) : g \in sink} \subseteq told
    BY <1>1 DEF BatchInv
  <2> QED
    BY <2>1, <2>2, <2>3, <2>4 DEF NothingIsShared, Separate
<1> QED
  BY <1>1, BatchesKept, PTL
=============================================================================
