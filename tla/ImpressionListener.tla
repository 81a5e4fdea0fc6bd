------------------------ MODULE ImpressionListener -------------------------
(***************************************************************************)
(* The impression listener: bulks are submitted to a bounded queue, from   *)
(* which one goroutine posts them to the user's endpoint, until it is told *)
(* to stop.  Its life cycle is that of lifecycle.Manager (external).       *)
(***************************************************************************)
EXTENDS Naturals, Sequences

CONSTANTS
    Bulks,
    ListenerQueueSize,  \* size of the queue, positive (ErrInvalidQueueSize)
    Nothing             \* no bulk

VARIABLES
    status,      \* of the life cycle
    bulks,       \* the queue
    posting,     \* the bulk being posted
    heard        \* how often each bulk was posted

listenerVars == <<status, bulks, posting, heard>>

ListenerTypeOK ==
    /\ status \in {"idle", "starting", "running", "stopping", "stopped"}
    /\ bulks \in Seq(Bulks) /\ Len(bulks) <= ListenerQueueSize
    /\ posting \in Bulks \cup {Nothing}
    /\ heard \in [Bulks -> Nat]

ListenerInit ==
    /\ status = "idle" /\ bulks = <<>> /\ posting = Nothing
    /\ heard = [b \in Bulks |-> 0]

\* A full queue refuses. Nobody asks whether the listener runs.
Submit(b) ==
    /\ bulks' = IF Len(bulks) < ListenerQueueSize THEN Append(bulks, b) ELSE bulks
    /\ UNCHANGED <<status, posting, heard>>

Start ==
    /\ status = "idle"
    /\ status' = "starting"
    /\ UNCHANGED <<bulks, posting, heard>>

\* InitializationComplete, unless it was told to stop in between.
Started ==
    /\ status = "starting"
    /\ status' = "running"
    /\ UNCHANGED <<bulks, posting, heard>>

\* BeginShutdown. It does nothing for a listener that is not running.
Stop ==
    /\ status \in {"starting", "running"}
    /\ status' = "stopping"
    /\ UNCHANGED <<bulks, posting, heard>>

\* The select takes what is ready, in no order: the goroutine may go on posting
\* after it was told to stop, and may leave with bulks in the queue.
TakeBulk ==
    /\ status \in {"running", "stopping"} /\ posting = Nothing /\ bulks # <<>>
    /\ posting' = Head(bulks) /\ bulks' = Tail(bulks)
    /\ UNCHANGED <<status, heard>>

Leave ==
    /\ status = "stopping" /\ posting = Nothing
    /\ status' = "stopped"
    /\ UNCHANGED <<bulks, posting, heard>>

\* Mutant: a post that fails is tried again.
PostRetry ==
    /\ posting # Nothing
    /\ heard' = [heard EXCEPT ![posting] = @ + 1]
    /\ posting' \in {Nothing, posting}
    /\ UNCHANGED <<status, bulks>>

\* One attempt, whatever comes of it: nobody looks at the error.
Post ==
    /\ posting # Nothing
    /\ heard' = [heard EXCEPT ![posting] = @ + 1]
    /\ posting' = Nothing
    /\ UNCHANGED <<status, bulks>>

Listening == Started \/ TakeBulk \/ Leave \/ Post
=============================================================================
