-------------------------- MODULE ProxyFlagsProofs --------------------------
(***************************************************************************)
(* No SDK of the proxy loses an update, for any set of flags, any number   *)
(* of changes and of restarts, provided that snapshots are exported        *)
(* between updates only and every record is saved.                         *)
(*                                                                         *)
(* The inductive invariant relates each of the three stores to a level: a  *)
(* change number up to which it has everything.  The snapshot and the disk *)
(* are at snapCN, the disk except for the records about to be saved; the   *)
(* summaries are at snapCN or, between two steps of an update, at the      *)
(* change number before it.  A first synchronization brings active flags   *)
(* only, so summaries and disk may have nothing of a flag that was         *)
(* archived by then: no SDK the summaries serve may hold such a flag.      *)
(*                                                                         *)
(* Then the storage with its SDK implements FlagFeed, and what FlagFeed    *)
(* promises is proved of FlagFeed alone.                                   *)
(***************************************************************************)
EXTENDS ProxyFlags, ChangeLogProofs

-----------------------------------------------------------------------------
(* The inductive invariant                                                 *)

CN == 0..Len(log)
Absent(w) == \A f \in Flags : w[f] = 0

\* The view an SDK that holds w gets by applying the answer got.
Applied(w, got) == [f \in Flags |-> IF f \in DOMAIN got THEN got[f] ELSE w[f]]

\* An SDK at t that holds w, and would be served by summaries hs of level h,
\* holds none of the flags they have nothing of.
NotHeld(l, hs, o, h, t, w) ==
    \A f \in Flags :
        Due(l, f, h) /\ hs[f] = 0 /\ t >= o /\ t < Current(l, f) => w[f] = 0

\* Types, as tight as what was published.
Typed ==
    /\ log \in Seq(Change) /\ Len(log) <= MaxCN
    /\ snap \in [Flags -> CN] /\ hist \in [Flags -> CN] /\ items \in [Flags -> CN]
    /\ view \in [Flags -> CN]
    /\ snapCN \in {-1} \cup CN /\ oldest \in {-1} \cup CN /\ since \in {-1} \cup CN
    /\ serving \in BOOLEAN /\ filtered \in BOOLEAN
    /\ file \in [Flags -> CN] \cup {NoFile}
    /\ restarts \in 0..MaxRestarts

UpdTyped ==
    /\ upd = [pc |-> upd.pc, batch |-> upd.batch, till |-> upd.till]
    /\ upd.pc \in {"idle", "start", "snapshot", "historic", "db"}
    /\ upd.batch \subseteq 1..Len(log) /\ upd.till \in {-1} \cup CN
    /\ upd.pc \in {"snapshot", "historic", "db"} => upd.batch # {}

ReqTyped ==
    /\ req = [pc |-> req.pc, till |-> req.till, got |-> req.got]
    /\ req.pc \in {"idle", "all", "backend", "historic", "fetch", "reply"}
    /\ req.till \in {-1} \cup CN
    /\ DOMAIN req.got \subseteq Flags
    /\ \A f \in DOMAIN req.got : req.got[f] \in CN

UpdateInv ==
    /\ upd.pc = "start" => Batch(log, upd.batch, snapCN, upd.till) /\ oldest <= upd.till
    /\ upd.pc = "snapshot" => Batch(log, upd.batch, snapCN, upd.till) /\ oldest # -1
    /\ upd.pc \in {"snapshot", "historic"} => \A n \in upd.batch, f \in Flags : items[f] < n
    /\ upd.pc \in {"historic", "db"} => oldest # -1 /\ upd.till = snapCN
    /\ upd.pc = "db" => \A n \in upd.batch : n = LatestCN(log, log[n].name, upd.till)
    /\ upd.pc # "idle" => upd.till >= snapCN /\ upd.till # -1

SnapshotInv ==
    /\ Complete(log, snapCN, snap)
    /\ Known(log, snap)
    /\ snapCN = -1 => Absent(snap)

\* Records of the update in progress are not on disk yet.
DiskInv ==
    /\ Known(log, items)
    /\ \A f \in Flags : items[f] = 0 \/ items[f] <= snapCN
    /\ \A f \in Flags : Due(log, f, snapCN) =>
         \/ items[f] = Current(log, f)
         \/ items[f] = 0 /\ Archived(log, f)
         \/ upd.pc \in {"historic", "db"} /\ Current(log, f) \in upd.batch

\* A snapshot file is at the level of its highest record.
FileInv ==
    file # NoFile => Known(log, file) /\ \A g \in Flags : Covers(log, file, file[g])

\* h is the level of the summaries, and where the update in progress, if it has
\* not reached them yet, started from.
HistoricAt(h) ==
    /\ h <= snapCN
    /\ upd.pc # "historic" => h = snapCN
    /\ upd.pc = "historic" => Batch(log, upd.batch, h, upd.till)
    /\ serving => h # -1
    /\ \A f \in Flags : hist[f] = 0 \/ hist[f] <= h
    /\ Covers(log, hist, h)
    /\ NotHeld(log, hist, oldest, h, since, view)
    /\ req.pc \in {"fetch", "reply"} =>
         NotHeld(log, hist, oldest, h, req.till, Applied(view, req.got))

HistoricInv == \E h \in {-1} \cup CN : HistoricAt(h)

\* Before the first synchronization ends, the SDK is one of an earlier process.
StartInv ==
    /\ serving => oldest # -1 /\ snapCN # -1
    /\ oldest = -1 => snapCN = -1
    /\ ~serving /\ upd.pc \in {"idle", "start", "snapshot"} => snapCN = -1
    /\ ~serving /\ upd.pc = "start" /\ since >= upd.till =>
         \A f \in Flags : view[f] = Served(log, f, upd.till)
    /\ ~serving /\ oldest # -1 /\ since >= oldest =>
         Absent(view) \/ (upd.pc \in {"snapshot", "historic", "db"} /\ upd.till <= oldest)

RequestInv ==
    /\ req.pc # "idle" => serving
    /\ req.pc = "all" => since = -1 /\ req.till <= snapCN /\ req.till # -1
    /\ req.pc = "historic" => since = -1 \/ since >= oldest
    /\ req.pc = "backend" => since # -1
    /\ req.pc = "fetch" => req.till <= snapCN \/ DOMAIN req.got = {}
    /\ req.pc = "fetch" => \A f \in DOMAIN req.got : hist[f] # 0
    /\ req.pc \in {"fetch", "reply"} => Complete(log, req.till, Applied(view, req.got))
    /\ req.pc = "reply" => Known(log, Applied(view, req.got))
    /\ req.pc = "fetch" /\ req.till = -1 => DOMAIN req.got = {} /\ since = -1
    /\ req.pc = "reply" /\ req.till = -1 => Absent(Applied(view, req.got))

ViewInv ==
    /\ Known(log, view)
    /\ since = -1 => Absent(view)

IInv ==
    /\ Typed /\ UpdTyped /\ ReqTyped
    /\ UpdateInv /\ SnapshotInv /\ DiskInv /\ FileInv /\ HistoricInv
    /\ StartInv /\ RequestInv /\ ViewInv /\ NoLostUpdate

-----------------------------------------------------------------------------
(* Levels, see also ChangeLogProofs                                        *)

\* A new change preserves what is known at the levels there are.
LEMMA PublishLevels ==
    ASSUME NEW l \in Seq(Change), NEW c \in Change
    PROVE  /\ \A w : Known(l, w) => Known(Append(l, c), w)
           /\ \A t \in Int : t <= Len(l) =>
                /\ \A w : Complete(l, t, w) => Complete(Append(l, c), t, w)
                /\ \A w : Covers(l, w, t) => Covers(Append(l, c), w, t)
                /\ \A hs, o, u, w : NotHeld(l, hs, o, t, u, w) => NotHeld(Append(l, c), hs, o, t, u, w)
<1> DEFINE k == Append(l, c)
<1>1. k \in Seq(Change)
  OBVIOUS
<1>2. \A f : Current(k, f) = 0 => Current(l, f) = 0
  BY PublishDue
<1>3. \A f : \A t \in Int : t <= Len(l) /\ Due(k, f, t) =>
        /\ Due(l, f, t)
        /\ Current(k, f) = Current(l, f)
        /\ Archived(k, f) = Archived(l, f)
  BY PublishDue
<1> HIDE DEF k
<1>4. \A w : Known(l, w) => Known(k, w)
  BY <1>2 DEF Known
<1>5. ASSUME NEW t \in Int, t <= Len(l), NEW w, Complete(l, t, w) PROVE Complete(k, t, w)
  BY <1>1, <1>3, <1>5, CompleteIs
<1>6. ASSUME NEW t \in Int, t <= Len(l), NEW w, Covers(l, w, t) PROVE Covers(k, w, t)
  BY <1>3, <1>6 DEF Covers
<1>7. ASSUME NEW t \in Int, t <= Len(l), NEW hs, NEW o, NEW u, NEW w, NotHeld(l, hs, o, t, u, w)
      PROVE  NotHeld(k, hs, o, t, u, w)
  BY <1>3, <1>7 DEF NotHeld
<1> QED
  BY <1>4, <1>5, <1>6, <1>7 DEF k

-----------------------------------------------------------------------------
(* Initial states and steps                                                *)

\* Nothing is published, held or under way initially.
LEMMA InitInv == Init => IInv
<1> SUFFICES ASSUME Init PROVE IInv
  OBVIOUS
<1> USE DEF Init, Nothing, NoUpdate, NoRequest
<1>0. log \in Seq(Change) /\ Len(log) = 0 /\ CN = {0}
  BY DEF CN
<1>1. \A f, t : ~Due(log, f, t)
  <2>1. 1..Len(log) = {}
    BY <1>0
  <2> HIDE DEF Init
  <2>2. \A f : Current(log, f) = 0
    BY <1>0, <2>1, CurrentIs
  <2> QED
    BY <2>2 DEF Due
<1>2. Typed
  <2>1. MaxCN \in Nat /\ 0 \in 0..MaxRestarts
    BY ProxyAssumption
  <2>2. Nothing \in [Flags -> CN]
    BY <1>0
  <2>3. snap \in [Flags -> CN] /\ hist \in [Flags -> CN] /\ items \in [Flags -> CN] /\ view \in [Flags -> CN]
    BY <2>2
  <2>4. /\ log \in Seq(Change) /\ Len(log) <= MaxCN /\ restarts \in 0..MaxRestarts
        /\ snapCN = -1 /\ oldest = -1 /\ since = -1 /\ file = NoFile
    BY <1>0, <2>1
  <2>5. serving \in BOOLEAN /\ filtered \in BOOLEAN
    OBVIOUS
  <2> HIDE DEF Init, Nothing
  <2> QED
    BY <2>3, <2>4, <2>5 DEF Typed
<1>3. UpdTyped /\ ReqTyped
  BY DEF UpdTyped, ReqTyped, CN
<1>4. UpdateInv /\ StartInv /\ RequestInv
  BY DEF UpdateInv, StartInv, RequestInv, Absent
<1>5. SnapshotInv /\ NoLostUpdate
  <2>1. log \in Seq(Change)
    OBVIOUS
  <2> QED
    BY <1>1, <2>1, CompleteIs DEF SnapshotInv, NoLostUpdate, Absent, Known
<1>6. DiskInv /\ FileInv /\ ViewInv
  BY <1>1 DEF DiskInv, FileInv, ViewInv, Absent, Known
<1>7. HistoricAt(-1)
  BY <1>1 DEF HistoricAt, Covers, NotHeld
<1> QED
  BY <1>2, <1>3, <1>4, <1>5, <1>6, <1>7 DEF IInv, HistoricInv

\* A change is published: every level is below its change number.
LEMMA PublishInv == ASSUME NEW change \in Change PROVE IInv /\ Publish(change) => IInv'
<1> SUFFICES ASSUME IInv, Publish(change) PROVE IInv'
  OBVIOUS
<1>1. /\ UNCHANGED <<snap, snapCN, hist, oldest, items, serving, upd, file, filtered, since, view, req, restarts>>
      /\ log' = Append(log, change) /\ Len(log) < MaxCN
  BY DEF Publish, proxyVars, sdkVars
<1>2. /\ log \in Seq(Change) /\ log' \in Seq(Change)
      /\ Len(log) \in Nat /\ Len(log') = Len(log) + 1
  BY <1>1 DEF IInv, Typed
<1>3. CN \subseteq CN' /\ MaxCN \in Nat
  BY <1>2, ProxyAssumption DEF CN
<1>t. Typed'
  BY <1>1, <1>2, <1>3 DEF IInv, Typed, NoFile
<1>u. UpdTyped'
  BY <1>1, <1>2, <1>3 DEF IInv, UpdTyped
<1>r. ReqTyped'
  BY <1>1, <1>2, <1>3 DEF IInv, ReqTyped
<1>4. /\ snapCN \in Int /\ snapCN <= Len(log)
      /\ since \in Int /\ since <= Len(log)
      /\ req.till \in Int /\ req.till <= Len(log)
      /\ upd.till \in -1..Len(log)
      /\ upd.batch \in SUBSET (1..Len(log))
  BY <1>2 DEF IInv, Typed, UpdTyped, ReqTyped, CN
<1>5. \A w : Known(log, w) => Known(log', w)
  BY <1>1, <1>2, PublishLevels
<1>6. \A t \in Int : t <= Len(log) =>
        /\ \A w : Complete(log, t, w) => Complete(log', t, w)
        /\ \A w : Covers(log, w, t) => Covers(log', w, t)
        /\ \A hs, o, u, w : NotHeld(log, hs, o, t, u, w) => NotHeld(log', hs, o, t, u, w)
  BY <1>1, <1>2, PublishLevels
<1>7. \A t \in Int : Batch(log, upd.batch, t, upd.till) => Batch(log', upd.batch, t, upd.till)
  BY <1>1, <1>2, <1>4, PublishBatch
<1>8. \A n \in upd.batch : log'[n] = log[n]
  BY <1>1, <1>2, <1>4
<1>9. \A f : /\ LatestCN(log', f, upd.till) = LatestCN(log, f, upd.till)
             /\ Served(log', f, upd.till) = Served(log, f, upd.till)
  BY <1>1, <1>2, <1>4, PublishKeeps
<1>10. UpdateInv'
  BY <1>1, <1>4, <1>7, <1>8, <1>9 DEF IInv, UpdateInv
<1>11. SnapshotInv'
  BY <1>1, <1>4, <1>5, <1>6 DEF IInv, SnapshotInv
<1>12. DiskInv'
  <2>1. ASSUME NEW f, Due(log', f, snapCN)
        PROVE  Due(log, f, snapCN) /\ Current(log', f) = Current(log, f)
                 /\ Archived(log', f) = Archived(log, f)
    BY <1>1, <1>2, <1>4, <2>1, PublishDue
  <2> QED
    BY <1>1, <1>5, <2>1 DEF IInv, DiskInv
<1>13. FileInv'
  <2>1. ASSUME file # NoFile, NEW g \in Flags PROVE file[g] \in Int /\ file[g] <= Len(log)
    BY <1>2, <2>1 DEF IInv, Typed, CN
  <2> QED
    BY <1>1, <1>5, <1>6, <2>1 DEF IInv, FileInv
<1>14. HistoricInv'
  <2>1. PICK h \in {-1} \cup CN : HistoricAt(h)
    BY DEF IInv, HistoricInv
  <2>2. h \in Int /\ h <= Len(log)
    BY <1>2, <2>1 DEF CN
  <2>3. HistoricAt(h)'
    BY <1>1, <1>6, <1>7, <2>1, <2>2 DEF HistoricAt, Applied
  <2> QED
    BY <1>3, <2>1, <2>3 DEF HistoricInv
<1>15. StartInv'
  BY <1>1, <1>9 DEF IInv, StartInv
<1>16. RequestInv'
  BY <1>1, <1>4, <1>5, <1>6 DEF IInv, RequestInv, Applied
<1>17. ViewInv' /\ NoLostUpdate'
  BY <1>1, <1>4, <1>5, <1>6 DEF IInv, ViewInv, NoLostUpdate
<1> QED
  BY <1>t, <1>u, <1>r, <1>10, <1>11, <1>12, <1>13, <1>14, <1>15, <1>16, <1>17 DEF IInv

\* The synchronizer fetches what changed since the snapshot's change number.
LEMMA FetchInv == IInv /\ Fetch => IInv'
<1> SUFFICES ASSUME IInv, Fetch PROVE IInv'
  OBVIOUS
<1>1. /\ UNCHANGED <<log, snap, snapCN, hist, oldest, items, serving, file, filtered, since, view, req, restarts>>
      /\ upd.pc = "idle" /\ snapCN < Len(log)
      /\ upd' = [pc |-> "start", batch |-> ChangedSince(log, snapCN), till |-> Len(log)]
  BY DEF Fetch, proxyVars, sdkVars
<1>2. /\ log \in Seq(Change) /\ Len(log) \in Nat
      /\ snapCN \in Int /\ oldest \in Int /\ oldest <= Len(log)
      /\ since \in Int
  BY DEF IInv, Typed, CN
<1>3. /\ ChangedSince(log, snapCN) \subseteq 1..Len(log)
      /\ Batch(log, ChangedSince(log, snapCN), snapCN, Len(log))
  BY <1>2, FetchedBatch
<1>t. Typed' /\ ReqTyped'
  BY <1>1 DEF IInv, Typed, ReqTyped, CN
<1>u. UpdTyped'
  BY <1>1, <1>2, <1>3 DEF UpdTyped, CN
<1>4. UpdateInv'
  BY <1>1, <1>2, <1>3 DEF UpdateInv
<1>5. SnapshotInv' /\ FileInv' /\ RequestInv' /\ ViewInv' /\ NoLostUpdate'
  BY <1>1 DEF IInv, SnapshotInv, FileInv, RequestInv, ViewInv, NoLostUpdate
<1>6. DiskInv'
  BY <1>1 DEF IInv, DiskInv
<1>7. HistoricInv'
  <2>1. PICK h \in {-1} \cup CN : HistoricAt(h)
    BY DEF IInv, HistoricInv
  <2>2. HistoricAt(h)'
    BY <1>1, <2>1 DEF HistoricAt
  <2> QED
    BY <1>1, <2>2 DEF HistoricInv, CN
<1>8. StartInv'
  <2>1. ASSUME since >= Len(log), NEW f \in Flags PROVE view[f] = Served(log, f, Len(log))
    <3>1. CASE Current(log, f) = 0
      BY <3>1 DEF IInv, ViewInv, Known, Current, Served
    <3>2. CASE Current(log, f) # 0
      <4>1. Current(log, f) > 0 /\ Current(log, f) <= since
        BY <1>2, <2>1, <3>2, CurrentIs
      <4> QED
        BY <4>1 DEF IInv, NoLostUpdate, Complete, Current
    <3> QED
      BY <3>1, <3>2
  <2> QED
    BY <1>1, <2>1 DEF IInv, StartInv
<1> QED
  BY <1>t, <1>u, <1>4, <1>5, <1>6, <1>7, <1>8 DEF IInv

\* Update begins: the oldest known change number is set once.
LEMMA SetStartingPointInv == IInv /\ SetStartingPoint => IInv'
<1> SUFFICES ASSUME IInv, SetStartingPoint PROVE IInv'
  OBVIOUS
<1>1. /\ UNCHANGED <<log, snap, snapCN, hist, items, serving, file, filtered, since, view, req, restarts>>
      /\ upd.pc = "start"
      /\ oldest' = IF oldest = -1 \/ upd.till < oldest THEN upd.till ELSE oldest
      /\ \/ upd.batch = {} /\ upd' = NoUpdate
         \/ upd.batch # {} /\ upd' = [upd EXCEPT !.pc = "snapshot"]
  BY DEF SetStartingPoint, sdkVars
<1>2. /\ log \in Seq(Change) /\ Len(log) \in Nat
      /\ snapCN \in Int /\ since \in Int /\ oldest \in Int
      /\ upd.till \in CN /\ upd.till \in Int
      /\ upd.batch \in SUBSET (1..Len(log))
      /\ Batch(log, upd.batch, snapCN, upd.till) /\ oldest <= upd.till
      /\ upd.till >= snapCN
  BY <1>1 DEF IInv, Typed, UpdTyped, UpdateInv, CN
<1>3. /\ oldest = -1 => oldest' = upd.till /\ snapCN = -1 /\ ~serving
      /\ oldest # -1 => oldest' = oldest
      /\ oldest' # -1
  BY <1>1, <1>2 DEF IInv, StartInv, CN
<1>4. \/ upd' = [pc |-> "idle", batch |-> {}, till |-> -1] /\ upd.batch = {}
      \/ upd' = [pc |-> "snapshot", batch |-> upd.batch, till |-> upd.till] /\ upd.batch # {}
  BY <1>1 DEF IInv, UpdTyped, NoUpdate
<1>t. Typed' /\ ReqTyped'
  BY <1>1, <1>2, <1>3 DEF IInv, Typed, ReqTyped, CN
<1>u. UpdTyped'
  BY <1>1, <1>2, <1>4 DEF UpdTyped, CN
<1>5. UpdateInv'
  <2>1. ASSUME NEW n \in upd.batch, NEW f \in Flags PROVE items[f] < n
    <3>1. n > snapCN /\ n \in 1..Len(log)
      BY <1>2 DEF Batch
    <3>2. items[f] \in Int /\ (items[f] = 0 \/ items[f] <= snapCN)
      BY DEF IInv, Typed, DiskInv, CN
    <3> QED
      BY <1>2, <3>1, <3>2
  <2> QED
    BY <1>1, <1>2, <1>3, <1>4, <2>1 DEF UpdateInv, CN
<1>6. SnapshotInv' /\ FileInv' /\ ViewInv' /\ NoLostUpdate'
  BY <1>1 DEF IInv, SnapshotInv, FileInv, ViewInv, NoLostUpdate
<1>7. DiskInv'
  BY <1>1, <1>4 DEF IInv, DiskInv
<1>8. HistoricInv'
  <2>1. HistoricAt(snapCN)
    BY <1>1 DEF IInv, HistoricInv, HistoricAt
  <2>2. ASSUME snapCN = -1, NEW f PROVE ~Due(log, f, snapCN)
    BY <1>2, <2>2, CurrentIs DEF Due
  <2>3. HistoricAt(snapCN)'
    BY <1>1, <1>3, <1>4, <2>1, <2>2 DEF HistoricAt, NotHeld
  <2> QED
    BY <1>1, <2>3 DEF HistoricInv, IInv, Typed, CN
<1>9. StartInv'
  <2>1. ASSUME ~serving, oldest = -1, since >= upd.till, upd.batch = {} PROVE Absent(view)
    <3>1. ASSUME NEW f \in Flags PROVE view[f] = 0
      <4>1. view[f] = Served(log, f, upd.till)
        BY <1>1, <2>1 DEF IInv, StartInv
      <4>2. LatestCN(log, f, upd.till) > 0 => ~log[LatestCN(log, f, upd.till)].active
        <5>1. LatestCN(log, f, upd.till) \in Int
          BY <1>2, LatestInRange
        <5> QED
          BY <1>2, <1>3, <2>1, <5>1 DEF Batch
      <4> QED
        BY <4>1, <4>2 DEF Served
    <3> QED
      BY <3>1 DEF Absent
  <2> QED
    BY <1>1, <1>2, <1>3, <1>4, <2>1 DEF IInv, StartInv, Absent
<1>10. RequestInv'
  BY <1>1, <1>3 DEF IInv, RequestInv
<1> QED
  BY <1>t, <1>u, <1>5, <1>6, <1>7, <1>8, <1>9, <1>10 DEF IInv

\* The snapshot gets the batch and its change number: it is at the new level,
\* the disk is but for the batch, the summaries stay behind.
LEMMA UpdateSnapshotInv == IInv /\ UpdateSnapshot => IInv'
<1> SUFFICES ASSUME IInv, UpdateSnapshot PROVE IInv'
  OBVIOUS
<1>1. /\ UNCHANGED <<log, hist, oldest, items, serving, file, filtered, since, view, req, restarts>>
      /\ upd.pc = "snapshot"
      /\ snap' = [f \in Flags |->
                    IF f \notin Named(upd.batch) THEN snap[f]
                    ELSE LET n == CNOf(upd.batch, f) IN IF log[n].active THEN n ELSE 0]
      /\ snapCN' = upd.till
      /\ upd' = [pc |-> "historic", batch |-> upd.batch, till |-> upd.till]
  BY DEF UpdateSnapshot, sdkVars, IInv, UpdTyped
<1>2. /\ log \in Seq(Change) /\ Len(log) \in Nat
      /\ snapCN \in Int /\ upd.till \in CN /\ upd.till \in -1..Len(log) /\ upd.till \in Int
      /\ upd.batch \in SUBSET (1..Len(log)) /\ upd.batch # {}
      /\ Batch(log, upd.batch, snapCN, upd.till) /\ oldest # -1
      /\ upd.till >= snapCN
  BY <1>1 DEF IInv, Typed, UpdTyped, UpdateInv, CN
<1>3. ASSUME NEW f \in Named(upd.batch)
      PROVE  CNOf(upd.batch, f) \in upd.batch /\ log[CNOf(upd.batch, f)].name = f
  BY <1>3 DEF Named, CNOf
<1>4. ASSUME NEW f \in Flags PROVE snap'[f] \in CN
  BY <1>1, <1>2, <1>3 DEF IInv, Typed, CN
<1>t. Typed' /\ ReqTyped' /\ UpdTyped'
  <2>1. snap' \in [Flags -> CN]
    BY <1>1, <1>4
  <2> QED
    BY <1>1, <1>2, <2>1 DEF IInv, Typed, ReqTyped, UpdTyped, CN
<1>5. ASSUME NEW f \in Flags, Due(log, f, upd.till)
      PROVE  \/ f \in Named(upd.batch) /\ CNOf(upd.batch, f) = Current(log, f)
             \/ f \notin Named(upd.batch) /\ Due(log, f, snapCN)
             \/ f \notin Named(upd.batch) /\ snapCN = -1 /\ Archived(log, f)
  <2>1. \/ Current(log, f) \in upd.batch /\ \A n \in upd.batch : log[n].name = f => n = Current(log, f)
        \/ Current(log, f) <= snapCN /\ \A n \in upd.batch : log[n].name # f
        \/ snapCN = -1 /\ Archived(log, f) /\ \A n \in upd.batch : log[n].name # f
    BY <1>2, <1>5, BatchDue
  <2>2. Current(log, f) > 0 /\ log[Current(log, f)].name = f
    BY <1>2, <1>5, CurrentIs DEF Due
  <2> QED
    BY <1>3, <2>1, <2>2 DEF Named, Due
<1>6. SnapshotInv'
  <2>1. ASSUME NEW f \in Flags, Due(log, f, upd.till)
        PROVE  snap'[f] = IF Archived(log, f) THEN 0 ELSE Current(log, f)
    <3>1. \A g \in Flags : Due(log, g, snapCN) =>
             snap[g] = IF Archived(log, g) THEN 0 ELSE Current(log, g)
      BY <1>2, CompleteIs DEF IInv, SnapshotInv
    <3>2. snapCN = -1 => snap[f] = 0
      BY DEF IInv, SnapshotInv, Absent
    <3> QED
      BY <1>1, <1>5, <2>1, <3>1, <3>2 DEF Archived
  <2>2. Known(log, snap')
    <3>1. ASSUME NEW f \in Flags, Current(log, f) = 0 PROVE f \notin Named(upd.batch)
      BY <1>2, <3>1, CurrentIsLast DEF Named
    <3> QED
      BY <1>1, <3>1 DEF IInv, SnapshotInv, Known
  <2> QED
    BY <1>1, <1>2, <2>1, <2>2, CompleteIs DEF SnapshotInv, CN
<1>7. DiskInv'
  <2>1. ASSUME NEW f \in Flags PROVE items[f] \in Int /\ (items[f] = 0 \/ items[f] <= snapCN) /\ items[f] >= 0
    BY <1>1 DEF IInv, Typed, DiskInv, CN
  <2>2. ASSUME NEW f \in Flags, Due(log, f, upd.till)
        PROVE  \/ items[f] = Current(log, f)
               \/ items[f] = 0 /\ Archived(log, f)
               \/ Current(log, f) \in upd.batch
    <3>1. Due(log, f, snapCN) => items[f] = Current(log, f) \/ (items[f] = 0 /\ Archived(log, f))
      BY <1>1 DEF IInv, DiskInv
    <3> QED
      BY <1>2, <1>3, <1>5, <2>1, <2>2, <3>1
  <2> QED
    BY <1>1, <1>2, <2>1, <2>2 DEF IInv, DiskInv
<1>8. HistoricInv'
  <2>1. PICK h \in {-1} \cup CN : HistoricAt(h)
    BY DEF IInv, HistoricInv
  <2>2. HistoricAt(h)'
    BY <1>1, <1>2, <2>1 DEF HistoricAt
  <2> QED
    BY <1>1, <2>2 DEF HistoricInv, CN
<1>9. UpdateInv'
  BY <1>1, <1>2 DEF IInv, UpdateInv, CN
<1>10. StartInv' /\ RequestInv'
  <2>1. snapCN' # -1 /\ snapCN' >= snapCN
    BY <1>1, <1>2 DEF IInv, UpdateInv
  <2>2. req.till \in Int
    BY DEF IInv, ReqTyped, CN
  <2>3. StartInv'
    BY <1>1, <1>2, <2>1 DEF IInv, StartInv
  <2>4. RequestInv'
    BY <1>1, <1>2, <2>1, <2>2 DEF IInv, RequestInv
  <2> QED
    BY <2>3, <2>4
<1>11. FileInv' /\ ViewInv' /\ NoLostUpdate'
  BY <1>1 DEF IInv, FileInv, ViewInv, NoLostUpdate
<1> QED
  BY <1>t, <1>6, <1>7, <1>8, <1>9, <1>10, <1>11 DEF IInv

\* The summaries catch up with the snapshot.  What they have nothing of was
\* archived when this process first synchronized; no SDK it serves holds that.
LEMMA UpdateHistoricInv == IInv /\ UpdateHistoric => IInv'
<1> SUFFICES ASSUME IInv, UpdateHistoric PROVE IInv'
  OBVIOUS
<1>1. /\ UNCHANGED <<log, snap, snapCN, oldest, items, serving, file, filtered, since, view, req, restarts>>
      /\ upd.pc = "historic"
      /\ hist' = [f \in Flags |-> IF f \in Named(upd.batch) THEN CNOf(upd.batch, f) ELSE hist[f]]
      /\ upd' = [pc |-> "db", batch |-> upd.batch, till |-> upd.till]
  BY DEF UpdateHistoric, sdkVars, IInv, UpdTyped
<1>2. /\ log \in Seq(Change) /\ Len(log) \in Nat
      /\ snapCN \in Int /\ upd.till \in CN /\ upd.till \in -1..Len(log) /\ upd.till \in Int
      /\ upd.batch \in SUBSET (1..Len(log)) /\ upd.batch # {}
      /\ oldest # -1 /\ upd.till = snapCN
      /\ oldest \in Int /\ since \in Int /\ req.till \in Int
  BY <1>1 DEF IInv, Typed, UpdTyped, ReqTyped, UpdateInv, CN
<1>3. PICK h \in {-1} \cup CN : HistoricAt(h)
  BY DEF IInv, HistoricInv
<1>4. /\ h \in Int /\ h <= snapCN
      /\ Batch(log, upd.batch, h, upd.till)
      /\ serving => h # -1
  BY <1>1, <1>2, <1>3 DEF HistoricAt, CN
<1>5. ASSUME NEW f \in Named(upd.batch)
      PROVE  CNOf(upd.batch, f) \in upd.batch /\ log[CNOf(upd.batch, f)].name = f
  BY <1>5 DEF Named, CNOf
<1>6. ASSUME NEW f \in Flags
      PROVE  hist[f] \in CN /\ hist'[f] \in CN
  BY <1>1, <1>2, <1>5 DEF IInv, Typed, CN
<1>t. Typed' /\ ReqTyped' /\ UpdTyped'
  <2>1. hist' \in [Flags -> CN]
    BY <1>1, <1>6
  <2> QED
    BY <1>1, <1>2, <2>1 DEF IInv, Typed, ReqTyped, UpdTyped, CN
<1>7. ASSUME NEW f \in Flags, Due(log, f, upd.till)
      PROVE  \/ f \in Named(upd.batch) /\ CNOf(upd.batch, f) = Current(log, f)
             \/ f \notin Named(upd.batch) /\ Due(log, f, h)
             \/ f \notin Named(upd.batch) /\ h = -1 /\ Archived(log, f)
  <2>1. \/ Current(log, f) \in upd.batch /\ \A n \in upd.batch : log[n].name = f => n = Current(log, f)
        \/ Current(log, f) <= h /\ \A n \in upd.batch : log[n].name # f
        \/ h = -1 /\ Archived(log, f) /\ \A n \in upd.batch : log[n].name # f
    BY <1>2, <1>4, <1>7, BatchDue
  <2>2. Current(log, f) > 0 /\ log[Current(log, f)].name = f
    BY <1>2, <1>7, CurrentIs DEF Due
  <2> QED
    BY <1>5, <2>1, <2>2 DEF Named, Due
<1>8. ASSUME NEW f \in Flags PROVE hist[f] = 0 \/ hist[f] <= h
  BY <1>3 DEF HistoricAt
<1>9. HistoricAt(snapCN)'
  <2>1. \A f \in Flags : hist'[f] = 0 \/ hist'[f] <= snapCN
    BY <1>1, <1>2, <1>4, <1>5, <1>6, <1>8 DEF Batch, CN
  <2>2. Covers(log, hist', snapCN)
    <3>1. ASSUME NEW f \in Flags, Due(log, f, snapCN)
          PROVE  hist'[f] = Current(log, f) \/ (hist'[f] = 0 /\ Archived(log, f))
      <4>1. Due(log, f, h) => hist[f] = Current(log, f) \/ (hist[f] = 0 /\ Archived(log, f))
        BY <1>3 DEF HistoricAt, Covers
      <4>2. h = -1 => hist[f] = 0
        BY <1>6, <1>8 DEF CN
      <4> QED
        BY <1>1, <1>2, <1>7, <3>1, <4>1, <4>2
    <3> QED
      BY <3>1 DEF Covers
  <2>3. ASSUME NEW f \in Flags, Due(log, f, snapCN), hist'[f] = 0
        PROVE  (Due(log, f, h) /\ hist[f] = 0) \/ (h = -1 /\ ~serving)
    BY <1>1, <1>2, <1>4, <1>7, <2>3 DEF Due
  <2>4. NotHeld(log, hist', oldest, snapCN, since, view)
    <3>1. ASSUME NEW f \in Flags, Due(log, f, snapCN), hist'[f] = 0, since >= oldest, since < Current(log, f)
          PROVE  view[f] = 0
      <4>1. CASE Due(log, f, h) /\ hist[f] = 0
        BY <1>3, <3>1, <4>1 DEF HistoricAt, NotHeld
      <4>2. CASE ~serving
        <5>1. Absent(view) \/ upd.till <= oldest
          BY <1>2, <3>1, <4>2 DEF IInv, StartInv
        <5>2. Current(log, f) \in Int /\ Current(log, f) <= upd.till
          BY <1>2, <3>1, CurrentIs DEF Due
        <5> QED
          BY <1>2, <3>1, <5>1, <5>2 DEF Absent
      <4> QED
        BY <2>3, <3>1, <4>1, <4>2
    <3> QED
      BY <3>1 DEF NotHeld
  <2>5. ASSUME req.pc \in {"fetch", "reply"}
        PROVE  NotHeld(log, hist', oldest, snapCN, req.till, Applied(view, req.got))
    <3>1. serving
      BY <2>5 DEF IInv, RequestInv
    <3>2. NotHeld(log, hist, oldest, h, req.till, Applied(view, req.got))
      BY <1>3, <2>5 DEF HistoricAt
    <3> QED
      BY <2>3, <3>1, <3>2 DEF NotHeld
  <2>6. serving => snapCN # -1
    BY DEF IInv, StartInv
  <2> QED
    BY <1>1, <1>2, <2>1, <2>2, <2>4, <2>5, <2>6 DEF HistoricAt, Applied
<1>10. HistoricInv'
  BY <1>1, <1>9 DEF HistoricInv, IInv, Typed, CN
<1>11. UpdateInv'
  BY <1>1, <1>2, <1>4 DEF IInv, UpdateInv, Batch
<1>12. SnapshotInv' /\ FileInv' /\ ViewInv' /\ NoLostUpdate' /\ StartInv'
  BY <1>1 DEF IInv, SnapshotInv, FileInv, ViewInv, NoLostUpdate, StartInv
<1>13. DiskInv'
  BY <1>1 DEF IInv, DiskInv
<1>14. RequestInv'
  <2>1. \A f \in Flags : hist[f] # 0 => hist'[f] # 0
    BY <1>1, <1>2, <1>5
  <2>2. DOMAIN req.got \subseteq Flags
    BY DEF IInv, ReqTyped
  <2> QED
    BY <1>1, <2>1, <2>2 DEF IInv, RequestInv
<1> QED
  BY <1>t, <1>10, <1>11, <1>12, <1>13, <1>14 DEF IInv

\* A record of the batch is saved; with the last one the disk is at snapCN.
LEMMA SaveItemInv == ASSUME ~SavesFail, NEW n PROVE IInv /\ SaveItem(n) => IInv'
<1> SUFFICES ASSUME IInv, SaveItem(n) PROVE IInv'
  OBVIOUS
<1>1. /\ UNCHANGED <<log, snap, snapCN, hist, oldest, file, filtered, since, view, req, restarts>>
      /\ upd.pc = "db" /\ n \in upd.batch
      /\ items' = [items EXCEPT ![log[n].name] = n]
      /\ serving' = (serving \/ upd.batch = {n})
  BY DEF SaveItem, SaveAs, sdkVars
<1>2. \/ /\ upd.batch = {n} /\ upd' = [pc |-> "idle", batch |-> {}, till |-> -1]
      \/ /\ upd.batch # {n}
         /\ upd' = [pc |-> "db", batch |-> upd.batch \ {n}, till |-> upd.till]
  BY DEF SaveItem, NoUpdate, IInv, UpdTyped
<1>3. /\ log \in Seq(Change) /\ Len(log) \in Nat
      /\ snapCN \in Int /\ upd.till \in CN /\ upd.till \in -1..Len(log) /\ upd.till \in Int
      /\ upd.batch \in SUBSET (1..Len(log))
      /\ oldest # -1 /\ upd.till = snapCN /\ snapCN # -1
      /\ \A m \in upd.batch : m = LatestCN(log, log[m].name, upd.till)
      /\ items \in [Flags -> CN]
  BY <1>1 DEF IInv, Typed, UpdTyped, UpdateInv, CN
<1>4. /\ n \in 1..Len(log) /\ n <= snapCN /\ log[n].name \in Flags
      /\ n = LatestCN(log, log[n].name, snapCN)
  <2>1. n \in 1..Len(log) /\ n = LatestCN(log, log[n].name, snapCN)
    BY <1>1, <1>3
  <2>2. log[n] \in Change
    BY <1>3, <2>1
  <2> QED
    BY <1>3, <2>1, <2>2, LatestInRange DEF Change
<1>5. /\ items' \in [Flags -> CN]
      /\ items'[log[n].name] = n
      /\ \A f \in Flags : f # log[n].name => items'[f] = items[f]
  BY <1>1, <1>3, <1>4 DEF CN
<1>t. Typed' /\ ReqTyped'
  <2>1. serving' \in BOOLEAN
    BY <1>1
  <2> QED
    BY <1>1, <1>5, <2>1 DEF IInv, Typed, ReqTyped, CN
<1>u. UpdTyped'
  BY <1>1, <1>2, <1>3 DEF UpdTyped, CN
<1>6. DiskInv'
  <2>1. Known(log, items')
    BY <1>3, <1>4, <1>5, CurrentIsLast DEF IInv, DiskInv, Known
  <2>2. \A f \in Flags : items'[f] = 0 \/ items'[f] <= snapCN
    BY <1>4, <1>5 DEF IInv, DiskInv
  <2>3. ASSUME NEW f \in Flags, Due(log, f, snapCN)
        PROVE  \/ items'[f] = Current(log, f)
               \/ items'[f] = 0 /\ Archived(log, f)
               \/ upd'.pc = "db" /\ Current(log, f) \in upd'.batch
    <3>1. CASE f = log[n].name
      <4>1. LatestCN(log, f, snapCN) = Current(log, f)
        BY <1>3, <2>3, LatestSettled DEF Due, Current
      <4> QED
        BY <1>4, <1>5, <3>1, <4>1
    <3>2. CASE f # log[n].name
      <4>1. Current(log, f) # n
        BY <1>3, <2>3, <3>2, CurrentIs DEF Due
      <4>2. \/ items[f] = Current(log, f)
            \/ items[f] = 0 /\ Archived(log, f)
            \/ Current(log, f) \in upd.batch
        BY <2>3 DEF IInv, DiskInv
      <4> QED
        BY <1>2, <1>5, <3>2, <4>1, <4>2
    <3> QED
      BY <3>1, <3>2
  <2> QED
    BY <1>1, <2>1, <2>2, <2>3 DEF DiskInv
<1>7. UpdateInv'
  BY <1>1, <1>2, <1>3 DEF UpdateInv
<1>8. SnapshotInv' /\ FileInv' /\ ViewInv' /\ NoLostUpdate'
  BY <1>1 DEF IInv, SnapshotInv, FileInv, ViewInv, NoLostUpdate
<1>9. HistoricInv'
  <2>1. PICK h \in {-1} \cup CN : HistoricAt(h)
    BY DEF IInv, HistoricInv
  <2>2. h = snapCN
    BY <1>1, <2>1 DEF HistoricAt
  <2>3. upd'.pc # "historic"
    BY <1>2
  <2>4. HistoricAt(h)'
    BY <1>1, <1>3, <2>1, <2>2, <2>3 DEF HistoricAt
  <2> QED
    BY <1>1, <2>4 DEF HistoricInv, CN
<1>10. StartInv'
  <2>1. CASE upd.batch = {n}
    <3>1. serving'
      BY <1>1, <2>1
    <3> QED
      BY <1>1, <1>2, <1>3, <3>1, <2>1 DEF StartInv
  <2>2. CASE upd.batch # {n}
    <3>1. serving' <=> serving
      BY <1>1, <2>2
    <3>2. upd' = [pc |-> "db", batch |-> upd.batch \ {n}, till |-> upd.till]
      BY <1>2, <2>2
    <3> QED
      BY <1>1, <1>3, <3>1, <3>2 DEF IInv, StartInv, Absent
  <2> QED
    BY <2>1, <2>2
<1>11. RequestInv'
  <2>1. serving => serving'
    BY <1>1
  <2> QED
    BY <1>1, <2>1 DEF IInv, RequestInv
<1> QED
  BY <1>t, <1>u, <1>6, <1>7, <1>8, <1>9, <1>10, <1>11 DEF IInv

\* A kill touches a flag whose change is above the snapshot's level.
LEMMA KillLocallyInv == ASSUME NEW n PROVE IInv /\ KillLocally(n) => IInv'
<1> SUFFICES ASSUME IInv, KillLocally(n) PROVE IInv'
  OBVIOUS
<1>1. /\ UNCHANGED <<log, snapCN, hist, oldest, items, serving, upd, file, filtered, since, view, req, restarts>>
      /\ n \in 1..Len(log) /\ n > snapCN
      /\ snap[log[n].name] # 0
      /\ snap' = [snap EXCEPT ![log[n].name] = n]
  BY DEF KillLocally, sdkVars
<1>2. /\ log \in Seq(Change) /\ Len(log) \in Nat /\ snapCN \in Int
      /\ snap \in [Flags -> CN] /\ log[n].name \in Flags
  <2>1. log \in Seq(Change) /\ log[n] \in Change
    BY <1>1 DEF IInv, Typed
  <2> QED
    BY <2>1 DEF IInv, Typed, Change, CN
<1>3. /\ snap' \in [Flags -> CN]
      /\ \A f \in Flags : f # log[n].name => snap'[f] = snap[f]
  BY <1>1, <1>2 DEF CN
<1>t. Typed' /\ ReqTyped' /\ UpdTyped'
  BY <1>1, <1>3 DEF IInv, Typed, ReqTyped, UpdTyped, CN
<1>4. n <= Current(log, log[n].name) /\ Current(log, log[n].name) \in Int
  BY <1>1, <1>2, CurrentIsLast, CurrentIs
<1>5. SnapshotInv'
  <2>1. ~Due(log, log[n].name, snapCN) /\ Current(log, log[n].name) # 0
    BY <1>1, <1>2, <1>4 DEF Due
  <2>2. snapCN # -1
    BY <1>1, <1>2 DEF IInv, SnapshotInv, Absent
  <2>3. Complete(log, snapCN, snap')
    BY <1>2, <1>3, <2>1, CompleteIs DEF IInv, SnapshotInv
  <2>4. Known(log, snap')
    BY <1>3, <2>1 DEF IInv, SnapshotInv, Known
  <2> QED
    BY <1>1, <2>2, <2>3, <2>4 DEF SnapshotInv
<1>6. UpdateInv' /\ DiskInv' /\ FileInv'
  BY <1>1 DEF IInv, UpdateInv, DiskInv, FileInv
<1>7. HistoricInv'
  BY <1>1 DEF IInv, HistoricInv, HistoricAt, CN
<1>8. StartInv' /\ RequestInv' /\ ViewInv' /\ NoLostUpdate'
  BY <1>1 DEF IInv, StartInv, RequestInv, ViewInv, NoLostUpdate
<1> QED
  BY <1>t, <1>5, <1>6, <1>7, <1>8 DEF IInv

-----------------------------------------------------------------------------
(* Requests                                                                *)

\* What a step leaves alone when it changes nothing but the request.
LEMMA RequestFrame ==
    IInv /\ UNCHANGED <<log, proxyVars, upd, file, filtered, since, view, restarts>>
      => /\ Typed' /\ UpdTyped' /\ UpdateInv' /\ SnapshotInv' /\ DiskInv' /\ FileInv'
         /\ StartInv' /\ ViewInv' /\ NoLostUpdate' /\ CN' = CN
<1> SUFFICES ASSUME IInv, UNCHANGED <<log, proxyVars, upd, file, filtered, since, view, restarts>>
             PROVE  /\ Typed' /\ UpdTyped' /\ UpdateInv' /\ SnapshotInv' /\ DiskInv' /\ FileInv'
                    /\ StartInv' /\ ViewInv' /\ NoLostUpdate' /\ CN' = CN
  OBVIOUS
<1> USE DEF proxyVars
<1>1. Typed' /\ UpdTyped' /\ CN' = CN
  BY DEF IInv, Typed, UpdTyped, CN
<1>2. UpdateInv' /\ SnapshotInv' /\ DiskInv' /\ FileInv'
  BY DEF IInv, UpdateInv, SnapshotInv, DiskInv, FileInv
<1>3. StartInv' /\ ViewInv' /\ NoLostUpdate'
  BY DEF IInv, StartInv, ViewInv, NoLostUpdate
<1> QED
  BY <1>1, <1>2, <1>3

\* Requests that have read nothing from the stores' flags yet.
LEMMA ReadChangeNumberInv == IInv /\ ReadChangeNumber => IInv'
<1> SUFFICES ASSUME IInv, ReadChangeNumber PROVE IInv'
  OBVIOUS
<1>1. /\ UNCHANGED <<log, proxyVars, upd, file, filtered, since, view, restarts>>
      /\ serving /\ since = -1
      /\ req' = [pc |-> "all", till |-> snapCN, got |-> <<>>]
  BY DEF ReadChangeNumber
<1>2. snapCN \in {-1} \cup CN /\ snapCN \in Int /\ snapCN # -1
  BY <1>1 DEF IInv, Typed, StartInv, CN
<1>3. ReqTyped'
  BY <1>1, <1>2, RequestFrame DEF ReqTyped
<1>4. HistoricInv'
  BY <1>1 DEF proxyVars, IInv, HistoricInv, HistoricAt, CN
<1>5. RequestInv'
  <2>1. snapCN' = snapCN /\ serving' = serving /\ since' = since /\ oldest' = oldest
    BY <1>1 DEF proxyVars
  <2> QED
    BY <1>1, <1>2, <2>1 DEF RequestInv
<1> QED
  BY <1>1, <1>3, <1>4, <1>5, RequestFrame DEF IInv

\* A request for the summaries comes from an SDK they can serve.
LEMMA CheckSinceInv == IInv /\ CheckSince => IInv'
<1> SUFFICES ASSUME IInv, CheckSince PROVE IInv'
  OBVIOUS
<1>1. /\ UNCHANGED <<log, proxyVars, upd, file, filtered, since, view, restarts>>
      /\ serving
      /\ req' = [pc |-> IF since # -1 /\ since < oldest THEN "backend" ELSE "historic",
                 till |-> -1, got |-> <<>>]
  BY DEF CheckSince, NoRequest
<1>2. since \in Int /\ oldest \in Int
  BY DEF IInv, Typed, CN
<1>3. ReqTyped'
  BY <1>1, RequestFrame DEF ReqTyped
<1>4. HistoricInv'
  BY <1>1 DEF proxyVars, IInv, HistoricInv, HistoricAt, CN
<1>5. RequestInv'
  <2>1. snapCN' = snapCN /\ serving' = serving /\ since' = since /\ oldest' = oldest
    BY <1>1 DEF proxyVars
  <2> QED
    BY <1>1, <1>2, <2>1 DEF RequestInv
<1> QED
  BY <1>1, <1>3, <1>4, <1>5, RequestFrame DEF IInv

\* A from-scratch answer: the flags are at least as new as the change number
\* that was read before them.
LEMMA ReadAllInv == IInv /\ ReadAll => IInv'
<1> SUFFICES ASSUME IInv, ReadAll PROVE IInv'
  OBVIOUS
<1> DEFINE got == [f \in { g \in Flags : snap[g] # 0 } |-> snap[f]]
<1>1. /\ UNCHANGED <<log, proxyVars, upd, file, filtered, since, view, restarts>>
      /\ req.pc = "all"
      /\ req' = [pc |-> "reply", till |-> req.till, got |-> got]
  BY DEF ReadAll, IInv, ReqTyped
<1>2. /\ UNCHANGED <<log, snap, snapCN, hist, oldest, items, serving, upd, since, view>>
      /\ log \in Seq(Change) /\ Len(log) \in Nat
      /\ snap \in [Flags -> CN] /\ view \in [Flags -> CN]
      /\ serving /\ since = -1 /\ req.till <= snapCN /\ req.till # -1
      /\ req.till \in {-1} \cup CN /\ req.till \in Int /\ snapCN \in Int
      /\ \A f \in Flags : view[f] = 0
  BY <1>1 DEF proxyVars, IInv, Typed, ReqTyped, RequestInv, ViewInv, Absent, CN
<1>3. ReqTyped'
  BY <1>1, <1>2, RequestFrame DEF ReqTyped
<1>4. \A f \in Flags : Applied(view, got)[f] = snap[f]
  BY <1>2 DEF Applied
<1>5. Complete(log, req.till, Applied(view, got))
  <2>1. \A f : Due(log, f, req.till) => Due(log, f, snapCN)
    BY <1>2, CurrentIs DEF Due
  <2>2. \A f \in Flags : Due(log, f, snapCN) =>
          snap[f] = IF Archived(log, f) THEN 0 ELSE Current(log, f)
    BY <1>2, CompleteIs DEF IInv, SnapshotInv
  <2> HIDE DEF got
  <2> QED
    BY <1>2, <1>4, <2>1, <2>2, CompleteIs
<1>6. Known(log, Applied(view, got))
  BY <1>4 DEF IInv, SnapshotInv, Known
<1> HIDE DEF got
<1>7. RequestInv'
  BY <1>1, <1>2, <1>5, <1>6 DEF RequestInv
<1>8. HistoricInv'
  <2>1. PICK h \in {-1} \cup CN : HistoricAt(h)
    BY DEF IInv, HistoricInv
  <2>2. NotHeld(log, hist, oldest, h, req.till, Applied(view, got))
    <3>1. ASSUME NEW f \in Flags, Due(log, f, h), hist[f] = 0 PROVE snap[f] = 0
      <4>1. Archived(log, f)
        BY <2>1, <3>1 DEF HistoricAt, Covers, Due
      <4>2. Due(log, f, snapCN)
        BY <1>2, <2>1, <3>1, CurrentIs DEF HistoricAt, Due, CN
      <4> QED
        BY <1>2, <4>1, <4>2, CompleteIs DEF IInv, SnapshotInv
    <3> QED
      BY <1>4, <3>1 DEF NotHeld
  <2>3. HistoricAt(h)'
    BY <1>1, <1>2, <2>1, <2>2 DEF HistoricAt
  <2> QED
    BY <1>1, <2>3, RequestFrame DEF HistoricInv
<1> QED
  BY <1>1, <1>3, <1>7, <1>8, RequestFrame DEF IInv

\* The greatest element of a set of change numbers exists.
LEMMA MaxIs ==
    ASSUME NEW cn \in Nat, NEW S \in SUBSET (-1..cn), S # {}
    PROVE  Max(S) \in S /\ \A n \in S : n <= Max(S)
<1>1. \E n \in S : \A m \in S : m <= n
  <2>1. CASE S = {-1}
    BY <2>1
  <2>2. CASE S # {-1}
    <3> DEFINE T == { n + 1 : n \in S \ {-1} }
    <3>1. PICK k \in S : k # -1
      BY <2>2
    <3>2. k \in 0..cn /\ k + 1 \in T
      BY <3>1
    <3>3. T \subseteq 1..(cn + 1) /\ T # {} /\ cn + 1 \in Nat
      BY <3>2
    <3> HIDE DEF T
    <3>4. PICK t \in T : \A u \in T : u <= t
      BY <3>3, LastOf
    <3> USE DEF T
    <3>5. PICK n \in S \ {-1} : t = n + 1
      OBVIOUS
    <3>6. ASSUME NEW m \in S PROVE m <= n
      <4>1. CASE m = -1
        BY <4>1
      <4>2. CASE m # -1
        <5>1. m + 1 \in T
          BY <4>2
        <5> QED
          BY <3>4, <3>5, <5>1
      <4> QED
        BY <4>1, <4>2
    <3> QED
      BY <3>6
  <2> QED
    BY <2>1, <2>2
<1> QED
  BY <1>1 DEF Max

\* The summaries are read: an answer has every change up to its till, and takes
\* nothing away that is still published.
LEMMA ReadHistoricInv == IInv /\ ReadHistoric => IInv'
<1> SUFFICES ASSUME IInv, ReadHistoric PROVE IInv'
  OBVIOUS
<1> DEFINE views == { f \in Flags : hist[f] > since /\ hist[f] > 0
                                      /\ (since = -1 => log[hist[f]].active) }
           till == Max({since} \cup { hist[f] : f \in views })
           got == [f \in views |-> IF log[hist[f]].active THEN hist[f] ELSE 0]
<1>1. /\ UNCHANGED <<log, proxyVars, upd, file, filtered, since, view, restarts>>
      /\ req.pc = "historic"
      /\ req' = [pc |-> "fetch", till |-> till, got |-> got]
  BY DEF ReadHistoric
<1>2. /\ UNCHANGED <<log, snap, snapCN, hist, oldest, items, serving, upd, since, view>>
      /\ log \in Seq(Change) /\ Len(log) \in Nat
      /\ hist \in [Flags -> CN] /\ view \in [Flags -> CN]
      /\ serving /\ (since = -1 \/ since >= oldest)
      /\ since \in {-1} \cup CN /\ since \in Int /\ snapCN \in Int /\ oldest \in Int
      /\ since = -1 => \A f \in Flags : view[f] = 0
      /\ \A f \in Flags : hist[f] \in Int
  BY <1>1 DEF proxyVars, IInv, Typed, ReqTyped, RequestInv, ViewInv, Absent, CN
<1>3. PICK h \in {-1} \cup CN : HistoricAt(h)
  BY DEF IInv, HistoricInv
<1>4. h \in Int /\ h <= snapCN /\ h <= Len(log)
  BY <1>2, <1>3 DEF HistoricAt, CN
<1>5. /\ till \in {since} \cup { hist[f] : f \in views }
      /\ since <= till
      /\ \A f \in views : hist[f] <= till
  <2> DEFINE S == {since} \cup { hist[f] : f \in views }
  <2>1. S \in SUBSET (-1..Len(log)) /\ S # {}
    BY <1>2 DEF CN
  <2> HIDE DEF S
  <2>2. Max(S) \in S /\ \A n \in S : n <= Max(S)
    BY <1>2, <2>1, MaxIs
  <2> QED
    BY <2>2 DEF S
<1>6. /\ till \in {-1} \cup CN /\ till \in Int
      /\ views = {} => till = since
      /\ views # {} => till <= h
  <2>1. \A f \in Flags : hist[f] = 0 \/ hist[f] <= h
    BY <1>3 DEF HistoricAt
  <2>2. views = {} => till = since
    BY <1>5
  <2>3. till = since \/ \E f \in views : till = hist[f]
    BY <1>5
  <2>4. ASSUME views # {} PROVE till # since
    BY <1>2, <1>5, <2>4
  <2> HIDE DEF till
  <2> QED
    BY <1>2, <1>4, <2>1, <2>2, <2>3, <2>4 DEF CN
<1>7. \A f \in views : got[f] \in CN
  BY <1>2 DEF CN
<1>8. DOMAIN got = views /\ views \subseteq Flags /\ \A f \in views : hist[f] # 0
  BY <1>2
<1> HIDE DEF till
<1>9. ReqTyped'
  BY <1>1, <1>6, <1>7, <1>8, RequestFrame DEF ReqTyped
<1>10. \A f \in Flags : Applied(view, got)[f] = IF f \in views THEN got[f] ELSE view[f]
  BY DEF Applied
<1>11. Complete(log, till, Applied(view, got))
  <2>1. ASSUME NEW f \in Flags, Due(log, f, till)
        PROVE  Applied(view, got)[f] = IF Archived(log, f) THEN 0 ELSE Current(log, f)
    <3>1. ASSUME Due(log, f, since) PROVE view[f] = IF Archived(log, f) THEN 0 ELSE Current(log, f)
      BY <1>2, <3>1, CompleteIs DEF IInv, NoLostUpdate
    <3>2. CASE views = {}
      BY <1>6, <1>10, <2>1, <3>1, <3>2
    <3>3. CASE views # {}
      <4>1. Due(log, f, h)
        BY <1>2, <1>4, <1>6, <2>1, <3>3, CurrentIs DEF Due
      <4>2. hist[f] = Current(log, f) \/ (hist[f] = 0 /\ Archived(log, f))
        BY <1>3, <4>1 DEF HistoricAt, Covers
      <4>3. CASE hist[f] = Current(log, f)
        <5>1. CASE f \in views
          BY <1>10, <4>3, <5>1 DEF Archived
        <5>2. CASE f \notin views
          <6>1. Due(log, f, since) \/ (since = -1 /\ Archived(log, f))
            BY <1>2, <2>1, <4>3, <5>2 DEF Due, Archived
          <6> QED
            BY <1>2, <1>10, <3>1, <5>2, <6>1
        <5> QED
          BY <5>1, <5>2
      <4>4. CASE hist[f] = 0 /\ Archived(log, f)
        <5>1. f \notin views
          BY <4>4
        <5>2. view[f] = 0
          <6>1. CASE since = -1
            BY <1>2, <6>1
          <6>2. CASE Due(log, f, since)
            BY <3>1, <4>4, <6>2
          <6>3. CASE since >= oldest /\ ~Due(log, f, since)
            <7>1. since < Current(log, f)
              BY <1>2, <2>1, <6>3, CurrentIs DEF Due
            <7> QED
              BY <1>3, <4>1, <4>4, <6>3, <7>1 DEF HistoricAt, NotHeld
          <6> QED
            BY <1>2, <6>1, <6>2, <6>3
        <5> QED
          BY <1>10, <4>4, <5>1, <5>2
      <4> QED
        BY <4>2, <4>3, <4>4
    <3> QED
      BY <3>2, <3>3
  <2> QED
    BY <1>2, <2>1, CompleteIs
<1>12. NotHeld(log, hist, oldest, h, till, Applied(view, got))
  <2>1. ASSUME NEW f \in Flags, Due(log, f, h), hist[f] = 0, till >= oldest, till < Current(log, f)
        PROVE  Applied(view, got)[f] = 0
    <3>1. f \notin views
      BY <2>1
    <3>2. since < Current(log, f)
      BY <1>2, <1>5, <1>6, <2>1, CurrentIs
    <3>3. view[f] = 0
      BY <1>2, <1>3, <2>1, <3>2 DEF HistoricAt, NotHeld
    <3> QED
      BY <1>10, <3>1, <3>3
  <2> QED
    BY <2>1 DEF NotHeld
<1>13. till <= snapCN \/ views = {}
  BY <1>2, <1>4, <1>6
<1>14. till = -1 => views = {} /\ since = -1
  <2>1. ASSUME till = -1 PROVE views = {}
    <3>1. \A f \in views : hist[f] > 0 /\ hist[f] <= -1
      BY <1>5, <2>1
    <3> QED
      BY <1>2, <3>1
  <2> QED
    BY <1>6, <2>1
<1> HIDE DEF got, views
<1>15. RequestInv'
  BY <1>1, <1>2, <1>8, <1>11, <1>13, <1>14 DEF RequestInv
<1>16. HistoricInv'
  <2>1. HistoricAt(h)'
    BY <1>1, <1>2, <1>3, <1>12 DEF HistoricAt
  <2> QED
    BY <1>1, <2>1, RequestFrame DEF HistoricInv
<1> QED
  BY <1>1, <1>9, <1>15, <1>16, RequestFrame DEF IInv

\* The flags come from a snapshot that is at least as new as the summaries were;
\* one that is gone from it has a change the SDK is yet to be told of.
LEMMA FetchManyInv == IInv /\ FetchMany => IInv'
<1> SUFFICES ASSUME IInv, FetchMany PROVE IInv'
  OBVIOUS
<1> DEFINE sent == { f \in DOMAIN req.got : req.got[f] = 0 \/ snap[f] # 0 }
           got == [f \in sent |-> IF req.got[f] = 0 THEN 0 ELSE snap[f]]
<1>1. /\ UNCHANGED <<log, proxyVars, upd, file, filtered, since, view, restarts>>
      /\ req.pc = "fetch"
      /\ req' = [pc |-> "reply", till |-> req.till, got |-> got]
  BY DEF FetchMany, IInv, ReqTyped
<1>2. /\ UNCHANGED <<log, snap, snapCN, hist, oldest, items, serving, upd, since, view>>
      /\ log \in Seq(Change) /\ Len(log) \in Nat
      /\ snap \in [Flags -> CN] /\ view \in [Flags -> CN]
      /\ serving
      /\ req.till \in {-1} \cup CN /\ req.till \in Int /\ snapCN \in Int
      /\ DOMAIN req.got \subseteq Flags
      /\ \A f \in DOMAIN req.got : req.got[f] \in CN /\ hist[f] # 0
      /\ req.till <= snapCN \/ DOMAIN req.got = {}
      /\ Complete(log, req.till, Applied(view, req.got))
      /\ req.till = -1 => DOMAIN req.got = {} /\ since = -1
  BY <1>1 DEF proxyVars, IInv, Typed, ReqTyped, RequestInv, CN
<1>3. sent \subseteq DOMAIN req.got /\ sent \subseteq Flags /\ DOMAIN got = sent
  BY <1>2
<1>4. ReqTyped'
  <2>1. \A f \in sent : got[f] \in CN
    BY <1>2, <1>3 DEF CN
  <2> HIDE DEF got, sent
  <2> QED
    BY <1>1, <1>2, <1>3, <2>1, RequestFrame DEF ReqTyped
<1>5. \A f \in Flags : Applied(view, got)[f] = IF f \in sent THEN got[f] ELSE view[f]
  BY DEF Applied
<1>6. \A f \in Flags : Applied(view, req.got)[f] = IF f \in DOMAIN req.got THEN req.got[f] ELSE view[f]
  BY DEF Applied
<1>7. Complete(log, req.till, Applied(view, got))
  <2>1. ASSUME NEW f \in Flags, Due(log, f, req.till)
        PROVE  Applied(view, got)[f] = IF Archived(log, f) THEN 0 ELSE Current(log, f)
    <3>1. Applied(view, req.got)[f] = IF Archived(log, f) THEN 0 ELSE Current(log, f)
      BY <1>2, <2>1, CompleteIs
    <3>2. CASE f \notin DOMAIN req.got
      BY <1>3, <1>5, <1>6, <3>1, <3>2
    <3>3. CASE f \in DOMAIN req.got
      <4>1. Due(log, f, snapCN)
        BY <1>2, <2>1, <3>3, CurrentIs DEF Due
      <4>2. snap[f] = IF Archived(log, f) THEN 0 ELSE Current(log, f)
        BY <1>2, <4>1, CompleteIs DEF IInv, SnapshotInv
      <4>3. req.got[f] = IF Archived(log, f) THEN 0 ELSE Current(log, f)
        BY <1>6, <3>1, <3>3
      <4>4. f \in sent
        BY <3>3, <4>2, <4>3
      <4> QED
        BY <1>5, <4>2, <4>3, <4>4
    <3> QED
      BY <3>2, <3>3
  <2> QED
    BY <1>2, <2>1, CompleteIs
<1>8. Known(log, Applied(view, got))
  <2>1. \A f \in Flags : Current(log, f) = 0 => snap[f] = 0 /\ view[f] = 0
    BY DEF IInv, SnapshotInv, ViewInv, Known
  <2>2. \A f \in sent : got[f] = 0 \/ got[f] = snap[f]
    OBVIOUS
  <2> HIDE DEF got, sent
  <2> QED
    BY <1>5, <2>1, <2>2 DEF Known
<1>9. req.till = -1 => Absent(Applied(view, got))
  BY <1>2, <1>3, <1>5 DEF IInv, ViewInv, Absent
<1>10. PICK h \in {-1} \cup CN : HistoricAt(h)
  BY DEF IInv, HistoricInv
<1>11. NotHeld(log, hist, oldest, h, req.till, Applied(view, got))
  <2>1. NotHeld(log, hist, oldest, h, req.till, Applied(view, req.got))
    BY <1>1, <1>10 DEF HistoricAt
  <2>2. \A f \in Flags : hist[f] = 0 => Applied(view, got)[f] = Applied(view, req.got)[f]
    BY <1>2, <1>3, <1>5, <1>6
  <2> QED
    BY <2>1, <2>2 DEF NotHeld
<1> HIDE DEF got, sent
<1>12. RequestInv'
  BY <1>1, <1>2, <1>7, <1>8, <1>9 DEF RequestInv
<1>13. HistoricInv'
  <2>1. HistoricAt(h)'
    BY <1>1, <1>2, <1>10, <1>11 DEF HistoricAt
  <2> QED
    BY <1>1, <2>1, RequestFrame DEF HistoricInv
<1> QED
  BY <1>1, <1>4, <1>12, <1>13, RequestFrame DEF IInv

\* The backend's answer has everything.
LEMMA FetchFromBackendInv == IInv /\ FetchFromBackend => IInv'
<1> SUFFICES ASSUME IInv, FetchFromBackend PROVE IInv'
  OBVIOUS
<1> DEFINE batch == ChangedSince(log, since)
           till == Max({since, Len(log)})
           got == [f \in Named(batch) |-> Served(log, f, Len(log))]
<1>1. /\ UNCHANGED <<log, proxyVars, upd, file, filtered, since, view, restarts>>
      /\ req.pc = "backend"
      /\ req' = [pc |-> "reply", till |-> till, got |-> got]
  BY DEF FetchFromBackend
<1>2. /\ UNCHANGED <<log, snap, snapCN, hist, oldest, items, serving, upd, since, view>>
      /\ log \in Seq(Change) /\ Len(log) \in Nat
      /\ serving /\ since # -1 /\ since \in CN /\ since \in Int /\ since <= Len(log)
      /\ view \in [Flags -> CN]
  BY <1>1 DEF proxyVars, IInv, Typed, RequestInv, CN
<1>3. till = Len(log)
  <2>1. {since, Len(log)} \in SUBSET (-1..Len(log)) /\ {since, Len(log)} # {}
    BY <1>2 DEF CN
  <2>2. Max({since, Len(log)}) \in {since, Len(log)} /\ \A n \in {since, Len(log)} : n <= Max({since, Len(log)})
    BY <1>2, <2>1, MaxIs
  <2> QED
    BY <1>2, <2>2
<1>4. batch \subseteq 1..Len(log) /\ Batch(log, batch, since, Len(log))
  BY <1>2, FetchedBatch
<1>5. DOMAIN got = Named(batch) /\ Named(batch) \subseteq Flags
  <2>1. \A n \in batch : log[n] \in Change
    BY <1>2, <1>4
  <2> HIDE DEF batch
  <2> QED
    BY <2>1 DEF Named, Change
<1>6. \A f \in Flags : Applied(view, got)[f]
                          = IF f \in Named(batch) THEN Served(log, f, Len(log)) ELSE view[f]
  BY DEF Applied
<1>7. \A f : Served(log, f, Len(log)) \in CN
  BY <1>2, LatestInRange DEF Served, CN
<1>8. ReqTyped'
  <2>1. \A f \in DOMAIN got : got[f] \in CN
    BY <1>7
  <2> HIDE DEF got, till, batch
  <2> QED
    BY <1>1, <1>2, <1>3, <1>5, <2>1, RequestFrame DEF ReqTyped, CN
<1> HIDE DEF got, batch
<1>9. Complete(log, till, Applied(view, got))
  <2>1. ASSUME NEW f \in Flags, Due(log, f, Len(log))
        PROVE  Applied(view, got)[f] = IF Archived(log, f) THEN 0 ELSE Current(log, f)
    <3>1. Served(log, f, Len(log)) = IF Archived(log, f) THEN 0 ELSE Current(log, f)
      BY <2>1 DEF Served, Due, Archived, Current
    <3>2. Current(log, f) \in batch \/ Current(log, f) <= since
      BY <1>2, <1>4, <2>1, BatchDue
    <3>3. CASE f \in Named(batch)
      BY <1>6, <3>1, <3>3
    <3>4. CASE f \notin Named(batch)
      <4>1. log[Current(log, f)].name = f
        BY <1>2, <2>1, CurrentIs DEF Due
      <4>2. Due(log, f, since)
        BY <2>1, <3>2, <3>4, <4>1 DEF Named, Due
      <4> QED
        BY <1>2, <1>6, <3>4, <4>2, CompleteIs DEF IInv, NoLostUpdate
    <3> QED
      BY <3>3, <3>4
  <2> QED
    BY <1>2, <1>3, <2>1, CompleteIs
<1>10. Known(log, Applied(view, got))
  BY <1>6 DEF IInv, ViewInv, Known, Served, Current
<1>11. RequestInv'
  BY <1>1, <1>2, <1>3, <1>9, <1>10 DEF RequestInv
<1>12. HistoricInv'
  <2>1. PICK h \in {-1} \cup CN : HistoricAt(h)
    BY DEF IInv, HistoricInv
  <2>2. NotHeld(log, hist, oldest, h, till, Applied(view, got))
    BY <1>2, <1>3, CurrentIs DEF NotHeld
  <2>3. HistoricAt(h)'
    BY <1>1, <1>2, <2>1, <2>2 DEF HistoricAt
  <2> QED
    BY <1>1, <2>3, RequestFrame DEF HistoricInv
<1> QED
  BY <1>1, <1>8, <1>11, <1>12, RequestFrame DEF IInv

\* The SDK takes the answer in.
LEMMA ReceiveInv == IInv /\ Receive => IInv'
<1> SUFFICES ASSUME IInv, Receive PROVE IInv'
  OBVIOUS
<1>1. /\ UNCHANGED <<log, snap, snapCN, hist, oldest, items, serving, upd, file, filtered, restarts>>
      /\ req.pc = "reply"
      /\ view' = Applied(view, req.got)
      /\ since' = req.till
      /\ req' = [pc |-> "idle", till |-> -1, got |-> <<>>]
  BY DEF Receive, proxyVars, Applied, NoRequest
<1>2. /\ view \in [Flags -> CN] /\ serving
      /\ req.till \in {-1} \cup CN
      /\ \A f \in DOMAIN req.got : req.got[f] \in CN
      /\ Complete(log, req.till, Applied(view, req.got))
      /\ Known(log, Applied(view, req.got))
      /\ req.till = -1 => Absent(Applied(view, req.got))
  BY <1>1 DEF IInv, Typed, ReqTyped, RequestInv
<1>3. Applied(view, req.got) \in [Flags -> CN]
  BY <1>2 DEF Applied
<1>t. Typed' /\ ReqTyped' /\ UpdTyped'
  BY <1>1, <1>2, <1>3 DEF IInv, Typed, ReqTyped, UpdTyped, CN
<1>4. UpdateInv' /\ SnapshotInv' /\ DiskInv' /\ FileInv'
  BY <1>1 DEF IInv, UpdateInv, SnapshotInv, DiskInv, FileInv
<1>5. HistoricInv'
  <2>1. PICK h \in {-1} \cup CN : HistoricAt(h)
    BY DEF IInv, HistoricInv
  <2>2. HistoricAt(h)'
    BY <1>1, <2>1 DEF HistoricAt
  <2> QED
    BY <1>1, <2>2 DEF HistoricInv, CN
<1>6. StartInv' /\ RequestInv'
  BY <1>1, <1>2 DEF IInv, StartInv, RequestInv
<1>7. ViewInv' /\ NoLostUpdate'
  BY <1>1, <1>2 DEF ViewInv, NoLostUpdate
<1> QED
  BY <1>t, <1>4, <1>5, <1>6, <1>7 DEF IInv

-----------------------------------------------------------------------------
(* Snapshot files and restarts                                             *)

\* A file exported between updates is at the level of its highest record.
LEMMA ExportInv == ASSUME ~ExportMidWrite PROVE IInv /\ Export => IInv'
<1> SUFFICES ASSUME IInv, Export PROVE IInv'
  OBVIOUS
<1>1. /\ UNCHANGED <<log, snap, snapCN, hist, oldest, items, serving, upd, filtered, since, view, req, restarts>>
      /\ upd.pc # "db"
      /\ file' = items
  BY DEF Export, proxyVars, sdkVars
<1>2. /\ items \in [Flags -> CN] /\ log \in Seq(Change) /\ snapCN \in Int /\ Len(log) \in Nat
      /\ upd.pc = "historic" => \A n \in upd.batch, f \in Flags : items[f] < n
      /\ upd.batch \subseteq 1..Len(log)
  BY DEF IInv, Typed, UpdTyped, UpdateInv, CN
<1>t. Typed' /\ ReqTyped' /\ UpdTyped'
  BY <1>1, <1>2 DEF IInv, Typed, ReqTyped, UpdTyped, CN
<1>3. FileInv'
  <2>1. ASSUME NEW g \in Flags PROVE Covers(log, items, items[g])
    <3>1. ASSUME NEW f \in Flags, Due(log, f, items[g])
          PROVE  items[f] = Current(log, f) \/ (items[f] = 0 /\ Archived(log, f))
      <4>1. items[g] \in Int /\ (items[g] = 0 \/ items[g] <= snapCN)
        BY <1>2 DEF IInv, DiskInv, CN
      <4>2. Due(log, f, snapCN)
        BY <1>2, <3>1, <4>1, CurrentIs DEF Due
      <4>3. upd.pc = "historic" => Current(log, f) \notin upd.batch
        BY <1>2, <3>1, <4>1, CurrentIs DEF Due
      <4> QED
        BY <1>1, <4>2, <4>3 DEF IInv, DiskInv
    <3> QED
      BY <3>1 DEF Covers
  <2> QED
    BY <1>1, <2>1 DEF FileInv, IInv, DiskInv
<1>4. UpdateInv' /\ SnapshotInv' /\ DiskInv'
  BY <1>1 DEF IInv, UpdateInv, SnapshotInv, DiskInv
<1>5. HistoricInv'
  BY <1>1 DEF IInv, HistoricInv, HistoricAt, CN
<1>6. StartInv' /\ RequestInv' /\ ViewInv' /\ NoLostUpdate'
  BY <1>1 DEF IInv, StartInv, RequestInv, ViewInv, NoLostUpdate
<1> QED
  BY <1>t, <1>3, <1>4, <1>5, <1>6 DEF IInv

\* A new process starts at the level of the records it is given, or at none.
LEMMA RestartInv ==
    ASSUME NEW records \in [Flags -> CN], NEW cn \in {-1} \cup CN, NEW haveSnapshot \in BOOLEAN,
           Known(log, records), Covers(log, records, cn),
           haveSnapshot <=> cn # -1,
           \A f \in Flags : records[f] = 0 \/ records[f] <= cn
    PROVE  IInv /\ Restart(records, cn, haveSnapshot) => IInv'
<1> SUFFICES ASSUME IInv, Restart(records, cn, haveSnapshot) PROVE IInv'
  OBVIOUS
<1>1. /\ UNCHANGED <<log, file, filtered, since, view>>
      /\ restarts < MaxRestarts /\ restarts' = restarts + 1
      /\ upd' = [pc |-> "idle", batch |-> {}, till |-> -1]
      /\ req' = [pc |-> "idle", till |-> -1, got |-> <<>>]
      /\ items' = records
      /\ snap' = [f \in Flags |-> IF records[f] # 0 /\ log[records[f]].active THEN records[f] ELSE 0]
      /\ hist' = snap'
      /\ snapCN' = cn /\ oldest' = cn
      /\ serving' = haveSnapshot
  BY DEF Restart, NoUpdate, NoRequest
<1>2. /\ log \in Seq(Change) /\ Len(log) \in Nat /\ cn \in Int /\ cn >= -1
      /\ since \in Int /\ restarts \in 0..MaxRestarts /\ MaxRestarts \in Nat
      /\ \A f \in Flags : records[f] \in Nat
  BY ProxyAssumption DEF IInv, Typed, CN
<1>3. \A f \in Flags : snap'[f] = records[f] \/ snap'[f] = 0
  BY <1>1
<1>t. Typed' /\ ReqTyped' /\ UpdTyped'
  <2>1. snap' \in [Flags -> CN]
    BY <1>1 DEF CN
  <2>2. serving' \in BOOLEAN
    BY <1>1
  <2>3. restarts' \in 0..MaxRestarts
    BY <1>1, <1>2
  <2>4. Typed'
    BY <1>1, <2>1, <2>2, <2>3 DEF IInv, Typed, CN
  <2>5. ReqTyped' /\ UpdTyped'
    BY <1>1 DEF ReqTyped, UpdTyped, CN
  <2> QED
    BY <2>4, <2>5
<1>4. ASSUME NEW f \in Flags, Due(log, f, cn)
      PROVE  snap'[f] = IF Archived(log, f) THEN 0 ELSE Current(log, f)
  BY <1>1, <1>4 DEF Covers, Due, Archived
<1>5. SnapshotInv'
  <2>1. Complete(log, cn, snap')
    BY <1>2, <1>4, CompleteIs
  <2>2. Known(log, snap')
    BY <1>3 DEF Known
  <2>3. cn = -1 => Absent(snap')
    BY <1>2, <1>3 DEF Absent
  <2> QED
    BY <1>1, <2>1, <2>2, <2>3 DEF SnapshotInv
<1>6. DiskInv'
  BY <1>1 DEF DiskInv, Covers
<1>7. HistoricAt(cn)'
  <2>1. Covers(log, hist', cn)
    BY <1>1, <1>4 DEF Covers
  <2>2. NotHeld(log, hist', cn, cn, since, view)
    BY <1>2, CurrentIs DEF NotHeld, Due
  <2>3. \A f \in Flags : hist'[f] = 0 \/ hist'[f] <= cn
    BY <1>1, <1>3
  <2> QED
    BY <1>1, <1>2, <2>1, <2>2, <2>3 DEF HistoricAt
<1>8. HistoricInv'
  BY <1>1, <1>7 DEF HistoricInv, CN
<1>9. UpdateInv' /\ RequestInv'
  BY <1>1 DEF UpdateInv, RequestInv
<1>10. FileInv' /\ ViewInv' /\ NoLostUpdate'
  BY <1>1 DEF IInv, FileInv, ViewInv, NoLostUpdate
<1>11. StartInv'
  BY <1>1 DEF StartInv
<1> QED
  BY <1>t, <1>5, <1>6, <1>8, <1>9, <1>10, <1>11 DEF IInv

\* Without a file a process starts at level -1, with nothing.
LEMMA RestartBlankInv == IInv /\ RestartBlank => IInv'
<1> SUFFICES ASSUME IInv, RestartBlank PROVE IInv'
  OBVIOUS
<1>1. Nothing \in [Flags -> CN] /\ log \in Seq(Change)
  BY DEF Nothing, IInv, Typed, CN
<1>2. Known(log, Nothing) /\ \A f \in Flags : Nothing[f] = 0
  BY DEF Nothing, Known
<1>3. Covers(log, Nothing, -1)
  BY <1>1, CurrentIs DEF Covers, Due
<1> QED
  BY <1>1, <1>2, <1>3, RestartInv DEF RestartBlank

\* From a file it starts at the level of the highest record (snapshotFromDisk).
LEMMA RestartFromFileInv == IInv /\ RestartFromFile => IInv'
<1> SUFFICES ASSUME IInv, RestartFromFile PROVE IInv'
  OBVIOUS
<1> DEFINE S == { file[f] : f \in Flags } \cup {0}
<1>1. file # NoFile /\ Restart(file, Max(S), TRUE)
  BY DEF RestartFromFile
<1>2. /\ file \in [Flags -> CN] /\ log \in Seq(Change) /\ Len(log) \in Nat
      /\ Known(log, file) /\ \A g \in Flags : Covers(log, file, file[g])
  BY <1>1 DEF IInv, Typed, FileInv
<1>3. S \in SUBSET (-1..Len(log)) /\ S # {} /\ S \subseteq CN
  BY <1>2 DEF CN
<1>4. Max(S) \in S /\ \A n \in S : n <= Max(S)
  <2> HIDE DEF S
  <2> QED
    BY <1>2, <1>3, MaxIs
<1>5. Covers(log, file, Max(S))
  <2>1. CASE Max(S) = 0
    BY <1>2, <2>1, CurrentIs DEF Covers, Due
  <2>2. CASE Max(S) # 0
    BY <1>2, <1>4, <2>2
  <2> QED
    BY <2>1, <2>2
<1>6. \A f \in Flags : file[f] <= Max(S)
  BY <1>4
<1> HIDE DEF S
<1>7. Max(S) \in CN /\ Max(S) # -1
  <2>1. Max(S) \in CN
    BY <1>3, <1>4
  <2> QED
    BY <1>2, <2>1 DEF CN
<1> QED
  BY <1>1, <1>2, <1>5, <1>6, <1>7, RestartInv

-----------------------------------------------------------------------------
(* Theorems                                                                *)

\* Every step preserves the invariant.
LEMMA NextInv == ASSUME ~ExportMidWrite, ~SavesFail PROVE IInv /\ [Next]_vars => IInv'
<1> SUFFICES ASSUME IInv, [Next]_vars PROVE IInv'
  OBVIOUS
<1>1. CASE \E change \in Change : Publish(change)
  BY <1>1, PublishInv
<1>2. CASE Fetch
  BY <1>2, FetchInv
<1>3. CASE Update
  BY <1>3, SetStartingPointInv, UpdateSnapshotInv, UpdateHistoricInv, SaveItemInv DEF Update
<1>4. CASE \E n \in 1..MaxCN : KillLocally(n)
  BY <1>4, KillLocallyInv
<1>5. CASE Request
  BY <1>5, ReadChangeNumberInv, ReadAllInv, CheckSinceInv, ReadHistoricInv, FetchManyInv,
     FetchFromBackendInv, ReceiveInv DEF Request
<1>6. CASE Export
  BY <1>6, ExportInv
<1>7. CASE RestartBlank \/ RestartFromFile
  BY <1>7, RestartBlankInv, RestartFromFileInv
<1>8. CASE UNCHANGED vars
  <2>1. UNCHANGED <<log, snap, snapCN, hist, oldest, items, serving, upd, file, filtered, since, view, req, restarts>>
    BY <1>8 DEF vars, proxyVars, sdkVars
  <2>2. Typed' /\ UpdTyped' /\ ReqTyped' /\ UpdateInv' /\ SnapshotInv' /\ DiskInv' /\ FileInv'
    BY <2>1 DEF IInv, Typed, UpdTyped, ReqTyped, UpdateInv, SnapshotInv, DiskInv, FileInv, CN
  <2>3. HistoricInv'
    BY <2>1 DEF IInv, HistoricInv, HistoricAt, CN
  <2>4. StartInv' /\ RequestInv' /\ ViewInv' /\ NoLostUpdate'
    BY <2>1 DEF IInv, StartInv, RequestInv, ViewInv, NoLostUpdate
  <2> QED
    BY <2>2, <2>3, <2>4 DEF IInv
<1> QED
  BY <1>1, <1>2, <1>3, <1>4, <1>5, <1>6, <1>7, <1>8 DEF Next

\* No SDK loses an update, whatever it reads from which store during updates,
\* kills and restarts (splits.go ChangesSince, Update, snapshotFromDisk), if no
\* snapshot is exported while a batch is being written and no record fails to be saved.
THEOREM ProxyKeepsUpdates == ASSUME ~ExportMidWrite, ~SavesFail PROVE Spec => []NoLostUpdate
<1>1. Init => IInv
  BY InitInv
<1>2. IInv /\ [Next]_vars => IInv'
  BY NextInv
<1>3. IInv => NoLostUpdate
  BY DEF IInv
<1> QED
  BY <1>1, <1>2, <1>3, PTL DEF Spec

\* The stores of splits.go stay well typed, and an update that is past its
\* starting point has records to write, if snapshots have all that was written.
THEOREM ProxyTypeCorrect == ASSUME ~ExportMidWrite, ~SavesFail PROVE Spec => []TypeOK
<1>1. Init => IInv
  BY InitInv
<1>2. IInv /\ [Next]_vars => IInv'
  BY NextInv
<1>3. IInv => TypeOK
  <2> SUFFICES ASSUME IInv PROVE TypeOK
    OBVIOUS
  <2>1. CN \subseteq CNs /\ MaxCN \in Nat /\ Len(log) \in Nat
    BY ProxyAssumption DEF IInv, Typed, CN, CNs
  <2>2. 1..Len(log) \subseteq 1..MaxCN /\ {-1} \cup CN \subseteq -1..MaxCN
    BY <2>1 DEF IInv, Typed, CN
  <2>3. \A s : s \in [Flags -> CN] => s \in [Flags -> CNs]
    BY <2>1
  <2>4. /\ log \in Seq(Change) /\ Len(log) <= MaxCN
        /\ snap \in [Flags -> CNs] /\ hist \in [Flags -> CNs] /\ items \in [Flags -> CNs]
        /\ view \in [Flags -> CNs] /\ file \in [Flags -> CNs] \cup {NoFile}
        /\ serving \in BOOLEAN /\ filtered \in BOOLEAN /\ restarts \in 0..MaxRestarts
    BY <2>3 DEF IInv, Typed
  <2>5. snapCN \in -1..MaxCN /\ oldest \in -1..MaxCN /\ since \in -1..MaxCN
    BY <2>2 DEF IInv, Typed
  <2>6. /\ upd.pc \in {"idle", "start", "snapshot", "historic", "db"}
        /\ upd.pc \in {"snapshot", "historic", "db"} => upd.batch # {}
        /\ upd.batch \subseteq 1..MaxCN /\ upd.till \in -1..MaxCN
    BY <2>2 DEF IInv, UpdTyped
  <2>7. /\ req.pc \in {"idle", "all", "backend", "historic", "fetch", "reply"}
        /\ req.till \in -1..MaxCN /\ DOMAIN req.got \subseteq Flags
    BY <2>2 DEF IInv, ReqTyped
  <2> QED
    BY <2>4, <2>5, <2>6, <2>7 DEF TypeOK
<1> QED
  BY <1>1, <1>2, <1>3, PTL DEF Spec

-----------------------------------------------------------------------------
(* The feed.  That an answer is complete at its till is proved above.  What *)
(* is added: the stores and the answers in preparation hold published      *)
(* versions only, and an answer brings nothing older than the SDK's since. *)
(* The latter needs the order in which Update writes the stores: what the  *)
(* summaries announce is in the snapshot already, or newer there.          *)

\* v is a version of f that was published as active.
Version(f, v) == v \in 1..Len(log) /\ log[v].name = f /\ log[v].active

\* The records in w, archived or not, are changes of their flags.
OfFlag(w) == \A f \in Flags : w[f] # 0 => w[f] \in 1..Len(log) /\ log[w[f]].name = f

GenuineInv ==
    /\ \A f \in Flags : view[f] # 0 => Version(f, view[f])
    /\ \A f \in Flags : snap[f] # 0 => Version(f, snap[f])
    /\ OfFlag(hist) /\ OfFlag(items)
    /\ file # NoFile => OfFlag(file)

\* The snapshot is never behind the summaries.
AheadInv ==
    /\ \A f \in Flags : snap[f] = 0 \/ snap[f] >= hist[f]
    /\ upd.pc = "historic" =>
         \A n \in upd.batch : snap[log[n].name] = 0 \/ snap[log[n].name] >= n

\* An answer brings versions newer than the SDK's since.
AnswerInv ==
    /\ req.pc \in {"fetch", "reply"} => req.till >= since
    /\ req.pc = "fetch" =>
         \A f \in DOMAIN req.got : req.got[f] = 0 \/ (req.got[f] > since /\ req.got[f] <= hist[f])
    /\ req.pc = "reply" =>
         \A f \in DOMAIN req.got : req.got[f] = 0 \/ (req.got[f] > since /\ Version(f, req.got[f]))

FeedInv == GenuineInv /\ AheadInv /\ AnswerInv

-----------------------------------------------------------------------------
(* Steps                                                                   *)

\* A batch names a flag once.
LEMMA NamedOnce ==
    ASSUME NEW b, NEW t, NEW till, Batch(log, b, t, till)
    PROVE  /\ \A f \in Named(b) : /\ CNOf(b, f) \in b /\ log[CNOf(b, f)].name = f /\ CNOf(b, f) > t
           /\ \A n \in b : log[n].name \in Named(b) /\ CNOf(b, log[n].name) = n
<1>1. \A f \in Named(b) : CNOf(b, f) \in b /\ log[CNOf(b, f)].name = f
  BY DEF Named, CNOf
<1>2. \A n \in b : n > t /\ n = LatestCN(log, log[n].name, till)
  BY DEF Batch
<1>3. \A n \in b : log[n].name \in Named(b)
  BY DEF Named
<1> QED
  BY <1>1, <1>2, <1>3

\* A change is published: the versions that are held stay what they are.
LEMMA PublishFeed ==
    ASSUME NEW change \in Change, IInv, FeedInv, Publish(change)
    PROVE  FeedInv'
<1>1. /\ UNCHANGED <<snap, hist, items, upd, file, since, view, req>>
      /\ log' = Append(log, change)
  BY DEF Publish, proxyVars, sdkVars
<1>2. /\ log \in Seq(Change) /\ upd.batch \subseteq 1..Len(log)
  BY DEF IInv, Typed, UpdTyped
<1>3. /\ Len(log') = Len(log) + 1 /\ Len(log) \in Nat
      /\ \A n \in 1..Len(log) : n \in 1..Len(log') /\ log'[n] = log[n]
  BY <1>1, <1>2
<1>4. \A f, v : Version(f, v) => Version(f, v)'
  BY <1>3 DEF Version
<1>5. \A w : OfFlag(w) => \A f \in Flags : w[f] # 0 => w[f] \in 1..Len(log') /\ log'[w[f]].name = f
  BY <1>3 DEF OfFlag
<1>6. GenuineInv'
  <2>1. OfFlag(hist)' /\ OfFlag(items)' /\ (file # NoFile => OfFlag(file))'
    BY <1>1, <1>5 DEF FeedInv, GenuineInv, OfFlag, NoFile
  <2> QED
    BY <1>1, <1>4, <2>1 DEF FeedInv, GenuineInv
<1>7. AheadInv'
  BY <1>1, <1>2, <1>3 DEF FeedInv, AheadInv
<1>8. AnswerInv'
  BY <1>1, <1>4 DEF FeedInv, AnswerInv
<1> QED
  BY <1>6, <1>7, <1>8 DEF FeedInv

\* Update writes the snapshot before the summaries, with changes above both.
LEMMA UpdateFeed == ASSUME ~SavesFail, IInv, FeedInv, Update PROVE FeedInv'
<1>0. UNCHANGED <<log, file, since, view, req>>
  BY DEF Update, SetStartingPoint, UpdateSnapshot, UpdateHistoric, SaveItem, sdkVars
<1>1. PICK h \in {-1} \cup CN : HistoricAt(h)
  BY DEF IInv, HistoricInv
<1>2. /\ h \in Int /\ snapCN \in Int /\ log \in Seq(Change)
      /\ upd.batch \subseteq 1..Len(log) /\ Len(log) \in Nat
      /\ \A f \in Flags : hist[f] \in Nat /\ snap[f] \in Nat
      /\ \A f \in Flags : hist[f] = 0 \/ hist[f] <= h
      /\ hist \in [Flags -> CN] /\ items \in [Flags -> CN]
      /\ upd = [pc |-> upd.pc, batch |-> upd.batch, till |-> upd.till]
  BY <1>1 DEF IInv, Typed, UpdTyped, HistoricAt, CN
<1>3. \A n \in upd.batch : log[n].name \in Flags
  <2>1. \A n \in 1..Len(log) : log[n] \in Change
    BY <1>2
  <2> QED
    BY <1>2, <2>1 DEF Change
<1>4. CASE SetStartingPoint
  <2>1. UNCHANGED <<snap, hist, items>> /\ upd'.pc # "historic"
    BY <1>2, <1>4 DEF SetStartingPoint, NoUpdate
  <2>2. GenuineInv'
    BY <1>0, <2>1 DEF FeedInv, GenuineInv, OfFlag, Version
  <2>3. AheadInv'
    BY <1>0, <2>1 DEF FeedInv, AheadInv
  <2>4. AnswerInv'
    BY <1>0, <2>1 DEF FeedInv, AnswerInv, Version
  <2> QED
    BY <2>2, <2>3, <2>4 DEF FeedInv
<1>5. CASE UpdateSnapshot
  <2>1. /\ UNCHANGED <<hist, items>> /\ upd.pc = "snapshot"
        /\ snap' = [f \in Flags |->
                  IF f \notin Named(upd.batch) THEN snap[f]
                  ELSE LET n == CNOf(upd.batch, f) IN IF log[n].active THEN n ELSE 0]
        /\ upd'.batch = upd.batch
    BY <1>2, <1>5 DEF UpdateSnapshot
  <2>2. h = snapCN /\ Batch(log, upd.batch, snapCN, upd.till)
    BY <1>1, <2>1 DEF HistoricAt, IInv, UpdateInv
  <2>3. /\ \A f \in Named(upd.batch) : /\ CNOf(upd.batch, f) \in upd.batch
                                       /\ log[CNOf(upd.batch, f)].name = f /\ CNOf(upd.batch, f) > h
        /\ \A n \in upd.batch : log[n].name \in Named(upd.batch) /\ CNOf(upd.batch, log[n].name) = n
    BY <2>2, NamedOnce
  <2>4. \A f \in Flags : \/ f \notin Named(upd.batch) /\ snap'[f] = snap[f]
                         \/ f \in Named(upd.batch) /\ snap'[f] = 0
                         \/ /\ f \in Named(upd.batch) /\ snap'[f] = CNOf(upd.batch, f)
                            /\ log[CNOf(upd.batch, f)].active
    BY <2>1
  <2>5. \A f \in Flags : snap'[f] # 0 => Version(f, snap'[f])
    BY <1>2, <2>3, <2>4 DEF FeedInv, GenuineInv, Version
  <2>6. \A f \in Flags : snap'[f] = 0 \/ snap'[f] >= hist[f]
    BY <1>2, <2>3, <2>4 DEF FeedInv, AheadInv
  <2>7. \A n \in upd.batch : snap'[log[n].name] = 0 \/ snap'[log[n].name] >= n
    BY <1>2, <1>3, <2>3, <2>4
  <2>8. GenuineInv'
    BY <1>0, <2>1, <2>5 DEF FeedInv, GenuineInv, OfFlag, Version
  <2>9. AheadInv'
    BY <1>0, <2>1, <2>6, <2>7 DEF AheadInv
  <2>10. AnswerInv'
    BY <1>0, <2>1 DEF FeedInv, AnswerInv, Version
  <2> QED
    BY <2>8, <2>9, <2>10 DEF FeedInv
<1>6. CASE UpdateHistoric
  <2>1. /\ UNCHANGED <<snap, items>> /\ upd.pc = "historic" /\ upd'.pc = "db"
        /\ hist' = [f \in Flags |-> IF f \in Named(upd.batch) THEN CNOf(upd.batch, f) ELSE hist[f]]
    BY <1>2, <1>6 DEF UpdateHistoric
  <2>2. Batch(log, upd.batch, h, upd.till)
    BY <1>1, <2>1 DEF HistoricAt
  <2>3. \A f \in Named(upd.batch) : /\ CNOf(upd.batch, f) \in upd.batch
                                    /\ log[CNOf(upd.batch, f)].name = f /\ CNOf(upd.batch, f) > h
    BY <2>2, NamedOnce
  <2>4. \A f \in Flags : \/ f \notin Named(upd.batch) /\ hist'[f] = hist[f]
                         \/ f \in Named(upd.batch) /\ hist'[f] = CNOf(upd.batch, f)
    BY <2>1
  <2>5. OfFlag(hist)'
    BY <1>0, <1>2, <2>3, <2>4 DEF FeedInv, GenuineInv, OfFlag
  <2>6. \A f \in Flags : snap[f] = 0 \/ snap[f] >= hist'[f]
    BY <1>2, <2>1, <2>3, <2>4 DEF FeedInv, AheadInv
  <2>7. \A f \in Flags : hist'[f] >= hist[f]
    BY <1>2, <2>3, <2>4
  <2>8. GenuineInv'
    BY <1>0, <2>1, <2>5 DEF FeedInv, GenuineInv, OfFlag, Version
  <2>9. AheadInv'
    BY <1>0, <2>1, <2>6 DEF AheadInv
  <2>10. AnswerInv'
    <3>1. ASSUME req.pc = "fetch", NEW f \in DOMAIN req.got
          PROVE  req.got[f] = 0 \/ (req.got[f] > since /\ req.got[f] <= hist'[f])
      <4>1. f \in Flags /\ req.got[f] \in Nat
        BY DEF IInv, ReqTyped, CN
      <4>2. hist'[f] \in Nat /\ hist[f] \in Nat
        BY <1>2, <2>3, <2>4, <4>1
      <4> QED
        BY <2>7, <3>1, <4>1, <4>2 DEF FeedInv, AnswerInv
    <3> QED
      BY <1>0, <3>1 DEF FeedInv, AnswerInv, Version
  <2> QED
    BY <2>8, <2>9, <2>10 DEF FeedInv
<1>7. ASSUME NEW n \in upd.batch, SaveItem(n) PROVE FeedInv'
  <2>1. /\ UNCHANGED <<snap, hist>> /\ upd.pc = "db"
        /\ items' = [items EXCEPT ![log[n].name] = n]
        /\ upd'.pc # "historic"
    BY <1>2, <1>7 DEF SaveItem, SaveAs, NoUpdate
  <2>2. OfFlag(items)'
    BY <1>0, <1>2, <1>3, <2>1 DEF FeedInv, GenuineInv, OfFlag
  <2>3. GenuineInv'
    BY <1>0, <2>1, <2>2 DEF FeedInv, GenuineInv, OfFlag, Version
  <2>4. AheadInv'
    BY <1>0, <2>1 DEF FeedInv, AheadInv
  <2>5. AnswerInv'
    BY <1>0, <2>1 DEF FeedInv, AnswerInv, Version
  <2> QED
    BY <2>3, <2>4, <2>5 DEF FeedInv
<1> QED
  BY <1>4, <1>5, <1>6, <1>7 DEF Update

\* A kill puts a newer version in the snapshot.
LEMMA KillFeed == ASSUME NEW n, IInv, FeedInv, KillLocally(n) PROVE FeedInv'
<1>1. /\ UNCHANGED <<log, hist, items, upd, file, since, view, req>>
      /\ n \in 1..Len(log) /\ log[n].active
      /\ snap[log[n].name] < n
      /\ snap' = [snap EXCEPT ![log[n].name] = n]
  BY DEF KillLocally, sdkVars
<1>2. /\ log \in Seq(Change) /\ upd.batch \subseteq 1..Len(log) /\ Len(log) \in Nat
      /\ snap \in [Flags -> CN] /\ \A f \in Flags : hist[f] \in Nat /\ snap[f] \in Nat
      /\ \A f \in Flags : hist[f] <= Len(log)
  BY DEF IInv, Typed, UpdTyped, CN
<1>3. log[n].name \in Flags /\ \A m \in upd.batch : log[m].name \in Flags
  <2>1. \A m \in 1..Len(log) : log[m] \in Change
    BY <1>2
  <2> QED
    BY <1>1, <1>2, <2>1 DEF Change
<1>4. \A f \in Flags : snap'[f] = IF f = log[n].name THEN n ELSE snap[f]
  BY <1>1, <1>2
<1>5. GenuineInv'
  BY <1>1, <1>3, <1>4 DEF FeedInv, GenuineInv, OfFlag, Version
<1>6. snap[log[n].name] # 0
  BY DEF KillLocally
<1>7. AheadInv'
  BY <1>1, <1>2, <1>3, <1>4, <1>6 DEF FeedInv, AheadInv
<1>8. AnswerInv'
  BY <1>1 DEF FeedInv, AnswerInv, Version
<1> QED
  BY <1>5, <1>7, <1>8 DEF FeedInv

\* An answer is prepared from published versions above the SDK's since.
LEMMA RequestFeed == ASSUME IInv, FeedInv, Request PROVE FeedInv'
<1>1. UNCHANGED <<log, snap, hist, items, upd, file>>
  BY DEF Request, ReadChangeNumber, ReadAll, CheckSince, ReadHistoric, FetchMany, FetchFromBackend,
         Receive, proxyVars
<1>2. /\ log \in Seq(Change) /\ Len(log) \in Nat /\ since \in Int /\ since >= -1 /\ since <= Len(log)
      /\ \A f \in Flags : hist[f] \in Nat /\ snap[f] \in Nat /\ hist[f] <= Len(log)
      /\ req = [pc |-> req.pc, till |-> req.till, got |-> req.got]
      /\ DOMAIN req.got \subseteq Flags /\ req.till \in Int /\ req.till >= -1
      /\ \A f \in DOMAIN req.got : req.got[f] \in Nat
  BY DEF IInv, Typed, ReqTyped, CN
<1>3. AheadInv'
  BY <1>1 DEF FeedInv, AheadInv
<1>4. ASSUME UNCHANGED view PROVE GenuineInv'
  BY <1>1, <1>4 DEF FeedInv, GenuineInv, OfFlag, Version
<1>5. CASE ReadChangeNumber \/ CheckSince
  <2>1. UNCHANGED <<since, view>> /\ req'.pc \in {"all", "backend", "historic"}
    BY <1>5 DEF ReadChangeNumber, CheckSince, NoRequest
  <2>2. AnswerInv'
    BY <2>1 DEF AnswerInv
  <2> QED
    BY <1>3, <1>4, <2>1, <2>2 DEF FeedInv
<1>6. CASE ReadAll
  <2>1. /\ UNCHANGED <<since, view>> /\ req.pc = "all"
        /\ req' = [pc |-> "reply", till |-> req.till,
                   got |-> [f \in { g \in Flags : snap[g] # 0 } |-> snap[f]]]
    BY <1>2, <1>6 DEF ReadAll
  <2>2. since = -1
    BY <2>1 DEF IInv, RequestInv
  <2>3. AnswerInv'
    BY <1>1, <1>2, <2>1, <2>2 DEF FeedInv, GenuineInv, AnswerInv, Version
  <2> QED
    BY <1>3, <1>4, <2>1, <2>3 DEF FeedInv
<1>7. CASE ReadHistoric
  <2> DEFINE views == { f \in Flags : hist[f] > since /\ hist[f] > 0
                                        /\ (since = -1 => log[hist[f]].active) }
             S == {since} \cup { hist[f] : f \in views }
             got == [f \in views |-> IF log[hist[f]].active THEN hist[f] ELSE 0]
  <2>1. UNCHANGED <<since, view>> /\ req' = [pc |-> "fetch", till |-> Max(S), got |-> got]
    BY <1>7 DEF ReadHistoric
  <2>2. Max(S) >= since
    <3>1. S \in SUBSET (-1..Len(log)) /\ since \in S
      BY <1>2
    <3> HIDE DEF S
    <3>2. Max(S) \in S /\ \A n \in S : n <= Max(S)
      BY <1>2, <3>1, MaxIs
    <3> QED
      BY <1>2, <3>1, <3>2
  <2>3. ASSUME NEW f \in DOMAIN got PROVE got[f] = 0 \/ (got[f] > since /\ got[f] <= hist[f])
    <3>1. f \in Flags /\ hist[f] > since
      OBVIOUS
    <3>2. got[f] = 0 \/ got[f] = hist[f]
      OBVIOUS
    <3> QED
      BY <1>2, <3>1, <3>2
  <2> HIDE DEF S, got
  <2>4. AnswerInv'
    BY <1>1, <2>1, <2>2, <2>3 DEF AnswerInv
  <2> QED
    BY <1>3, <1>4, <2>1, <2>4 DEF FeedInv
<1>8. CASE FetchMany
  <2> DEFINE sent == { f \in DOMAIN req.got : req.got[f] = 0 \/ snap[f] # 0 }
             got == [f \in sent |-> IF req.got[f] = 0 THEN 0 ELSE snap[f]]
  <2>1. /\ UNCHANGED <<since, view>> /\ req.pc = "fetch"
        /\ req' = [pc |-> "reply", till |-> req.till, got |-> got]
    BY <1>2, <1>8 DEF FetchMany
  <2>2. ASSUME NEW f \in DOMAIN got PROVE got[f] = 0 \/ (got[f] > since /\ Version(f, got[f]))
    <3>1. CASE req.got[f] = 0
      BY <3>1
    <3>2. CASE req.got[f] # 0
      <4>1. f \in Flags /\ got[f] = snap[f] /\ snap[f] # 0
        BY <1>2, <3>2
      <4>2. Version(f, snap[f]) /\ snap[f] >= hist[f]
        BY <4>1 DEF FeedInv, GenuineInv, AheadInv
      <4>3. req.got[f] > since /\ req.got[f] <= hist[f] /\ req.got[f] \in Nat
        BY <1>2, <2>1, <3>2 DEF FeedInv, AnswerInv
      <4> QED
        BY <1>2, <4>1, <4>2, <4>3
    <3> QED
      BY <3>1, <3>2
  <2> HIDE DEF got
  <2>3. AnswerInv'
    BY <1>1, <2>1, <2>2 DEF FeedInv, AnswerInv, Version
  <2> QED
    BY <1>3, <1>4, <2>1, <2>3 DEF FeedInv
<1>9. CASE FetchFromBackend
  <2> DEFINE batch == ChangedSince(log, since)
             S == {since, Len(log)}
             got == [f \in Named(batch) |-> Served(log, f, Len(log))]
  <2>1. UNCHANGED <<since, view>> /\ req' = [pc |-> "reply", till |-> Max(S), got |-> got]
    BY <1>9 DEF FetchFromBackend
  <2>2. Max(S) >= since
    <3>1. S \in SUBSET (-1..Len(log)) /\ since \in S
      BY <1>2
    <3> HIDE DEF S
    <3>2. Max(S) \in S /\ \A n \in S : n <= Max(S)
      BY <1>2, <3>1, MaxIs
    <3> QED
      BY <1>2, <3>1, <3>2
  <2>3. ASSUME NEW f \in DOMAIN got PROVE got[f] = 0 \/ (got[f] > since /\ Version(f, got[f]))
    <3>1. Batch(log, batch, since, Len(log))
      BY <1>2, FetchedBatch
    <3>2. PICK n \in batch : log[n].name = f
      BY DEF Named
    <3>3. n > since /\ n = LatestCN(log, f, Len(log))
      BY <3>1, <3>2 DEF Batch
    <3>4. n = 0 \/ (n \in 1..Len(log) /\ log[n].name = f)
      BY <1>2, <3>3, LatestInRange
    <3>5. got[f] = IF n > 0 /\ log[n].active THEN n ELSE 0
      BY <3>3 DEF Served
    <3> QED
      BY <3>3, <3>4, <3>5 DEF Version
  <2> HIDE DEF S, got
  <2>4. AnswerInv'
    BY <1>1, <2>1, <2>2, <2>3 DEF AnswerInv, Version
  <2> QED
    BY <1>3, <1>4, <2>1, <2>4 DEF FeedInv
<1>10. CASE Receive
  <2>1. /\ req.pc = "reply" /\ req'.pc = "idle"
        /\ view' = [f \in Flags |-> IF f \in DOMAIN req.got THEN req.got[f] ELSE view[f]]
    BY <1>10 DEF Receive, NoRequest
  <2>2. \A f \in Flags : view'[f] # 0 => Version(f, view'[f])
    BY <2>1 DEF FeedInv, GenuineInv, AnswerInv
  <2>3. GenuineInv' /\ AnswerInv'
    BY <1>1, <2>1, <2>2 DEF FeedInv, GenuineInv, OfFlag, Version, AnswerInv
  <2> QED
    BY <1>3, <2>3 DEF FeedInv
<1> QED
  BY <1>5, <1>6, <1>7, <1>8, <1>9, <1>10 DEF Request

\* A process started from records has them as they were published.
LEMMA RestartFeed ==
    ASSUME NEW records, NEW cn, NEW haveSnapshot, OfFlag(records), IInv, FeedInv,
           Restart(records, cn, haveSnapshot)
    PROVE  FeedInv'
<1>1. /\ UNCHANGED <<log, file, since, view>>
      /\ upd'.pc = "idle" /\ req'.pc = "idle"
      /\ items' = records
      /\ snap' = [f \in Flags |-> IF records[f] # 0 /\ log[records[f]].active THEN records[f] ELSE 0]
      /\ hist' = snap'
  BY DEF Restart, NoUpdate, NoRequest
<1>2. \A f \in Flags : snap'[f] # 0 => Version(f, snap'[f])
  BY <1>1 DEF OfFlag, Version
<1>3. GenuineInv'
  BY <1>1, <1>2 DEF FeedInv, GenuineInv, OfFlag, Version
<1>4. \A f \in Flags : snap'[f] = 0 \/ snap'[f] \in 1..Len(log)
  BY <1>2 DEF Version
<1>5. AheadInv' /\ AnswerInv'
  BY <1>1, <1>4 DEF AheadInv, AnswerInv
<1> QED
  BY <1>3, <1>5 DEF FeedInv

\* Every step keeps the invariant.
LEMMA NextFeed == ASSUME ~SavesFail, IInv, FeedInv, [Next]_vars PROVE FeedInv'
<1> USE DEF proxyVars, sdkVars
<1>1. CASE Fetch
  <2>1. UNCHANGED <<log, snap, hist, items, file, since, view, req>> /\ upd'.pc = "start"
    BY <1>1 DEF Fetch
  <2> QED
    BY <2>1 DEF FeedInv, GenuineInv, OfFlag, Version, AheadInv, AnswerInv
<1>2. CASE Export
  <2>1. UNCHANGED <<log, snap, hist, items, upd, since, view, req>> /\ file' = items
    BY <1>2 DEF Export
  <2> QED
    BY <2>1 DEF FeedInv, GenuineInv, OfFlag, Version, AheadInv, AnswerInv
<1>3. CASE RestartBlank
  <2>1. OfFlag(Nothing)
    BY DEF OfFlag, Nothing
  <2> QED
    BY <1>3, <2>1, RestartFeed DEF RestartBlank
<1>4. CASE RestartFromFile
  <2>1. OfFlag(file)
    BY <1>4 DEF RestartFromFile, FeedInv, GenuineInv
  <2> QED
    BY <1>4, <2>1, RestartFeed DEF RestartFromFile
<1>5. CASE UNCHANGED vars
  BY <1>5 DEF vars, FeedInv, GenuineInv, OfFlag, Version, AheadInv, AnswerInv
<1> QED
  BY <1>1, <1>2, <1>3, <1>4, <1>5, PublishFeed, UpdateFeed, KillFeed, RequestFeed DEF Next

-----------------------------------------------------------------------------
(* Refinement                                                              *)

\* A step of the proxy is a publication, a delivery, or nothing to the SDK.
LEMMA StepFeeds == ASSUME IInv, FeedInv, [Next]_vars PROVE [Feed!Next]_(Feed!vars)
<1>1. ASSUME NEW change \in Change, Publish(change) PROVE Feed!Publish(change)
  BY <1>1 DEF Publish, sdkVars, Feed!Publish
<1>2. CASE Receive
  <2>1. /\ req.pc = "reply" /\ UNCHANGED log
        /\ view' = Applied(view, req.got) /\ since' = req.till
    BY <1>2 DEF Receive, Applied
  <2>2. /\ log \in Seq(Change) /\ Len(log) \in Nat /\ since \in Int
        /\ req.till \in -1..Len(log) /\ req.till >= since
        /\ view \in [Flags -> 0..Len(log)]
        /\ \A f \in DOMAIN req.got : req.got[f] \in 0..Len(log)
        /\ Complete(log, req.till, Applied(view, req.got))
    BY <2>1 DEF IInv, Typed, ReqTyped, RequestInv, FeedInv, AnswerInv, CN
  <2>3. \A f \in Flags : Applied(view, req.got)[f] = IF f \in DOMAIN req.got THEN req.got[f] ELSE view[f]
    BY DEF Applied
  <2>4. Applied(view, req.got) \in [Flags -> 0..Len(log)]
    BY <2>2 DEF Applied
  <2>5. Feed!Genuine(Applied(view, req.got))
    BY <2>1, <2>3 DEF FeedInv, GenuineInv, AnswerInv, Version, Feed!Genuine
  <2>6. Feed!NoOlder(Applied(view, req.got))
    <3>1. ASSUME NEW f \in Flags
          PROVE  \/ Applied(view, req.got)[f] = 0
                 \/ Applied(view, req.got)[f] >= view[f] \/ view[f] > since
      <4>1. CASE f \in DOMAIN req.got
        BY <2>1, <2>2, <2>3, <4>1 DEF FeedInv, AnswerInv
      <4>2. CASE f \notin DOMAIN req.got
        BY <2>2, <2>3, <4>2
      <4> QED
        BY <4>1, <4>2
    <3> QED
      BY <3>1 DEF Feed!NoOlder
  <2>7. Feed!Deliver(req.till, Applied(view, req.got))
    BY <2>1, <2>2, <2>5, <2>6 DEF Feed!Deliver, Feed!Complete, Feed!LatestCN, Feed!ChangesOf, Feed!Served,
                                   Complete, LatestCN, ChangesOf, Served
  <2> QED
    BY <2>2, <2>4, <2>7 DEF Feed!Next
<1>3. ASSUME UNCHANGED <<log, since, view>> PROVE UNCHANGED Feed!vars
  BY <1>3 DEF Feed!vars
<1>4. CASE \/ Fetch \/ Update \/ Export \/ UNCHANGED vars
           \/ \E n \in 1..MaxCN : KillLocally(n)
           \/ RestartBlank \/ RestartFromFile
           \/ ReadChangeNumber \/ ReadAll \/ CheckSince \/ ReadHistoric \/ FetchMany \/ FetchFromBackend
  <2>1. UNCHANGED <<log, since, view>>
    BY <1>4 DEF Fetch, Update, SetStartingPoint, UpdateSnapshot, UpdateHistoric, SaveItem, Export,
       KillLocally, RestartBlank, RestartFromFile, Restart, ReadChangeNumber, ReadAll, CheckSince,
       ReadHistoric, FetchMany, FetchFromBackend, vars, sdkVars
  <2> QED
    BY <1>3, <2>1
<1> QED
  BY <1>1, <1>2, <1>4 DEF Next, Request, Feed!Next, Feed!Change, Change

\* The proxy implements FlagFeed (splits.go ChangesSince, sdk.go
\* fetchRulesSince): what an SDK applies is complete at its till, was published,
\* and takes none of its flags back in time, if no snapshot is exported while a
\* batch is being written and no record fails to be saved.
THEOREM ProxyFeeds == ASSUME ~ExportMidWrite, ~SavesFail PROVE Spec => FeedSpec
<1>1. Init => Feed!Init
  BY DEF Init, Feed!Init, Nothing
<1>2. Init => IInv
  BY InitInv
<1>3. Init => FeedInv
  BY DEF Init, FeedInv, GenuineInv, OfFlag, AheadInv, AnswerInv, Nothing, NoUpdate, NoRequest
<1>4. IInv /\ [Next]_vars => IInv'
  BY NextInv
<1>5. IInv /\ FeedInv /\ [Next]_vars => FeedInv'
  BY NextFeed
<1>6. IInv /\ FeedInv /\ [Next]_vars => [Feed!Next]_(Feed!vars)
  BY StepFeeds
<1> QED
  BY <1>1, <1>2, <1>3, <1>4, <1>5, <1>6, PTL DEF Spec, FeedSpec, Feed!Spec

-----------------------------------------------------------------------------
(* The feed's own promise                                                  *)

\* The log of FlagFeed is the log here.
LEMMA SameFeed ==
    /\ Feed!Change = Change
    /\ \A l, f, cn : /\ Feed!LatestCN(l, f, cn) = LatestCN(l, f, cn)
                     /\ Feed!Served(l, f, cn) = Served(l, f, cn)
    /\ \A l, t, w : Feed!Complete(l, t, w) = Complete(l, t, w)
BY DEF Feed!Change, Feed!LatestCN, Feed!ChangesOf, Feed!Served, Feed!Complete,
       Change, LatestCN, ChangesOf, Served, Complete

\* Its since is a change number that was published.
PromiseInv ==
    /\ log \in Seq(Change)
    /\ since \in -1..Len(log)
    /\ Complete(log, since, view)

\* An SDK of any implementation of FlagFeed never misses a change at or below its
\* since (splits.go ChangesSince).
THEOREM FeedKeepsUpdates == Feed!Spec => []Feed!NoLostUpdate
<1>1. Feed!Init => PromiseInv
  <2> SUFFICES ASSUME Feed!Init PROVE PromiseInv
    OBVIOUS
  <2>1. log \in Seq(Change) /\ Len(log) = 0 /\ since = -1
    BY DEF Feed!Init
  <2>2. \A f \in Flags : LatestCN(log, f, Len(log)) = 0
    BY <2>1, LatestIsLast
  <2> QED
    BY <2>1, <2>2 DEF PromiseInv, Complete
<1>2. PromiseInv /\ [Feed!Next]_(Feed!vars) => PromiseInv'
  <2> SUFFICES ASSUME PromiseInv, [Feed!Next]_(Feed!vars) PROVE PromiseInv'
    OBVIOUS
  <2> USE DEF PromiseInv
  <2>1. ASSUME NEW change \in Change, Feed!Publish(change) PROVE PromiseInv'
    <3>1. /\ log' = Append(log, change) /\ since' = since /\ view' = view
          /\ log' \in Seq(Change) /\ Len(log') = Len(log) + 1 /\ Len(log) \in Nat
      BY <2>1 DEF Feed!Publish
    <3>2. ASSUME NEW f \in Flags, LatestCN(log', f, Len(log')) > 0, LatestCN(log', f, Len(log')) <= since
          PROVE  view[f] = Served(log', f, Len(log'))
      <4>1. change.name # f
        BY <3>1, <3>2, PublishMoves
      <4>2. /\ LatestCN(log', f, Len(log')) = LatestCN(log, f, Len(log))
            /\ Served(log', f, Len(log')) = Served(log, f, Len(log))
        BY <3>1, <4>1, PublishMoves
      <4> QED
        BY <3>2, <4>2 DEF Complete
    <3> QED
      BY <3>1, <3>2 DEF Complete
  <2>2. ASSUME NEW t \in -1..Len(log), NEW w, Feed!Deliver(t, w) PROVE PromiseInv'
    BY <2>2, SameFeed DEF Feed!Deliver
  <2>3. CASE UNCHANGED Feed!vars
    BY <2>3 DEF Feed!vars
  <2> QED
    BY <2>1, <2>2, <2>3, SameFeed DEF Feed!Next
<1>3. PromiseInv => Feed!NoLostUpdate
  BY SameFeed DEF PromiseInv, Feed!NoLostUpdate
<1> QED
  BY <1>1, <1>2, <1>3, PTL DEF Feed!Spec
=============================================================================
