------------------------- MODULE RuleServingProofs -------------------------
(***************************************************************************)
(* What SDKs get of both kinds of rules, for any set of rules, any number  *)
(* of changes and of restarts.                                             *)
(*                                                                         *)
(* RulesKept rests on levels, one per kind, as in ProxyFlagsProofs: the    *)
(* summaries have everything up to a change number h, which is activeCN    *)
(* but for the step of an update between snapshot and summaries.  Fits     *)
(* says what must hold of a client of a kind, at a change number with the  *)
(* rules it holds, to be served by the storage from there on: of the SDK,  *)
(* and of the SDK once it has applied an answer that is being prepared or  *)
(* is in the cache.  Steps of the storage preserve Fits for every client.  *)
(* The records on disk are at the same level between two updates, while    *)
(* saves do not fail, and so are the files that are exported there.        *)
(*                                                                         *)
(* OnlyLateRulesStale rests on what an answer that is not late has to do   *)
(* with the storage while no update is under way.                          *)
(***************************************************************************)
EXTENDS RuleServing, FiniteSetTheorems, TLAPS

Log == INSTANCE ChangeLogProofs WITH Flags <- Rules, MaxCN <- MaxRuleCN

-----------------------------------------------------------------------------
(* Facts about the backend's log                                           *)

\* The facts of ChangeLogProofs are about the same operators.
LEMMA SameLog ==
    /\ \A l, r, cn : /\ History!LatestCN(l, r, cn) = Log!LatestCN(l, r, cn)
                     /\ History!Served(l, r, cn) = Log!Served(l, r, cn)
    /\ \A l, cn : History!ChangedSince(l, cn) = Log!ChangedSince(l, cn)
    /\ History!Change = Log!Change
BY DEF History!ChangesOf, Log!ChangesOf, History!LatestCN, Log!LatestCN,
       History!Served, Log!Served, History!Change, Log!Change,
       History!ChangedSince, Log!ChangedSince

\* The greatest element of a set of change numbers exists.
LEMMA MaxIs ==
    ASSUME NEW cn \in Nat, NEW S \in SUBSET (-1..cn), S # {}
    PROVE  Max(S) \in S /\ \A n \in S : n <= Max(S)
<1> DEFINE T == { n + 2 : n \in S }
<1>1. T # {} /\ T \subseteq 1..(cn + 2) /\ cn + 2 \in Nat
  <2>1. PICK n \in S : TRUE
    OBVIOUS
  <2>2. n + 2 \in T
    BY <2>1
  <2>3. ASSUME NEW m \in S PROVE m + 2 \in 1..(cn + 2)
    <3>1. m \in -1..cn
      OBVIOUS
    <3> QED
      BY <3>1
  <2> QED
    BY <2>2, <2>3
<1> HIDE DEF T
<1>2. PICK t \in T : \A u \in T : u <= t
  BY <1>1, Log!LastOf
<1> USE DEF T
<1>3. PICK n \in S : t = n + 2
  OBVIOUS
<1>4. ASSUME NEW m \in S PROVE m <= n
  <2>1. m + 2 <= n + 2
    BY <1>2, <1>3
  <2> QED
    BY <2>1
<1> QED
  BY <1>4 DEF Max

\* The last change number of a log, or the one asked from.
LEMMA TillIs ==
    ASSUME NEW k, published[k] \in Seq(Log!Change), NEW cn \in -1..Len(published[k])
    PROVE  /\ TillFrom(k, cn) = IF published[k] = <<>> THEN cn ELSE Len(published[k])
           /\ TillFrom(k, cn) \in cn..Len(published[k])
<1> DEFINE l == published[k]
           S == {cn} \cup DOMAIN l
<1>1. Len(l) \in Nat /\ DOMAIN l = 1..Len(l)
  OBVIOUS
<1>2. S \in SUBSET (-1..Len(l)) /\ S # {}
  BY <1>1
<1>3. Max(S) \in S /\ \A n \in S : n <= Max(S)
  BY <1>1, <1>2, MaxIs
<1>4. TillFrom(k, cn) = Max(S)
  BY DEF TillFrom
<1>5. CASE l = <<>>
  <2>1. S = {cn} /\ Len(l) = 0
    BY <1>5
  <2>2. TillFrom(k, cn) = cn
    BY <1>3, <1>4, <2>1
  <2> QED
    BY <1>5, <2>1, <2>2
<1>6. CASE l # <<>>
  <2>1. Len(l) \in S
    BY <1>1, <1>6
  <2>2. Max(S) = Len(l)
    <3>1. Max(S) \in -1..Len(l) /\ Len(l) <= Max(S)
      BY <1>2, <1>3, <2>1
    <3> HIDE DEF l, S
    <3> QED
      BY <1>1, <3>1
  <2> QED
    BY <1>1, <1>4, <1>6, <2>2
<1> HIDE DEF l, S
<1> QED
  BY <1>5, <1>6 DEF l

-----------------------------------------------------------------------------
(* Types, as tight as what was published                                   *)

Within(store) ==
    /\ store \in [RuleKinds -> [Rules -> Nat]]
    /\ \A k \in RuleKinds, r \in Rules : store[k][r] <= Len(published[k])
Reached(points) ==
    /\ points \in [RuleKinds -> Int]
    /\ \A k \in RuleKinds : -1 <= points[k] /\ points[k] <= Len(published[k])

StoresTyped ==
    /\ published \in [RuleKinds -> Seq(Log!Change)]
    /\ \A k \in RuleKinds : Len(published[k]) <= MaxRuleCN
    /\ Within(activeRules) /\ Within(updatedAt) /\ Within(disk) /\ Within(backup)
    /\ Reached(activeCN) /\ Reached(oldestKnownCN)
    /\ up \in BOOLEAN /\ killing \in BOOLEAN /\ starts \in 0..MaxStarts
SdkTyped == Within(sdkRules) /\ Reached(sdkCN) /\ early \subseteq RuleKinds \X Rules

ChangesTyped(k, c) ==
    /\ c = [batch |-> c.batch, till |-> c.till]
    /\ c.batch \subseteq 1..Len(published[k])
    /\ c.till \in -1..Len(published[k])
SyncTyped ==
    /\ sync = [pc |-> sync.pc, kind |-> sync.kind, changes |-> sync.changes, previous |-> sync.previous]
    /\ sync.pc \in {"idle", "fetch", "start", "snapshot", "historic", "save", "evict"}
    /\ sync.kind \in RuleKinds
    /\ sync.changes = [k \in RuleKinds |-> sync.changes[k]]
    /\ \A k \in RuleKinds : ChangesTyped(k, sync.changes[k])
    /\ Reached(sync.previous)
    /\ sync.pc \in {"snapshot", "historic", "save"} => Batch # {}

AnswerTyped(k, b) ==
    /\ b = [till |-> b.till, got |-> b.got, early |-> b.early]
    /\ b.till \in -1..Len(published[k])
    /\ b.got = [r \in DOMAIN b.got |-> b.got[r]] /\ DOMAIN b.got \subseteq Rules
    /\ \A r \in DOMAIN b.got : b.got[r] \in 0..Len(published[k])
    /\ b.early \in BOOLEAN
BodyTyped(body) ==
    /\ body = [k \in RuleKinds |-> body[k]]
    /\ \A k \in RuleKinds : AnswerTyped(k, body[k])

FlightTyped ==
    /\ flight = [pc |-> flight.pc, kind |-> flight.kind, key |-> flight.key, old |-> flight.old,
                 body |-> flight.body, late |-> flight.late]
    /\ flight.pc \in {"idle", "begin", "all", "historic", "fetch", "backend", "reply"}
    /\ flight.kind \in RuleKinds /\ flight.old \in BOOLEAN /\ flight.late \in BOOLEAN
    /\ Reached(flight.key) /\ BodyTyped(flight.body)
    /\ flight.pc = "idle" => flight = NoFlight
    /\ flight.pc \in {"backend", "reply"} => flight.kind = "segments"
    /\ flight.pc \in {"all", "historic"} => (flight.pc = "all" <=> flight.key[flight.kind] = -1)

EntryTyped(e) ==
    /\ e = [key |-> e.key, body |-> e.body, late |-> e.late]
    /\ Reached(e.key) /\ BodyTyped(e.body) /\ e.late \in BOOLEAN
CacheTyped ==
    /\ \A e \in cache : EntryTyped(e)
    /\ \A e1, e2 \in cache : e1 = e2

Typed == StoresTyped /\ SdkTyped /\ SyncTyped /\ FlightTyped /\ CacheTyped

\* They imply the types the run checks.
LEMMA TypedIsTypeOK == Typed => RulesTypeOK
<1> SUFFICES ASSUME Typed PROVE RulesTypeOK
  OBVIOUS
<1> USE DEF Typed
<1>1. \A k \in RuleKinds : /\ published[k] \in Seq(History!Change) /\ Len(published[k]) <= MaxRuleCN
                           /\ Len(published[k]) \in Nat
  BY SameLog DEF StoresTyped
<1>2. MaxRuleCN \in Nat
  BY RulesAssumption
<1>3. ASSUME NEW s, Within(s) PROVE s \in [RuleKinds -> [Rules -> 0..MaxRuleCN]]
  <2>1. ASSUME NEW k \in RuleKinds PROVE s[k] \in [Rules -> 0..MaxRuleCN]
    <3>1. s[k] \in [Rules -> Nat]
      BY <1>3 DEF Within
    <3>2. \A r \in Rules : s[k][r] \in Nat /\ s[k][r] <= Len(published[k])
      BY <1>3, <3>1 DEF Within
    <3>3. \A r \in Rules : s[k][r] \in 0..MaxRuleCN
      BY <1>1, <1>2, <3>2
    <3> QED
      BY <3>1, <3>3
  <2> QED
    BY <1>3, <2>1 DEF Within
<1>4. ASSUME NEW p, Reached(p) PROVE p \in [RuleKinds -> -1..MaxRuleCN]
  BY <1>1, <1>2, <1>4 DEF Reached
<1>5. {activeRules, updatedAt, disk, sdkRules, backup} \subseteq [RuleKinds -> [Rules -> 0..MaxRuleCN]]
  BY <1>3 DEF StoresTyped, SdkTyped
<1>6. {activeCN, oldestKnownCN, sdkCN} \subseteq [RuleKinds -> -1..MaxRuleCN]
  BY <1>4 DEF StoresTyped, SdkTyped
<1>7. ASSUME NEW e \in cache PROVE e.body \in [RuleKinds -> Body]
  <2>1. ASSUME NEW k \in RuleKinds PROVE e.body[k] \in Body
    <3> DEFINE b == e.body[k]
    <3>1. AnswerTyped(k, b)
      BY DEF CacheTyped, EntryTyped, BodyTyped
    <3>2. b.till \in -1..MaxRuleCN /\ b.early \in BOOLEAN
      BY <1>1, <1>2, <3>1 DEF AnswerTyped
    <3>3. b.got \in [DOMAIN b.got -> 0..MaxRuleCN] /\ DOMAIN b.got \in SUBSET Rules
      BY <1>1, <1>2, <3>1 DEF AnswerTyped
    <3>4. b.got \in UNION {[R -> 0..MaxRuleCN] : R \in SUBSET Rules}
      BY <3>3
    <3>5. b = [till |-> b.till, got |-> b.got, early |-> b.early]
      BY <3>1 DEF AnswerTyped
    <3> DEFINE G == UNION {[R -> 0..MaxRuleCN] : R \in SUBSET Rules}
    <3>6. Body = [till : -1..MaxRuleCN, got : G, early : BOOLEAN]
      BY DEF Body
    <3> HIDE DEF b, G
    <3>7. b \in Body
      BY <3>2, <3>4, <3>5, <3>6 DEF G
    <3> QED
      BY <3>7 DEF b
  <2> QED
    BY <2>1 DEF CacheTyped, EntryTyped, BodyTyped
<1>8. Cardinality(cache) <= 1
  <2>1. CASE cache = {}
    BY <2>1, FS_EmptySet
  <2>2. ASSUME NEW e \in cache PROVE Cardinality(cache) <= 1
    <3>1. cache = {e}
      BY DEF CacheTyped
    <3> QED
      BY <3>1, FS_Singleton
  <2> QED
    BY <2>1, <2>2
<1>9. {up, killing, flight.old, flight.late} \subseteq BOOLEAN
  BY DEF StoresTyped, FlightTyped
<1> QED
  BY <1>1, <1>5, <1>6, <1>7, <1>8, <1>9 DEF RulesTypeOK, StoresTyped, SdkTyped, SyncTyped, FlightTyped

-----------------------------------------------------------------------------
(* Types: initial states and steps                                         *)

\* An answer with nothing in it is well typed, and so are requests and
\* synchronizations that are not under way.
LEMMA IdleTyped ==
    ASSUME published \in [RuleKinds -> Seq(Log!Change)]
    PROVE  /\ Within(NoRules) /\ Reached(FromScratch) /\ BodyTyped(NoBody)
           /\ \A k \in RuleKinds : /\ Len(published[k]) \in Nat
                                    /\ AnswerTyped(k, [till |-> -1, got |-> <<>>, early |-> FALSE])
                                    /\ AnswerTyped(k, [till |-> -1, got |-> <<>>, early |-> TRUE])
                                    /\ ChangesTyped(k, [batch |-> {}, till |-> -1])
<1>1. \A k \in RuleKinds : Len(published[k]) \in Nat
  OBVIOUS
<1>2. Within(NoRules)
  BY <1>1 DEF Within, NoRules
<1>3. Reached(FromScratch)
  BY <1>1 DEF Reached, FromScratch
<1>4. ASSUME NEW k \in RuleKinds, NEW x \in BOOLEAN
      PROVE  AnswerTyped(k, [till |-> -1, got |-> <<>>, early |-> x])
  <2>1. <<>> = [r \in {} |-> 0] /\ DOMAIN <<>> = {}
    OBVIOUS
  <2>2. <<>> = [r \in DOMAIN <<>> |-> <<>>[r]]
    BY <2>1
  <2> QED
    BY <1>1, <2>1, <2>2 DEF AnswerTyped
<1>5. BodyTyped(NoBody)
  BY <1>4 DEF BodyTyped, NoBody
<1>6. \A k \in RuleKinds : ChangesTyped(k, [batch |-> {}, till |-> -1])
  BY <1>1 DEF ChangesTyped
<1> QED
  BY <1>1, <1>2, <1>3, <1>4, <1>5, <1>6

LEMMA TypedInit == RulesInit => Typed
<1> SUFFICES ASSUME RulesInit PROVE Typed
  OBVIOUS
<1>1. published = [k \in RuleKinds |-> <<>>] /\ published \in [RuleKinds -> Seq(Log!Change)]
  BY DEF RulesInit
<1>2. \A k \in RuleKinds : Len(published[k]) = 0
  BY <1>1
<1>3. StoresTyped /\ SdkTyped /\ CacheTyped
  <2>1. /\ activeRules = NoRules /\ updatedAt = NoRules /\ disk = NoRules /\ backup = NoRules
        /\ sdkRules = NoRules /\ activeCN = FromScratch /\ oldestKnownCN = FromScratch
        /\ sdkCN = FromScratch /\ up = FALSE /\ killing = FALSE /\ starts = 0 /\ early = {} /\ cache = {}
    BY DEF RulesInit
  <2>2. \A k \in RuleKinds : Len(published[k]) <= MaxRuleCN
    BY <1>2, RulesAssumption
  <2>3. starts \in 0..MaxStarts
    BY <2>1, RulesAssumption
  <2> QED
    BY <1>1, <2>1, <2>2, <2>3, IdleTyped DEF StoresTyped, SdkTyped, CacheTyped
<1>4. SyncTyped
  BY <1>1, IdleTyped DEF RulesInit, SyncTyped, NoSync, NoChanges, RuleKinds
<1>5. FlightTyped
  BY <1>1, IdleTyped DEF RulesInit, FlightTyped, NoFlight, RuleKinds
<1> QED
  BY <1>3, <1>4, <1>5 DEF Typed

\* The change of a rule that is written is one of the batch.
LEMMA ChangesAre ==
    ASSUME Typed, NEW r, ChangesIn(r) # {}
    PROVE  LET n == Max(ChangesIn(r)) IN
           /\ n \in Batch /\ n \in 1..Len(published[sync.kind])
           /\ published[sync.kind][n].name = r
           /\ VersionOf(sync.kind, n) = IF published[sync.kind][n].active THEN n ELSE 0
<1> DEFINE l == published[sync.kind]
<1>1. Batch \subseteq 1..Len(l) /\ Len(l) \in Nat
  <2>1. sync.kind \in RuleKinds /\ ChangesTyped(sync.kind, sync.changes[sync.kind])
    BY DEF Typed, SyncTyped
  <2>2. l \in Seq(Log!Change)
    BY <2>1 DEF Typed, StoresTyped
  <2> QED
    BY <2>1, <2>2 DEF ChangesTyped, Batch
<1>2. ChangesIn(r) \subseteq Batch /\ \A n \in ChangesIn(r) : l[n].name = r
  BY DEF ChangesIn
<1>3. ChangesIn(r) \in SUBSET (-1..Len(l))
  <2>1. 1..Len(l) \subseteq -1..Len(l)
    BY <1>1
  <2> QED
    BY <1>1, <1>2, <2>1
<1>4. Max(ChangesIn(r)) \in ChangesIn(r)
  BY <1>1, <1>3, MaxIs
<1> QED
  BY <1>1, <1>2, <1>4 DEF VersionOf

\* What Answered does to a request.
LEMMA AnsweredIs ==
    ASSUME Typed, NEW till, NEW got,
           AnswerTyped(flight.kind, [till |-> till, got |-> got, early |-> till = -1])
    PROVE  LET f == Answered(flight.kind, till, got)
               b == [till |-> till, got |-> got, early |-> till = -1] IN
           /\ f = [pc |-> IF flight.kind = "flags" THEN "begin" ELSE IF flight.old THEN "backend" ELSE "reply",
                   kind |-> "segments", key |-> flight.key, old |-> flight.old,
                   body |-> f.body, late |-> flight.late]
           /\ \A k \in RuleKinds : f.body[k] = IF k = flight.kind THEN b ELSE flight.body[k]
           /\ BodyTyped(f.body)
<1> DEFINE b == [till |-> till, got |-> got, early |-> till = -1]
           body == [flight.body EXCEPT ![flight.kind] = b]
<1>1. /\ flight = [pc |-> flight.pc, kind |-> flight.kind, key |-> flight.key, old |-> flight.old,
                   body |-> flight.body, late |-> flight.late]
      /\ flight.kind \in RuleKinds
      /\ flight.body = [k \in RuleKinds |-> flight.body[k]]
      /\ \A k \in RuleKinds : AnswerTyped(k, flight.body[k])
  BY DEF Typed, FlightTyped, BodyTyped
<1>2. \A k \in RuleKinds : body[k] = IF k = flight.kind THEN b ELSE flight.body[k]
  BY <1>1
<1>3. body = [k \in RuleKinds |-> body[k]]
  BY <1>1
<1>4. BodyTyped(body)
  <2> HIDE DEF body, b
  <2>1. AnswerTyped(flight.kind, b)
    BY DEF b
  <2> QED
    BY <1>1, <1>2, <1>3, <2>1 DEF BodyTyped
<1>5. Answered(flight.kind, till, got)
        = [pc |-> IF flight.kind = "flags" THEN "begin" ELSE IF flight.old THEN "backend" ELSE "reply",
           kind |-> "segments", key |-> flight.key, old |-> flight.old, body |-> body, late |-> flight.late]
  BY <1>1 DEF Answered, RuleKinds
<1> HIDE DEF body
<1>6. Answered(flight.kind, till, got).body = body
  BY <1>5
<1> QED
  BY <1>2, <1>4, <1>5, <1>6

LEMMA PublishTyped ==
    ASSUME Typed, NEW k \in RuleKinds, NEW c \in History!Change, PublishRule(k, c)
    PROVE  Typed'
<1>1. /\ UNCHANGED <<storeVars, up, sync, killing, cache, flight, pollVars, starts>>
      /\ published' = [published EXCEPT ![k] = Append(@, c)]
      /\ Len(published[k]) < MaxRuleCN /\ MaxRuleCN \in Nat
      /\ backup' = backup \/ backup' = NoRules
  BY RulesAssumption DEF PublishRule, StillUsable
<1>2. /\ published' \in [RuleKinds -> Seq(Log!Change)]
      /\ \A j \in RuleKinds : /\ Len(published'[j]) <= MaxRuleCN
                               /\ Len(published[j]) \in Nat /\ Len(published'[j]) \in Nat
                               /\ Len(published[j]) <= Len(published'[j])
  BY <1>1, SameLog DEF Typed, StoresTyped
<1>3. ASSUME NEW s, Within(s)
      PROVE  \A j \in RuleKinds, r \in Rules : s[j][r] \in Nat /\ s[j][r] <= Len(published'[j])
  BY <1>2, <1>3 DEF Within
<1>4. ASSUME NEW q, Reached(q)
      PROVE  \A j \in RuleKinds : -1 <= q[j] /\ q[j] <= Len(published'[j])
  <2>1. \A j \in RuleKinds : q[j] \in Int /\ -1 <= q[j] /\ q[j] <= Len(published[j])
    BY <1>4 DEF Reached
  <2> QED
    BY <1>2, <2>1
<1>5. ASSUME NEW j \in RuleKinds, NEW b, AnswerTyped(j, b)
      PROVE  b.till \in -1..Len(published'[j]) /\ \A r \in DOMAIN b.got : b.got[r] \in 0..Len(published'[j])
  BY <1>2, <1>5 DEF AnswerTyped
<1>6. StoresTyped'
  <2>1. Within(activeRules)' /\ Within(updatedAt)' /\ Within(disk)'
    BY <1>1, <1>3 DEF Typed, StoresTyped, storeVars, Within
  <2>2. Within(backup)'
    <3>1. CASE backup' = NoRules
      BY <1>2, <3>1 DEF Within, NoRules
    <3>2. CASE backup' = backup
      BY <1>3, <3>2 DEF Typed, StoresTyped, Within
    <3> QED
      BY <1>1, <3>1, <3>2
  <2>3. Reached(activeCN)' /\ Reached(oldestKnownCN)'
    BY <1>1, <1>4 DEF Typed, StoresTyped, storeVars, Reached
  <2> QED
    BY <1>1, <1>2, <2>1, <2>2, <2>3 DEF Typed, StoresTyped
<1>7. SdkTyped'
  BY <1>1, <1>3, <1>4 DEF Typed, SdkTyped, pollVars, Within, Reached
<1>8. SyncTyped'
  <2>1. \A j \in RuleKinds : ChangesTyped(j, sync.changes[j])'
    BY <1>1, <1>2 DEF Typed, SyncTyped, ChangesTyped
  <2>2. Reached(sync.previous)'
    BY <1>1, <1>4 DEF Typed, SyncTyped, Reached
  <2> QED
    BY <1>1, <2>1, <2>2 DEF Typed, SyncTyped, Batch
<1>9. ASSUME NEW body, BodyTyped(body)
      PROVE  \A j \in RuleKinds : /\ body[j].till \in -1..Len(published'[j])
                                  /\ \A r \in DOMAIN body[j].got : body[j].got[r] \in 0..Len(published'[j])
  BY <1>5, <1>9 DEF BodyTyped
<1>10. FlightTyped'
  <2>1. BodyTyped(flight.body)'
    BY <1>1, <1>9 DEF Typed, FlightTyped, BodyTyped, AnswerTyped
  <2>2. Reached(flight.key)'
    BY <1>1, <1>4 DEF Typed, FlightTyped, Reached
  <2> QED
    BY <1>1, <2>1, <2>2 DEF Typed, FlightTyped
<1>11. CacheTyped'
  <2>1. ASSUME NEW e \in cache PROVE EntryTyped(e)'
    <3>1. EntryTyped(e)
      BY DEF Typed, CacheTyped
    <3>2. BodyTyped(e.body)'
      BY <1>9, <3>1 DEF EntryTyped, BodyTyped, AnswerTyped
    <3>3. Reached(e.key)'
      BY <1>4, <3>1 DEF EntryTyped, Reached
    <3> QED
      BY <3>1, <3>2, <3>3 DEF EntryTyped
  <2> QED
    BY <1>1, <2>1 DEF Typed, CacheTyped
<1> QED
  BY <1>6, <1>7, <1>8, <1>10, <1>11 DEF Typed

\* What a step leaves alone stays well typed.
LEMMA TypedFrame ==
    ASSUME Typed, UNCHANGED published
    PROVE  /\ UNCHANGED <<storeVars, up, killing, backup, starts>> => StoresTyped'
           /\ UNCHANGED pollVars => SdkTyped'
           /\ UNCHANGED sync => SyncTyped'
           /\ UNCHANGED flight => FlightTyped'
           /\ UNCHANGED cache \/ cache' = {} => CacheTyped'
<1>1. UNCHANGED <<storeVars, up, killing, backup, starts>> => StoresTyped'
  BY DEF Typed, StoresTyped, storeVars, Within, Reached
<1>2. UNCHANGED pollVars => SdkTyped'
  BY DEF Typed, SdkTyped, pollVars, Within, Reached
<1>3. UNCHANGED sync => SyncTyped'
  BY DEF Typed, SyncTyped, ChangesTyped, Reached, Batch
<1>4. UNCHANGED flight => FlightTyped'
  BY DEF Typed, FlightTyped, BodyTyped, AnswerTyped, Reached
<1>5. UNCHANGED cache \/ cache' = {} => CacheTyped'
  BY DEF Typed, CacheTyped, EntryTyped, BodyTyped, AnswerTyped, Reached
<1> QED
  BY <1>1, <1>2, <1>3, <1>4, <1>5

\* A synchronization that goes on to another step.
LEMMA SyncGoesOn ==
    ASSUME Typed, UNCHANGED published,
           sync' = [pc |-> sync'.pc, kind |-> sync'.kind, changes |-> sync'.changes, previous |-> sync'.previous],
           sync'.pc \in {"idle", "fetch", "start", "evict"},
           sync'.kind \in RuleKinds,
           sync'.changes = sync.changes \/ sync'.changes = NoChanges,
           sync'.previous = sync.previous \/ sync'.previous = activeCN \/ sync'.previous = FromScratch
    PROVE  SyncTyped'
<1>1. \A k \in RuleKinds : ChangesTyped(k, [batch |-> {}, till |-> -1]) /\ Reached(FromScratch)
  BY IdleTyped DEF Typed, StoresTyped
<1>2. Reached(sync.previous) /\ Reached(activeCN)
  BY DEF Typed, StoresTyped, SyncTyped
<1>3. Reached(sync.previous)'
  BY <1>1, <1>2 DEF Reached
<1>4. sync'.changes = [k \in RuleKinds |-> sync'.changes[k]]
  BY DEF Typed, SyncTyped, NoChanges
<1>5. ASSUME NEW k \in RuleKinds PROVE ChangesTyped(k, sync.changes[k])'
  BY <1>1 DEF Typed, SyncTyped, ChangesTyped, NoChanges
<1> QED
  BY <1>3, <1>4, <1>5 DEF SyncTyped

\* What the save of a record does.
LEMMA SaveRuleIs ==
    ASSUME Typed, NEW n, SaveRule(n)
    PROVE  LET k == sync.kind
               r == published[k][n].name IN
           /\ sync.pc = "save" /\ k \in RuleKinds /\ r \in Rules
           /\ n \in Batch /\ n \in 1..Len(published[k]) /\ Len(published[k]) \in Nat
           /\ disk' = [disk EXCEPT ![k] = disk'[k]]
           /\ disk'[k] = [disk[k] EXCEPT ![r] = n] \/ (SavesFail /\ disk'[k] = disk[k])
           /\ Batch = {n} => sync' = AfterKind
           /\ Batch # {n} =>
                /\ sync' = [pc |-> "save", kind |-> k, changes |-> sync'.changes, previous |-> sync.previous]
                /\ sync'.changes = [j \in RuleKinds |-> sync'.changes[j]]
                /\ \A j \in RuleKinds : sync'.changes[j] =
                     IF j = k THEN [batch |-> Batch \ {n}, till |-> sync.changes[j].till] ELSE sync.changes[j]
<1> DEFINE k == sync.kind
           r == published[k][n].name
<1>1. /\ sync = [pc |-> sync.pc, kind |-> k, changes |-> sync.changes, previous |-> sync.previous]
      /\ k \in RuleKinds /\ sync.pc = "save" /\ n \in Batch
      /\ sync.changes = [j \in RuleKinds |-> sync.changes[j]]
      /\ ChangesTyped(k, sync.changes[k])
  BY DEF SaveRule, Typed, SyncTyped
<1>2. n \in 1..Len(published[k]) /\ Len(published[k]) \in Nat /\ r \in Rules
  <2>1. published[k] \in Seq(Log!Change) /\ n \in 1..Len(published[k])
    BY <1>1 DEF Typed, StoresTyped, ChangesTyped, Batch
  <2>2. published[k][n] \in Log!Change
    BY <2>1
  <2> QED
    BY <2>1, <2>2 DEF Log!Change
<1>3. PICK saved \in SaveAs(disk[k], r, n) : disk' = [disk EXCEPT ![k] = saved]
  BY DEF SaveRule
<1>4. saved = [disk[k] EXCEPT ![r] = n] \/ (SavesFail /\ saved = disk[k])
  BY <1>3 DEF SaveAs
<1>5. disk'[k] = saved
  BY <1>1, <1>3 DEF Typed, StoresTyped, Within
<1>6. ASSUME Batch # {n}
      PROVE  /\ sync' = [pc |-> "save", kind |-> k, changes |-> sync'.changes, previous |-> sync.previous]
             /\ sync'.changes = [sync.changes EXCEPT ![k] =
                  [batch |-> Batch \ {n}, till |-> sync.changes[k].till]]
  <2>1. sync' = [sync EXCEPT !.changes[k].batch = Batch \ {n}]
    BY <1>6 DEF SaveRule
  <2>2. sync.changes[k] = [batch |-> sync.changes[k].batch, till |-> sync.changes[k].till]
    BY <1>1 DEF ChangesTyped
  <2> QED
    BY <1>1, <2>1, <2>2
<1>7. Batch = {n} => sync' = AfterKind
  BY DEF SaveRule
<1> QED
  BY <1>1, <1>2, <1>3, <1>4, <1>5, <1>6, <1>7

LEMMA SyncTypedStep ==
    ASSUME Typed, SyncRules \/ FetchWorks \/ FetchFails
    PROVE  Typed'
<1>0. /\ sync = [pc |-> sync.pc, kind |-> sync.kind, changes |-> sync.changes, previous |-> sync.previous]
      /\ sync.kind \in RuleKinds
  BY DEF Typed, SyncTyped
<1>1. CASE BeginSync
  <2>1. SyncTyped'
    BY <1>1, SyncGoesOn DEF BeginSync, NoSync, RuleKinds
  <2> QED
    BY <1>1, <2>1, TypedFrame DEF BeginSync, Typed
<1>2. CASE FetchRules
  <2>1. ASSUME NEW k \in RuleKinds PROVE ChangesTyped(k, sync'.changes[k])
    <3>1. published[k] \in Seq(Log!Change) /\ activeCN[k] \in -1..Len(published[k])
      BY DEF Typed, StoresTyped, Reached
    <3>2. TillFrom(k, activeCN[k]) \in -1..Len(published[k])
      BY <3>1, TillIs
    <3>3. Log!ChangedSince(published[k], activeCN[k]) \subseteq 1..Len(published[k])
      BY <3>1, Log!FetchedBatch
    <3>4. sync'.changes[k] = [batch |-> Log!ChangedSince(published[k], activeCN[k]),
                              till |-> TillFrom(k, activeCN[k])]
      BY <1>0, <1>2, SameLog DEF FetchRules
    <3> QED
      BY <3>2, <3>3, <3>4 DEF ChangesTyped
  <2>2. SyncTyped'
    <3>1. /\ sync' = [pc |-> "start", kind |-> "flags", changes |-> sync'.changes, previous |-> sync.previous]
          /\ sync'.changes = [k \in RuleKinds |-> sync'.changes[k]]
      BY <1>0, <1>2 DEF FetchRules
    <3>2. UNCHANGED published
      BY <1>2 DEF FetchRules
    <3>3. \A k \in RuleKinds : ChangesTyped(k, sync.changes[k])'
      BY <2>1, <3>2 DEF ChangesTyped
    <3>4. Reached(sync.previous)'
      BY <3>1, <3>2 DEF Typed, SyncTyped, Reached
    <3> QED
      BY <3>1, <3>3, <3>4 DEF SyncTyped, RuleKinds
  <2> QED
    BY <1>2, <2>2, TypedFrame DEF FetchRules, Typed
<1>3. CASE NothingNew
  <2>1. SyncTyped'
    BY <1>0, <1>3, SyncGoesOn DEF NothingNew
  <2>2. StoresTyped'
    BY <1>3 DEF NothingNew, Typed, StoresTyped, storeVars, Within, Reached
  <2> QED
    BY <1>3, <2>1, <2>2, TypedFrame DEF NothingNew, Typed
<1>4. CASE FetchFails
  <2>1. SyncTyped'
    BY <1>0, <1>4, SyncGoesOn DEF FetchFails
  <2> QED
    BY <1>4, <2>1, TypedFrame DEF FetchFails, Typed
<1>5. CASE StartingPoint
  <2>1. Batch # {} => sync'.pc = "snapshot" /\ sync' = [sync EXCEPT !.pc = "snapshot"]
    BY <1>0, <1>5 DEF StartingPoint
  <2>2. Batch = {} => SyncTyped'
    BY <1>0, <1>5, SyncGoesOn DEF StartingPoint, AfterKind, RuleKinds
  <2>3. UNCHANGED published
    BY <1>5 DEF StartingPoint
  <2>4. Batch # {} => SyncTyped'
    BY <2>1, <2>3, <1>0 DEF Typed, SyncTyped, Reached, ChangesTyped, Batch
  <2>5. Reached(oldestKnownCN)'
    <3>1. sync.changes[sync.kind].till \in -1..Len(published[sync.kind])
      BY <1>0 DEF Typed, SyncTyped, ChangesTyped
    <3>2. /\ oldestKnownCN' \in [RuleKinds -> Int]
          /\ \A k \in RuleKinds : oldestKnownCN'[k] \in {oldestKnownCN[k], sync.changes[k].till}
      BY <1>0, <1>5, <3>1 DEF StartingPoint, Typed, StoresTyped, Reached
    <3>3. \A k \in RuleKinds : sync.changes[k].till \in -1..Len(published[k])
      BY DEF Typed, SyncTyped, ChangesTyped
    <3>4. ASSUME NEW k \in RuleKinds PROVE -1 <= oldestKnownCN'[k] /\ oldestKnownCN'[k] <= Len(published[k])
      <4>1. CASE oldestKnownCN'[k] = oldestKnownCN[k]
        BY <4>1 DEF Typed, StoresTyped, Reached
      <4>2. CASE oldestKnownCN'[k] = sync.changes[k].till
        BY <3>3, <4>2
      <4> QED
        BY <3>2, <4>1, <4>2
    <3> QED
      BY <2>3, <3>2, <3>4 DEF Reached
  <2>6. StoresTyped'
    BY <1>5, <2>3, <2>5 DEF StartingPoint, Typed, StoresTyped, Within, Reached
  <2> QED
    BY <1>5, <2>2, <2>3, <2>4, <2>6, TypedFrame DEF StartingPoint, Typed
<1>6. CASE WriteSnapshot
  <2>1. UNCHANGED published /\ sync' = [sync EXCEPT !.pc = "historic"] /\ sync.pc = "snapshot"
    BY <1>6 DEF WriteSnapshot
  <2>2. SyncTyped'
    BY <2>1, <1>0 DEF Typed, SyncTyped, Reached, ChangesTyped, Batch
  <2>3. Reached(activeCN)'
    <3>1. sync.changes[sync.kind].till \in -1..Len(published[sync.kind])
      BY <1>0 DEF Typed, SyncTyped, ChangesTyped
    <3> QED
      BY <1>0, <1>6, <2>1, <3>1 DEF WriteSnapshot, Typed, StoresTyped, Reached
  <2>4. Within(activeRules)'
    <3>1. \A r \in Rules : ChangesIn(r) # {} =>
             VersionOf(sync.kind, Max(ChangesIn(r))) \in 0..Len(published[sync.kind])
      BY ChangesAre
    <3>2. /\ activeRules' = [activeRules EXCEPT ![sync.kind] = activeRules'[sync.kind]]
          /\ activeRules'[sync.kind] = [r \in Rules |-> activeRules'[sync.kind][r]]
          /\ \A r \in Rules : activeRules'[sync.kind][r] = IF ChangesIn(r) = {} THEN activeRules[sync.kind][r]
                                 ELSE VersionOf(sync.kind, Max(ChangesIn(r)))
      BY <1>0, <1>6 DEF WriteSnapshot, Typed, StoresTyped, Within
    <3>3. \A r \in Rules : activeRules'[sync.kind][r] \in Nat
                             /\ activeRules'[sync.kind][r] <= Len(published[sync.kind])
      <4>1. \A r \in Rules : activeRules[sync.kind][r] \in Nat
                             /\ activeRules[sync.kind][r] <= Len(published[sync.kind])
        BY <1>0 DEF Typed, StoresTyped, Within
      <4>2. Len(published[sync.kind]) \in Nat
        BY <1>0 DEF Typed, StoresTyped
      <4> QED
        BY <3>1, <3>2, <4>1, <4>2
    <3>4. activeRules'[sync.kind] \in [Rules -> Nat]
      BY <3>2, <3>3
    <3> QED
      BY <1>0, <2>1, <3>2, <3>3, <3>4 DEF Typed, StoresTyped, Within
  <2>5. StoresTyped'
    BY <1>6, <2>1, <2>3, <2>4 DEF WriteSnapshot, Typed, StoresTyped, Within, Reached
  <2> QED
    BY <1>6, <2>1, <2>2, <2>5, TypedFrame DEF WriteSnapshot, Typed
<1>7. CASE WriteHistoric
  <2>1. UNCHANGED published /\ sync' = [sync EXCEPT !.pc = "save"] /\ sync.pc = "historic"
    BY <1>7 DEF WriteHistoric
  <2>2. SyncTyped'
    BY <2>1, <1>0 DEF Typed, SyncTyped, Reached, ChangesTyped, Batch
  <2>3. Within(updatedAt)'
    <3>1. \A r \in Rules : ChangesIn(r) # {} => Max(ChangesIn(r)) \in 0..Len(published[sync.kind])
      BY ChangesAre
    <3>2. /\ updatedAt' = [updatedAt EXCEPT ![sync.kind] = updatedAt'[sync.kind]]
          /\ updatedAt'[sync.kind] = [r \in Rules |-> updatedAt'[sync.kind][r]]
          /\ \A r \in Rules : updatedAt'[sync.kind][r] = IF ChangesIn(r) = {} THEN updatedAt[sync.kind][r]
                                 ELSE Max(ChangesIn(r))
      BY <1>0, <1>7 DEF WriteHistoric, Typed, StoresTyped, Within
    <3>3. \A r \in Rules : updatedAt'[sync.kind][r] \in Nat
                             /\ updatedAt'[sync.kind][r] <= Len(published[sync.kind])
      <4>1. \A r \in Rules : updatedAt[sync.kind][r] \in Nat
                             /\ updatedAt[sync.kind][r] <= Len(published[sync.kind])
        BY <1>0 DEF Typed, StoresTyped, Within
      <4>2. Len(published[sync.kind]) \in Nat
        BY <1>0 DEF Typed, StoresTyped
      <4> QED
        BY <3>1, <3>2, <4>1, <4>2
    <3>4. updatedAt'[sync.kind] \in [Rules -> Nat]
      BY <3>2, <3>3
    <3> QED
      BY <1>0, <2>1, <3>2, <3>3, <3>4 DEF Typed, StoresTyped, Within
  <2>5. StoresTyped'
    BY <1>7, <2>1, <2>3 DEF WriteHistoric, Typed, StoresTyped, Within, Reached
  <2> QED
    BY <1>7, <2>1, <2>2, <2>5, TypedFrame DEF WriteHistoric, Typed
<1>8. CASE EndSync
  <2>1. SyncTyped'
    BY <1>8, SyncGoesOn DEF EndSync, NoSync, RuleKinds
  <2>2. FlightTyped'
    <3>1. CASE flight' = flight
      BY <1>8, <3>1, TypedFrame DEF EndSync
    <3>2. CASE flight.pc # "idle" /\ flight' = [flight EXCEPT !.late = TRUE]
      BY <1>8, <3>2 DEF EndSync, Typed, FlightTyped, BodyTyped, AnswerTyped, Reached
    <3> QED
      BY <1>8, <3>1, <3>2 DEF EndSync, EvictSplits
  <2>3. CacheTyped'
    BY <1>8, TypedFrame DEF EndSync, EvictSplits
  <2> QED
    BY <1>8, <2>1, <2>2, <2>3, TypedFrame DEF EndSync, Typed
<1>9. ASSUME NEW n \in 1..MaxRuleCN, SaveRule(n) PROVE Typed'
  <2>1. UNCHANGED <<published, activeRules, activeCN, updatedAt, oldestKnownCN, up, killing, cache, flight,
                    pollVars, backup, starts>>
    BY <1>9 DEF SaveRule
  <2>2. /\ n \in Batch /\ n \in 1..Len(published[sync.kind]) /\ Len(published[sync.kind]) \in Nat
        /\ published[sync.kind][n].name \in Rules
        /\ disk' = [disk EXCEPT ![sync.kind] = disk'[sync.kind]]
        /\ \/ disk'[sync.kind] = [disk[sync.kind] EXCEPT ![published[sync.kind][n].name] = n]
           \/ disk'[sync.kind] = disk[sync.kind]
    BY <1>9, SaveRuleIs
  <2>3. SyncTyped'
    <3>1. CASE Batch = {n}
      BY <1>0, <1>9, <2>1, <3>1, SyncGoesOn, SaveRuleIs DEF AfterKind, RuleKinds
    <3>2. CASE Batch # {n}
      <4>1. /\ sync' = [pc |-> "save", kind |-> sync.kind, changes |-> sync'.changes, previous |-> sync.previous]
            /\ sync'.changes = [k \in RuleKinds |-> sync'.changes[k]]
            /\ \A k \in RuleKinds : sync'.changes[k] =
                   IF k = sync.kind THEN [batch |-> Batch \ {n}, till |-> sync.changes[k].till] ELSE sync.changes[k]
        BY <1>9, <3>2, SaveRuleIs
      <4>2. sync'.pc = "save" /\ sync'.kind = sync.kind /\ sync'.previous = sync.previous
        BY <4>1
      <4>3. ASSUME NEW k \in RuleKinds PROVE ChangesTyped(k, sync'.changes[k])
        <5>1. ChangesTyped(k, sync.changes[k])
          BY DEF Typed, SyncTyped
        <5>2. CASE k # sync.kind
          BY <4>1, <5>1, <5>2
        <5>3. CASE k = sync.kind
          <6>1. sync'.changes[k] = [batch |-> Batch \ {n}, till |-> sync.changes[k].till]
            BY <4>1, <5>3
          <6> QED
            BY <5>1, <5>3, <6>1 DEF ChangesTyped, Batch
        <5> QED
          BY <5>2, <5>3
      <4>4. \A k \in RuleKinds : ChangesTyped(k, sync.changes[k])'
        BY <2>1, <4>3 DEF ChangesTyped
      <4>5. sync'.changes[sync'.kind].batch = Batch \ {n} /\ Batch \ {n} # {}
        <5>1. sync'.changes[sync.kind] = [batch |-> Batch \ {n}, till |-> sync.changes[sync.kind].till]
          BY <1>0, <4>1
        <5> QED
          BY <2>2, <3>2, <4>2, <5>1
      <4>6. Reached(sync.previous)'
        BY <2>1, <4>2 DEF Typed, SyncTyped, Reached
      <4> QED
        BY <1>0, <4>1, <4>2, <4>4, <4>5, <4>6 DEF SyncTyped, Batch
    <3> QED
      BY <3>1, <3>2
  <2>4. Within(disk)'
    <3>1. disk \in [RuleKinds -> [Rules -> Nat]] /\ n \in Nat /\ n <= Len(published[sync.kind])
      BY <2>2 DEF Typed, StoresTyped, Within
    <3>2. disk'[sync.kind] \in [Rules -> Nat]
      BY <1>0, <2>2, <3>1
    <3>3. disk' \in [RuleKinds -> [Rules -> Nat]]
      BY <1>0, <2>2, <3>1, <3>2
    <3>4. \A r \in Rules : disk'[sync.kind][r] = disk[sync.kind][r] \/ disk'[sync.kind][r] = n
      BY <1>0, <2>2, <3>1
    <3>5. \A k \in RuleKinds : k # sync.kind => disk'[k] = disk[k]
      BY <2>2, <3>1
    <3>6. \A k \in RuleKinds, r \in Rules : disk'[k][r] <= Len(published[k])
      <4>1. \A k \in RuleKinds, r \in Rules : disk[k][r] <= Len(published[k])
        BY DEF Typed, StoresTyped, Within
      <4> QED
        BY <3>1, <3>4, <3>5, <4>1
    <3> QED
      BY <2>1, <3>3, <3>6 DEF Within
  <2>5. StoresTyped'
    BY <2>1, <2>4 DEF Typed, StoresTyped, Within, Reached
  <2> QED
    BY <2>1, <2>3, <2>5, TypedFrame DEF Typed
<1> QED
  BY <1>1, <1>2, <1>3, <1>4, <1>5, <1>6, <1>7, <1>8, <1>9 DEF SyncRules, FetchWorks

LEMMA KillTyped ==
    ASSUME Typed, NEW n, KillRule(n) \/ EvictKilled
    PROVE  Typed'
<1>1. CASE KillRule(n)
  <2>1. /\ UNCHANGED <<published, activeCN, updatedAt, oldestKnownCN, disk, up, sync, cache, flight, pollVars, backup, starts>>
        /\ killing' = TRUE /\ n \in 1..Len(published["flags"])
        /\ LET r == published["flags"][n].name IN
           activeRules' = [activeRules EXCEPT !["flags"][r] = n]
    BY <1>1 DEF KillRule
  <2>2. Within(activeRules)'
    <3>1. /\ published["flags"] \in Seq(Log!Change) /\ "flags" \in RuleKinds
          /\ Len(published["flags"]) \in Nat
      BY DEF Typed, StoresTyped, RuleKinds
    <3>2. published["flags"][n].name \in Rules
      <4>1. published["flags"][n] \in Log!Change
        BY <2>1, <3>1
      <4> QED
        BY <4>1 DEF Log!Change
    <3>3. activeRules' \in [RuleKinds -> [Rules -> Nat]]
      BY <2>1, <3>1, <3>2 DEF Typed, StoresTyped, Within
    <3>4. \A k \in RuleKinds, r \in Rules : activeRules'[k][r] \in {activeRules[k][r]} \cup
             IF k = "flags" THEN {n} ELSE {}
      BY <2>1, <3>1, <3>2 DEF Typed, StoresTyped, Within
    <3>5. \A k \in RuleKinds, r \in Rules : activeRules'[k][r] <= Len(published[k])
      BY <2>1, <3>4 DEF Typed, StoresTyped, Within
    <3> QED
      BY <2>1, <3>3, <3>5 DEF Within
  <2>3. StoresTyped'
    BY <2>1, <2>2 DEF Typed, StoresTyped, Within, Reached
  <2> QED
    BY <2>1, <2>3, TypedFrame DEF Typed
<1>2. CASE EvictKilled
  <2>1. FlightTyped'
    <3>1. CASE flight' = flight
      BY <1>2, <3>1, TypedFrame DEF EvictKilled
    <3>2. CASE flight.pc # "idle" /\ flight' = [flight EXCEPT !.late = TRUE]
      BY <1>2, <3>2 DEF EvictKilled, Typed, FlightTyped, BodyTyped, AnswerTyped, Reached
    <3> QED
      BY <1>2, <3>1, <3>2 DEF EvictKilled, EvictSplits
  <2>2. StoresTyped'
    BY <1>2 DEF EvictKilled, Typed, StoresTyped, storeVars, Within, Reached
  <2> QED
    BY <1>2, <2>1, <2>2, TypedFrame DEF EvictKilled, EvictSplits, Typed
<1> QED
  BY <1>1, <1>2

\* What most steps of a request change: nothing else.
LEMMA RequestFrame ==
    ASSUME Typed, Untouched, UNCHANGED cache, FlightTyped'
    PROVE  Typed'
BY TypedFrame DEF Untouched, Typed

\* A request goes on with another step, or with a part of its answer.
LEMMA FlightGoesOn ==
    ASSUME Typed, UNCHANGED published, flight.pc # "idle",
           flight' = [flight EXCEPT !.pc = flight'.pc, !.body[flight.kind] = flight'.body[flight.kind]],
           flight'.pc \in {"begin", "all", "historic", "fetch"},
           flight'.pc \in {"all", "historic"} => (flight'.pc = "all" <=> flight.key[flight.kind] = -1),
           AnswerTyped(flight.kind, flight'.body[flight.kind])
    PROVE  FlightTyped'
<1>1. /\ flight = [pc |-> flight.pc, kind |-> flight.kind, key |-> flight.key, old |-> flight.old,
                   body |-> flight.body, late |-> flight.late]
      /\ flight.kind \in RuleKinds
      /\ flight.body = [k \in RuleKinds |-> flight.body[k]]
      /\ \A k \in RuleKinds : AnswerTyped(k, flight.body[k])
  BY DEF Typed, FlightTyped, BodyTyped
<1> DEFINE b == flight'.body[flight.kind]
<1>2. /\ flight' = [pc |-> flight'.pc, kind |-> flight.kind, key |-> flight.key, old |-> flight.old,
                    body |-> [flight.body EXCEPT ![flight.kind] = b], late |-> flight.late]
  BY <1>1
<1>3. /\ flight'.body = [k \in RuleKinds |-> flight'.body[k]]
      /\ \A k \in RuleKinds : flight'.body[k] = IF k = flight.kind THEN b ELSE flight.body[k]
  BY <1>1, <1>2
<1>4. ASSUME NEW k \in RuleKinds PROVE AnswerTyped(k, flight.body[k])'
  <2>1. AnswerTyped(k, flight'.body[k])
    BY <1>1, <1>3
  <2> QED
    BY <2>1 DEF AnswerTyped
<1>5. BodyTyped(flight.body)'
  BY <1>3, <1>4 DEF BodyTyped
<1>6. Reached(flight.key)'
  BY <1>2 DEF Typed, FlightTyped, Reached
<1>7. /\ flight'.kind = flight.kind /\ flight'.old = flight.old /\ flight'.late = flight.late
      /\ flight' = [pc |-> flight'.pc, kind |-> flight'.kind, key |-> flight'.key, old |-> flight'.old,
                    body |-> flight'.body, late |-> flight'.late]
  BY <1>2
<1> QED
  BY <1>5, <1>6, <1>7 DEF Typed, FlightTyped

\* What SinceIsTooOld and NewerThan compare with.
LEMMA MaxOfTwo ==
    ASSUME NEW t \in Int, t >= -1
    PROVE  Max({t, 0}) = IF t = -1 THEN 0 ELSE t
<1> DEFINE m == IF t = -1 THEN 0 ELSE t
<1>1. {t, 0} \in SUBSET (-1..m) /\ {t, 0} # {} /\ m \in Nat
  OBVIOUS
<1>2. Max({t, 0}) \in {t, 0} /\ \A n \in {t, 0} : n <= Max({t, 0})
  BY <1>1, MaxIs
<1> QED
  BY <1>2

\* The CN of an answer from the views.
LEMMA ViewsAre ==
    ASSUME Typed, NEW k \in RuleKinds, NEW t \in Nat, t <= Len(published[k])
    PROVE  LET newer == NewerThan(k, t)
               till == Max({t} \cup {updatedAt[k][r] : r \in newer}) IN
           /\ newer = {r \in Rules : updatedAt[k][r] > t}
           /\ till \in t..Len(published[k])
           /\ till = t \/ \E r \in newer : till = updatedAt[k][r]
           /\ \A r \in Rules : updatedAt[k][r] <= till
<1> DEFINE newer == NewerThan(k, t)
           S == {t} \cup {updatedAt[k][r] : r \in newer}
<1>1. \A r \in Rules : updatedAt[k][r] \in Nat /\ updatedAt[k][r] <= Len(published[k])
  BY DEF Typed, StoresTyped, Within
<1>2. Len(published[k]) \in Nat
  BY DEF Typed, StoresTyped
<1>3. newer = {r \in Rules : updatedAt[k][r] > t}
  BY MaxOfTwo DEF NewerThan
<1>4. S # {} /\ S \in SUBSET (-1..Len(published[k]))
  BY <1>1, <1>2, <1>3
<1>5. Max(S) \in S /\ \A n \in S : n <= Max(S)
  BY <1>2, <1>4, MaxIs
<1>6. Max(S) \in t..Len(published[k])
  BY <1>2, <1>4, <1>5
<1>7. Max(S) = t \/ \E r \in newer : Max(S) = updatedAt[k][r]
  BY <1>5
<1>8. ASSUME NEW r \in Rules PROVE updatedAt[k][r] <= Max(S)
  <2>1. CASE updatedAt[k][r] > t
    <3>1. updatedAt[k][r] \in S
      BY <1>3, <2>1
    <3> QED
      BY <1>5, <3>1
  <2>2. CASE ~(updatedAt[k][r] > t)
    <3>1. updatedAt[k][r] <= t /\ t <= Max(S) /\ Max(S) \in Int
      BY <1>1, <1>5, <1>6, <2>2
    <3> HIDE DEF S
    <3> QED
      BY <1>1, <3>1
  <2> QED
    BY <2>1, <2>2
<1> QED
  BY <1>3, <1>6, <1>7, <1>8

\* A version is a change number, or 0.
LEMMA VersionIs ==
    ASSUME Typed, NEW k \in RuleKinds, NEW n \in 0..Len(published[k])
    PROVE  VersionOf(k, n) \in {0, n} /\ VersionOf(k, n) \in 0..Len(published[k])
<1>1. Len(published[k]) \in Nat
  BY DEF Typed, StoresTyped
<1> QED
  BY <1>1 DEF VersionOf

LEMMA ServeTyped ==
    ASSUME Typed, \/ HandleSplits \/ ReadSnapshotCN \/ ReadSnapshot \/ SinceIsTooOld \/ ReadViews
                  \/ FetchRuleVersions \/ FetchFromBackendSince \/ BackendFails
    PROVE  Typed'
<1> DEFINE k == flight.kind
<1>0. /\ flight = [pc |-> flight.pc, kind |-> flight.kind, key |-> flight.key, old |-> flight.old,
                   body |-> flight.body, late |-> flight.late]
      /\ k \in RuleKinds /\ AnswerTyped(k, flight.body[k])
      /\ flight.body = [j \in RuleKinds |-> flight.body[j]]
      /\ Len(published[k]) \in Nat /\ flight.key[k] \in -1..Len(published[k])
      /\ \A r \in Rules : activeRules[k][r] \in 0..Len(published[k]) /\ updatedAt[k][r] \in 0..Len(published[k])
      /\ activeCN[k] \in -1..Len(published[k])
  BY DEF Typed, FlightTyped, BodyTyped, StoresTyped, Within, Reached
<1>1. CASE HandleSplits
  <2>1. UNCHANGED published /\ UNCHANGED sdkCN /\ flight' = [NoFlight EXCEPT !.pc = "begin", !.key = sdkCN]
    BY <1>1 DEF HandleSplits, Untouched, pollVars
  <2>2. Reached(sdkCN)' /\ BodyTyped(NoBody)'
    BY <2>1, IdleTyped DEF Typed, StoresTyped, SdkTyped, Reached, BodyTyped, AnswerTyped
  <2>3. FlightTyped'
    BY <2>1, <2>2 DEF FlightTyped, NoFlight, RuleKinds, BodyTyped, AnswerTyped, Reached, NoBody
  <2> QED
    BY <1>1, <2>3, RequestFrame DEF HandleSplits
<1>2. CASE ReadSnapshotCN
  <2>1. flight' = [flight EXCEPT !.pc = "all", !.body[k].till = activeCN[k]] /\ flight.pc = "begin"
    BY <1>2 DEF ReadSnapshotCN
  <2>2. flight'.body[k] = [flight.body[k] EXCEPT !.till = activeCN[k]]
    BY <1>0, <2>1
  <2>3. AnswerTyped(k, flight'.body[k])
    BY <1>0, <2>2 DEF AnswerTyped
  <2>4. flight' = [flight EXCEPT !.pc = flight'.pc, !.body[k] = flight'.body[k]]
    BY <1>0, <2>1, <2>2
  <2>5. UNCHANGED published /\ flight.key[k] = -1
    BY <1>2 DEF ReadSnapshotCN, Untouched
  <2>6. FlightTyped'
    BY <2>1, <2>3, <2>4, <2>5, FlightGoesOn
  <2> QED
    BY <1>2, <2>6, RequestFrame DEF ReadSnapshotCN
<1>3. ASSUME NEW till \in -1..Len(published[k]), NEW got, flight' = Answered(k, till, got),
             got = [r \in DOMAIN got |-> got[r]], DOMAIN got \subseteq Rules,
             \A r \in DOMAIN got : got[r] \in 0..Len(published[k]),
             UNCHANGED published
      PROVE  FlightTyped'
  <2>1. AnswerTyped(k, [till |-> till, got |-> got, early |-> till = -1])
    BY <1>0, <1>3 DEF AnswerTyped
  <2>2. /\ flight' = [pc |-> IF k = "flags" THEN "begin" ELSE IF flight.old THEN "backend" ELSE "reply",
                      kind |-> "segments", key |-> flight.key, old |-> flight.old,
                      body |-> flight'.body, late |-> flight.late]
        /\ BodyTyped(flight'.body)
    BY <1>3, <2>1, AnsweredIs
  <2>3. BodyTyped(flight.body)'
    BY <1>3, <2>2 DEF BodyTyped, AnswerTyped
  <2>4. Reached(flight.key)'
    BY <1>3, <2>2 DEF Typed, FlightTyped, Reached
  <2> QED
    BY <2>2, <2>3, <2>4 DEF Typed, FlightTyped, RuleKinds
<1>4. CASE ReadSnapshot
  <2> DEFINE served == {r \in Rules : activeRules[k][r] # 0}
             got == [r \in served |-> activeRules[k][r]]
  <2>1. flight' = Answered(k, flight.body[k].till, got) /\ UNCHANGED published
    BY <1>4 DEF ReadSnapshot, Untouched
  <2>2. flight.body[k].till \in -1..Len(published[k])
    BY <1>0 DEF AnswerTyped
  <2>3. /\ DOMAIN got \subseteq Rules /\ got = [r \in DOMAIN got |-> got[r]]
        /\ \A r \in DOMAIN got : got[r] \in 0..Len(published[k])
    BY <1>0
  <2>4. FlightTyped'
    <3> DEFINE till == flight.body[k].till
    <3> HIDE DEF served, got
    <3>1. till \in -1..Len(published[k]) /\ flight' = Answered(k, till, got) /\ UNCHANGED published
      BY <2>1, <2>2
    <3> HIDE DEF till
    <3> QED
      BY <1>3, <2>3, <3>1
  <2> QED
    BY <1>4, <2>4, RequestFrame DEF ReadSnapshot
<1>5. CASE SinceIsTooOld
  <2>1. CASE flight.key[k] < oldestKnownCN[k]
    <3> DEFINE f == Answered(k, -1, <<>>)
    <3>1. flight' = [f EXCEPT !.old = TRUE, !.pc = IF k = "flags" THEN "begin" ELSE "backend"]
          /\ UNCHANGED published
      BY <1>5, <2>1 DEF SinceIsTooOld, Untouched
    <3>2. AnswerTyped(k, [till |-> -1, got |-> <<>>, early |-> -1 = -1])
      BY <1>0, IdleTyped DEF Typed, StoresTyped
    <3>3. /\ f = [pc |-> f.pc, kind |-> "segments", key |-> flight.key, old |-> flight.old,
                  body |-> f.body, late |-> flight.late]
          /\ BodyTyped(f.body)
      <4>1. f = [pc |-> IF k = "flags" THEN "begin" ELSE IF flight.old THEN "backend" ELSE "reply",
                 kind |-> "segments", key |-> flight.key, old |-> flight.old, body |-> f.body, late |-> flight.late]
            /\ BodyTyped(f.body)
        BY <3>2, AnsweredIs
      <4> HIDE DEF f
      <4> QED
        BY <4>1
    <3> DEFINE pc == IF k = "flags" THEN "begin" ELSE "backend"
               body == f.body
    <3>4. flight' = [pc |-> pc, kind |-> "segments", key |-> flight.key, old |-> TRUE,
                     body |-> body, late |-> flight.late]
      <4> HIDE DEF f, body
      <4>1. PICK p : f = [pc |-> p, kind |-> "segments", key |-> flight.key, old |-> flight.old,
                          body |-> body, late |-> flight.late]
        BY <3>3 DEF body
      <4>2. flight' = [f EXCEPT !.old = TRUE, !.pc = pc]
        BY <3>1
      <4> HIDE DEF pc
      <4> QED
        BY <4>1, <4>2
    <3>5. BodyTyped(body)
      BY <3>3
    <3> HIDE DEF f, body
    <3>6. pc \in {"begin", "backend"}
      OBVIOUS
    <3> HIDE DEF pc
    <3>7. /\ flight'.pc = pc /\ flight'.kind = "segments" /\ flight'.key = flight.key /\ flight'.old = TRUE
          /\ flight'.body = body /\ flight'.late = flight.late
          /\ flight' = [pc |-> flight'.pc, kind |-> flight'.kind, key |-> flight'.key, old |-> flight'.old,
                        body |-> flight'.body, late |-> flight'.late]
      BY <3>4
    <3>8. BodyTyped(flight.body)'
      BY <3>1, <3>5, <3>7 DEF BodyTyped, AnswerTyped
    <3>9. Reached(flight.key)' /\ flight'.late \in BOOLEAN
      BY <3>1, <3>7 DEF Typed, FlightTyped, Reached
    <3>10. FlightTyped'
      BY <3>6, <3>7, <3>8, <3>9 DEF FlightTyped, RuleKinds
    <3> QED
      BY <1>5, <3>10, RequestFrame DEF SinceIsTooOld
  <2>2. CASE ~(flight.key[k] < oldestKnownCN[k])
    <3>1. flight' = [flight EXCEPT !.pc = "historic"] /\ flight.pc = "begin"
      BY <1>5, <2>2 DEF SinceIsTooOld
    <3>2. flight'.body[k] = flight.body[k] /\ flight' = [flight EXCEPT !.pc = flight'.pc, !.body[k] = flight'.body[k]]
      BY <1>0, <3>1
    <3>3. UNCHANGED published /\ flight.key[k] # -1
      BY <1>5 DEF SinceIsTooOld, Untouched
    <3>4. FlightTyped'
      BY <1>0, <3>1, <3>2, <3>3, FlightGoesOn
    <3> QED
      BY <1>5, <3>4, RequestFrame DEF SinceIsTooOld
  <2> QED
    BY <2>1, <2>2
<1>6. CASE ReadViews
  <2> DEFINE t == flight.key[k]
             newer == NewerThan(k, t)
             till == Max({t} \cup {updatedAt[k][r] : r \in newer})
             b == [till |-> till, got |-> [r \in newer |-> VersionOf(k, updatedAt[k][r])], early |-> FALSE]
  <2>1. flight.pc = "historic" /\ t \in Nat /\ t <= Len(published[k])
    BY <1>0, <1>6 DEF ReadViews, Typed, FlightTyped
  <2>2. flight' = [flight EXCEPT !.pc = "fetch", !.body[k] = b]
    BY <1>6 DEF ReadViews
  <2>3. newer \subseteq Rules /\ till \in -1..Len(published[k])
    <3>1. newer = {r \in Rules : updatedAt[k][r] > t} /\ till \in t..Len(published[k])
      BY <1>0, <2>1, ViewsAre
    <3> HIDE DEF till, newer
    <3> QED
      BY <1>0, <2>1, <3>1
  <2>4. AnswerTyped(k, b)
    <3>1. \A r \in newer : VersionOf(k, updatedAt[k][r]) \in 0..Len(published[k])
      BY <1>0, <2>3, VersionIs
    <3> HIDE DEF till, newer
    <3> QED
      BY <2>3, <3>1 DEF AnswerTyped
  <2> HIDE DEF b
  <2>5. flight'.body[k] = b /\ flight'.pc = "fetch"
    BY <1>0, <2>2
  <2>6. FlightTyped'
    BY <1>6, <2>1, <2>2, <2>4, <2>5, FlightGoesOn DEF ReadViews
  <2>7. Passed(k, newer) \subseteq RuleKinds \X Rules
    BY <1>0 DEF Passed
  <2>8. SdkTyped'
    <3>1. early' = early \cup Passed(k, newer) /\ UNCHANGED <<published, sdkCN, sdkRules>>
      BY <1>6 DEF ReadViews
    <3> QED
      BY <2>7, <3>1 DEF Typed, SdkTyped, Within, Reached
  <2> QED
    BY <1>6, <2>6, <2>8, TypedFrame DEF ReadViews, Typed
<1>7. CASE FetchRuleVersions
  <2> DEFINE got == flight.body[k].got
             sent == {r \in DOMAIN got : got[r] = 0 \/ activeRules[k][r] # 0}
             new == [r \in sent |-> IF got[r] = 0 THEN 0 ELSE activeRules[k][r]]
  <2>1. flight' = Answered(k, flight.body[k].till, new) /\ UNCHANGED published
    BY <1>7 DEF FetchRuleVersions, Untouched
  <2>2. flight.body[k].till \in -1..Len(published[k]) /\ DOMAIN got \subseteq Rules
    BY <1>0 DEF AnswerTyped
  <2>3. \A r \in DOMAIN new : new[r] \in 0..Len(published[k])
    BY <1>0, <2>2
  <2>4. DOMAIN new \subseteq Rules /\ new = [r \in DOMAIN new |-> new[r]]
    BY <2>2
  <2>5. FlightTyped'
    <3> DEFINE till == flight.body[k].till
    <3> HIDE DEF got, sent, new
    <3>1. till \in -1..Len(published[k]) /\ flight' = Answered(k, till, new) /\ UNCHANGED published
      BY <2>1, <2>2
    <3> HIDE DEF till
    <3> QED
      BY <1>3, <2>3, <2>4, <3>1
  <2> QED
    BY <1>7, <2>5, RequestFrame DEF FetchRuleVersions
<1>8. CASE FetchFromBackendSince
  <2>1. /\ flight' = [flight EXCEPT !.pc = "reply", !.body = flight'.body] /\ flight.pc = "backend"
        /\ flight'.body = [j \in RuleKinds |-> flight'.body[j]]
        /\ \A j \in RuleKinds : flight'.body[j] =
              [till |-> TillFrom(j, flight.key[j]),
               got |-> [r \in {published[j][n].name : n \in History!ChangedSince(published[j], flight.key[j])} |->
                          History!Served(published[j], r, Len(published[j]))],
               early |-> activeCN[j] = -1]
    BY <1>0, <1>8 DEF FetchFromBackendSince
  <2>2. UNCHANGED published
    BY <1>8 DEF FetchFromBackendSince, Untouched
  <2>3. ASSUME NEW j \in RuleKinds PROVE AnswerTyped(j, flight'.body[j])
    <3> DEFINE l == published[j]
               t == flight.key[j]
               names == {l[n].name : n \in Log!ChangedSince(l, t)}
    <3>1. l \in Seq(Log!Change) /\ t \in -1..Len(l) /\ Len(l) \in Nat
      BY DEF Typed, StoresTyped, FlightTyped, Reached
    <3>2. Log!ChangedSince(l, t) \subseteq 1..Len(l)
      BY <3>1, Log!FetchedBatch
    <3>3. names \subseteq Rules
      <4>1. \A n \in 1..Len(l) : l[n] \in Log!Change
        BY <3>1
      <4>2. \A n \in 1..Len(l) : l[n].name \in Rules
        BY <4>1 DEF Log!Change
      <4> QED
        BY <3>2, <4>2
    <3>4. \A r \in names : Log!Served(l, r, Len(l)) \in 0..Len(l)
      BY <3>1, Log!LatestInRange DEF Log!Served
    <3>5. TillFrom(j, t) \in -1..Len(l)
      BY <3>1, TillIs
    <3>6. flight'.body[j] = [till |-> TillFrom(j, t), got |-> [r \in names |-> Log!Served(l, r, Len(l))],
                             early |-> activeCN[j] = -1]
      BY <2>1, SameLog
    <3> HIDE DEF names
    <3> QED
      BY <3>3, <3>4, <3>5, <3>6 DEF AnswerTyped
  <2>4. BodyTyped(flight.body)'
    BY <2>1, <2>2, <2>3 DEF BodyTyped, AnswerTyped
  <2>5. /\ flight' = [pc |-> "reply", kind |-> flight.kind, key |-> flight.key, old |-> flight.old,
                      body |-> flight'.body, late |-> flight.late]
    BY <1>0, <2>1
  <2>6. Reached(flight.key)'
    BY <2>2, <2>5 DEF Typed, FlightTyped, Reached
  <2>7. FlightTyped'
    BY <2>1, <2>4, <2>5, <2>6 DEF Typed, FlightTyped
  <2> QED
    BY <1>8, <2>7, RequestFrame DEF FetchFromBackendSince
<1>9. CASE BackendFails
  <2>1. UNCHANGED published /\ flight' = NoFlight
    BY <1>9 DEF BackendFails, Untouched
  <2>2. FlightTyped'
    <3>1. Reached(FromScratch)' /\ BodyTyped(NoBody)'
      BY <2>1, IdleTyped DEF Typed, StoresTyped, Reached, BodyTyped, AnswerTyped
    <3> QED
      BY <2>1, <3>1 DEF FlightTyped, NoFlight, RuleKinds
  <2> QED
    BY <1>9, <2>2, RequestFrame DEF BackendFails
<1> QED
  BY <1>1, <1>2, <1>4, <1>5, <1>6, <1>7, <1>8, <1>9

\* An SDK that has applied an answer.
LEMMA ReceiveTyped ==
    ASSUME Typed, UNCHANGED published, NEW body, BodyTyped(body), ReceiveRules(body)
    PROVE  SdkTyped'
<1>1. \A k \in RuleKinds : AnswerTyped(k, body[k]) /\ Len(published[k]) \in Nat
  BY DEF BodyTyped, Typed, StoresTyped
<1>2. Reached(sdkCN)'
  <2>1. sdkCN' = [k \in RuleKinds |-> body[k].till]
    BY DEF ReceiveRules
  <2>2. \A k \in RuleKinds : body[k].till \in -1..Len(published[k])
    BY <1>1 DEF AnswerTyped
  <2> QED
    BY <1>1, <2>1, <2>2 DEF Reached
<1>3. Within(sdkRules)'
  <2>1. /\ sdkRules' = [k \in RuleKinds |-> sdkRules'[k]]
        /\ \A k \in RuleKinds : /\ sdkRules'[k] = [r \in Rules |-> sdkRules'[k][r]]
              /\ \A r \in Rules : sdkRules'[k][r] = IF r \in DOMAIN body[k].got THEN body[k].got[r] ELSE sdkRules[k][r]
    BY DEF ReceiveRules
  <2>2. ASSUME NEW k \in RuleKinds PROVE sdkRules'[k] \in [Rules -> Nat]
                                         /\ \A r \in Rules : sdkRules'[k][r] <= Len(published[k])
    <3>1. \A r \in Rules : sdkRules[k][r] \in Nat /\ sdkRules[k][r] <= Len(published[k])
      BY DEF Typed, SdkTyped, Within
    <3>2. \A r \in DOMAIN body[k].got : body[k].got[r] \in 0..Len(published[k])
      BY <1>1 DEF AnswerTyped
    <3>3. \A r \in Rules : sdkRules'[k][r] \in Nat /\ sdkRules'[k][r] <= Len(published[k])
      BY <1>1, <2>1, <3>1, <3>2
    <3> QED
      BY <2>1, <3>3
  <2> QED
    BY <2>1, <2>2 DEF Within
<1>4. early' \subseteq RuleKinds \X Rules
  BY DEF ReceiveRules
<1> QED
  BY <1>2, <1>3, <1>4 DEF SdkTyped

LEMMA ReceiveStepTyped ==
    ASSUME Typed, (\E own \in BOOLEAN : Respond(own)) \/ HitSplits
    PROVE  Typed'
<1>1. ASSUME NEW own \in BOOLEAN, Respond(own) PROVE Typed'
  <2>1. /\ UNCHANGED published /\ flight' = NoFlight
        /\ UNCHANGED <<storeVars, up, sync, killing, backup, starts>>
        /\ cache' = {[key |-> flight.key, body |-> flight.body, late |-> flight.late]}
    BY <1>1 DEF Respond
  <2>2. FlightTyped'
    <3>1. Reached(FromScratch)' /\ BodyTyped(NoBody)'
      BY <2>1, IdleTyped DEF Typed, StoresTyped, Reached, BodyTyped, AnswerTyped
    <3> QED
      BY <2>1, <3>1 DEF FlightTyped, NoFlight, RuleKinds
  <2>3. SdkTyped'
    <3>1. BodyTyped(flight.body)
      BY DEF Typed, FlightTyped
    <3> QED
      BY <1>1, <2>1, <3>1, ReceiveTyped, TypedFrame DEF Respond
  <2>4. CacheTyped'
    <3> DEFINE e == [key |-> flight.key, body |-> flight.body, late |-> flight.late]
    <3>1. Reached(flight.key) /\ BodyTyped(flight.body) /\ flight.late \in BOOLEAN
      BY DEF Typed, FlightTyped
    <3>2. /\ e.key = flight.key /\ e.body = flight.body /\ e.late = flight.late
          /\ e = [key |-> e.key, body |-> e.body, late |-> e.late]
      OBVIOUS
    <3> HIDE DEF e
    <3>3. cache' = {e}
      BY <2>1 DEF e
    <3>4. EntryTyped(e)
      BY <3>1, <3>2 DEF EntryTyped
    <3>5. \A x \in cache' : EntryTyped(x)'
      BY <2>1, <3>3, <3>4 DEF EntryTyped, BodyTyped, AnswerTyped, Reached
    <3> QED
      BY <3>3, <3>5 DEF CacheTyped
  <2> QED
    BY <2>1, <2>2, <2>3, <2>4, TypedFrame DEF Typed
<1>2. CASE HitSplits
  <2>1. PICK e \in cache : ReceiveRules(e.body)
    BY <1>2 DEF HitSplits
  <2>2. BodyTyped(e.body)
    BY DEF Typed, CacheTyped, EntryTyped
  <2>3. SdkTyped'
    BY <1>2, <2>1, <2>2, ReceiveTyped DEF HitSplits
  <2> QED
    BY <1>2, <2>3, TypedFrame DEF HitSplits, Typed
<1> QED
  BY <1>1, <1>2

\* What a start from records leaves behind.
LEMMA StartTyped ==
    ASSUME Typed, NEW records, Within(records), NEW cn, Reached(cn), NEW served \in BOOLEAN,
           StartFrom(records, cn, served)
    PROVE  Typed'
<1>1. /\ UNCHANGED published /\ UNCHANGED pollVars
      /\ starts < MaxStarts /\ starts' = starts + 1
      /\ disk' = records /\ updatedAt' = activeRules' /\ activeCN' = cn /\ oldestKnownCN' = cn
      /\ up' = served /\ sync' = NoSync /\ killing' = FALSE /\ cache' = {} /\ flight' = NoFlight
      /\ backup' \in {backup, NoRules}
      /\ activeRules' = [k \in RuleKinds |-> [r \in Rules |->
                  IF records[k][r] = 0 THEN 0 ELSE VersionOf(k, records[k][r])]]
  BY DEF StartFrom, StillUsable
<1>2. Within(NoRules) /\ Reached(FromScratch) /\ BodyTyped(NoBody)
      /\ \A k \in RuleKinds : ChangesTyped(k, [batch |-> {}, till |-> -1])
  BY IdleTyped DEF Typed, StoresTyped
<1>3. Within(activeRules')
  <2>1. ASSUME NEW k \in RuleKinds, NEW r \in Rules
        PROVE  activeRules'[k][r] \in Nat /\ activeRules'[k][r] <= Len(published[k])
    <3>1. records[k][r] \in Nat /\ records[k][r] <= Len(published[k]) /\ Len(published[k]) \in Nat
      BY DEF Within, Typed, StoresTyped
    <3>2. VersionOf(k, records[k][r]) \in {0, records[k][r]}
      BY DEF VersionOf
    <3> QED
      BY <1>1, <3>1, <3>2
  <2> HIDE DEF Within
  <2>2. activeRules' \in [RuleKinds -> [Rules -> Nat]]
    BY <1>1, <2>1
  <2> QED
    BY <2>1, <2>2 DEF Within
<1>4. StoresTyped'
  <2>1. starts' \in 0..MaxStarts
    BY <1>1, RulesAssumption DEF Typed, StoresTyped
  <2>2. Within(activeRules)' /\ Within(updatedAt)' /\ Within(disk)' /\ Within(backup)'
    BY <1>1, <1>2, <1>3 DEF Typed, StoresTyped, Within
  <2>3. Reached(activeCN)' /\ Reached(oldestKnownCN)'
    BY <1>1 DEF Reached
  <2> QED
    BY <1>1, <2>1, <2>2, <2>3 DEF Typed, StoresTyped
<1>5. SyncTyped'
  BY <1>1, <1>2, SyncGoesOn DEF NoSync, RuleKinds
<1>6. FlightTyped'
  <2>1. Reached(FromScratch)' /\ BodyTyped(NoBody)'
    BY <1>1, <1>2 DEF Reached, BodyTyped, AnswerTyped
  <2> QED
    BY <1>1, <2>1 DEF FlightTyped, NoFlight, RuleKinds
<1> QED
  BY <1>1, <1>4, <1>5, <1>6, TypedFrame DEF Typed

\* The CN of a kind in a snapshot file.
LEMMA BackupCNIs ==
    ASSUME Typed, NEW k \in RuleKinds
    PROVE  /\ BackupCN(k) \in -1..Len(published[k])
           /\ \A r \in Rules : backup[k][r] = 0 \/ backup[k][r] <= BackupCN(k)
           /\ \/ BackupCN(k) = -1 /\ \A r \in Rules : backup[k][r] = 0
              \/ BackupCN(k) > 0 /\ \E r \in Rules : BackupCN(k) = backup[k][r]
<1> DEFINE S == {backup[k][r] : r \in Rules} \ {0}
<1>1. /\ Len(published[k]) \in Nat
      /\ \A r \in Rules : backup[k][r] \in Nat /\ backup[k][r] <= Len(published[k])
  BY DEF Typed, StoresTyped, Within
<1>2. BackupCN(k) = IF S = {} THEN -1 ELSE Max(S)
  BY DEF BackupCN
<1>3. CASE S = {}
  <2>1. \A r \in Rules : backup[k][r] = 0
    BY <1>3
  <2> QED
    BY <1>1, <1>2, <1>3, <2>1
<1>4. CASE S # {}
  <2>1. S \in SUBSET (-1..Len(published[k]))
    BY <1>1
  <2>2. Max(S) \in S /\ \A n \in S : n <= Max(S)
    BY <1>1, <1>4, <2>1, MaxIs
  <2>3. PICK r \in Rules : Max(S) = backup[k][r] /\ Max(S) # 0
    BY <2>2
  <2>4. \A q \in Rules : backup[k][q] = 0 \/ backup[k][q] <= Max(S)
    BY <2>2
  <2> HIDE DEF S
  <2>5. Max(S) > 0 /\ Max(S) \in -1..Len(published[k])
    BY <1>1, <2>3
  <2> QED
    BY <1>2, <1>4, <2>3, <2>4, <2>5
<1> QED
  BY <1>3, <1>4

LEMMA TypedStep == Typed /\ [RulesNext]_rulesVars => Typed'
<1> SUFFICES ASSUME Typed, [RulesNext]_rulesVars PROVE Typed'
  OBVIOUS
<1>1. CASE UNCHANGED rulesVars
  BY <1>1, TypedFrame DEF Typed, rulesVars
<1>2. CASE ExportRules
  <2>1. StoresTyped'
    BY <1>2 DEF ExportRules, Typed, StoresTyped, storeVars, Within, Reached
  <2> QED
    BY <1>2, <2>1, TypedFrame DEF ExportRules, Typed
<1>3. CASE StartBlank
  BY <1>3, StartTyped, IdleTyped DEF StartBlank, Typed, StoresTyped
<1>4. CASE StartFromBackup
  <2> DEFINE cn == [k \in RuleKinds |-> BackupCN(k)]
  <2>1. StartFrom(backup, cn, TRUE)
    BY <1>4 DEF StartFromBackup
  <2>2. Reached(cn)
    <3>1. \A k \in RuleKinds : cn[k] \in -1..Len(published[k]) /\ Len(published[k]) \in Nat
      BY BackupCNIs DEF Typed, StoresTyped
    <3>2. cn = [k \in RuleKinds |-> cn[k]]
      OBVIOUS
    <3> HIDE DEF cn
    <3>3. \A k \in RuleKinds : cn[k] \in Int /\ -1 <= cn[k] /\ cn[k] <= Len(published[k])
      BY <3>1
    <3>4. cn \in [RuleKinds -> Int]
      BY <3>2, <3>3
    <3> QED
      BY <3>3, <3>4 DEF Reached
  <2> HIDE DEF cn
  <2> QED
    BY <2>1, <2>2, StartTyped DEF Typed, StoresTyped
<1>5. ASSUME NEW k \in RuleKinds, NEW c \in History!Change, PublishRule(k, c) PROVE Typed'
  BY <1>5, PublishTyped
<1>6. CASE SyncRules \/ FetchWorks \/ FetchFails
  BY <1>6, SyncTypedStep
<1>7. ASSUME NEW n, KillRule(n) PROVE Typed'
  BY <1>7, KillTyped
<1>8. CASE EvictKilled
  BY <1>8, KillTyped
<1>9. CASE HandleSplits \/ ServeRules \/ HitSplits
  BY <1>9, ServeTyped, ReceiveStepTyped DEF ServeRules
<1> QED
  BY <1>1, <1>2, <1>3, <1>4, <1>5, <1>6, <1>7, <1>8, <1>9 DEF RulesNext

-----------------------------------------------------------------------------
(* The inductive invariant of RulesKept                                    *)

\* What the storage of a kind has, and how far an update of it is.
Stage(k) ==
    IF sync.pc \notin {"start", "snapshot", "historic", "save"} THEN "off"
    ELSE IF sync.kind = k THEN sync.pc
    ELSE IF sync.kind = "flags" THEN "start" ELSE "off"
Storage(k) ==
    [log |-> published[k], rules |-> activeRules[k], cn |-> activeCN[k], at |-> updatedAt[k],
     from |-> oldestKnownCN[k], disk |-> disk[k], up |-> up,
     stage |-> Stage(k), batch |-> sync.changes[k].batch, till |-> sync.changes[k].till]

IsStore(s, w) == w \in [Rules -> Nat] /\ \A r \in Rules : w[r] <= Len(s.log)
StorageTyped(s) ==
    /\ s = [log |-> s.log, rules |-> s.rules, cn |-> s.cn, at |-> s.at, from |-> s.from, disk |-> s.disk,
            up |-> s.up, stage |-> s.stage, batch |-> s.batch, till |-> s.till]
    /\ s.log \in Seq(Log!Change)
    /\ IsStore(s, s.rules) /\ IsStore(s, s.at) /\ IsStore(s, s.disk)
    /\ s.cn \in -1..Len(s.log) /\ s.from \in -1..Len(s.log)
    /\ s.up \in BOOLEAN /\ s.stage \in {"off", "start", "snapshot", "historic", "save"}
    /\ s.batch \subseteq 1..Len(s.log) /\ s.till \in -1..Len(s.log)
    /\ s.stage \in {"snapshot", "historic", "save"} => s.batch # {}

\* The changes of a rule in the batch of an update.
Named(s, r) == {n \in s.batch : s.log[n].name = r}

\* So is the disk, but for records that are still to be saved.
DiskAt(s, h) ==
    /\ \A r \in Rules : Log!Due(s.log, r, h) /\ ~(s.stage = "save" /\ Named(s, r) # {}) =>
          s.disk[r] = Log!Current(s.log, r) \/ (s.disk[r] = 0 /\ Log!Archived(s.log, r))
    /\ s.stage = "save" => \A r \in Rules : Named(s, r) \subseteq {s.at[r]}

\* An update without rules moves the CN the summaries start at and no other: all
\* that came before is archived.
StartsEmpty(s) ==
    s.cn = -1 /\ s.from # -1 /\ s.stage # "snapshot" =>
        \A r \in Rules : Log!Due(s.log, r, s.from) => Log!Archived(s.log, r)

\* The summaries of s are at level h, the snapshot at its CN, and the update in
\* progress fetched from where they were.
Sound(s, h) ==
    /\ h \in -1..s.cn /\ (s.stage # "historic" => h = s.cn)
    /\ s.stage \notin {"off", "save"} => Log!Batch(s.log, s.batch, h, s.till) /\ h <= s.till
    /\ s.stage \in {"start", "snapshot"} => s.from <= s.till
    /\ s.stage = "historic" => s.till = s.cn
    /\ s.stage \in {"snapshot", "historic"} => s.from # -1
    /\ s.log = <<>> => s.from <= s.cn /\ (s.stage \notin {"off", "save"} => s.till <= s.cn)
    /\ s.from = -1 => s.cn = -1
    /\ \A r \in Rules : (s.at[r] = 0 \/ s.at[r] <= h) /\ (s.disk[r] = 0 \/ s.disk[r] <= h)
    /\ Log!Covers(s.log, s.at, h) /\ DiskAt(s, h) /\ StartsEmpty(s)
    /\ Log!Known(s.log, s.at) /\ Log!Known(s.log, s.disk) /\ Log!Known(s.log, s.rules)
    /\ Log!Complete(s.log, s.cn, s.rules)
    /\ s.cn = -1 => \A r \in Rules : s.rules[r] = 0

\* A client at t that holds the rules w, those in e since before the storage had any,
\* misses nothing. Only those in e may be left over from before t.
Blank(w, e) == \A r \in Rules : w[r] = 0 \/ r \in e
Promise(l, t, w, e) ==
    /\ t \in -1..Len(l)
    /\ \A r \in Rules : Log!Due(l, r, t) =>
          r \in e \/ w[r] = IF Log!Archived(l, r) THEN 0 ELSE Log!Current(l, r)
    /\ Log!Known(l, w)
    /\ t = -1 => Blank(w, e)

\* It holds none of the archived rules that the summaries have nothing of.
NotHeld(s, h, t, w, e) ==
    \A r \in Rules : Log!Due(s.log, r, h) /\ s.at[r] = 0 /\ t >= s.from /\ t < Log!Current(s.log, r)
        => w[r] = 0 \/ r \in e

\* Before the first update with rules, clients got theirs from an earlier process or
\* from the backend.
Starting(s, h, t, w, e) ==
    /\ s.cn = -1 /\ s.stage = "start" /\ t >= s.till =>
          \A r \in Rules : r \in e \/ w[r] = 0 \/ w[r] = Log!Served(s.log, r, s.till)
    /\ s.cn = -1 /\ s.from # -1 /\ t >= s.from =>
          Blank(w, e) \/ (s.stage = "snapshot" /\ s.till <= t)
    /\ s.stage = "historic" /\ h = -1 => Blank(w, e) \/ t < s.from \/ t >= s.cn

Fits(s, h, t, w, e) == Promise(s.log, t, w, e) /\ NotHeld(s, h, t, w, e) /\ Starting(s, h, t, w, e)

\* What a client becomes by applying an answer.
Applied(w, b) == [r \in Rules |-> IF r \in DOMAIN b.got THEN b.got[r] ELSE w[r]]
EarlyAfter(e, b) == {r \in Rules : IF r \in DOMAIN b.got THEN b.early ELSE r \in e}
AnswerFits(s, h, b, w, e) == Fits(s, h, b.till, Applied(w, b), EarlyAfter(e, b))
Early(k) == {r \in Rules : <<k, r>> \in early}

\* Snapshot files are at the level of their highest record.
BackupInv(l, w) ==
    /\ Log!Known(l, w)
    /\ \A r \in Rules : Log!Covers(l, w, w[r])

\* The part of an answer that is being prepared, and those that are ready.
Reading(k, pc) == flight.pc = pc /\ flight.kind = k
Done(k) == flight.pc = "reply" \/ (flight.kind = "segments" /\ k = "flags" /\ ~flight.old)

RequestInv(k, h) ==
    LET s == Storage(k)
        b == flight.body[k]
        w == sdkRules[k]
        e == Early(k)
    IN  /\ Reading(k, "all") => b.till <= h \/ b.till = s.cn
        /\ Reading(k, "fetch") => /\ AnswerFits(s, h, b, w, e) /\ ~b.early /\ b.till # -1
                                  /\ b.till <= s.cn \/ DOMAIN b.got = {}
                                  /\ \A r \in DOMAIN b.got : s.at[r] # 0
        /\ Done(k) => AnswerFits(s, h, b, w, e)

FlightInv ==
    /\ flight # NoFlight => flight.pc # "idle" /\ up /\ flight.key = sdkCN /\ \A e \in cache : e.key # sdkCN
    /\ flight.pc = "backend" => flight.old

KindAt(k, h) ==
    /\ Sound(Storage(k), h)
    /\ Fits(Storage(k), h, sdkCN[k], sdkRules[k], Early(k))
    /\ RequestInv(k, h)
    /\ \A e \in cache : e.key = sdkCN => AnswerFits(Storage(k), h, e.body[k], sdkRules[k], Early(k))
KindInv(k) == BackupInv(published[k], backup[k]) /\ \E h : KindAt(k, h)

IInv == Typed /\ FlightInv /\ \A k \in RuleKinds : KindInv(k)

\* Rules may be added to those a client holds since before the storage had any.
LEMMA MoreEarly ==
    ASSUME NEW s, NEW h, NEW t, NEW w, NEW e, NEW d, e \subseteq d, Fits(s, h, t, w, e)
    PROVE  Fits(s, h, t, w, d)
BY DEF Fits, Promise, NotHeld, Starting, Blank

-----------------------------------------------------------------------------
(* Steps of a storage, from s to z                                         *)

\* A step of an action that writes some of the fields.
OnlyChanges(s, z, fields) ==
    \A x \in {"log", "rules", "cn", "at", "from", "disk", "up", "stage", "batch", "till"} \ fields : z[x] = s[x]

\* A step preserves what the storage has, from level h to level g, and what fits it.
Moves(s, h, z, g) ==
    /\ Sound(z, g)
    /\ \A t, w, e : Fits(s, h, t, w, e) => Fits(z, g, t, w, e)
    /\ h <= g /\ s.cn <= z.cn /\ z.cn \in Int /\ (s.cn <= g \/ z.cn = s.cn)
    /\ \A r \in Rules : s.at[r] # 0 => z.at[r] # 0
    /\ z.from = s.from \/ s.cn = -1

\* A new change makes no rule due.
LEMMA PublishMovesStore ==
    ASSUME NEW s, StorageTyped(s), NEW h, Sound(s, h), NEW c \in Log!Change,
           NEW z, OnlyChanges(s, z, {"log"}), z.log = Append(s.log, c)
    PROVE  Moves(s, h, z, h)
<1> DEFINE l == s.log
           m == Append(l, c)
<1>1. /\ z.log = m /\ z.rules = s.rules /\ z.cn = s.cn /\ z.at = s.at /\ z.from = s.from /\ z.disk = s.disk
      /\ z.up = s.up /\ z.stage = s.stage /\ z.batch = s.batch /\ z.till = s.till
  BY DEF OnlyChanges
<1>2. l \in Seq(Log!Change) /\ m \in Seq(Log!Change) /\ Len(l) \in Nat /\ Len(m) = Len(l) + 1 /\ m # <<>>
  BY DEF StorageTyped
<1>3. h \in Int /\ h <= Len(l) /\ s.cn \in Int /\ s.cn <= Len(l) /\ s.batch \in SUBSET (1..Len(l))
      /\ s.till \in -1..Len(l)
  BY <1>2 DEF StorageTyped, Sound
<1>4. \A r : Log!Current(m, r) = 0 => Log!Current(l, r) = 0
  BY <1>2, Log!PublishDue
<1>5. \A r : Log!Current(l, r) <= Log!Current(m, r)
  BY <1>2, Log!PublishDue
<1>6. \A r : \A t \in Int : t <= Len(l) /\ Log!Due(m, r, t) =>
         Log!Due(l, r, t) /\ Log!Current(m, r) = Log!Current(l, r) /\ Log!Archived(m, r) = Log!Archived(l, r)
  BY <1>2, Log!PublishDue
<1>7. \A r : Log!Served(m, r, s.till) = Log!Served(l, r, s.till)
  BY <1>2, <1>3, Log!PublishKeeps
<1>8. \A w : Log!Known(l, w) => Log!Known(m, w)
  BY <1>4 DEF Log!Known
<1>9. \A w : Log!Covers(l, w, h) => Log!Covers(m, w, h)
  BY <1>3, <1>6 DEF Log!Covers
<1> HIDE DEF m
<1>10. Log!Complete(m, s.cn, s.rules)
  <2>1. \A r \in Rules : Log!Due(l, r, s.cn) => s.rules[r] = IF Log!Archived(l, r) THEN 0 ELSE Log!Current(l, r)
    BY <1>2, Log!CompleteIs DEF Sound
  <2>2. \A r \in Rules : Log!Due(m, r, s.cn) => s.rules[r] = IF Log!Archived(m, r) THEN 0 ELSE Log!Current(m, r)
    BY <1>3, <1>6, <2>1
  <2> QED
    BY <1>2, <2>2, Log!CompleteIs
<1>11. s.stage \notin {"off", "save"} => Log!Batch(m, s.batch, h, s.till)
  BY <1>2, <1>3, Log!PublishBatch DEF Sound, m
<1>12. Sound(z, h)
  <2>1. \A r : Named(z, r) = Named(s, r)
    BY <1>1, <1>2, <1>3 DEF Named, m
  <2>2. DiskAt(z, h)
    BY <1>1, <1>3, <1>6, <2>1 DEF Sound, DiskAt
  <2>3. s.from \in Int /\ s.from <= Len(l)
    BY <1>2 DEF StorageTyped
  <2>4. StartsEmpty(z)
    BY <1>1, <1>6, <2>3 DEF Sound, StartsEmpty
  <2> QED
    BY <1>1, <1>2, <1>8, <1>9, <1>10, <1>11, <2>2, <2>4 DEF Sound
<1>13. ASSUME NEW t, NEW w, NEW e, Fits(s, h, t, w, e) PROVE Fits(z, h, t, w, e)
  <2>1. t \in Int /\ t <= Len(l) /\ t \in -1..Len(m)
    BY <1>2, <1>13 DEF Fits, Promise
  <2>2. Promise(m, t, w, e)
    BY <1>6, <1>8, <1>13, <2>1 DEF Fits, Promise
  <2>3. NotHeld(z, h, t, w, e)
    BY <1>1, <1>3, <1>6, <1>13, <2>1 DEF Fits, NotHeld
  <2>4. Starting(z, h, t, w, e)
    BY <1>1, <1>7, <1>13 DEF Fits, Starting
  <2> QED
    BY <1>1, <2>2, <2>3, <2>4 DEF Fits
<1>14. h <= h /\ s.cn <= z.cn /\ z.cn \in Int /\ z.cn = s.cn /\ z.from = s.from /\ z.at = s.at
  BY <1>1, <1>3
<1> QED
  BY <1>12, <1>13, <1>14 DEF Moves

\* What the steps below need of a storage.
LEMMA SoundIs ==
    ASSUME NEW s, StorageTyped(s), NEW h, Sound(s, h)
    PROVE  /\ s.log \in Seq(Log!Change) /\ Len(s.log) \in Nat /\ (s.log = <<>> => Len(s.log) = 0)
           /\ h \in Int /\ -1 <= h /\ h <= s.cn
           /\ s.cn \in Int /\ -1 <= s.cn /\ s.cn <= Len(s.log)
           /\ s.from \in Int /\ -1 <= s.from /\ s.from <= Len(s.log)
           /\ s.till \in Int /\ -1 <= s.till /\ s.till <= Len(s.log)
           /\ \A r \in Rules : /\ s.at[r] \in Nat /\ s.at[r] <= Len(s.log)
                               /\ s.rules[r] \in Nat /\ s.disk[r] \in Nat
           /\ \A r \in Rules : Log!Due(s.log, r, s.cn) =>
                 s.rules[r] = IF Log!Archived(s.log, r) THEN 0 ELSE Log!Current(s.log, r)
           /\ \A r : \/ Log!Current(s.log, r) = 0
                     \/ /\ Log!Current(s.log, r) \in Nat
                        /\ 0 < Log!Current(s.log, r) /\ Log!Current(s.log, r) <= Len(s.log)
                        /\ s.log[Log!Current(s.log, r)].name = r
           /\ \A r : Log!Served(s.log, r, Len(s.log))
                       = IF Log!Current(s.log, r) = 0 \/ Log!Archived(s.log, r) THEN 0 ELSE Log!Current(s.log, r)
<1>1. s.log \in Seq(Log!Change) /\ Len(s.log) \in Nat /\ (s.log = <<>> => Len(s.log) = 0)
  BY DEF StorageTyped
<1>2. \A r \in Rules : Log!Due(s.log, r, s.cn) =>
         s.rules[r] = IF Log!Archived(s.log, r) THEN 0 ELSE Log!Current(s.log, r)
  BY <1>1, Log!CompleteIs DEF Sound
<1>3. ASSUME NEW r
      PROVE  \/ Log!Current(s.log, r) = 0
             \/ Log!Current(s.log, r) \in 1..Len(s.log) /\ s.log[Log!Current(s.log, r)].name = r
  BY <1>1, Log!CurrentIs
<1>4. \A r : Log!Served(s.log, r, Len(s.log))
               = IF Log!Current(s.log, r) = 0 \/ Log!Archived(s.log, r) THEN 0 ELSE Log!Current(s.log, r)
  <2>1. ASSUME NEW r PROVE Log!Served(s.log, r, Len(s.log))
               = IF Log!Current(s.log, r) = 0 \/ Log!Archived(s.log, r) THEN 0 ELSE Log!Current(s.log, r)
    <3>1. Log!Current(s.log, r) = Log!LatestCN(s.log, r, Len(s.log))
      BY DEF Log!Current
    <3> QED
      BY <1>1, <1>3, <3>1 DEF Log!Served, Log!Archived
  <2> QED
    BY <2>1
<1>5. /\ h \in Int /\ -1 <= h /\ h <= s.cn /\ s.cn \in Int /\ -1 <= s.cn /\ s.cn <= Len(s.log)
      /\ s.from \in Int /\ -1 <= s.from /\ s.from <= Len(s.log)
      /\ s.till \in Int /\ -1 <= s.till /\ s.till <= Len(s.log)
  BY <1>1 DEF StorageTyped, Sound
<1>6. \A r \in Rules : /\ s.at[r] \in Nat /\ s.at[r] <= Len(s.log)
                       /\ s.rules[r] \in Nat /\ s.disk[r] \in Nat
  BY DEF StorageTyped, IsStore
<1>7. \A r : \/ Log!Current(s.log, r) = 0
             \/ /\ Log!Current(s.log, r) \in Nat
                /\ 0 < Log!Current(s.log, r) /\ Log!Current(s.log, r) <= Len(s.log)
                /\ s.log[Log!Current(s.log, r)].name = r
  BY <1>1, <1>3
<1> QED
  BY <1>1, <1>2, <1>4, <1>5, <1>6, <1>7

\* While no update is under way, serving requests is what may begin.
LEMMA WaitMovesStore ==
    ASSUME NEW s, StorageTyped(s), NEW h, Sound(s, h), s.stage = "off",
           NEW z, OnlyChanges(s, z, {"up", "batch", "till"})
    PROVE  Moves(s, h, z, h)
<1>1. /\ z.log = s.log /\ z.rules = s.rules /\ z.cn = s.cn /\ z.at = s.at /\ z.from = s.from /\ z.disk = s.disk
      /\ z.stage = "off"
  BY DEF OnlyChanges
<1>2. Sound(z, h)
  BY <1>1 DEF Sound, DiskAt, StartsEmpty
<1>3. ASSUME NEW t, NEW w, NEW e, Fits(s, h, t, w, e) PROVE Fits(z, h, t, w, e)
  BY <1>1, <1>3 DEF Fits, NotHeld, Starting
<1>4. h <= h /\ s.cn <= z.cn /\ z.cn \in Int /\ z.cn = s.cn /\ z.from = s.from /\ z.at = s.at
  BY <1>1, SoundIs
<1> QED
  BY <1>2, <1>3, <1>4 DEF Moves

\* What is fetched is what the snapshot lacks, and whoever is where the backend is
\* has it.
LEMMA FetchMovesStore ==
    ASSUME NEW s, StorageTyped(s), NEW h, Sound(s, h), s.stage = "off",
           NEW z, OnlyChanges(s, z, {"stage", "batch", "till"}), z.stage = "start",
           z.batch = Log!ChangedSince(s.log, s.cn), z.till = IF s.log = <<>> THEN s.cn ELSE Len(s.log)
    PROVE  Moves(s, h, z, h)
<1> DEFINE l == s.log
           b == Log!ChangedSince(l, s.cn)
           n == IF l = <<>> THEN s.cn ELSE Len(l)
<1>1. /\ z.log = s.log /\ z.rules = s.rules /\ z.cn = s.cn /\ z.at = s.at /\ z.from = s.from /\ z.disk = s.disk
      /\ z.up = s.up /\ z.stage = "start" /\ z.batch = b /\ z.till = n
  BY DEF OnlyChanges
<1>2. h = s.cn
  BY DEF Sound
<1>3. b \subseteq 1..Len(l) /\ Log!Batch(l, b, s.cn, Len(l))
  BY SoundIs, Log!FetchedBatch
<1>4. l = <<>> => /\ Len(l) = 0 /\ s.cn <= 0 /\ b = {}
                  /\ \A r : Log!LatestCN(l, r, s.cn) = 0 /\ Log!Served(l, r, s.cn) = 0
  <2>1. ASSUME l = <<>> PROVE Len(l) = 0 /\ s.cn <= 0 /\ b = {}
    BY <2>1, <1>3, SoundIs
  <2>2. ASSUME l = <<>>, NEW r PROVE Log!LatestCN(l, r, s.cn) = 0
    <3>1. 1..s.cn = {}
      BY <2>1, <2>2, SoundIs
    <3> QED
      BY <3>1 DEF Log!LatestCN, Log!ChangesOf
  <2>3. ASSUME l = <<>>, NEW r PROVE Log!Served(l, r, s.cn) = 0
    BY <2>2, <2>3 DEF Log!Served
  <2> QED
    BY <2>1, <2>2, <2>3
<1>5. Log!Batch(l, b, h, n)
  <2>1. CASE l = <<>>
    BY <1>4, <2>1 DEF Log!Batch
  <2>2. CASE l # <<>>
    BY <1>2, <1>3, <2>2
  <2> QED
    BY <2>1, <2>2
<1> HIDE DEF b
<1>6. h <= n /\ s.from <= n /\ (l = <<>> => n <= s.cn)
  BY <1>2, SoundIs DEF Sound
<1>7. Sound(z, h)
  <2> HIDE DEF n
  <2> QED
    BY <1>1, <1>2, <1>5, <1>6 DEF Sound, DiskAt, StartsEmpty
<1>8. ASSUME NEW t, NEW w, NEW e, Fits(s, h, t, w, e) PROVE Fits(z, h, t, w, e)
  <2>1. ASSUME s.cn = -1, t >= n, NEW r \in Rules PROVE r \in e \/ w[r] = Log!Served(l, r, n)
    <3>1. Log!Current(l, r) = 0 => w[r] = 0
      BY <1>8 DEF Fits, Promise, Log!Known
    <3>2. CASE l = <<>>
      <4>1. Log!Current(l, r) = 0
        BY <3>2, SoundIs
      <4> QED
        BY <1>4, <3>1, <3>2, <4>1
    <3>3. CASE l # <<>>
      <4>1. t >= Len(l) /\ t \in Int
        BY <2>1, <3>3, <1>8 DEF Fits, Promise
      <4>2. Log!Current(l, r) # 0 => Log!Due(l, r, t)
        BY <4>1, SoundIs DEF Log!Due
      <4>3. Log!Served(l, r, n) = IF Log!Current(l, r) = 0 \/ Log!Archived(l, r) THEN 0 ELSE Log!Current(l, r)
        BY <3>3, SoundIs
      <4>4. Log!Due(l, r, t) => r \in e \/ w[r] = IF Log!Archived(l, r) THEN 0 ELSE Log!Current(l, r)
        BY <1>8 DEF Fits, Promise
      <4> HIDE DEF n
      <4> QED
        BY <3>1, <4>2, <4>3, <4>4
    <3> QED
      BY <3>2, <3>3
  <2> HIDE DEF n
  <2>2. Starting(z, h, t, w, e)
    BY <1>1, <1>8, <2>1 DEF Fits, Starting
  <2> QED
    BY <1>1, <1>8, <2>2 DEF Fits, NotHeld
<1>9. h <= h /\ s.cn <= z.cn /\ z.cn \in Int /\ z.cn = s.cn /\ z.from = s.from /\ z.at = s.at
  BY <1>1, SoundIs
<1> QED
  BY <1>7, <1>8, <1>9 DEF Moves

\* What is in the batch of an update that has begun.
LEMMA BatchIs ==
    ASSUME NEW s, StorageTyped(s), NEW h, Sound(s, h), s.stage \notin {"off", "save"}
    PROVE  /\ \A n \in s.batch : n \in Nat /\ 0 < n /\ h < n /\ n <= s.till
           /\ \A r : Log!Current(s.log, r) = 0 => Named(s, r) = {}
           /\ \A r : \A m, n \in Named(s, r) : m = n
           /\ \A r \in Rules : Log!Due(s.log, r, s.till) =>
                 \/ Named(s, r) = {Log!Current(s.log, r)}
                 \/ Named(s, r) = {} /\ Log!Current(s.log, r) <= h
                 \/ Named(s, r) = {} /\ h = -1 /\ Log!Archived(s.log, r)
<1> DEFINE l == s.log
<1>1. Log!Batch(l, s.batch, h, s.till) /\ s.batch \in SUBSET (1..Len(l)) /\ s.till \in -1..Len(l)
  BY DEF Sound, StorageTyped
<1>2. \A n \in s.batch : n \in Nat /\ 0 < n /\ h < n /\ n <= s.till
  BY <1>1, SoundIs DEF Log!Batch
<1>3. ASSUME NEW r, Log!Current(l, r) = 0 PROVE Named(s, r) = {}
  <2>1. \A n \in s.batch : n <= Log!Current(l, l[n].name)
    BY <1>1, SoundIs, Log!CurrentIsLast
  <2>2. \A n \in s.batch : ~(n <= 0)
    BY <1>2
  <2> QED
    BY <1>3, <2>1, <2>2 DEF Named
<1>4. ASSUME NEW r \in Rules, Log!Due(l, r, s.till)
      PROVE  \/ Named(s, r) = {Log!Current(l, r)}
             \/ Named(s, r) = {} /\ Log!Current(l, r) <= h
             \/ Named(s, r) = {} /\ h = -1 /\ Log!Archived(l, r)
  <2>1. \/ Log!Current(l, r) \in s.batch /\ \A n \in s.batch : l[n].name = r => n = Log!Current(l, r)
        \/ Log!Current(l, r) <= h /\ \A n \in s.batch : l[n].name # r
        \/ h = -1 /\ Log!Archived(l, r) /\ \A n \in s.batch : l[n].name # r
    BY <1>1, <1>4, SoundIs, Log!BatchDue
  <2>2. l[Log!Current(l, r)].name = r
    BY <1>4, SoundIs DEF Log!Due
  <2> QED
    BY <2>1, <2>2 DEF Named
<1>5. \A r : \A m, n \in Named(s, r) : m = n
  BY <1>1 DEF Log!Batch, Named
<1> QED
  BY <1>2, <1>3, <1>4, <1>5

\* The starting point is set once, when there was none.
LEMMA StartMovesStore ==
    ASSUME NEW s, StorageTyped(s), NEW h, Sound(s, h), s.stage = "start",
           NEW z, OnlyChanges(s, z, {"from", "stage", "batch", "till"}),
           z.from = IF s.from = -1 \/ s.till < s.from THEN s.till ELSE s.from,
           z.stage = IF s.batch = {} THEN "off" ELSE "snapshot",
           s.batch # {} => z.batch = s.batch /\ z.till = s.till
    PROVE  Moves(s, h, z, h)
<1> DEFINE l == s.log
           o == IF s.from = -1 THEN s.till ELSE s.from
<1>1. s.from <= s.till /\ h = s.cn /\ h <= s.till /\ Log!Batch(l, s.batch, h, s.till)
  BY DEF Sound
<1>2. (IF s.from = -1 \/ s.till < s.from THEN s.till ELSE s.from) = o
  BY <1>1, SoundIs
<1>3. /\ z.log = s.log /\ z.rules = s.rules /\ z.cn = s.cn /\ z.at = s.at /\ z.from = o /\ z.disk = s.disk
      /\ z.up = s.up /\ z.stage = (IF s.batch = {} THEN "off" ELSE "snapshot")
      /\ s.batch # {} => z.batch = s.batch /\ z.till = s.till
  BY <1>2 DEF OnlyChanges
<1>4. s.from = -1 => s.cn = -1
  BY DEF Sound
<1>5. s.batch # {} => o # -1
  <2>1. \A m \in s.batch : m \in 1..Len(l) /\ m <= s.till
    BY <1>1 DEF StorageTyped, Log!Batch
  <2>2. s.batch # {} => s.till # -1
    BY <2>1, SoundIs
  <2> QED
    BY <2>2
<1>6. o <= s.till /\ (l = <<>> => o <= s.cn)
  BY <1>1, SoundIs DEF Sound
<1> HIDE DEF l
<1>7. Sound(z, h)
  <2>1. o = -1 => s.cn = -1
    BY <1>4
  <2>2. ASSUME s.cn = -1, s.batch = {}, NEW r \in Rules, Log!Due(s.log, r, o) PROVE Log!Archived(s.log, r)
    <3>1. CASE s.from # -1
      BY <2>2, <3>1 DEF Sound, StartsEmpty
    <3>2. CASE s.from = -1
      <4>1. Log!Due(s.log, r, s.till) /\ Named(s, r) = {} /\ Log!Current(s.log, r) > h
        BY <1>1, <2>2, <3>2, SoundIs DEF Log!Due, Named
      <4>2. \/ Named(s, r) = {Log!Current(s.log, r)}
            \/ Named(s, r) = {} /\ Log!Current(s.log, r) <= h
            \/ Named(s, r) = {} /\ h = -1 /\ Log!Archived(s.log, r)
        BY <4>1, BatchIs
      <4>3. Log!Current(s.log, r) \in Int /\ h \in Int
        BY SoundIs
      <4> QED
        BY <4>1, <4>2, <4>3
    <3> QED
      BY <3>1, <3>2
  <2> HIDE DEF o
  <2>3. StartsEmpty(z)
    BY <1>3, <2>2 DEF StartsEmpty
  <2>4. DiskAt(z, h)
    BY <1>3 DEF Sound, DiskAt
  <2> QED
    BY <1>1, <1>3, <1>5, <1>6, <2>1, <2>3, <2>4 DEF Sound, l
<1>8. ASSUME NEW t, NEW w, NEW e, Fits(s, h, t, w, e) PROVE Fits(z, h, t, w, e)
  <2>1. NotHeld(z, h, t, w, e)
    <3>1. CASE s.from = -1
      <4>1. \A r : ~Log!Due(s.log, r, h)
        BY <1>1, <1>4, <3>1, SoundIs DEF Log!Due
      <4> QED
        BY <1>3, <4>1 DEF NotHeld
    <3>2. CASE s.from # -1
      BY <1>3, <1>8, <3>2 DEF Fits, NotHeld
    <3> QED
      BY <3>1, <3>2
  <2>2. ASSUME s.cn = -1, t >= o PROVE Blank(w, e) \/ (z.stage = "snapshot" /\ z.till <= t)
    <3>1. CASE s.from # -1
      BY <1>8, <2>2, <3>1 DEF Fits, Starting
    <3>2. CASE s.from = -1 /\ s.batch # {}
      <4>1. t \in Int /\ s.till \in Int
        BY <1>8, SoundIs DEF Fits, Promise
      <4> QED
        BY <1>3, <2>2, <3>2, <4>1
    <3>3. CASE s.from = -1 /\ s.batch = {}
      <4>1. ASSUME NEW r \in Rules PROVE Log!Served(l, r, s.till) = 0
        <5>1. LET m == Log!LatestCN(l, r, s.till) IN m > 0 => m <= -1 \/ ~l[m].active
          BY <1>1, <2>2, <3>3 DEF Log!Batch
        <5>2. Log!LatestCN(l, r, s.till) = 0 \/ Log!LatestCN(l, r, s.till) \in 1..s.till
          BY SoundIs, Log!LatestInRange
        <5> QED
          BY <5>1, <5>2 DEF Log!Served
      <4> QED
        BY <1>8, <2>2, <3>3, <4>1 DEF Fits, Starting, Blank, l
    <3> QED
      BY <3>1, <3>2, <3>3
  <2>3. Starting(z, h, t, w, e)
    BY <1>3, <1>8, <2>2 DEF Fits, Starting
  <2> QED
    BY <1>3, <1>8, <2>1, <2>3 DEF Fits
<1>9. h <= h /\ s.cn <= z.cn /\ z.cn \in Int /\ z.cn = s.cn /\ (z.from = s.from \/ s.cn = -1) /\ z.at = s.at
  BY <1>3, <1>4, SoundIs
<1> QED
  BY <1>7, <1>8, <1>9 DEF Moves

\* The snapshot gets what the summaries do not have yet.
LEMMA SnapshotMovesStore ==
    ASSUME NEW s, StorageTyped(s), NEW h, Sound(s, h), s.stage = "snapshot", NEW rules,
           \A r \in Rules : \/ Named(s, r) = {} /\ rules[r] = s.rules[r]
                            \/ \E n \in Named(s, r) : rules[r] = IF s.log[n].active THEN n ELSE 0,
           NEW z, OnlyChanges(s, z, {"rules", "cn", "stage"}),
           z.rules = rules, z.cn = s.till, z.stage = "historic"
    PROVE  Moves(s, h, z, h)
<1> DEFINE l == s.log
<1>1. /\ z.log = s.log /\ z.rules = rules /\ z.cn = s.till /\ z.at = s.at /\ z.from = s.from /\ z.disk = s.disk
      /\ z.up = s.up /\ z.stage = "historic" /\ z.batch = s.batch /\ z.till = s.till
  BY DEF OnlyChanges
<1>2. h = s.cn /\ h <= s.till /\ s.from # -1 /\ s.from <= s.till
  BY DEF Sound
<1>3. s.till # -1 /\ l # <<>>
  <2>1. PICK n \in s.batch : TRUE
    BY DEF StorageTyped
  <2>2. n \in 1..Len(l)
    BY <2>1 DEF StorageTyped
  <2> QED
    BY <2>1, <2>2, BatchIs, SoundIs
<1>4. Log!Known(l, rules)
  <2>1. ASSUME NEW r \in Rules, Log!Current(l, r) = 0 PROVE rules[r] = 0
    <3>1. Named(s, r) = {} /\ s.rules[r] = 0
      BY <2>1, BatchIs DEF Sound, Log!Known
    <3> QED
      BY <3>1
  <2> QED
    BY <2>1 DEF Log!Known
<1>5. Log!Complete(l, s.till, rules)
  <2>1. ASSUME NEW r \in Rules, Log!Due(l, r, s.till)
        PROVE  rules[r] = IF Log!Archived(l, r) THEN 0 ELSE Log!Current(l, r)
    <3>1. CASE Named(s, r) = {Log!Current(l, r)}
      BY <3>1 DEF Log!Archived
    <3>2. CASE Named(s, r) = {} /\ Log!Current(l, r) <= h
      <4>1. Log!Due(l, r, s.cn)
        BY <1>2, <2>1, <3>2 DEF Log!Due
      <4> QED
        BY <3>2, <4>1, SoundIs
    <3>3. CASE Named(s, r) = {} /\ h = -1 /\ Log!Archived(l, r)
      <4>1. s.rules[r] = 0
        BY <1>2, <3>3 DEF Sound
      <4> QED
        BY <3>3, <4>1
    <3> QED
      BY <2>1, <3>1, <3>2, <3>3, BatchIs
  <2> QED
    BY <2>1, SoundIs, Log!CompleteIs
<1>6. h \in -1..s.till
  BY <1>2, SoundIs
<1>7. Sound(z, h)
  BY <1>1, <1>2, <1>3, <1>4, <1>5, <1>6 DEF Sound, DiskAt, StartsEmpty
<1>8. ASSUME NEW t, NEW w, NEW e, Fits(s, h, t, w, e) PROVE Fits(z, h, t, w, e)
  <2>1. ASSUME h = -1 PROVE Blank(w, e) \/ t < s.from \/ t >= s.till
    <3>1. s.cn = -1 /\ t \in Int
      BY <1>2, <1>8, <2>1 DEF Fits, Promise
    <3>2. t >= s.from => Blank(w, e) \/ s.till <= t
      BY <1>2, <1>8, <3>1 DEF Fits, Starting
    <3>3. s.from \in Int /\ s.till \in Int
      BY SoundIs
    <3> QED
      BY <3>1, <3>2, <3>3
  <2>2. Starting(z, h, t, w, e)
    BY <1>1, <1>3, <2>1 DEF Starting
  <2>3. Promise(z.log, t, w, e) /\ NotHeld(z, h, t, w, e)
    BY <1>1, <1>8 DEF Fits, NotHeld
  <2> QED
    BY <2>2, <2>3 DEF Fits
<1>9. h <= h /\ s.cn <= z.cn /\ z.cn \in Int /\ s.cn <= h /\ z.from = s.from /\ z.at = s.at
  BY <1>1, <1>2, SoundIs
<1> QED
  BY <1>7, <1>8, <1>9 DEF Moves

\* The summaries reach the level of the snapshot.
LEMMA HistoricMovesStore ==
    ASSUME NEW s, StorageTyped(s), NEW h, Sound(s, h), s.stage = "historic", NEW at,
           \A r \in Rules : \/ Named(s, r) = {} /\ at[r] = s.at[r]
                            \/ \E n \in Named(s, r) : at[r] = n,
           NEW z, OnlyChanges(s, z, {"at", "stage"}), z.at = at, z.stage = "save"
    PROVE  Moves(s, h, z, s.cn)
<1> DEFINE l == s.log
<1>1. /\ z.log = s.log /\ z.rules = s.rules /\ z.cn = s.cn /\ z.at = at /\ z.from = s.from /\ z.disk = s.disk
      /\ z.up = s.up /\ z.stage = "save" /\ z.batch = s.batch /\ z.till = s.till
  BY DEF OnlyChanges
<1>2. h <= s.cn /\ s.cn = s.till /\ s.from # -1 /\ h \in Int /\ s.cn \in Int
  BY SoundIs DEF Sound
<1>3. s.cn # -1 /\ l # <<>>
  <2>1. PICK m \in s.batch : TRUE
    BY DEF StorageTyped
  <2>2. m \in 1..Len(l)
    BY <2>1 DEF StorageTyped
  <2> QED
    BY <1>2, <2>1, <2>2, BatchIs, SoundIs
<1>4. ASSUME NEW r \in Rules
      PROVE  \/ Named(s, r) = {} /\ at[r] = s.at[r] /\ (at[r] = 0 \/ at[r] <= h)
             \/ at[r] \in Named(s, r) /\ at[r] # 0 /\ at[r] <= s.cn
  <2>1. s.at[r] = 0 \/ s.at[r] <= h
    BY DEF Sound
  <2>2. \A m \in Named(s, r) : m # 0 /\ m <= s.cn
    BY <1>2, BatchIs DEF Named
  <2> QED
    BY <2>1, <2>2
<1>5. \A r \in Rules : at[r] \in Int
  BY <1>4, SoundIs, BatchIs DEF Named
<1>6. \A r \in Rules : (at[r] = 0 \/ at[r] <= s.cn) /\ (s.disk[r] = 0 \/ s.disk[r] <= s.cn)
  <2>1. \A r \in Rules : (s.disk[r] = 0 \/ s.disk[r] <= h) /\ s.disk[r] \in Nat
    BY SoundIs DEF Sound
  <2> QED
    BY <1>2, <1>4, <1>5, <2>1
<1>7. Log!Known(l, at)
  BY <1>4, BatchIs DEF Sound, Log!Known
<1>8. ASSUME NEW r \in Rules, Log!Due(l, r, s.cn)
      PROVE  \/ Named(s, r) = {Log!Current(l, r)} /\ at[r] = Log!Current(l, r)
             \/ Named(s, r) = {} /\ Log!Due(l, r, h) /\ at[r] = s.at[r]
             \/ Named(s, r) = {} /\ h = -1 /\ Log!Archived(l, r) /\ at[r] = 0
  <2>1. CASE Named(s, r) = {Log!Current(l, r)}
    BY <1>4, <2>1
  <2>2. CASE Named(s, r) = {} /\ Log!Current(l, r) <= h
    BY <1>4, <1>8, <2>2 DEF Log!Due
  <2>3. CASE Named(s, r) = {} /\ h = -1 /\ Log!Archived(l, r)
    BY <1>4, <2>3, SoundIs
  <2> QED
    BY <1>2, <1>8, <2>1, <2>2, <2>3, BatchIs
<1>9. Log!Covers(l, at, s.cn)
  BY <1>8 DEF Sound, Log!Covers
<1>10. DiskAt(z, s.cn)
  <2>1. ASSUME NEW r \in Rules, Log!Due(l, r, s.cn), Named(s, r) = {}
        PROVE  s.disk[r] = Log!Current(l, r) \/ (s.disk[r] = 0 /\ Log!Archived(l, r))
    <3>1. CASE Log!Due(l, r, h)
      BY <3>1 DEF Sound, DiskAt
    <3>2. CASE h = -1 /\ Log!Archived(l, r)
      <4>1. s.disk[r] = 0 \/ s.disk[r] <= -1
        BY <3>2 DEF Sound
      <4>2. s.disk[r] \in Nat
        BY SoundIs
      <4> QED
        BY <3>2, <4>1, <4>2
    <3> QED
      BY <1>8, <2>1, <3>1, <3>2
  <2>2. \A r \in Rules : Named(s, r) \subseteq {at[r]}
    <3>1. \A r \in Rules : Named(s, r) = {} \/ at[r] \in Named(s, r)
      BY <1>4
    <3>2. \A r \in Rules : \A m, n \in Named(s, r) : m = n
      BY BatchIs
    <3> QED
      BY <3>1, <3>2
  <2>3. \A r : Named(z, r) = Named(s, r)
    BY <1>1 DEF Named
  <2> QED
    BY <1>1, <2>1, <2>2, <2>3 DEF DiskAt
<1>11. Sound(z, s.cn)
  <2>1. s.cn \in -1..s.cn
    BY SoundIs
  <2> QED
    BY <1>1, <1>2, <1>3, <1>6, <1>7, <1>9, <1>10, <2>1 DEF Sound, StartsEmpty
<1>12. ASSUME NEW t, NEW w, NEW e, Fits(s, h, t, w, e) PROVE Fits(z, s.cn, t, w, e)
  <2>1. ASSUME NEW r \in Rules, Log!Due(l, r, s.cn), at[r] = 0, t >= s.from, t < Log!Current(l, r)
        PROVE  w[r] = 0 \/ r \in e
    <3>1. t \in Int /\ Log!Current(l, r) \in Nat /\ Log!Current(l, r) <= s.cn /\ Log!Current(l, r) # 0
      BY <1>12, <2>1, SoundIs DEF Fits, Promise, Log!Due
    <3>2. CASE Log!Due(l, r, h) /\ at[r] = s.at[r]
      BY <1>12, <2>1, <3>2 DEF Fits, NotHeld
    <3>3. CASE h = -1
      <4>1. ~(t < s.from) /\ ~(t >= s.cn)
        BY <1>2, <2>1, <3>1, SoundIs
      <4>2. Blank(w, e)
        BY <1>12, <3>3, <4>1 DEF Fits, Starting
      <4> QED
        BY <4>2 DEF Blank
    <3> QED
      BY <1>8, <2>1, <3>1, <3>2, <3>3
  <2>2. NotHeld(z, s.cn, t, w, e)
    BY <1>1, <2>1 DEF NotHeld
  <2>3. Starting(z, s.cn, t, w, e)
    BY <1>1, <1>3 DEF Starting
  <2> QED
    BY <1>1, <1>12, <2>2, <2>3 DEF Fits
<1>13. h <= s.cn /\ s.cn <= z.cn /\ z.cn \in Int /\ z.cn = s.cn /\ z.from = s.from
  BY <1>1, <1>2
<1>14. \A r \in Rules : s.at[r] # 0 => z.at[r] # 0
  BY <1>1, <1>4
<1> QED
  BY <1>11, <1>12, <1>13, <1>14 DEF Moves

\* The record of a change is saved, which no client can tell.
LEMMA SaveMovesStore ==
    ASSUME NEW s, StorageTyped(s), NEW h, Sound(s, h), s.stage = "save", NEW n \in s.batch,
           s.log[n].name \in Rules, NEW saved,
           \A r \in Rules : saved[r] = IF r = s.log[n].name THEN n ELSE s.disk[r],
           NEW z, OnlyChanges(s, z, {"disk", "stage", "batch", "till"}), z.disk = saved,
           \/ s.batch = {n} /\ z.stage = "off"
           \/ z.stage = "save" /\ z.batch = s.batch \ {n}
    PROVE  Moves(s, h, z, h)
<1> DEFINE l == s.log
           q == s.log[n].name
<1>1. /\ z.log = s.log /\ z.rules = s.rules /\ z.cn = s.cn /\ z.at = s.at /\ z.from = s.from /\ z.disk = saved
      /\ z.up = s.up /\ z.stage \in {"off", "save"}
      /\ z.stage = "save" => z.batch = s.batch \ {n}
      /\ z.stage = "off" => s.batch = {n}
  BY DEF OnlyChanges
<1>2. n = s.at[q] /\ n # 0 /\ n \in 1..Len(l) /\ n \in Nat
  <2>1. n \in 1..Len(l)
    BY DEF StorageTyped
  <2>2. n \in Named(s, q)
    BY DEF Named
  <2> QED
    BY <2>1, <2>2, SoundIs DEF Sound, DiskAt
<1>3. saved[q] = n /\ (n = 0 \/ n <= h)
  <2>1. saved[q] = n
    OBVIOUS
  <2>2. s.at[q] = 0 \/ s.at[q] <= h
    BY DEF Sound
  <2> QED
    BY <1>2, <2>1, <2>2
<1>4. \A r \in Rules : r # q => saved[r] = s.disk[r]
  OBVIOUS
<1>5. DiskAt(z, h)
  <2>1. ASSUME NEW r \in Rules, Log!Due(l, r, h), ~(z.stage = "save" /\ Named(z, r) # {})
        PROVE  saved[r] = Log!Current(l, r) \/ (saved[r] = 0 /\ Log!Archived(l, r))
    <3>1. CASE r = q
      <4>1. s.at[r] = Log!Current(l, r) \/ s.at[r] = 0
        BY <2>1 DEF Sound, Log!Covers
      <4> QED
        BY <1>2, <1>3, <3>1, <4>1
    <3>2. CASE r # q
      <4>1. Named(s, r) = {}
        BY <1>1, <2>1, <3>2 DEF Named
      <4> QED
        BY <1>4, <2>1, <3>2, <4>1 DEF Sound, DiskAt
    <3> QED
      BY <3>1, <3>2
  <2>2. z.stage = "save" => \A r \in Rules : Named(z, r) \subseteq Named(s, r)
    BY <1>1 DEF Named
  <2>3. \A r \in Rules : Named(s, r) \subseteq {s.at[r]}
    BY DEF Sound, DiskAt
  <2> QED
    BY <1>1, <2>1, <2>2, <2>3 DEF DiskAt
<1>6. Log!Known(l, saved)
  <2>1. n <= Log!Current(l, q)
    BY <1>2, SoundIs, Log!CurrentIsLast
  <2>2. Log!Current(l, q) # 0
    BY <1>2, <2>1
  <2> QED
    BY <1>4, <2>2 DEF Sound, Log!Known
<1>7. \A r \in Rules : saved[r] = 0 \/ saved[r] <= h
  BY <1>3, <1>4 DEF Sound
<1>8. Sound(z, h)
  <2> HIDE DEF q
  <2> QED
    BY <1>1, <1>5, <1>6, <1>7 DEF Sound, StartsEmpty
<1>9. ASSUME NEW t, NEW w, NEW e, Fits(s, h, t, w, e) PROVE Fits(z, h, t, w, e)
  BY <1>1, <1>9 DEF Fits, NotHeld, Starting
<1>10. h <= h /\ s.cn <= z.cn /\ z.cn \in Int /\ z.cn = s.cn /\ z.from = s.from /\ z.at = s.at
  BY <1>1, SoundIs
<1> QED
  BY <1>8, <1>9, <1>10 DEF Moves

\* A kill is of a rule the snapshot has not caught up with.
LEMMA KillMovesStore ==
    ASSUME NEW s, StorageTyped(s), NEW h, Sound(s, h), NEW n \in 1..Len(s.log), n > s.cn,
           s.rules[s.log[n].name] # 0, s.log[n].name \in Rules, NEW rules,
           \A r \in Rules : r # s.log[n].name => rules[r] = s.rules[r],
           NEW z, OnlyChanges(s, z, {"rules"}), z.rules = rules
    PROVE  Moves(s, h, z, h)
<1> DEFINE l == s.log
<1>1. /\ z.log = s.log /\ z.rules = rules /\ z.cn = s.cn /\ z.at = s.at /\ z.from = s.from /\ z.disk = s.disk
      /\ z.up = s.up /\ z.stage = s.stage /\ z.batch = s.batch /\ z.till = s.till
  BY DEF OnlyChanges
<1>2. n <= Log!Current(l, l[n].name) /\ n \in Nat /\ n # 0
  BY SoundIs, Log!CurrentIsLast
<1>3. Log!Known(l, rules)
  <2>1. Log!Current(l, l[n].name) # 0
    BY <1>2, SoundIs
  <2> QED
    BY <2>1 DEF Sound, Log!Known
<1>4. Log!Complete(l, s.cn, rules)
  <2>1. ~Log!Due(l, l[n].name, s.cn)
    BY <1>2, SoundIs DEF Log!Due
  <2>2. \A r \in Rules : Log!Due(l, r, s.cn) => rules[r] = IF Log!Archived(l, r) THEN 0 ELSE Log!Current(l, r)
    BY <2>1, SoundIs
  <2> QED
    BY <2>2, SoundIs, Log!CompleteIs
<1>5. s.cn # -1
  BY DEF Sound
<1>6. Sound(z, h)
  BY <1>1, <1>3, <1>4, <1>5 DEF Sound, DiskAt, Named, StartsEmpty
<1>7. ASSUME NEW t, NEW w, NEW e, Fits(s, h, t, w, e) PROVE Fits(z, h, t, w, e)
  BY <1>1, <1>7 DEF Fits, NotHeld, Starting
<1>8. h <= h /\ s.cn <= z.cn /\ z.cn \in Int /\ z.cn = s.cn /\ z.from = s.from /\ z.at = s.at
  BY <1>1, SoundIs
<1> QED
  BY <1>6, <1>7, <1>8 DEF Moves

\* A kind starts without records.
LEMMA BlankStoreFits ==
    ASSUME NEW z, z.log \in Seq(Log!Change), z.cn = -1, z.from = -1, z.stage = "off",
           \A r \in Rules : z.rules[r] = 0 /\ z.at[r] = 0 /\ z.disk[r] = 0
    PROVE  Sound(z, -1) /\ \A t, w, e : Promise(z.log, t, w, e) => Fits(z, -1, t, w, e)
<1>1. \A r : ~Log!Due(z.log, r, -1)
  <2>1. ASSUME NEW r PROVE ~Log!Due(z.log, r, -1)
    <3>1. Log!Current(z.log, r) = 0 \/ Log!Current(z.log, r) \in 1..Len(z.log)
      BY Log!CurrentIs
    <3> QED
      BY <3>1 DEF Log!Due
  <2> QED
    BY <2>1
<1>2. Log!Complete(z.log, -1, z.rules)
  BY <1>1, Log!CompleteIs
<1>3. Sound(z, -1)
  BY <1>1, <1>2 DEF Sound, DiskAt, StartsEmpty, Log!Covers, Log!Known
<1>4. ASSUME NEW t, NEW w, NEW e, Promise(z.log, t, w, e) PROVE Fits(z, -1, t, w, e)
  BY <1>1, <1>4 DEF Fits, NotHeld, Starting
<1> QED
  BY <1>3, <1>4

\* A kind starts from the records of a snapshot file, at the level of the last one.
LEMMA BackupStoreFits ==
    ASSUME NEW z, z.log \in Seq(Log!Change), z.cn \in 0..Len(z.log), z.from = z.cn, z.stage = "off",
           BackupInv(z.log, z.disk),
           \A r \in Rules : z.disk[r] \in Nat /\ z.disk[r] <= z.cn /\ z.disk[r] <= Len(z.log),
           z.cn = 0 \/ \E r \in Rules : z.cn = z.disk[r],
           \A r \in Rules : /\ z.at[r] = z.rules[r]
                            /\ z.rules[r] = IF z.disk[r] = 0 THEN 0
                                            ELSE IF z.log[z.disk[r]].active THEN z.disk[r] ELSE 0
    PROVE  Sound(z, z.cn) /\ \A t, w, e : Promise(z.log, t, w, e) => Fits(z, z.cn, t, w, e)
<1> DEFINE l == z.log
<1>0. Len(l) \in Nat /\ z.cn \in Nat /\ z.cn <= Len(l) /\ (l = <<>> => Len(l) = 0)
  OBVIOUS
<1>1. \A r : Log!Current(l, r) = 0 \/ Log!Current(l, r) \in 1..Len(l)
  BY Log!CurrentIs
<1>2. ASSUME NEW r \in Rules, Log!Due(l, r, z.cn)
      PROVE  z.disk[r] = Log!Current(l, r) \/ (z.disk[r] = 0 /\ Log!Archived(l, r))
  <2>1. z.cn # 0
    BY <1>1, <1>2 DEF Log!Due
  <2> QED
    BY <1>2, <2>1 DEF BackupInv, Log!Covers
<1>3. \A r \in Rules : /\ z.rules[r] = 0 \/ z.rules[r] = z.disk[r]
                       /\ z.disk[r] # 0 => z.rules[r] = IF l[z.disk[r]].active THEN z.disk[r] ELSE 0
                       /\ z.disk[r] = 0 => z.rules[r] = 0
  OBVIOUS
<1>4. \A r \in Rules : Log!Due(l, r, z.cn) => z.rules[r] = IF Log!Archived(l, r) THEN 0 ELSE Log!Current(l, r)
  <2>1. ASSUME NEW r \in Rules, Log!Due(l, r, z.cn)
        PROVE  z.rules[r] = IF Log!Archived(l, r) THEN 0 ELSE Log!Current(l, r)
    <3>1. CASE z.disk[r] = Log!Current(l, r)
      <4>1. Log!Current(l, r) # 0
        BY <1>1, <2>1 DEF Log!Due
      <4> QED
        BY <1>3, <3>1, <4>1 DEF Log!Archived
    <3>2. CASE z.disk[r] = 0 /\ Log!Archived(l, r)
      BY <1>3, <3>2
    <3> QED
      BY <1>2, <2>1, <3>1, <3>2
  <2> QED
    BY <2>1
<1>5. Log!Complete(l, z.cn, z.rules)
  BY <1>4, Log!CompleteIs
<1>6. Log!Covers(l, z.at, z.cn)
  <2>1. ASSUME NEW r \in Rules, Log!Due(l, r, z.cn)
        PROVE z.at[r] = Log!Current(l, r) \/ (z.at[r] = 0 /\ Log!Archived(l, r))
    BY <1>4, <2>1
  <2> QED
    BY <2>1 DEF Log!Covers
<1>7. DiskAt(z, z.cn)
  BY <1>2 DEF DiskAt
<1>8. Log!Known(l, z.disk) /\ Log!Known(l, z.rules) /\ Log!Known(l, z.at)
  BY <1>3 DEF BackupInv, Log!Known
<1>9. Sound(z, z.cn)
  <2>1. \A r \in Rules : z.at[r] = 0 \/ z.at[r] <= z.cn
    BY <1>3
  <2>2. z.cn \in -1..z.cn /\ z.cn # -1 /\ z.from <= z.cn /\ z.from # -1
    BY <1>0
  <2> QED
    BY <1>5, <1>6, <1>7, <1>8, <2>1, <2>2 DEF Sound, StartsEmpty
<1>10. ASSUME NEW t, NEW w, NEW e, Promise(z.log, t, w, e) PROVE Fits(z, z.cn, t, w, e)
  <2>1. t \in Int /\ z.cn # -1
    BY <1>0, <1>10 DEF Promise
  <2>2. \A r \in Rules : ~(Log!Due(l, r, z.cn) /\ t >= z.from /\ t < Log!Current(l, r))
    BY <1>0, <1>1, <2>1 DEF Log!Due
  <2> QED
    BY <1>10, <2>1, <2>2 DEF Fits, NotHeld, Starting
<1> QED
  BY <1>9, <1>10

-----------------------------------------------------------------------------
(* Answers: what a client that fits becomes by applying one                *)

\* An answer without rules at the client's own CN changes nothing.
LEMMA EmptyAnswerFits ==
    ASSUME NEW s, NEW h, NEW t, NEW w, NEW e, w \in [Rules -> Nat], e \subseteq Rules, Fits(s, h, t, w, e),
           NEW b, b.till = t, DOMAIN b.got = {}
    PROVE  AnswerFits(s, h, b, w, e)
<1>1. Applied(w, b) = w
  BY DEF Applied
<1>2. EarlyAfter(e, b) = e
  BY DEF EarlyAfter
<1> QED
  BY <1>1, <1>2 DEF AnswerFits

\* From the snapshot, whose CN was read first: its rules may be later than the CN.
LEMMA SnapshotAnswerFits ==
    ASSUME NEW s, StorageTyped(s), NEW h, Sound(s, h),
           NEW w, NEW e, Fits(s, h, -1, w, e),
           NEW till \in -1..Len(s.log), till <= h \/ till = s.cn,
           NEW b, b = [till |-> till, got |-> [r \in {q \in Rules : s.rules[q] # 0} |-> s.rules[r]],
                       early |-> till = -1]
    PROVE  AnswerFits(s, h, b, w, e)
<1> DEFINE l == s.log
           w1 == Applied(w, b)
           e1 == EarlyAfter(e, b)
<1>1. /\ b.till = till /\ b.early = (till = -1) /\ DOMAIN b.got = {q \in Rules : s.rules[q] # 0}
      /\ \A r \in DOMAIN b.got : b.got[r] = s.rules[r]
  OBVIOUS
<1>2. \A r \in Rules : w1[r] = IF s.rules[r] # 0 THEN s.rules[r] ELSE w[r]
  BY <1>1 DEF Applied
<1>3. \A r \in Rules : r \in e1 <=> IF s.rules[r] # 0 THEN till = -1 ELSE r \in e
  BY <1>1 DEF EarlyAfter
<1>4. till \in Int /\ till <= s.cn
  BY SoundIs
<1>5. \A r \in Rules : w[r] = 0 \/ r \in e
  BY DEF Fits, Promise, Blank
<1> HIDE DEF w1, e1
<1>6. Promise(l, till, w1, e1)
  <2>1. ASSUME NEW r \in Rules, Log!Due(l, r, till)
        PROVE  r \in e1 \/ w1[r] = IF Log!Archived(l, r) THEN 0 ELSE Log!Current(l, r)
    <3>1. Log!Due(l, r, s.cn)
      BY <1>4, <2>1, SoundIs DEF Log!Due
    <3>2. s.rules[r] = IF Log!Archived(l, r) THEN 0 ELSE Log!Current(l, r)
      BY <3>1, SoundIs
    <3>3. CASE s.rules[r] # 0
      BY <1>2, <3>2, <3>3
    <3>4. CASE s.rules[r] = 0
      BY <1>2, <1>3, <1>5, <3>2, <3>4
    <3> QED
      BY <3>3, <3>4
  <2>2. Log!Known(l, w1)
    BY <1>2 DEF Fits, Promise, Sound, Log!Known
  <2>3. till = -1 => Blank(w1, e1)
    BY <1>2, <1>3, <1>5 DEF Blank
  <2> QED
    BY <2>1, <2>2, <2>3 DEF Promise
<1>7. NotHeld(s, h, till, w1, e1)
  <2>1. ASSUME NEW r \in Rules, Log!Due(l, r, h), s.at[r] = 0, till < Log!Current(l, r)
        PROVE  w1[r] = 0 \/ r \in e1
    <3>1. Log!Current(l, r) # 0 /\ Log!Due(l, r, s.cn)
      BY <2>1, SoundIs DEF Log!Due
    <3>2. Log!Archived(l, r)
      BY <2>1, <3>1 DEF Sound, Log!Covers
    <3>3. s.rules[r] = 0
      BY <3>1, <3>2, SoundIs
    <3> QED
      BY <1>2, <1>3, <1>5, <3>3
  <2> QED
    BY <2>1 DEF NotHeld
<1>8. Starting(s, h, till, w1, e1)
  <2>1. s.cn = -1 => Blank(w1, e1)
    BY <1>2, <1>3, <1>5 DEF Sound, Blank
  <2>2. s.stage = "historic" /\ h = -1 => till < s.from \/ till >= s.cn
    <3>1. s.stage = "historic" => s.from # -1
      BY DEF Sound
    <3> QED
      BY <1>4, <3>1, SoundIs
  <2>3. Blank(w1, e1) => \A r \in Rules : r \in e1 \/ w1[r] = 0
    BY DEF Blank
  <2> QED
    BY <2>1, <2>2, <2>3 DEF Starting
<1> QED
  BY <1>1, <1>6, <1>7, <1>8 DEF AnswerFits, Fits, w1, e1

\* An answer to a client at t from the views newer than t.
FromViews(s, t, b) ==
    /\ DOMAIN b.got \subseteq Rules /\ \A r \in Rules : r \in DOMAIN b.got <=> s.at[r] > t
    /\ b.till \in t..Len(s.log)
    /\ b.till = t \/ \E r \in DOMAIN b.got : b.till = s.at[r]
    /\ \A r \in Rules : s.at[r] <= b.till
    /\ \A r \in DOMAIN b.got : b.got[r] = IF s.log[s.at[r]].active THEN s.at[r] ELSE 0
    /\ b.early = FALSE

LEMMA ViewsAnswerFits ==
    ASSUME NEW s, StorageTyped(s), NEW h, Sound(s, h),
           NEW t \in Nat, NEW w, NEW e, Fits(s, h, t, w, e),
           NEW b, FromViews(s, t, b),
           t >= s.from \/ \A r \in Rules : r \in DOMAIN b.got \/ w[r] = 0 \/ r \in e
    PROVE  /\ AnswerFits(s, h, b, w, e)
           /\ b.till <= s.cn \/ DOMAIN b.got = {}
<1> DEFINE l == s.log
           w1 == Applied(w, b)
           e1 == EarlyAfter(e, b)
           newer == DOMAIN b.got
           till == b.till
<1>0. /\ newer \subseteq Rules /\ till \in t..Len(l) /\ \A r \in Rules : s.at[r] <= till
      /\ till = t \/ \E r \in newer : till = s.at[r]
  BY DEF FromViews
<1>1. /\ b.till = till /\ b.early = FALSE /\ DOMAIN b.got = newer
      /\ \A r \in newer : b.got[r] = IF l[s.at[r]].active THEN s.at[r] ELSE 0
  BY DEF FromViews
<1>2. /\ \A r \in Rules : r \in newer <=> s.at[r] > t
      /\ t >= s.from \/ \A r \in Rules : r \in newer \/ w[r] = 0 \/ r \in e
  BY DEF FromViews
<1> HIDE DEF newer, till
<1>3. \A r \in Rules : /\ r \in newer => w1[r] = IF l[s.at[r]].active THEN s.at[r] ELSE 0
                       /\ r \notin newer => w1[r] = w[r]
  BY <1>1 DEF Applied
<1>4. \A r \in Rules : r \in e1 <=> r \notin newer /\ r \in e
  BY <1>1 DEF EarlyAfter
<1>5. till \in Int /\ t <= till /\ till <= Len(l)
  BY <1>0, SoundIs
<1>6. \A r \in Rules : s.at[r] = 0 \/ (s.at[r] <= h /\ s.at[r] \in Nat)
  BY SoundIs DEF Sound
<1>7. till = t \/ (till <= h /\ till <= s.cn)
  <2>1. ASSUME NEW r \in newer, till = s.at[r] PROVE till <= h /\ till <= s.cn
    <3>1. r \in Rules /\ s.at[r] > t
      BY <1>0, <1>2
    <3>2. s.at[r] # 0
      BY <3>1
    <3>3. s.at[r] <= h
      BY <1>6, <3>1, <3>2
    <3> QED
      BY <1>5, <2>1, <3>3, SoundIs
  <2> QED
    BY <1>0, <2>1
<1>8. till = t => newer = {}
  <2>1. ASSUME till = t, NEW r \in newer PROVE FALSE
    <3>1. r \in Rules /\ s.at[r] > t /\ s.at[r] <= till /\ s.at[r] \in Nat
      BY <1>0, <1>2, SoundIs
    <3> QED
      BY <2>1, <3>1
  <2> QED
    BY <2>1
<1>9. s.cn = -1 \/ h = -1 => newer = {}
  <2>1. ASSUME s.cn = -1 \/ h = -1, NEW r \in newer PROVE FALSE
    <3>1. r \in Rules /\ s.at[r] > t /\ h = -1
      BY <1>0, <1>2, <2>1, SoundIs
    <3> QED
      BY <1>6, <3>1
  <2> QED
    BY <2>1
<1> HIDE DEF w1, e1
<1>10. newer = {} => (Blank(w, e) => Blank(w1, e1))
  BY <1>3, <1>4 DEF Blank
<1>11. Promise(l, till, w1, e1)
  <2>1. ASSUME NEW r \in Rules, Log!Due(l, r, till)
        PROVE  r \in e1 \/ w1[r] = IF Log!Archived(l, r) THEN 0 ELSE Log!Current(l, r)
    <3> DEFINE n == Log!Current(l, r)
    <3>1. n \in Nat /\ n # 0 /\ n <= till
      BY <2>1, SoundIs DEF Log!Due
    <3>2. n <= t \/ n <= h
      BY <1>5, <1>7, <3>1, SoundIs
    <3>3. ASSUME n <= h PROVE s.at[r] = n \/ (s.at[r] = 0 /\ Log!Archived(l, r))
      BY <3>1, <3>3 DEF Sound, Log!Covers, Log!Due
    <3>4. CASE r \in newer
      <4>1. s.at[r] # 0 /\ s.at[r] > t /\ s.at[r] <= h
        BY <1>2, <1>6, <3>4
      <4>2. n <= h
        <5>1. till <= h
          BY <1>7, <1>8, <3>4
        <5> QED
          BY <1>5, <3>1, <5>1, SoundIs
      <4> QED
        BY <1>3, <3>3, <3>4, <4>1, <4>2 DEF Log!Archived
    <3>5. CASE r \notin newer /\ n <= t
      <4>1. Log!Due(l, r, t)
        BY <3>1, <3>5 DEF Log!Due
      <4> QED
        BY <1>3, <1>4, <3>5, <4>1 DEF Fits, Promise
    <3>6. CASE r \notin newer /\ ~(n <= t)
      <4>1. s.at[r] # n /\ n <= h /\ t < n
        BY <1>2, <3>1, <3>2, <3>6
      <4>2. s.at[r] = 0 /\ Log!Archived(l, r) /\ Log!Due(l, r, h)
        BY <3>1, <3>3, <4>1 DEF Log!Due
      <4>3. w[r] = 0 \/ r \in e
        BY <1>2, <3>6, <4>1, <4>2 DEF Fits, NotHeld
      <4> QED
        BY <1>3, <1>4, <3>6, <4>2, <4>3
    <3> QED
      BY <3>4, <3>5, <3>6
  <2>2. Log!Known(l, w1)
    <3>1. ASSUME NEW r \in Rules, Log!Current(l, r) = 0 PROVE w1[r] = 0
      <4>1. s.at[r] = 0 /\ w[r] = 0
        BY <3>1 DEF Fits, Promise, Sound, Log!Known
      <4> QED
        BY <1>2, <1>3, <4>1
    <3> QED
      BY <3>1 DEF Log!Known
  <2>3. till # -1 /\ till \in -1..Len(l)
    BY <1>5
  <2> QED
    BY <2>1, <2>2, <2>3 DEF Promise
<1>12. NotHeld(s, h, till, w1, e1)
  <2>1. ASSUME NEW r \in Rules, Log!Due(l, r, h), s.at[r] = 0, till < Log!Current(l, r)
        PROVE  w1[r] = 0 \/ r \in e1
    <3>1. r \notin newer /\ t < Log!Current(l, r)
      BY <1>2, <1>5, <2>1, SoundIs
    <3>2. w[r] = 0 \/ r \in e
      BY <1>2, <2>1, <3>1 DEF Fits, NotHeld
    <3> QED
      BY <1>3, <1>4, <3>1, <3>2
  <2> QED
    BY <2>1 DEF NotHeld
<1>13. Starting(s, h, till, w1, e1)
  <2>1. ASSUME s.cn = -1 PROVE till = t /\ \A r \in Rules : w1[r] = w[r] /\ (r \in e1 <=> r \in e)
    <3>1. newer = {} /\ till = t
      BY <1>5, <1>7, <1>9, <2>1
    <3> QED
      BY <1>3, <1>4, <3>1
  <2>2. ASSUME s.stage = "historic", h = -1 PROVE Blank(w1, e1) \/ till < s.from \/ till >= s.cn
    <3>1. newer = {} /\ till = t
      BY <1>5, <1>7, <1>9, <2>2
    <3>2. Blank(w, e) \/ t < s.from \/ t >= s.cn
      BY <2>2 DEF Fits, Starting
    <3> QED
      BY <1>10, <3>1, <3>2
  <2>3. s.cn = -1 => (Blank(w, e) => Blank(w1, e1))
    BY <1>9, <1>10
  <2> QED
    BY <2>1, <2>2, <2>3 DEF Fits, Starting
<1>14. AnswerFits(s, h, b, w, e)
  BY <1>1, <1>11, <1>12, <1>13 DEF AnswerFits, Fits, w1, e1
<1>15. b.till <= s.cn \/ DOMAIN b.got = {}
  BY <1>1, <1>7, <1>8
<1> QED
  BY <1>14, <1>15

\* And the snapshot's versions of them, as they are by now.
LEMMA VersionsAnswerFits ==
    ASSUME NEW s, StorageTyped(s), NEW h, Sound(s, h),
           NEW t, NEW w, NEW e, Fits(s, h, t, w, e),
           NEW b, AnswerFits(s, h, b, w, e), b.early = FALSE, DOMAIN b.got \subseteq Rules,
           b.till <= s.cn \/ DOMAIN b.got = {}, b.till # -1, \A r \in DOMAIN b.got : s.at[r] # 0,
           NEW sent, sent = {r \in DOMAIN b.got : b.got[r] = 0 \/ s.rules[r] # 0},
           NEW d, d = [till |-> b.till, got |-> [r \in sent |-> IF b.got[r] = 0 THEN 0 ELSE s.rules[r]],
                       early |-> FALSE]
    PROVE  AnswerFits(s, h, d, w, e)
<1> DEFINE l == s.log
           w1 == Applied(w, b)
           e1 == EarlyAfter(e, b)
           w2 == Applied(w, d)
           e2 == EarlyAfter(e, d)
<1>1. /\ d.till = b.till /\ d.early = FALSE /\ DOMAIN d.got = sent
      /\ \A r \in sent : d.got[r] = IF b.got[r] = 0 THEN 0 ELSE s.rules[r]
  OBVIOUS
<1>2. Fits(s, h, b.till, w1, e1)
  BY DEF AnswerFits
<1>3. \A r \in Rules : r \notin DOMAIN b.got => w1[r] = w[r] /\ w2[r] = w[r] /\ (r \in e1 <=> r \in e) /\ (r \in e2 <=> r \in e)
  BY <1>1 DEF Applied, EarlyAfter
<1>4. \A r \in DOMAIN b.got : /\ w1[r] = b.got[r] /\ r \notin e1
                              /\ r \in sent => w2[r] = (IF b.got[r] = 0 THEN 0 ELSE s.rules[r]) /\ r \notin e2
                              /\ r \notin sent => w2[r] = w[r]
  BY <1>1 DEF Applied, EarlyAfter
<1>5. \A r \in DOMAIN b.got : r \in sent <=> b.got[r] = 0 \/ s.rules[r] # 0
  OBVIOUS
<1> HIDE DEF w1, w2, e1, e2
<1>6. Promise(l, b.till, w2, e2)
  <2>1. ASSUME NEW r \in Rules, Log!Due(l, r, b.till)
        PROVE  r \in e2 \/ w2[r] = IF Log!Archived(l, r) THEN 0 ELSE Log!Current(l, r)
    <3>1. r \in e1 \/ w1[r] = IF Log!Archived(l, r) THEN 0 ELSE Log!Current(l, r)
      BY <1>2, <2>1 DEF Fits, Promise
    <3>2. CASE r \notin DOMAIN b.got
      BY <1>3, <3>1, <3>2
    <3>3. CASE r \in DOMAIN b.got
      <4>1. b.got[r] = IF Log!Archived(l, r) THEN 0 ELSE Log!Current(l, r)
        BY <1>4, <3>1, <3>3
      <4>2. Log!Due(l, r, s.cn)
        <5>1. b.till \in Int /\ b.till <= s.cn
          BY <1>2, <3>3 DEF Fits, Promise
        <5> QED
          BY <2>1, <5>1, SoundIs DEF Log!Due
      <4>3. s.rules[r] = IF Log!Archived(l, r) THEN 0 ELSE Log!Current(l, r)
        BY <4>2, SoundIs
      <4> QED
        BY <1>4, <1>5, <3>3, <4>1, <4>3
    <3> QED
      BY <3>2, <3>3
  <2>2. Log!Known(l, w2)
    <3>1. ASSUME NEW r \in Rules, Log!Current(l, r) = 0 PROVE w2[r] = 0
      <4>1. s.rules[r] = 0 /\ w[r] = 0
        BY <3>1 DEF Fits, Promise, Sound, Log!Known
      <4> QED
        BY <1>3, <1>4, <4>1
    <3> QED
      BY <3>1 DEF Log!Known
  <2> QED
    BY <1>2, <2>1, <2>2 DEF Fits, Promise
<1>7. NotHeld(s, h, b.till, w2, e2)
  <2>1. \A r \in Rules : s.at[r] = 0 => r \notin DOMAIN b.got
    OBVIOUS
  <2> QED
    BY <1>2, <1>3, <2>1 DEF Fits, NotHeld
<1>8. h = -1 => DOMAIN b.got = {}
  <2>1. ASSUME h = -1, NEW r \in DOMAIN b.got PROVE FALSE
    BY <2>1, SoundIs DEF Sound
  <2> QED
    BY <2>1
<1>9. DOMAIN b.got = {} => (Blank(w1, e1) => Blank(w2, e2))
  BY <1>3 DEF Blank
<1>10. Starting(s, h, b.till, w2, e2)
  <2>1. s.cn = -1 => h = -1
    BY SoundIs
  <2> QED
    BY <1>2, <1>3, <1>8, <1>9, <2>1 DEF Fits, Starting
<1> QED
  BY <1>1, <1>6, <1>7, <1>10 DEF AnswerFits, Fits, w2, e2

\* From the backend.
LEMMA BackendAnswerFits ==
    ASSUME NEW s, StorageTyped(s), NEW h, Sound(s, h),
           NEW t, NEW w, NEW e, Fits(s, h, t, w, e),
           NEW names, names = {s.log[n].name : n \in Log!ChangedSince(s.log, t)},
           NEW b, b = [till |-> IF s.log = <<>> THEN t ELSE Len(s.log),
                       got |-> [r \in names |-> Log!Served(s.log, r, Len(s.log))],
                       early |-> s.cn = -1]
    PROVE  AnswerFits(s, h, b, w, e)
<1> DEFINE l == s.log
           w1 == Applied(w, b)
           e1 == EarlyAfter(e, b)
           n == IF l = <<>> THEN t ELSE Len(l)
<1>0. t \in Int /\ -1 <= t /\ t <= Len(l)
  BY DEF Fits, Promise
<1>1. /\ b.till = n /\ b.early = (s.cn = -1) /\ DOMAIN b.got = names
      /\ \A r \in names : b.got[r] = Log!Served(l, r, Len(l))
  OBVIOUS
<1>2. \A r \in Rules : /\ r \in names => w1[r] = Log!Served(l, r, Len(l)) /\ (r \in e1 <=> s.cn = -1)
                       /\ r \notin names => w1[r] = w[r] /\ (r \in e1 <=> r \in e)
  BY <1>1 DEF Applied, EarlyAfter
<1>3. ASSUME NEW r \in Rules, Log!Current(l, r) # 0
      PROVE  r \in names \/ Log!Current(l, r) <= t \/ (t = -1 /\ Log!Archived(l, r))
  <2>1. Log!Current(l, r) = Log!LatestCN(l, r, Len(l)) /\ Log!Current(l, r) > 0 /\ Log!Current(l, r) \in Nat
    BY <1>3, SoundIs DEF Log!Current
  <2>2. Log!Current(l, r) \in Log!ChangedSince(l, t) => r \in names
    BY <1>3, SoundIs
  <2> HIDE DEF l
  <2>3. Log!Current(l, r) \in Log!ChangedSince(l, t) \/ Log!Current(l, r) <= t \/ (t = -1 /\ Log!Archived(l, r))
    BY <1>0, <2>1 DEF Log!ChangedSince, Log!Archived
  <2> QED
    BY <2>2, <2>3
<1>4. n \in Int /\ t <= n /\ n \in -1..Len(l) /\ (l = <<>> => n = t) /\ (l # <<>> => n = Len(l))
  BY <1>0, SoundIs
<1> HIDE DEF w1, e1, n
<1>5. Promise(l, n, w1, e1)
  <2>1. ASSUME NEW r \in Rules, Log!Due(l, r, n)
        PROVE  r \in e1 \/ w1[r] = IF Log!Archived(l, r) THEN 0 ELSE Log!Current(l, r)
    <3>1. Log!Current(l, r) # 0 /\ Log!Current(l, r) > 0
      BY <2>1, SoundIs DEF Log!Due
    <3>2. CASE r \in names
      BY <1>2, <3>1, <3>2, SoundIs
    <3>3. CASE r \notin names /\ Log!Current(l, r) <= t
      BY <1>2, <3>1, <3>3 DEF Fits, Promise, Log!Due
    <3>4. CASE r \notin names /\ t = -1 /\ Log!Archived(l, r)
      BY <1>2, <3>4 DEF Fits, Promise, Blank
    <3> QED
      BY <1>3, <3>1, <3>2, <3>3, <3>4
  <2>2. Log!Known(l, w1)
    <3>1. ASSUME NEW r \in Rules, Log!Current(l, r) = 0 PROVE w1[r] = 0
      <4>1. w[r] = 0 /\ Log!Served(l, r, Len(l)) = 0
        BY <3>1, SoundIs DEF Fits, Promise, Log!Known
      <4> QED
        BY <1>2, <4>1
    <3> QED
      BY <3>1 DEF Log!Known
  <2>3. ASSUME n = -1 PROVE Blank(w1, e1)
    <3>1. l = <<>>
      BY <1>4, <2>3, SoundIs
    <3>2. \A r \in Rules : Log!Current(l, r) = 0
      BY <3>1, SoundIs
    <3> QED
      BY <2>2, <3>2 DEF Log!Known, Blank
  <2> QED
    BY <1>4, <2>1, <2>2, <2>3 DEF Promise
<1>6. NotHeld(s, h, n, w1, e1)
  <2>1. \A r \in Rules : ~(Log!Due(l, r, h) /\ n < Log!Current(l, r))
    BY <1>4, SoundIs DEF Log!Due
  <2> QED
    BY <2>1 DEF NotHeld
<1>7. Starting(s, h, n, w1, e1)
  <2>1. ASSUME s.cn = -1, s.stage = "start", NEW r \in Rules
        PROVE  r \in e1 \/ w1[r] = 0 \/ w1[r] = Log!Served(l, r, s.till)
    <3>1. CASE r \in names
      BY <1>2, <2>1, <3>1
    <3>2. CASE r \notin names /\ Log!Current(l, r) = 0
      BY <1>2, <3>2 DEF Fits, Promise, Log!Known
    <3>3. CASE r \notin names /\ Log!Current(l, r) # 0 /\ t = -1
      BY <1>2, <3>3 DEF Fits, Promise, Blank
    <3>4. CASE r \notin names /\ Log!Current(l, r) # 0 /\ t # -1 /\ t >= s.till
      BY <1>2, <2>1, <3>4 DEF Fits, Starting
    <3>5. CASE r \notin names /\ Log!Current(l, r) # 0 /\ t # -1 /\ ~(t >= s.till)
      <4>1. Log!Due(l, r, t) /\ Log!Due(l, r, s.till)
        BY <1>0, <1>3, <3>5, SoundIs DEF Log!Due
      <4>2. r \in e \/ w[r] = IF Log!Archived(l, r) THEN 0 ELSE Log!Current(l, r)
        BY <4>1 DEF Fits, Promise
      <4>3. Log!LatestCN(l, r, s.till) = Log!Current(l, r)
        BY <4>1, SoundIs, Log!LatestSettled DEF Log!Due, Log!Current
      <4>4. Log!Served(l, r, s.till) = IF Log!Archived(l, r) THEN 0 ELSE Log!Current(l, r)
        BY <3>5, <4>3, SoundIs DEF Log!Served, Log!Archived
      <4> QED
        BY <1>2, <3>5, <4>2, <4>4
    <3> QED
      BY <3>1, <3>2, <3>3, <3>4, <3>5
  <2>2. ASSUME s.cn = -1, s.from # -1, s.stage # "snapshot" PROVE Blank(w1, e1)
    <3>1. ASSUME NEW r \in Rules, r \notin names PROVE w[r] = 0 \/ r \in e
      <4>1. CASE Log!Current(l, r) = 0
        BY <4>1 DEF Fits, Promise, Log!Known
      <4>2. CASE t = -1
        BY <4>2 DEF Fits, Promise, Blank
      <4>3. CASE t >= s.from
        BY <2>2, <4>3 DEF Fits, Starting, Blank
      <4>4. CASE Log!Current(l, r) # 0 /\ t # -1 /\ ~(t >= s.from)
        <5>1. Log!Due(l, r, t) /\ Log!Due(l, r, s.from)
          BY <1>0, <1>3, <3>1, <4>4, SoundIs DEF Log!Due
        <5>2. Log!Archived(l, r)
          BY <2>2, <5>1 DEF Sound, StartsEmpty
        <5> QED
          BY <5>1, <5>2 DEF Fits, Promise
      <4> QED
        BY <4>1, <4>2, <4>3, <4>4
    <3> QED
      BY <1>2, <2>2, <3>1 DEF Blank
  <2>3. ASSUME s.stage \in {"snapshot", "historic"} PROVE n >= s.cn /\ n >= s.till
    <3>1. PICK m \in s.batch : m \in 1..Len(l)
      BY <2>3 DEF StorageTyped
    <3>2. l # <<>>
      BY <3>1, SoundIs
    <3> QED
      BY <1>4, <3>2, SoundIs
  <2>4. s.till \in Int
    BY SoundIs
  <2> QED
    BY <1>4, <2>1, <2>2, <2>3, <2>4 DEF Starting
<1> QED
  BY <1>1, <1>5, <1>6, <1>7 DEF AnswerFits, Fits, w1, e1

\* Applying an answer again changes nothing.
LEMMA AppliedTwice ==
    ASSUME NEW w, NEW e, NEW b
    PROVE  /\ Applied(Applied(w, b), b) = Applied(w, b)
           /\ EarlyAfter(EarlyAfter(e, b), b) = EarlyAfter(e, b)
BY DEF Applied, EarlyAfter

-----------------------------------------------------------------------------
(* The proxy's steps are such steps of its two storages                    *)

LEMMA StorageIs ==
    ASSUME Typed, NEW k \in RuleKinds
    PROVE  LET s == Storage(k) IN
           /\ StorageTyped(s)
           /\ s.log = published[k] /\ s.rules = activeRules[k] /\ s.cn = activeCN[k] /\ s.at = updatedAt[k]
           /\ s.from = oldestKnownCN[k] /\ s.disk = disk[k] /\ s.up = up /\ s.stage = Stage(k)
           /\ s.batch = sync.changes[k].batch /\ s.till = sync.changes[k].till
<1> DEFINE s == Storage(k)
<1>1. /\ s.log = published[k] /\ s.rules = activeRules[k] /\ s.cn = activeCN[k] /\ s.at = updatedAt[k]
      /\ s.from = oldestKnownCN[k] /\ s.disk = disk[k] /\ s.up = up /\ s.stage = Stage(k)
      /\ s.batch = sync.changes[k].batch /\ s.till = sync.changes[k].till
      /\ s = [log |-> s.log, rules |-> s.rules, cn |-> s.cn, at |-> s.at, from |-> s.from, disk |-> s.disk,
              up |-> s.up, stage |-> s.stage, batch |-> s.batch, till |-> s.till]
  BY DEF Storage
<1>2. published[k] \in Seq(Log!Change) /\ Len(published[k]) \in Nat
  BY DEF Typed, StoresTyped
<1>3. \A w : Within(w) => w[k] \in [Rules -> Nat] /\ \A r \in Rules : w[k][r] <= Len(published[k])
  BY DEF Within
<1>4. Within(activeRules) /\ Within(updatedAt) /\ Within(disk) /\ up \in BOOLEAN
      /\ Reached(activeCN) /\ Reached(oldestKnownCN)
  BY DEF Typed, StoresTyped
<1>5. activeCN[k] \in -1..Len(published[k]) /\ oldestKnownCN[k] \in -1..Len(published[k])
  BY <1>2, <1>4 DEF Reached
<1>6. sync.changes[k].batch \subseteq 1..Len(published[k]) /\ sync.changes[k].till \in -1..Len(published[k])
  BY DEF Typed, SyncTyped, ChangesTyped
<1>7. /\ Stage(k) \in {"off", "start", "snapshot", "historic", "save"}
      /\ Stage(k) \in {"snapshot", "historic", "save"} => sync.changes[k].batch # {}
  BY DEF Stage, Typed, SyncTyped, Batch
<1>8. IsStore(s, s.rules) /\ IsStore(s, s.at) /\ IsStore(s, s.disk)
  <2> HIDE DEF s
  <2> QED
    BY <1>1, <1>3, <1>4 DEF IsStore
<1> HIDE DEF s
<1>9. StorageTyped(s)
  BY <1>1, <1>2, <1>4, <1>5, <1>6, <1>7, <1>8 DEF StorageTyped
<1> QED
  BY <1>1, <1>9 DEF s

LEMMA NextStorageIs ==
    ASSUME NEW k
    PROVE  LET z == Storage(k)' IN
           /\ z.log = published'[k] /\ z.rules = activeRules'[k] /\ z.cn = activeCN'[k] /\ z.at = updatedAt'[k]
           /\ z.from = oldestKnownCN'[k] /\ z.disk = disk'[k] /\ z.up = up' /\ z.stage = Stage(k)'
           /\ z.batch = sync'.changes[k].batch /\ z.till = sync'.changes[k].till
BY DEF Storage

\* A storage that is left alone.
LEMMA StaysPut ==
    ASSUME NEW s, StorageTyped(s), NEW h, Sound(s, h)
    PROVE  Moves(s, h, s, h)
<1>1. h <= h /\ s.cn <= s.cn /\ s.cn \in Int
  BY SoundIs
<1> QED
  BY <1>1 DEF Moves

\* What fits a storage still does after a step of it.
SameRequest ==
    /\ flight'.pc = flight.pc /\ flight'.kind = flight.kind /\ flight'.key = flight.key
    /\ flight'.old = flight.old /\ flight'.body = flight.body
    /\ flight' = NoFlight <=> flight = NoFlight

LEMMA KindMoves ==
    ASSUME Typed, FlightInv, NEW k \in RuleKinds, NEW h, KindAt(k, h), NEW g,
           Moves(Storage(k), h, Storage(k)', g),
           UNCHANGED pollVars, SameRequest, cache' = cache \/ cache' = {}
    PROVE  KindAt(k, g)'
<1> DEFINE s == Storage(k)
           z == Storage(k)'
           b == flight.body[k]
           w == sdkRules[k]
           e == Early(k)
<1>1. /\ sdkCN' = sdkCN /\ sdkRules' = sdkRules /\ Early(k)' = Early(k) /\ flight'.body = flight.body
      /\ flight'.key = flight.key
      /\ \A pc : Reading(k, pc)' = Reading(k, pc) /\ Done(k)' = Done(k)
  BY DEF pollVars, Early, SameRequest, Reading, Done
<1>2. Sound(z, g) /\ h <= g /\ s.cn <= z.cn /\ z.cn \in Int /\ (s.cn <= g \/ z.cn = s.cn)
      /\ (\A r \in Rules : s.at[r] # 0 => z.at[r] # 0) /\ (z.from = s.from \/ s.cn = -1)
  BY DEF Moves
<1>3. \A t, v, f : Fits(s, h, t, v, f) => Fits(z, g, t, v, f)
  BY DEF Moves
<1>4. \A d, v, f : AnswerFits(s, h, d, v, f) => AnswerFits(z, g, d, v, f)
  BY <1>3 DEF AnswerFits
<1>5. Fits(z, g, sdkCN[k], w, e)
  BY <1>3 DEF KindAt
<1>6. h \in Int /\ s.cn \in Int /\ s.cn = activeCN[k] /\ s.up = up
  BY StorageIs, SoundIs DEF KindAt
<1>7. b.till \in Int /\ DOMAIN b.got \subseteq Rules
  <2>1. AnswerTyped(k, b)
    BY DEF Typed, FlightTyped, BodyTyped
  <2> HIDE DEF b
  <2> QED
    BY <2>1 DEF AnswerTyped
<1> HIDE DEF s, z, b, w, e
<1>9. ASSUME Reading(k, "all") PROVE b.till <= g \/ b.till = z.cn
  <2>1. b.till <= h \/ b.till = s.cn
    BY <1>9 DEF KindAt, RequestInv, s, b
  <2>2. g \in Int
    <3>1. g \in -1..z.cn
      BY <1>2 DEF Sound
    <3> QED
      BY <3>1
  <2> QED
    BY <1>2, <1>6, <1>7, <2>1, <2>2
<1>10. ASSUME Reading(k, "fetch")
       PROVE  /\ AnswerFits(z, g, b, w, e) /\ ~b.early /\ b.till # -1
              /\ b.till <= z.cn \/ DOMAIN b.got = {}
              /\ \A r \in DOMAIN b.got : z.at[r] # 0
  <2>1. /\ AnswerFits(s, h, b, w, e) /\ ~b.early /\ b.till # -1
        /\ b.till <= s.cn \/ DOMAIN b.got = {}
        /\ \A r \in DOMAIN b.got : s.at[r] # 0
    BY <1>10 DEF KindAt, RequestInv, s, b, w, e
  <2>3. b.till <= z.cn \/ DOMAIN b.got = {}
    BY <1>2, <1>6, <1>7, <2>1
  <2>4. \A r \in DOMAIN b.got : z.at[r] # 0
    BY <1>2, <1>7, <2>1
  <2>5. AnswerFits(z, g, b, w, e)
    BY <1>4, <2>1
  <2> QED
    BY <2>1, <2>3, <2>4, <2>5
<1>11. ASSUME Done(k) PROVE AnswerFits(z, g, b, w, e)
  BY <1>4, <1>11 DEF KindAt, RequestInv, s, b, w, e
<1>12. RequestInv(k, g)'
  BY <1>1, <1>9, <1>10, <1>11 DEF RequestInv, z, b, w, e
<1>13. ASSUME NEW x \in cache, x.key = sdkCN PROVE AnswerFits(z, g, x.body[k], w, e)
  <2>1. AnswerFits(s, h, x.body[k], w, e)
    BY <1>13 DEF KindAt, s, w, e
  <2> QED
    BY <1>4, <2>1
<1>14. \A x \in cache' : x.key = sdkCN' => AnswerFits(z, g, x.body[k], w, e)
  BY <1>1, <1>13
<1> QED
  BY <1>1, <1>2, <1>5, <1>12, <1>14 DEF KindAt, z, w, e

\* The other kind's storage while one is written, and both while none is.
Kept(k) ==
    /\ published'[k] = published[k] /\ activeRules'[k] = activeRules[k] /\ activeCN'[k] = activeCN[k]
    /\ updatedAt'[k] = updatedAt[k] /\ oldestKnownCN'[k] = oldestKnownCN[k] /\ disk'[k] = disk[k]

LEMMA QuietStep ==
    ASSUME Typed, NEW k \in RuleKinds, NEW h, Sound(Storage(k), h), Kept(k),
           \/ Stage(k) = "off" /\ Stage(k)' = "off"
           \/ Stage(k)' = Stage(k) /\ sync'.changes[k] = sync.changes[k] /\ up' = up
    PROVE  Moves(Storage(k), h, Storage(k)', h)
<1> DEFINE s == Storage(k)
<1>1. StorageTyped(s) /\ s.stage = Stage(k) /\ s.cn = activeCN[k] /\ s.log = published[k] /\ s.up = up
  BY StorageIs
<1>2. CASE Stage(k)' = Stage(k) /\ sync'.changes[k] = sync.changes[k] /\ up' = up
  <2>1. Storage(k)' = s
    BY <1>2 DEF Storage, Kept
  <2> QED
    BY <1>1, <2>1, StaysPut
<1>3. CASE Stage(k) = "off" /\ Stage(k)' = "off"
  <2> DEFINE z == Storage(k)'
  <2>1. OnlyChanges(s, z, {"up", "batch", "till"})
    <3>1. z.stage = s.stage
      BY <1>1, <1>3, NextStorageIs
    <3> HIDE DEF s, z
    <3> QED
      BY <3>1, StorageIs, NextStorageIs DEF Kept, OnlyChanges, s, z
  <2> HIDE DEF s, z
  <2> QED
    BY <1>1, <1>3, <2>1, WaitMovesStore DEF s, z
<1> QED
  BY <1>2, <1>3

\* One change is published.
LEMMA PublishStep ==
    ASSUME Typed, NEW k \in RuleKinds, NEW h, Sound(Storage(k), h),
           NEW j \in RuleKinds, NEW c \in History!Change, PublishRule(j, c)
    PROVE  Moves(Storage(k), h, Storage(k)', h)
<1>1. /\ UNCHANGED <<storeVars, up, sync>>
      /\ published' = [published EXCEPT ![j] = Append(@, c)]
  BY DEF PublishRule
<1>2. CASE k = j
  <2>1. published'[k] = Append(published[k], c)
    BY <1>1, <1>2 DEF Typed, StoresTyped
  <2> DEFINE s == Storage(k)
             z == Storage(k)'
  <2>2. OnlyChanges(s, z, {"log"}) /\ z.log = Append(s.log, c)
    <3>1. Stage(k)' = Stage(k)
      BY <1>1 DEF Stage
    <3>2. UNCHANGED <<activeRules, activeCN, updatedAt, oldestKnownCN, disk, up, sync>>
      BY <1>1 DEF storeVars
    <3> HIDE DEF s, z
    <3>3. z.log = Append(s.log, c)
      BY <2>1, StorageIs, NextStorageIs DEF s, z
    <3>4. OnlyChanges(s, z, {"log"})
      BY <3>1, <3>2, StorageIs, NextStorageIs DEF OnlyChanges, s, z
    <3> QED
      BY <3>3, <3>4
  <2>3. StorageTyped(s) /\ c \in Log!Change
    BY StorageIs, SameLog
  <2> HIDE DEF s, z
  <2> QED
    BY <2>2, <2>3, PublishMovesStore DEF s, z
<1>3. CASE k # j
  <2>1. Kept(k) /\ Stage(k)' = Stage(k) /\ sync'.changes[k] = sync.changes[k] /\ up' = up
    BY <1>1, <1>3 DEF Kept, Stage, storeVars, Typed, StoresTyped
  <2> QED
    BY <2>1, QuietStep
<1> QED
  BY <1>2, <1>3

\* A synchronization begins, finds nothing new, fails or ends.
LEMMA TurnStep ==
    ASSUME Typed, NEW k \in RuleKinds, NEW h, Sound(Storage(k), h),
           BeginSync \/ NothingNew \/ FetchFails \/ EndSync
    PROVE  Moves(Storage(k), h, Storage(k)', h)
<1>1. Kept(k)
  BY DEF BeginSync, NothingNew, FetchFails, EndSync, storeVars, Kept
<1>2. Stage(k) = "off"
  BY DEF BeginSync, NothingNew, FetchFails, EndSync, Stage
<1>3. Stage(k)' = "off"
  <2>1. sync'.pc \in {"idle", "fetch", "evict"}
    <3>1. sync = [pc |-> sync.pc, kind |-> sync.kind, changes |-> sync.changes, previous |-> sync.previous]
      BY DEF Typed, SyncTyped
    <3>2. CASE BeginSync
      BY <3>2 DEF BeginSync, NoSync
    <3>3. CASE NothingNew \/ FetchFails
      BY <3>1, <3>3 DEF NothingNew, FetchFails
    <3>4. CASE EndSync
      BY <3>4 DEF EndSync, NoSync
    <3> QED
      BY <3>2, <3>3, <3>4
  <2> QED
    BY <2>1 DEF Stage
<1> QED
  BY <1>1, <1>2, <1>3, QuietStep

LEMMA FetchStep ==
    ASSUME Typed, NEW k \in RuleKinds, NEW h, Sound(Storage(k), h), FetchRules
    PROVE  Moves(Storage(k), h, Storage(k)', h)
<1> DEFINE s == Storage(k)
<1>1. StorageTyped(s) /\ s.stage = Stage(k) /\ s.cn = activeCN[k] /\ s.log = published[k] /\ s.up = up
  BY StorageIs
<1>2. /\ UNCHANGED <<published, storeVars, up>> /\ sync.pc = "fetch"
      /\ sync'.pc = "start" /\ sync'.kind = "flags"
      /\ sync'.changes[k] = [batch |-> Log!ChangedSince(published[k], activeCN[k]),
                             till |-> TillFrom(k, activeCN[k])]
  BY SameLog DEF FetchRules, Typed, SyncTyped
<1>3. Stage(k) = "off" /\ Stage(k)' = "start"
  BY <1>2 DEF Stage, RuleKinds
<1>4. TillFrom(k, activeCN[k]) = IF s.log = <<>> THEN s.cn ELSE Len(s.log)
  BY <1>1, TillIs DEF StorageTyped
<1> DEFINE z == Storage(k)'
<1>5. /\ OnlyChanges(s, z, {"stage", "batch", "till"})
      /\ z.stage = "start" /\ z.batch = Log!ChangedSince(s.log, s.cn)
      /\ z.till = TillFrom(k, activeCN[k])
  <2> HIDE DEF s, z
  <2> QED
    BY <1>1, <1>2, <1>3, StorageIs, NextStorageIs DEF OnlyChanges, storeVars, s, z
<1> HIDE DEF s, z
<1> QED
  BY <1>1, <1>3, <1>4, <1>5, FetchMovesStore DEF s, z

LEMMA StartStep ==
    ASSUME Typed, NEW k \in RuleKinds, NEW h, Sound(Storage(k), h), StartingPoint
    PROVE  Moves(Storage(k), h, Storage(k)', h)
<1> DEFINE s == Storage(k)
<1>0. /\ sync = [pc |-> sync.pc, kind |-> sync.kind, changes |-> sync.changes, previous |-> sync.previous]
      /\ sync.kind \in {"flags", "segments"} /\ k \in {"flags", "segments"}
  BY DEF Typed, SyncTyped, RuleKinds
<1>1. /\ StorageTyped(s) /\ s.stage = Stage(k) /\ s.batch = sync.changes[k].batch
      /\ s.till = sync.changes[k].till /\ s.from = oldestKnownCN[k]
  BY StorageIs
<1>2. /\ UNCHANGED <<published, activeRules, activeCN, updatedAt, disk, up>> /\ sync.pc = "start"
      /\ sync' = IF Batch = {} THEN AfterKind ELSE [sync EXCEPT !.pc = "snapshot"]
  BY DEF StartingPoint
<1>3. CASE sync.kind = k
  <2>1. Stage(k) = "start" /\ Batch = s.batch
    BY <1>1, <1>2, <1>3 DEF Stage, Batch
  <2>2. oldestKnownCN'[k] = IF s.from = -1 \/ s.till < s.from THEN s.till ELSE s.from
    BY <1>1, <1>3 DEF StartingPoint, Typed, StoresTyped, Reached
  <2> DEFINE z == Storage(k)'
  <2>3. Stage(k)' = (IF s.batch = {} THEN "off" ELSE "snapshot")
        /\ (s.batch # {} => sync'.changes = sync.changes)
    BY <1>0, <1>2, <1>3, <2>1 DEF AfterKind, Stage
  <2>4. /\ OnlyChanges(s, z, {"from", "stage", "batch", "till"})
        /\ z.from = IF s.from = -1 \/ s.till < s.from THEN s.till ELSE s.from
        /\ z.stage = IF s.batch = {} THEN "off" ELSE "snapshot"
        /\ s.batch # {} => z.batch = s.batch /\ z.till = s.till
    <3> HIDE DEF s, z
    <3> QED
      BY <1>1, <1>2, <2>2, <2>3, StorageIs, NextStorageIs DEF OnlyChanges, s, z
  <2> HIDE DEF s, z
  <2> QED
    BY <1>1, <2>1, <2>4, StartMovesStore DEF s, z
<1>4. CASE sync.kind # k
  <2>1. Kept(k)
    BY <1>2, <1>4 DEF StartingPoint, Typed, StoresTyped, Reached, Kept
  <2>2. CASE sync.kind = "flags"
    <3>1. Stage(k)' = Stage(k) /\ sync'.changes[k] = sync.changes[k]
      BY <1>0, <1>2, <1>4, <2>2 DEF AfterKind, Stage
    <3> QED
      BY <1>2, <2>1, <3>1, QuietStep
  <2>3. CASE sync.kind = "segments"
    <3>1. Stage(k)' = "off" /\ Stage(k) = "off"
      BY <1>0, <1>2, <1>4, <2>3 DEF AfterKind, Stage
    <3> QED
      BY <1>2, <2>1, <3>1, QuietStep
  <2> QED
    BY <1>0, <2>2, <2>3
<1> QED
  BY <1>3, <1>4

LEMMA NamedIs ==
    ASSUME Typed, NEW r
    PROVE  /\ ChangesIn(r) = Named(Storage(sync.kind), r)
           /\ ChangesIn(r) # {} => Max(ChangesIn(r)) \in ChangesIn(r)
<1>1. sync.kind \in RuleKinds
  BY DEF Typed, SyncTyped
<1>2. ChangesIn(r) = Named(Storage(sync.kind), r)
  BY <1>1, StorageIs DEF ChangesIn, Named, Batch
<1>3. ASSUME ChangesIn(r) # {} PROVE Max(ChangesIn(r)) \in ChangesIn(r)
  BY <1>3, ChangesAre DEF ChangesIn
<1> QED
  BY <1>2, <1>3

LEMMA SnapshotStep ==
    ASSUME Typed, NEW k \in RuleKinds, NEW h, Sound(Storage(k), h), WriteSnapshot
    PROVE  Moves(Storage(k), h, Storage(k)', h)
<1> DEFINE s == Storage(k)
<1>0. /\ sync = [pc |-> sync.pc, kind |-> sync.kind, changes |-> sync.changes, previous |-> sync.previous]
      /\ sync.kind \in {"flags", "segments"} /\ k \in {"flags", "segments"} /\ sync.kind \in RuleKinds
  BY DEF Typed, SyncTyped, RuleKinds
<1>1. /\ StorageTyped(s) /\ s.stage = Stage(k) /\ s.till = sync.changes[k].till
      /\ s.rules = activeRules[k] /\ s.log = published[k]
  BY StorageIs
<1>2. /\ UNCHANGED <<published, updatedAt, oldestKnownCN, disk, up>> /\ sync.pc = "snapshot"
      /\ sync' = [sync EXCEPT !.pc = "historic"]
      /\ activeRules' = [activeRules EXCEPT ![sync.kind] = [r \in Rules |->
             IF ChangesIn(r) = {} THEN @[r] ELSE VersionOf(sync.kind, Max(ChangesIn(r)))]]
      /\ activeCN' = [activeCN EXCEPT ![sync.kind] = sync.changes[sync.kind].till]
  BY DEF WriteSnapshot
<1>3. CASE sync.kind = k
  <2> DEFINE rules == activeRules'[k]
  <2>1. /\ activeCN'[k] = s.till /\ Stage(k) = "snapshot" /\ Stage(k)' = "historic"
        /\ sync'.changes = sync.changes
    BY <1>0, <1>1, <1>2, <1>3 DEF Typed, StoresTyped, Reached, Stage
  <2>2. \A r \in Rules : rules[r] = IF ChangesIn(r) = {} THEN s.rules[r] ELSE VersionOf(k, Max(ChangesIn(r)))
    BY <1>1, <1>2, <1>3 DEF Typed, StoresTyped, Within
  <2>3. ASSUME NEW r \in Rules
        PROVE  \/ Named(s, r) = {} /\ rules[r] = s.rules[r]
               \/ \E n \in Named(s, r) : rules[r] = IF s.log[n].active THEN n ELSE 0
    <3>1. ChangesIn(r) = Named(s, r) /\ (ChangesIn(r) # {} => Max(ChangesIn(r)) \in ChangesIn(r))
      BY <1>3, NamedIs
    <3>2. \A n : VersionOf(k, n) = IF s.log[n].active THEN n ELSE 0
      BY <1>1 DEF VersionOf
    <3>3. CASE ChangesIn(r) = {}
      BY <2>2, <3>1, <3>3
    <3>4. CASE ChangesIn(r) # {}
      <4> DEFINE n == Max(ChangesIn(r))
      <4>1. n \in Named(s, r) /\ rules[r] = VersionOf(k, n)
        BY <2>2, <3>1, <3>4
      <4> HIDE DEF n, s, rules
      <4> QED
        BY <3>2, <4>1
    <3> QED
      BY <3>3, <3>4
  <2> DEFINE z == Storage(k)'
  <2>4. OnlyChanges(s, z, {"rules", "cn", "stage"}) /\ z.rules = rules /\ z.cn = s.till /\ z.stage = "historic"
    <3> HIDE DEF s, z
    <3>1. z.cn = s.till /\ z.stage = "historic"
      BY <2>1, NextStorageIs DEF z
    <3>2. z.rules = rules
      BY NextStorageIs DEF z
    <3>3. sync'.changes[k].batch = sync.changes[k].batch /\ sync'.changes[k].till = sync.changes[k].till
      BY <2>1
    <3>4. UNCHANGED <<published, updatedAt, oldestKnownCN, disk, up>>
      BY <1>2
    <3> HIDE DEF rules
    <3>5. OnlyChanges(s, z, {"rules", "cn", "stage"})
      BY <3>3, <3>4, StorageIs, NextStorageIs DEF OnlyChanges, s, z
    <3> QED
      BY <3>1, <3>2, <3>5
  <2>5. s.stage = "snapshot"
    BY <1>1, <2>1
  <2> HIDE DEF s, rules, z
  <2> QED
    BY <1>1, <2>3, <2>4, <2>5, SnapshotMovesStore DEF s, z
<1>4. CASE sync.kind # k
  <2>1. Kept(k) /\ Stage(k)' = Stage(k) /\ sync'.changes = sync.changes
    BY <1>0, <1>2, <1>4 DEF Typed, StoresTyped, Reached, Within, Kept, Stage
  <2> QED
    BY <1>2, <2>1, QuietStep
<1> QED
  BY <1>3, <1>4

LEMMA HistoricStep ==
    ASSUME Typed, NEW k \in RuleKinds, NEW h, Sound(Storage(k), h), WriteHistoric
    PROVE  \E g : Moves(Storage(k), h, Storage(k)', g)
<1> DEFINE s == Storage(k)
<1>0. /\ sync = [pc |-> sync.pc, kind |-> sync.kind, changes |-> sync.changes, previous |-> sync.previous]
      /\ sync.kind \in {"flags", "segments"} /\ k \in {"flags", "segments"} /\ sync.kind \in RuleKinds
  BY DEF Typed, SyncTyped, RuleKinds
<1>1. StorageTyped(s) /\ s.stage = Stage(k) /\ s.at = updatedAt[k]
  BY StorageIs
<1>2. /\ UNCHANGED <<published, activeRules, activeCN, oldestKnownCN, disk, up>> /\ sync.pc = "historic"
      /\ sync' = [sync EXCEPT !.pc = "save"]
      /\ updatedAt' = [updatedAt EXCEPT ![sync.kind] = [r \in Rules |->
             IF ChangesIn(r) = {} THEN @[r] ELSE Max(ChangesIn(r))]]
  BY DEF WriteHistoric
<1>3. CASE sync.kind = k
  <2> DEFINE at == updatedAt'[k]
  <2>1. Stage(k) = "historic" /\ Stage(k)' = "save" /\ sync'.changes = sync.changes
    BY <1>0, <1>2, <1>3 DEF Stage
  <2>2. \A r \in Rules : at[r] = IF ChangesIn(r) = {} THEN s.at[r] ELSE Max(ChangesIn(r))
    BY <1>1, <1>2, <1>3 DEF Typed, StoresTyped, Within
  <2>3. ASSUME NEW r \in Rules
        PROVE  \/ Named(s, r) = {} /\ at[r] = s.at[r]
               \/ \E m \in Named(s, r) : at[r] = m
    <3>1. ChangesIn(r) = Named(s, r) /\ (ChangesIn(r) # {} => Max(ChangesIn(r)) \in ChangesIn(r))
      BY <1>3, NamedIs
    <3> HIDE DEF s, at
    <3> QED
      BY <2>2, <3>1
  <2> DEFINE z == Storage(k)'
  <2>4. /\ OnlyChanges(s, z, {"at", "stage"})
        /\ z.at = at /\ z.stage = "save" /\ s.stage = "historic"
    <3> HIDE DEF s, z
    <3>1. z.at = at
      BY NextStorageIs DEF z
    <3>2. z.stage = "save" /\ s.stage = "historic"
      BY <1>1, <2>1, NextStorageIs DEF z
    <3>3. sync'.changes[k].batch = sync.changes[k].batch /\ sync'.changes[k].till = sync.changes[k].till
      BY <2>1
    <3>4. OnlyChanges(s, z, {"at", "stage"})
      BY <1>2, <3>3, StorageIs, NextStorageIs DEF OnlyChanges, s, z
    <3> QED
      BY <3>1, <3>2, <3>4
  <2> HIDE DEF s, at, z
  <2>5. Moves(s, h, z, s.cn)
    BY <1>1, <2>3, <2>4, HistoricMovesStore DEF s
  <2> QED
    BY <2>5 DEF s, z
<1>4. CASE sync.kind # k
  <2>1. Kept(k) /\ Stage(k)' = Stage(k) /\ sync'.changes = sync.changes
    BY <1>0, <1>2, <1>4 DEF Typed, StoresTyped, Within, Kept, Stage
  <2> QED
    BY <1>2, <2>1, QuietStep
<1> QED
  BY <1>3, <1>4

LEMMA SaveStep ==
    ASSUME Typed, ~SavesFail, NEW k \in RuleKinds, NEW h, Sound(Storage(k), h), NEW n, SaveRule(n)
    PROVE  Moves(Storage(k), h, Storage(k)', h)
<1> DEFINE s == Storage(k)
           z == Storage(k)'
           j == sync.kind
           q == published[j][n].name
<1>0. /\ sync = [pc |-> sync.pc, kind |-> j, changes |-> sync.changes, previous |-> sync.previous]
      /\ j \in {"flags", "segments"} /\ k \in {"flags", "segments"}
  BY DEF Typed, SyncTyped, RuleKinds
<1>1. /\ StorageTyped(s) /\ s.stage = Stage(k) /\ s.batch = sync.changes[k].batch /\ s.log = published[k]
      /\ s.disk = disk[k]
  BY StorageIs
<1>2. UNCHANGED <<published, activeRules, activeCN, updatedAt, oldestKnownCN, up>>
  BY DEF SaveRule
<1>3. /\ sync.pc = "save" /\ j \in RuleKinds /\ q \in Rules /\ n \in Batch
      /\ disk' = [disk EXCEPT ![j] = disk'[j]]
      /\ disk'[j] = [disk[j] EXCEPT ![q] = n]
  BY SaveRuleIs
<1>4. Batch = {n} => sync' = AfterKind
  BY SaveRuleIs
<1>5. Batch # {n} =>
        /\ sync'.pc = "save" /\ sync'.kind = j
        /\ \A i \in RuleKinds : sync'.changes[i] =
             IF i = j THEN [batch |-> Batch \ {n}, till |-> sync.changes[i].till] ELSE sync.changes[i]
  <2>1. ASSUME Batch # {n}
        PROVE  /\ sync' = [pc |-> "save", kind |-> j, changes |-> sync'.changes, previous |-> sync.previous]
               /\ \A i \in RuleKinds : sync'.changes[i] =
                    IF i = j THEN [batch |-> Batch \ {n}, till |-> sync.changes[i].till] ELSE sync.changes[i]
    BY <2>1, SaveRuleIs
  <2>2. Batch # {n} => sync'.pc = "save" /\ sync'.kind = j
    BY <2>1
  <2> QED
    BY <2>1, <2>2
<1>6. CASE j = k
  <2>1. Stage(k) = "save" /\ Batch = s.batch
    BY <1>1, <1>3, <1>6 DEF Stage, Batch
  <2> DEFINE saved == disk'[k]
  <2>2. \A r \in Rules : saved[r] = IF r = q THEN n ELSE s.disk[r]
    BY <1>1, <1>3, <1>6 DEF Typed, StoresTyped, Within
  <2>3. \/ s.batch = {n} /\ Stage(k)' = "off"
        \/ Stage(k)' = "save" /\ sync'.changes[k].batch = s.batch \ {n}
    <3>1. CASE Batch = {n}
      BY <1>0, <1>4, <1>6, <2>1, <3>1 DEF AfterKind, Stage
    <3>2. CASE Batch # {n}
      <4>1. sync'.pc = "save" /\ sync'.kind = k
        BY <1>5, <1>6, <3>2
      <4>2. sync'.changes[k] = [batch |-> Batch \ {n}, till |-> sync.changes[k].till]
        BY <1>5, <1>6, <3>2
      <4>3. sync'.changes[k].batch = s.batch \ {n}
        BY <2>1, <4>2
      <4> QED
        BY <4>1, <4>3 DEF Stage
    <3> QED
      BY <3>1, <3>2
  <2>4. OnlyChanges(s, z, {"disk", "stage", "batch", "till"}) /\ z.disk = saved
        /\ z.stage = Stage(k)' /\ z.batch = sync'.changes[k].batch
    <3> HIDE DEF s, z
    <3> QED
      BY <1>2, StorageIs, NextStorageIs DEF OnlyChanges, s, z
  <2>5. q = s.log[n].name /\ n \in s.batch /\ s.stage = "save"
    BY <1>1, <1>3, <1>6, <2>1
  <2> HIDE DEF s, z, saved, q
  <2> QED
    BY <1>1, <1>3, <2>2, <2>3, <2>4, <2>5, SaveMovesStore DEF s, z
<1>7. CASE j # k
  <2>1. Kept(k)
    BY <1>2, <1>3, <1>7 DEF Typed, StoresTyped, Within, Kept
  <2>2. CASE Batch = {n} /\ j = "flags"
    <3>1. Stage(k)' = Stage(k) /\ sync'.changes[k] = sync.changes[k]
      BY <1>0, <1>3, <1>4, <1>7, <2>2 DEF AfterKind, Stage
    <3> QED
      BY <1>2, <2>1, <3>1, QuietStep
  <2>3. CASE Batch = {n} /\ j = "segments"
    <3>1. Stage(k)' = "off" /\ Stage(k) = "off"
      BY <1>0, <1>3, <1>4, <1>7, <2>3 DEF AfterKind, Stage
    <3> QED
      BY <1>2, <2>1, <3>1, QuietStep
  <2>4. CASE Batch # {n}
    <3>1. Stage(k)' = Stage(k) /\ sync'.changes[k] = sync.changes[k]
      BY <1>3, <1>5, <1>7, <2>4 DEF Stage
    <3> QED
      BY <1>2, <2>1, <3>1, QuietStep
  <2> QED
    BY <1>0, <2>2, <2>3, <2>4
<1> QED
  BY <1>6, <1>7

LEMMA KillStep ==
    ASSUME Typed, NEW k \in RuleKinds, NEW h, Sound(Storage(k), h), NEW n, KillRule(n)
    PROVE  Moves(Storage(k), h, Storage(k)', h)
<1> DEFINE s == Storage(k)
           r == published["flags"][n].name
<1>1. /\ UNCHANGED <<published, activeCN, updatedAt, oldestKnownCN, disk, up, sync>>
      /\ n \in 1..Len(published["flags"]) /\ n > activeCN["flags"]
      /\ activeRules["flags"][r] \in 1..n - 1
      /\ activeRules' = [activeRules EXCEPT !["flags"][r] = n]
  BY DEF KillRule
<1>2. CASE k = "flags"
  <2> DEFINE rules == activeRules'[k]
  <2>1. StorageTyped(s) /\ s.log = published[k] /\ s.cn = activeCN[k] /\ s.rules = activeRules[k]
    BY StorageIs
  <2>2. published[k] \in Seq(Log!Change)
    BY DEF Typed, StoresTyped
  <2>3. published[k][n] \in Log!Change
    BY <1>1, <1>2, <2>2
  <2>4. s.log[n].name \in Rules /\ s.log[n].name = r
    BY <1>2, <2>1, <2>3 DEF Log!Change
  <2>5. \A q \in Rules : q # s.log[n].name => rules[q] = s.rules[q]
    BY <1>1, <1>2, <2>1, <2>4 DEF Typed, StoresTyped, Within
  <2>6. n \in 1..Len(s.log) /\ n > s.cn /\ s.rules[s.log[n].name] # 0
    BY <1>1, <1>2, <2>1, <2>4
  <2> DEFINE z == Storage(k)'
  <2>7. OnlyChanges(s, z, {"rules"}) /\ z.rules = rules
    <3>1. Stage(k)' = Stage(k)
      BY <1>1 DEF Stage
    <3> HIDE DEF s, z
    <3> QED
      BY <1>1, <3>1, StorageIs, NextStorageIs DEF OnlyChanges, s, z
  <2> HIDE DEF s, r, rules, z
  <2> QED
    BY <2>1, <2>4, <2>5, <2>6, <2>7, KillMovesStore DEF s, z
<1>3. CASE k # "flags"
  <2>1. Kept(k) /\ Stage(k)' = Stage(k) /\ sync'.changes = sync.changes
    BY <1>1, <1>3 DEF Typed, StoresTyped, Within, Kept, Stage
  <2> QED
    BY <1>1, <2>1, QuietStep
<1> QED
  BY <1>2, <1>3

\* Snapshot files keep what they have.
LEMMA BackupKept ==
    ASSUME Typed, NEW k \in RuleKinds, BackupInv(published[k], backup[k]),
           backup' = backup \/ backup' = NoRules,
           published' = published \/ \E j \in RuleKinds, c \in History!Change :
                                        published' = [published EXCEPT ![j] = Append(@, c)]
    PROVE  BackupInv(published[k], backup[k])'
<1> DEFINE l == published[k]
           m == published'[k]
<1>1. l \in Seq(Log!Change) /\ Len(l) \in Nat /\ \A r \in Rules : backup[k][r] \in Int /\ backup[k][r] <= Len(l)
  BY DEF Typed, StoresTyped, Within
<1>2. m \in Seq(Log!Change) /\ (m = l \/ \E c \in Log!Change : m = Append(l, c))
  <2>1. ASSUME NEW j \in RuleKinds, NEW c \in Log!Change, published' = [published EXCEPT ![j] = Append(@, c)]
        PROVE  m = l \/ m = Append(l, c)
    BY <2>1 DEF Typed, StoresTyped
  <2>2. m = l \/ \E c \in Log!Change : m = Append(l, c)
    BY <2>1, SameLog
  <2> QED
    BY <1>1, <2>2
<1>3. CASE backup' = backup
  <2>1. \A r : Log!Current(m, r) = 0 => Log!Current(l, r) = 0
    BY <1>1, <1>2, Log!PublishDue
  <2>2. \A r : \A t \in Int : t <= Len(l) /\ Log!Due(m, r, t) =>
           Log!Due(l, r, t) /\ Log!Current(m, r) = Log!Current(l, r) /\ Log!Archived(m, r) = Log!Archived(l, r)
    <3>1. CASE m = l
      BY <3>1
    <3>2. ASSUME NEW c \in Log!Change, m = Append(l, c), NEW r, NEW t \in Int, t <= Len(l), Log!Due(m, r, t)
          PROVE  Log!Due(l, r, t) /\ Log!Current(m, r) = Log!Current(l, r) /\ Log!Archived(m, r) = Log!Archived(l, r)
      <4> HIDE DEF l, m
      <4> QED
        BY <1>1, <3>2, Log!PublishDue
    <3> QED
      BY <1>2, <3>1, <3>2
  <2> HIDE DEF l, m
  <2>3. Log!Known(m, backup[k])
    BY <2>1 DEF BackupInv, Log!Known, l
  <2>4. ASSUME NEW r \in Rules PROVE Log!Covers(m, backup[k], backup[k][r])
    <3>1. Log!Covers(l, backup[k], backup[k][r])
      BY DEF BackupInv, l
    <3> QED
      BY <1>1, <2>2, <3>1 DEF Log!Covers
  <2> QED
    BY <1>3, <2>3, <2>4 DEF BackupInv, m
<1>4. CASE backup' = NoRules
  <2>1. \A r \in Rules : backup'[k][r] = 0
    BY <1>4 DEF NoRules
  <2>2. \A r : ~Log!Due(m, r, 0)
    <3>1. \A r : Log!Current(m, r) = 0 \/ Log!Current(m, r) \in 1..Len(m)
      BY <1>2, Log!CurrentIs
    <3> QED
      BY <3>1 DEF Log!Due
  <2> QED
    BY <2>1, <2>2 DEF BackupInv, Log!Known, Log!Covers
<1> QED
  BY <1>3, <1>4

\* Steps of the backend, the synchronizer and kills.
LEMMA StoreStepInv ==
    ASSUME IInv, ~SavesFail,
                 \/ \E j \in RuleKinds, c \in History!Change : PublishRule(j, c)
                 \/ SyncRules \/ FetchWorks \/ FetchFails
                 \/ (\E n \in 1..MaxRuleCN : KillRule(n)) \/ EvictKilled
    PROVE  FlightInv' /\ \A k \in RuleKinds : KindInv(k)'
<1>0. Typed /\ FlightInv /\ \A k \in RuleKinds : KindInv(k)
  BY DEF IInv
<1>1. /\ UNCHANGED pollVars
      /\ up' = up \/ up' = TRUE
      /\ cache' = cache \/ cache' = {}
      /\ UNCHANGED flight \/ (flight # NoFlight /\ flight' = [flight EXCEPT !.late = TRUE])
      /\ backup' = backup \/ backup' = NoRules
      /\ published' = published \/ \E j \in RuleKinds, c \in History!Change :
                                      published' = [published EXCEPT ![j] = Append(@, c)]
  <2>1. CASE \E j \in RuleKinds, c \in History!Change : PublishRule(j, c)
    BY <2>1 DEF PublishRule, StillUsable
  <2>2. CASE BeginSync \/ StartingPoint \/ WriteSnapshot \/ WriteHistoric
    BY <2>2 DEF BeginSync, StartingPoint, WriteSnapshot, WriteHistoric
  <2>3. CASE \E n \in 1..MaxRuleCN : SaveRule(n)
    BY <2>3 DEF SaveRule
  <2>4. CASE FetchWorks \/ FetchFails
    BY <2>4 DEF FetchWorks, FetchRules, NothingNew, FetchFails
  <2>5. EvictSplits => cache' = {} /\ (UNCHANGED flight \/ (flight # NoFlight /\ flight' = [flight EXCEPT !.late = TRUE]))
    BY DEF EvictSplits, NoFlight
  <2>6. CASE EndSync
    BY <2>5, <2>6 DEF EndSync
  <2>7. CASE (\E n \in 1..MaxRuleCN : KillRule(n)) \/ EvictKilled
    BY <2>5, <2>7 DEF KillRule, EvictKilled
  <2> QED
    BY <2>1, <2>2, <2>3, <2>4, <2>6, <2>7 DEF SyncRules
<1>2. SameRequest
  <2>1. flight = [pc |-> flight.pc, kind |-> flight.kind, key |-> flight.key, old |-> flight.old,
                  body |-> flight.body, late |-> flight.late]
    BY <1>0 DEF Typed, FlightTyped
  <2>2. CASE UNCHANGED flight
    BY <2>2 DEF SameRequest
  <2>3. CASE flight # NoFlight /\ flight' = [flight EXCEPT !.late = TRUE]
    <3>1. /\ flight'.pc = flight.pc /\ flight'.kind = flight.kind /\ flight'.key = flight.key
          /\ flight'.old = flight.old /\ flight'.body = flight.body
      BY <2>1, <2>3
    <3>2. flight.pc # "idle" /\ NoFlight.pc = "idle"
      BY <1>0, <2>3 DEF FlightInv, NoFlight
    <3> QED
      BY <2>3, <3>1, <3>2 DEF SameRequest
  <2> QED
    BY <1>1, <2>2, <2>3
<1>3. FlightInv'
  BY <1>0, <1>1, <1>2 DEF FlightInv, SameRequest, pollVars
<1>4. ASSUME NEW k \in RuleKinds PROVE KindInv(k)'
  <2>1. PICK h : KindAt(k, h)
    BY <1>0 DEF KindInv
  <2>2. Sound(Storage(k), h)
    BY <2>1 DEF KindAt
  <2>3. \E g : Moves(Storage(k), h, Storage(k)', g)
    <3>1. CASE \E j \in RuleKinds, c \in History!Change : PublishRule(j, c)
      BY <1>0, <2>2, <3>1, PublishStep
    <3>2. CASE BeginSync \/ NothingNew \/ FetchFails \/ EndSync
      BY <1>0, <2>2, <3>2, TurnStep
    <3>3. CASE FetchRules
      BY <1>0, <2>2, <3>3, FetchStep
    <3>4. CASE StartingPoint
      BY <1>0, <2>2, <3>4, StartStep
    <3>5. CASE WriteSnapshot
      BY <1>0, <2>2, <3>5, SnapshotStep
    <3>6. CASE WriteHistoric
      BY <1>0, <2>2, <3>6, HistoricStep
    <3>7. CASE \E n \in 1..MaxRuleCN : KillRule(n)
      BY <1>0, <2>2, <3>7, KillStep
    <3>8. CASE EvictKilled
      <4>1. Kept(k) /\ Stage(k)' = Stage(k) /\ sync'.changes[k] = sync.changes[k] /\ up' = up
        BY <3>8 DEF EvictKilled, Kept, Stage, storeVars
      <4> QED
        BY <1>0, <2>2, <4>1, QuietStep
    <3>9. CASE \E n \in 1..MaxRuleCN : SaveRule(n)
      BY <1>0, <2>2, <3>9, SaveStep
    <3> QED
      BY <3>1, <3>2, <3>3, <3>4, <3>5, <3>6, <3>7, <3>8, <3>9 DEF SyncRules, FetchWorks
  <2>4. PICK g : Moves(Storage(k), h, Storage(k)', g)
    BY <2>3
  <2>5. KindAt(k, g)'
    BY <1>0, <1>1, <1>2, <2>1, <2>4, KindMoves
  <2>6. BackupInv(published[k], backup[k])'
    BY <1>0, <1>1, BackupKept DEF KindInv
  <2> QED
    BY <2>5, <2>6 DEF KindInv
<1> QED
  BY <1>3, <1>4

\* Exports copy what is on disk, between two updates.
LEMMA ExportInv ==
    ASSUME IInv, ~ExportMidWrite, ExportRules
    PROVE  FlightInv' /\ \A k \in RuleKinds : KindInv(k)'
<1>0. Typed /\ FlightInv /\ \A k \in RuleKinds : KindInv(k)
  BY DEF IInv
<1>1. UNCHANGED <<published, storeVars, up, sync, killing, cache, flight, pollVars, starts>> /\ backup' = disk
      /\ sync.pc # "save"
  BY DEF ExportRules
<1>2. ASSUME NEW k \in RuleKinds PROVE KindInv(k)'
  <2>1. PICK h : KindAt(k, h)
    BY <1>0 DEF KindInv
  <2> DEFINE s == Storage(k)
  <2>2. StorageTyped(s) /\ Sound(s, h) /\ s.log = published[k] /\ s.disk = disk[k]
        /\ s.stage # "save"
    BY <1>0, <1>1, <2>1, StorageIs DEF KindAt, Stage
  <2>3. KindAt(k, h)'
    <3>1. Kept(k) /\ Stage(k)' = Stage(k) /\ sync'.changes[k] = sync.changes[k] /\ up' = up
      BY <1>1 DEF Kept, Stage, storeVars
    <3>2. Moves(Storage(k), h, Storage(k)', h)
      BY <1>0, <2>2, <3>1, QuietStep
    <3>3. SameRequest
      BY <1>1 DEF SameRequest
    <3> QED
      BY <1>0, <1>1, <2>1, <3>2, <3>3, KindMoves
  <2>4. BackupInv(published[k], disk[k])
    <3> HIDE DEF s
    <3>1. ASSUME NEW r \in Rules PROVE Log!Covers(s.log, s.disk, s.disk[r])
      <4>1. ASSUME NEW q \in Rules, Log!Due(s.log, q, s.disk[r]) PROVE Log!Due(s.log, q, h)
        BY <2>2, <4>1, SoundIs DEF Sound, Log!Due
      <4> QED
        BY <2>2, <4>1 DEF Sound, DiskAt, Log!Covers
    <3> QED
      BY <2>2, <3>1 DEF Sound, BackupInv
  <2> QED
    BY <1>1, <2>3, <2>4 DEF KindInv, BackupInv
<1>3. FlightInv'
  BY <1>0, <1>1 DEF FlightInv, pollVars
<1> QED
  BY <1>2, <1>3

-----------------------------------------------------------------------------
(* Requests                                                                *)

\* The storages stay put while a request reads them.
LEMMA RequestKeeps ==
    ASSUME IInv, Untouched, UNCHANGED cache, NEW k \in RuleKinds, NEW h, KindAt(k, h), RequestInv(k, h)'
    PROVE  KindInv(k)'
<1>1. Storage(k)' = Storage(k) /\ Early(k)' = Early(k) /\ sdkCN' = sdkCN /\ sdkRules' = sdkRules
  BY DEF Untouched, storeVars, pollVars, Storage, Stage, Early
<1>2. KindAt(k, h)'
  BY <1>1 DEF KindAt
<1>3. BackupInv(published[k], backup[k])'
  BY DEF IInv, KindInv, Untouched, BackupInv
<1> QED
  BY <1>2, <1>3 DEF KindInv

\* What is known of a request under way.
LEMMA RequestIs ==
    ASSUME IInv, flight.pc # "idle", NEW k \in RuleKinds, NEW h, KindAt(k, h)
    PROVE  /\ StorageTyped(Storage(k)) /\ Sound(Storage(k), h) /\ Storage(k).up = TRUE
           /\ flight # NoFlight /\ flight.key = sdkCN
           /\ Fits(Storage(k), h, flight.key[k], sdkRules[k], Early(k))
           /\ sdkRules[k] \in [Rules -> Nat] /\ Early(k) \subseteq Rules
           /\ AnswerTyped(k, flight.body[k])
           /\ flight = [pc |-> flight.pc, kind |-> flight.kind, key |-> flight.key, old |-> flight.old,
                        body |-> flight.body, late |-> flight.late]
           /\ flight.kind \in {"flags", "segments"} /\ flight.kind \in RuleKinds
           /\ flight.body = [j \in RuleKinds |-> flight.body[j]]
<1>1. flight # NoFlight
  BY DEF NoFlight
<1>2. up /\ flight.key = sdkCN /\ up \in BOOLEAN
  BY <1>1 DEF IInv, FlightInv, Typed, StoresTyped
<1>3. StorageTyped(Storage(k)) /\ Storage(k).up = TRUE
  BY <1>2, StorageIs DEF IInv
<1>4. Sound(Storage(k), h) /\ Fits(Storage(k), h, flight.key[k], sdkRules[k], Early(k))
  BY <1>2 DEF KindAt
<1>5. sdkRules[k] \in [Rules -> Nat] /\ Early(k) \subseteq Rules
  BY DEF IInv, Typed, SdkTyped, Within, Early
<1>6. /\ AnswerTyped(k, flight.body[k])
      /\ flight = [pc |-> flight.pc, kind |-> flight.kind, key |-> flight.key, old |-> flight.old,
                   body |-> flight.body, late |-> flight.late]
      /\ flight.kind \in {"flags", "segments"} /\ flight.kind \in RuleKinds
      /\ flight.body = [j \in RuleKinds |-> flight.body[j]]
  BY DEF IInv, Typed, FlightTyped, BodyTyped, RuleKinds
<1> QED
  BY <1>1, <1>2, <1>3, <1>4, <1>5, <1>6

\* The part of an answer that is ready fits its storage; so does the other one, if
\* it was ready.
LEMMA AnsweredInv ==
    ASSUME IInv, flight.pc # "idle", UNCHANGED <<cache, pollVars>>, NEW k \in RuleKinds, NEW h, KindAt(k, h),
           Storage(k)' = Storage(k),
           NEW till, NEW got, AnswerTyped(flight.kind, [till |-> till, got |-> got, early |-> till = -1]),
           flight' = Answered(flight.kind, till, got),
           k = flight.kind =>
             AnswerFits(Storage(k), h, [till |-> till, got |-> got, early |-> till = -1], sdkRules[k], Early(k))
    PROVE  RequestInv(k, h)'
<1> DEFINE b == [till |-> till, got |-> got, early |-> till = -1]
<1>1. /\ flight'.pc = IF flight.kind = "flags" THEN "begin" ELSE IF flight.old THEN "backend" ELSE "reply"
      /\ flight'.kind = "segments" /\ flight'.old = flight.old
      /\ \A j \in RuleKinds : flight'.body[j] = IF j = flight.kind THEN b ELSE flight.body[j]
  <2> DEFINE f == Answered(flight.kind, till, got)
  <2>1. /\ f = [pc |-> IF flight.kind = "flags" THEN "begin" ELSE IF flight.old THEN "backend" ELSE "reply",
                kind |-> "segments", key |-> flight.key, old |-> flight.old,
                body |-> f.body, late |-> flight.late]
        /\ \A j \in RuleKinds : f.body[j] = IF j = flight.kind THEN b ELSE flight.body[j]
    BY AnsweredIs DEF IInv
  <2>2. flight' = f
    OBVIOUS
  <2> HIDE DEF f, b
  <2> QED
    BY <2>1, <2>2
<1>2. flight.kind \in {"flags", "segments"} /\ k \in {"flags", "segments"}
  BY RequestIs DEF RuleKinds
<1>3. sdkRules' = sdkRules /\ Early(k)' = Early(k)
  BY DEF pollVars, Early
<1> HIDE DEF b
<1>4. ~Reading(k, "all")' /\ ~Reading(k, "fetch")'
  BY <1>1 DEF Reading
<1>5. ASSUME Done(k)' PROVE AnswerFits(Storage(k), h, flight'.body[k], sdkRules[k], Early(k))
  <2>1. CASE k = flight.kind
    BY <1>1, <2>1 DEF b
  <2>2. CASE k # flight.kind
    <3>1. Done(k)
      BY <1>1, <1>2, <1>5, <2>2 DEF Done
    <3> QED
      BY <1>1, <2>2, <3>1 DEF KindAt, RequestInv
  <2> QED
    BY <2>1, <2>2
<1> QED
  BY <1>3, <1>4, <1>5 DEF RequestInv

\* The part of a request that is not being read.
LEMMA OtherKind ==
    ASSUME IInv, flight.pc # "idle", flight.pc # "reply", NEW k \in RuleKinds, NEW h, KindAt(k, h),
           Storage(k)' = Storage(k), UNCHANGED pollVars,
           flight'.pc # "reply", flight'.kind = flight.kind, flight'.old = flight.old,
           k # flight.kind, flight'.body[k] = flight.body[k]
    PROVE  RequestInv(k, h)'
<1>1. sdkRules' = sdkRules /\ Early(k)' = Early(k)
  BY DEF pollVars, Early
<1>2. ~Reading(k, "all")' /\ ~Reading(k, "fetch")'
  BY DEF Reading
<1>3. Done(k)' => Done(k)
  BY DEF Done
<1> QED
  BY <1>1, <1>2, <1>3 DEF KindAt, RequestInv

LEMMA ReadSnapshotInv ==
    ASSUME IInv, ReadSnapshotCN \/ ReadSnapshot, NEW k \in RuleKinds, NEW h, KindAt(k, h)
    PROVE  RequestInv(k, h)'
<1> DEFINE j == flight.kind
           s == Storage(k)
<1>0. /\ flight.pc # "idle" /\ Storage(k)' = Storage(k) /\ UNCHANGED <<cache, pollVars, activeCN>>
      /\ flight.pc # "reply"
  BY DEF ReadSnapshotCN, ReadSnapshot, Untouched, storeVars, pollVars, Storage, Stage
<1>1. CASE ReadSnapshotCN
  <2>1. flight' = [flight EXCEPT !.pc = "all", !.body[j].till = activeCN[j]]
    BY <1>1 DEF ReadSnapshotCN
  <2>2. flight'.pc = "all" /\ flight'.kind = j /\ flight'.old = flight.old
        /\ flight'.body[j].till = activeCN[j] /\ \A i \in RuleKinds : i # j => flight'.body[i] = flight.body[i]
    <3>1. /\ flight = [pc |-> flight.pc, kind |-> flight.kind, key |-> flight.key, old |-> flight.old,
                       body |-> flight.body, late |-> flight.late]
          /\ j \in RuleKinds /\ flight.body = [i \in RuleKinds |-> flight.body[i]]
      BY <1>0, RequestIs
    <3>2. AnswerTyped(j, flight.body[j])
      BY DEF IInv, Typed, FlightTyped, BodyTyped
    <3>3. flight.body[j] = [till |-> flight.body[j].till, got |-> flight.body[j].got, early |-> flight.body[j].early]
      BY <3>2 DEF AnswerTyped
    <3> QED
      BY <2>1, <3>1, <3>3
  <2>3. CASE k # j
    BY <1>0, <2>2, <2>3, OtherKind
  <2>4. CASE k = j
    <3>1. ~Reading(k, "fetch")' /\ ~Done(k)'
      <4>1. k = j => ~(j = "segments" /\ k = "flags")
        OBVIOUS
      <4> QED
        BY <2>2, <2>4, <4>1 DEF Reading, Done
    <3>2. s.cn = activeCN[k]
      BY StorageIs DEF IInv
    <3> QED
      BY <1>0, <2>2, <2>4, <3>1, <3>2 DEF RequestInv
  <2> QED
    BY <2>3, <2>4
<1>2. CASE ReadSnapshot
  <2> DEFINE served == {r \in Rules : activeRules[j][r] # 0}
             got == [r \in served |-> activeRules[j][r]]
             till == flight.body[j].till
             b == [till |-> till, got |-> got, early |-> till = -1]
  <2>1. flight' = Answered(j, till, got) /\ flight.pc = "all"
    BY <1>2 DEF ReadSnapshot
  <2>2. AnswerTyped(j, flight.body[j]) /\ j \in RuleKinds
    BY DEF IInv, Typed, FlightTyped, BodyTyped
  <2>3. AnswerTyped(j, b)
    <3>1. till \in -1..Len(published[j]) /\ Len(published[j]) \in Nat
      BY <2>2 DEF AnswerTyped, IInv, Typed, StoresTyped
    <3>2. \A r \in Rules : activeRules[j][r] \in 0..Len(published[j])
      BY <2>2, <3>1 DEF IInv, Typed, StoresTyped, Within
    <3> QED
      BY <3>1, <3>2 DEF AnswerTyped
  <2>4. ASSUME k = j PROVE AnswerFits(s, h, b, sdkRules[k], Early(k))
    <3>1. /\ StorageTyped(s) /\ Sound(s, h) /\ s.up = TRUE
          /\ Fits(s, h, flight.key[k], sdkRules[k], Early(k)) /\ s.rules = activeRules[k] /\ s.cn = activeCN[k]
          /\ s.log = published[k]
      BY <1>0, RequestIs, StorageIs DEF IInv
    <3>2. flight.key[k] = -1
      BY <2>1, <2>4 DEF IInv, Typed, FlightTyped
    <3>3. till <= h \/ till = s.cn
      BY <2>1, <2>4 DEF KindAt, RequestInv, Reading
    <3>4. b = [till |-> till, got |-> [r \in {q \in Rules : s.rules[q] # 0} |-> s.rules[r]], early |-> till = -1]
      BY <2>4, <3>1
    <3>5. till \in -1..Len(s.log)
      BY <2>2, <2>4, <3>1 DEF AnswerTyped
    <3> HIDE DEF s, b, till
    <3> QED
      BY <3>1, <3>2, <3>3, <3>4, <3>5, SnapshotAnswerFits
  <2> HIDE DEF till, got, s
  <2> QED
    BY <1>0, <2>1, <2>3, <2>4, AnsweredInv DEF s
<1> QED
  BY <1>1, <1>2

LEMMA SinceIsTooOldInv ==
    ASSUME IInv, SinceIsTooOld, NEW k \in RuleKinds, NEW h, KindAt(k, h)
    PROVE  RequestInv(k, h)'
<1> DEFINE j == flight.kind
           s == Storage(k)
<1>0. /\ flight.pc = "begin" /\ Storage(k)' = Storage(k) /\ UNCHANGED <<cache, pollVars>>
  BY DEF SinceIsTooOld, Untouched, storeVars, pollVars, Storage, Stage
<1>1. CASE flight.key[j] < oldestKnownCN[j]
  <2> DEFINE f == Answered(j, -1, <<>>)
  <2>1. flight' = [f EXCEPT !.old = TRUE, !.pc = IF j = "flags" THEN "begin" ELSE "backend"]
    BY <1>1 DEF SinceIsTooOld
  <2>2. AnswerTyped(j, [till |-> -1, got |-> <<>>, early |-> -1 = -1])
    BY IdleTyped DEF IInv, Typed, StoresTyped, FlightTyped
  <2>3. f = [pc |-> IF j = "flags" THEN "begin" ELSE IF flight.old THEN "backend" ELSE "reply",
             kind |-> "segments", key |-> flight.key, old |-> flight.old, body |-> f.body, late |-> flight.late]
    BY <2>2, AnsweredIs DEF IInv
  <2>4. flight'.old = TRUE /\ flight'.pc \in {"begin", "backend"}
    <3> HIDE DEF f
    <3>1. PICK p, c : f = [pc |-> p, kind |-> "segments", key |-> flight.key, old |-> flight.old,
                           body |-> c, late |-> flight.late]
      BY <2>3
    <3> QED
      BY <2>1, <3>1
  <2> QED
    BY <2>4 DEF RequestInv, Reading, Done
<1>2. CASE ~(flight.key[j] < oldestKnownCN[j])
  <2>1. flight' = [flight EXCEPT !.pc = "historic"]
    BY <1>2 DEF SinceIsTooOld
  <2>2. flight'.pc = "historic" /\ flight'.kind = j /\ flight'.old = flight.old /\ flight'.body = flight.body
        /\ flight'.key = flight.key
    BY <1>0, <2>1, RequestIs
  <2>3. CASE k # j
    BY <1>0, <2>2, <2>3, OtherKind
  <2>4. CASE k = j
    <3>1. ~Reading(k, "all")' /\ ~Reading(k, "fetch")' /\ ~Done(k)'
      <4>1. k = j => ~(j = "segments" /\ k = "flags")
        OBVIOUS
      <4> QED
        BY <2>2, <2>4, <4>1 DEF Reading, Done
    <3> QED
      BY <3>1 DEF RequestInv
  <2> QED
    BY <2>3, <2>4
<1> QED
  BY <1>1, <1>2

\* A request reads the views, and the history notes the rules it passed.
LEMMA ReadViewsInv ==
    ASSUME IInv, ReadViews, NEW k \in RuleKinds
    PROVE  KindInv(k)'
<1> DEFINE j == flight.kind
           s == Storage(k)
           t == flight.key[j]
           newer == NewerThan(j, t)
           till == Max({t} \cup {updatedAt[j][r] : r \in newer})
           b == [till |-> till, got |-> [r \in newer |-> VersionOf(j, updatedAt[j][r])], early |-> FALSE]
           w == sdkRules[k]
           d == Early(k)'
<1>0. /\ flight.pc = "historic" /\ early' = early \cup Passed(j, newer)
      /\ UNCHANGED <<published, storeVars, up, sync, sdkCN, sdkRules, backup, cache>>
      /\ flight' = [flight EXCEPT !.pc = "fetch", !.body[j] = b]
  BY DEF ReadViews
<1>1. PICK h : KindAt(k, h)
  BY DEF IInv, KindInv
<1>2. flight'.pc = "fetch" /\ flight'.kind = j /\ flight'.old = flight.old
      /\ flight'.body[j] = b /\ \A i \in RuleKinds : i # j => flight'.body[i] = flight.body[i]
  <2> HIDE DEF b
  <2>1. /\ flight = [pc |-> flight.pc, kind |-> flight.kind, key |-> flight.key, old |-> flight.old,
                     body |-> flight.body, late |-> flight.late]
        /\ j \in RuleKinds /\ flight.body = [i \in RuleKinds |-> flight.body[i]]
    BY <1>0, <1>1, RequestIs
  <2> QED
    BY <1>0, <2>1
<1>3. Storage(k)' = s /\ sdkCN' = sdkCN /\ sdkRules' = sdkRules
  BY <1>0 DEF storeVars, Storage, Stage
<1>4. /\ Early(k) \subseteq d /\ d \subseteq Rules
      /\ k # j => d = Early(k)
      /\ \A r \in Rules : <<k, r>> \in Passed(j, newer) => r \in d
  <2>1. d = {r \in Rules : <<k, r>> \in early \cup Passed(j, newer)}
    BY <1>0 DEF Early
  <2>2. k # j => \A r \in Rules : <<k, r>> \notin Passed(j, newer)
    BY DEF Passed
  <2> HIDE DEF d, newer
  <2> QED
    BY <2>1, <2>2 DEF Early
<1> HIDE DEF b, d
<1>5. /\ StorageTyped(s) /\ Sound(s, h) /\ s.at = updatedAt[k] /\ s.log = published[k]
      /\ s.from = oldestKnownCN[k] /\ s.cn = activeCN[k] /\ w \in [Rules -> Nat]
  BY <1>0, <1>1, RequestIs, StorageIs DEF IInv
<1>6. Fits(s, h, sdkCN[k], w, d)
  BY <1>1, <1>4, MoreEarly DEF KindAt
<1>7. flight.key = sdkCN /\ \A x \in cache : x.key # sdkCN
  BY <1>0, <1>1, RequestIs DEF IInv, FlightInv
<1>8. ASSUME k # j PROVE RequestInv(k, h)'
  <2>1. ~Reading(k, "all")' /\ ~Reading(k, "fetch")' /\ (Done(k)' => Done(k))
    BY <1>2, <1>8 DEF Reading, Done
  <2>2. Done(k)' => AnswerFits(s, h, flight'.body[k], w, d)
    BY <1>1, <1>2, <1>4, <1>8, <2>1 DEF KindAt, RequestInv
  <2> QED
    BY <1>3, <2>1, <2>2 DEF RequestInv, d
<1>9. ASSUME k = j PROVE RequestInv(k, h)'
  <2>1. t = sdkCN[k] /\ t \in Nat /\ t <= Len(published[k])
    BY <1>0, <1>7, <1>9 DEF IInv, Typed, FlightTyped, Reached
  <2>2. /\ newer = {r \in Rules : s.at[r] > t}
        /\ till \in t..Len(s.log)
        /\ till = t \/ \E r \in newer : till = s.at[r]
        /\ \A r \in Rules : s.at[r] <= till
    <3> DEFINE u == sdkCN[k]
               views == NewerThan(k, u)
               top == Max({u} \cup {updatedAt[k][r] : r \in views})
    <3>1. u \in Nat /\ u <= Len(published[k]) /\ Typed
      BY <2>1 DEF IInv
    <3>2. /\ views = {r \in Rules : updatedAt[k][r] > u}
          /\ top \in u..Len(published[k])
          /\ top = u \/ \E r \in views : top = updatedAt[k][r]
          /\ \A r \in Rules : updatedAt[k][r] <= top
      BY <3>1, ViewsAre
    <3>3. newer = views /\ till = top /\ t = u
      BY <1>9, <2>1
    <3> HIDE DEF s, newer, till, t, views, top, u
    <3> QED
      BY <1>5, <3>2, <3>3
  <2>3. b.till = till /\ DOMAIN b.got = newer /\ b.early = FALSE
        /\ \A r \in newer : b.got[r] = IF s.log[s.at[r]].active THEN s.at[r] ELSE 0
    <3>1. \A r : VersionOf(j, updatedAt[j][r]) = IF s.log[s.at[r]].active THEN s.at[r] ELSE 0
      BY <1>5, <1>9 DEF VersionOf
    <3> HIDE DEF till, newer, s
    <3> QED
      BY <3>1 DEF b
  <2>4. newer = {} \/ t >= s.from \/ \A r \in Rules : r \in newer \/ w[r] = 0 \/ r \in d
    <3>1. ASSUME newer # {}, ~(t >= s.from), NEW r \in Rules, r \notin newer, w[r] # 0 PROVE r \in d
      <4>1. ~(flight.key[j] >= oldestKnownCN[j])
        BY <1>5, <1>9, <3>1
      <4>2. <<k, r>> \in Passed(j, newer)
        BY <1>9, <3>1, <4>1 DEF Passed
      <4> QED
        BY <1>4, <4>2
    <3> QED
      BY <3>1
  <2> HIDE DEF t, newer, till, s, w
  <2>5. AnswerFits(s, h, b, w, d) /\ (b.till <= s.cn \/ DOMAIN b.got = {})
    <3>1. CASE newer = {}
      <4>1. b.till = t
        BY <2>2, <2>3, <3>1
      <4> QED
        BY <1>4, <1>5, <1>6, <2>1, <2>3, <3>1, <4>1, EmptyAnswerFits
    <3>2. CASE newer # {}
      <4>1. FromViews(s, t, b)
        <5>1. newer \subseteq Rules /\ \A r \in Rules : r \in newer <=> s.at[r] > t
          BY <2>2
        <5> QED
          BY <2>2, <2>3, <5>1 DEF FromViews
      <4>2. t >= s.from \/ \A r \in Rules : r \in DOMAIN b.got \/ w[r] = 0 \/ r \in d
        BY <2>3, <2>4, <3>2
      <4>3. Fits(s, h, t, w, d) /\ t \in Nat
        BY <1>6, <2>1
      <4> QED
        BY <1>5, <4>1, <4>2, <4>3, ViewsAnswerFits
    <3> QED
      BY <3>1, <3>2
  <2>6. b.till # -1 /\ \A r \in DOMAIN b.got : s.at[r] # 0
    BY <2>1, <2>2, <2>3
  <2>7. ~Reading(k, "all")' /\ ~Done(k)'
    <3>1. k = j => ~(j = "segments" /\ k = "flags")
      OBVIOUS
    <3> QED
      BY <1>2, <1>9, <3>1 DEF Reading, Done
  <2>8. flight'.body[k] = b
    BY <1>2, <1>9
  <2> QED
    BY <1>3, <2>3, <2>5, <2>6, <2>7, <2>8 DEF RequestInv, d, s, w
<1>10. RequestInv(k, h)'
  BY <1>8, <1>9
<1>11. KindAt(k, h)'
  BY <1>0, <1>3, <1>5, <1>6, <1>7, <1>10 DEF KindAt, d
<1>12. BackupInv(published[k], backup[k])'
  BY <1>0 DEF IInv, KindInv, BackupInv
<1> QED
  BY <1>11, <1>12 DEF KindInv

LEMMA FetchRuleVersionsInv ==
    ASSUME IInv, FetchRuleVersions, NEW k \in RuleKinds, NEW h, KindAt(k, h)
    PROVE  RequestInv(k, h)'
<1> DEFINE j == flight.kind
           s == Storage(k)
           c == flight.body[j]
           sent == {r \in DOMAIN c.got : c.got[r] = 0 \/ activeRules[j][r] # 0}
           got == [r \in sent |-> IF c.got[r] = 0 THEN 0 ELSE activeRules[j][r]]
           d == [till |-> c.till, got |-> got, early |-> c.till = -1]
<1>0. /\ flight.pc = "fetch" /\ Storage(k)' = Storage(k) /\ UNCHANGED <<cache, pollVars>>
      /\ flight' = Answered(j, c.till, got)
  BY DEF FetchRuleVersions, Untouched, storeVars, pollVars, Storage, Stage
<1>1. AnswerTyped(j, c) /\ j \in RuleKinds
  BY DEF IInv, Typed, FlightTyped, BodyTyped
<1>2. AnswerTyped(j, d)
  <2>1. c.till \in -1..Len(published[j]) /\ Len(published[j]) \in Nat /\ DOMAIN c.got \subseteq Rules
    BY <1>1 DEF AnswerTyped, IInv, Typed, StoresTyped
  <2>2. \A r \in Rules : activeRules[j][r] \in 0..Len(published[j])
    BY <1>1, <2>1 DEF IInv, Typed, StoresTyped, Within
  <2>3. sent \subseteq Rules /\ \A r \in sent : got[r] \in 0..Len(published[j])
    BY <2>1, <2>2
  <2>4. DOMAIN got = sent /\ got = [r \in DOMAIN got |-> got[r]]
    OBVIOUS
  <2> HIDE DEF c, sent, got
  <2> QED
    BY <2>1, <2>3, <2>4 DEF AnswerTyped
<1>3. ASSUME k = j PROVE AnswerFits(s, h, d, sdkRules[k], Early(k))
  <2>1. /\ StorageTyped(s) /\ Sound(s, h) /\ s.up = TRUE
        /\ Fits(s, h, flight.key[k], sdkRules[k], Early(k)) /\ s.rules = activeRules[k]
    BY <1>0, RequestIs, StorageIs DEF IInv
  <2>2. /\ AnswerFits(s, h, c, sdkRules[k], Early(k)) /\ ~c.early /\ c.till # -1
        /\ c.till <= s.cn \/ DOMAIN c.got = {}
        /\ \A r \in DOMAIN c.got : s.at[r] # 0
    BY <1>0, <1>3 DEF KindAt, RequestInv, Reading
  <2>3. DOMAIN c.got \subseteq Rules /\ c.early = FALSE
    BY <1>1, <2>2 DEF AnswerTyped
  <2>4. sent = {r \in DOMAIN c.got : c.got[r] = 0 \/ s.rules[r] # 0}
    BY <1>3, <2>1
  <2>5. d = [till |-> c.till, got |-> [r \in sent |-> IF c.got[r] = 0 THEN 0 ELSE s.rules[r]], early |-> FALSE]
    BY <1>3, <2>1, <2>2
  <2> HIDE DEF s, c, sent, d
  <2> QED
    BY <2>1, <2>2, <2>3, <2>4, <2>5, VersionsAnswerFits
<1> DEFINE till == c.till
<1>4. AnswerTyped(j, [till |-> till, got |-> got, early |-> till = -1]) /\ flight' = Answered(j, till, got)
  BY <1>0, <1>2
<1>5. k = j => AnswerFits(s, h, [till |-> till, got |-> got, early |-> till = -1], sdkRules[k], Early(k))
  BY <1>3
<1> HIDE DEF s, till, got
<1> QED
  BY <1>0, <1>4, <1>5, AnsweredInv DEF s

LEMMA BackendInv ==
    ASSUME IInv, FetchFromBackendSince, NEW k \in RuleKinds, NEW h, KindAt(k, h)
    PROVE  RequestInv(k, h)'
<1> DEFINE s == Storage(k)
           t == flight.key[k]
           names == {s.log[n].name : n \in Log!ChangedSince(s.log, t)}
           b == flight'.body[k]
<1>0. /\ flight.pc = "backend" /\ Storage(k)' = Storage(k) /\ UNCHANGED <<cache, pollVars>>
  BY DEF FetchFromBackendSince, Untouched, storeVars, pollVars, Storage, Stage
<1>1. /\ StorageTyped(s) /\ Sound(s, h) /\ s.up = TRUE
      /\ Fits(s, h, t, sdkRules[k], Early(k)) /\ s.log = published[k] /\ s.cn = activeCN[k]
  BY <1>0, RequestIs, StorageIs DEF IInv
<1>2. /\ flight' = [flight EXCEPT !.pc = "reply", !.body = flight'.body]
      /\ b = [till |-> TillFrom(k, t),
              got |-> [r \in {published[k][n].name : n \in History!ChangedSince(published[k], t)} |->
                         History!Served(published[k], r, Len(published[k]))],
              early |-> activeCN[k] = -1]
  <2>1. flight = [pc |-> flight.pc, kind |-> flight.kind, key |-> flight.key, old |-> flight.old,
                  body |-> flight.body, late |-> flight.late]
    BY <1>0, RequestIs
  <2> QED
    BY <2>1 DEF FetchFromBackendSince
<1>3. flight'.pc = "reply"
  BY <1>0, <1>2, RequestIs
<1>4. t \in -1..Len(published[k]) /\ published[k] \in Seq(Log!Change)
  BY <1>1 DEF Fits, Promise, StorageTyped
<1>5. TillFrom(k, t) = IF s.log = <<>> THEN t ELSE Len(s.log)
  BY <1>1, <1>4, TillIs
<1>6. b = [till |-> IF s.log = <<>> THEN t ELSE Len(s.log),
           got |-> [r \in names |-> Log!Served(s.log, r, Len(s.log))], early |-> s.cn = -1]
  <2>1. \A l, r, cn : History!Served(l, r, cn) = Log!Served(l, r, cn)
    BY SameLog
  <2>2. \A l, cn : History!ChangedSince(l, cn) = Log!ChangedSince(l, cn)
    BY SameLog
  <2>3. names = {published[k][n].name : n \in History!ChangedSince(published[k], t)}
    BY <1>1, <2>2
  <2> HIDE DEF names
  <2> QED
    BY <1>1, <1>2, <1>5, <2>1, <2>3
<1>7. ~Reading(k, "all")' /\ ~Reading(k, "fetch")'
  BY <1>3 DEF Reading
<1>8. sdkRules' = sdkRules /\ Early(k)' = Early(k)
  BY <1>0 DEF pollVars, Early
<1> HIDE DEF s, t, names, b
<1>9. AnswerFits(s, h, b, sdkRules[k], Early(k))
  BY <1>1, <1>6, BackendAnswerFits DEF names
<1> QED
  BY <1>0, <1>7, <1>8, <1>9 DEF RequestInv, s, b

\* A request goes on from where the SDK is, and asks the backend when a storage found
\* its change number too old.
LEMMA RequestGoesOn ==
    ASSUME IInv, ReadSnapshotCN \/ ReadSnapshot \/ SinceIsTooOld \/ ReadViews \/ FetchRuleVersions
                 \/ FetchFromBackendSince
    PROVE  /\ flight.pc # "idle" /\ flight'.pc # "idle" /\ flight'.key = flight.key
           /\ flight'.late = flight.late
           /\ flight'.pc = "backend" => flight'.old
<1>1. flight.pc # "idle" /\ (flight.pc = "backend" => flight.old)
  BY DEF IInv, FlightInv, ReadSnapshotCN, ReadSnapshot, SinceIsTooOld, ReadViews, FetchRuleVersions,
         FetchFromBackendSince
<1>2. /\ flight = [pc |-> flight.pc, kind |-> flight.kind, key |-> flight.key, old |-> flight.old,
                   body |-> flight.body, late |-> flight.late]
      /\ flight.kind \in RuleKinds
  BY DEF IInv, Typed, FlightTyped
<1>3. ASSUME NEW till, NEW got
      PROVE  \E p, c : /\ Answered(flight.kind, till, got)
                            = [pc |-> p, kind |-> "segments", key |-> flight.key, old |-> flight.old,
                               body |-> c, late |-> flight.late]
                       /\ p # "idle" /\ (p = "backend" => flight.old)
  <2> DEFINE b == [till |-> till, got |-> got, early |-> till = -1]
             body == [flight.body EXCEPT ![flight.kind] = b]
             pc == IF flight.kind = "flags" THEN "begin" ELSE IF flight.old THEN "backend" ELSE "reply"
             f == [pc |-> pc, kind |-> "segments", key |-> flight.key, old |-> flight.old, body |-> body, late |-> flight.late]
  <2>1. Answered(flight.kind, till, got) = f
    <3>1. [flight EXCEPT !.body[flight.kind] = b]
             = [pc |-> flight.pc, kind |-> flight.kind, key |-> flight.key, old |-> flight.old,
                body |-> body, late |-> flight.late]
      BY <1>2
    <3> HIDE DEF body, b
    <3> QED
      BY <1>2, <3>1 DEF Answered, RuleKinds, b
  <2>2. pc # "idle" /\ (pc = "backend" => flight.old)
    OBVIOUS
  <2> HIDE DEF body, pc
  <2> QED
    BY <2>1, <2>2
<1>4. CASE ReadSnapshot \/ FetchRuleVersions
  <2>1. PICK till, got : flight' = Answered(flight.kind, till, got)
    BY <1>4 DEF ReadSnapshot, FetchRuleVersions
  <2>2. PICK p, c : /\ flight' = [pc |-> p, kind |-> "segments", key |-> flight.key, old |-> flight.old,
                                   body |-> c, late |-> flight.late]
                    /\ p # "idle" /\ (p = "backend" => flight.old)
    BY <1>3, <2>1
  <2>3. flight'.pc = p /\ flight'.key = flight.key /\ flight'.old = flight.old /\ flight'.late = flight.late
    BY <2>2
  <2> QED
    BY <1>1, <2>2, <2>3
<1>5. CASE SinceIsTooOld
  <2> DEFINE f == Answered(flight.kind, -1, <<>>)
  <2>1. \/ flight' = [f EXCEPT !.old = TRUE, !.pc = IF flight.kind = "flags" THEN "begin" ELSE "backend"]
        \/ flight' = [flight EXCEPT !.pc = "historic"]
    BY <1>5 DEF SinceIsTooOld
  <2>2. PICK p, c : f = [pc |-> p, kind |-> "segments", key |-> flight.key, old |-> flight.old,
                         body |-> c, late |-> flight.late]
    BY <1>3
  <2> HIDE DEF f
  <2>3. CASE flight' = [f EXCEPT !.old = TRUE, !.pc = IF flight.kind = "flags" THEN "begin" ELSE "backend"]
    <3>1. flight'.old = TRUE /\ flight'.pc \in {"begin", "backend"} /\ flight'.key = flight.key
          /\ flight'.late = flight.late
      BY <2>2, <2>3
    <3> QED
      BY <1>1, <3>1
  <2>4. CASE flight' = [flight EXCEPT !.pc = "historic"]
    <3>1. flight'.pc = "historic" /\ flight'.key = flight.key /\ flight'.late = flight.late
      BY <1>2, <2>4
    <3> QED
      BY <1>1, <3>1
  <2> QED
    BY <2>1, <2>3, <2>4
<1>6. CASE ReadSnapshotCN \/ ReadViews \/ FetchFromBackendSince
  <2>1. \E c : \E p \in {"all", "fetch", "reply"} : flight' = [flight EXCEPT !.pc = p, !.body = c]
    <3>1. CASE ReadSnapshotCN
      <4>1. \E c : flight' = [flight EXCEPT !.pc = "all", !.body = c]
        <5> DEFINE c == [flight.body EXCEPT ![flight.kind].till = activeCN[flight.kind]]
        <5>1. flight' = [flight EXCEPT !.pc = "all", !.body = c]
          BY <1>2, <3>1 DEF ReadSnapshotCN
        <5> QED
          BY <5>1
      <4> QED
        BY <4>1
    <3>2. CASE ReadViews
      <4>1. \E b : flight' = [flight EXCEPT !.pc = "fetch", !.body[flight.kind] = b]
        BY <3>2 DEF ReadViews
      <4>2. PICK b : flight' = [flight EXCEPT !.pc = "fetch", !.body[flight.kind] = b]
        BY <4>1
      <4> DEFINE c == [flight.body EXCEPT ![flight.kind] = b]
      <4>3. flight' = [flight EXCEPT !.pc = "fetch", !.body = c]
        BY <1>2, <4>2
      <4> QED
        BY <4>3
    <3>3. CASE FetchFromBackendSince
      BY <3>3 DEF FetchFromBackendSince
    <3> QED
      BY <1>6, <3>1, <3>2, <3>3
  <2>2. PICK c : \E p \in {"all", "fetch", "reply"} : flight' = [flight EXCEPT !.pc = p, !.body = c]
    BY <2>1
  <2> QED
    BY <1>1, <1>2, <2>2
<1> QED
  BY <1>4, <1>5, <1>6

\* Steps of a request before its answer is given.
LEMMA RequestStepInv ==
    ASSUME IInv, \/ HandleSplits \/ ReadSnapshotCN \/ ReadSnapshot \/ SinceIsTooOld
                 \/ FetchRuleVersions \/ FetchFromBackendSince \/ BackendFails
    PROVE  FlightInv' /\ \A k \in RuleKinds : KindInv(k)'
<1>1. Untouched /\ UNCHANGED cache
  BY DEF HandleSplits, ReadSnapshotCN, ReadSnapshot, SinceIsTooOld, FetchRuleVersions,
         FetchFromBackendSince, BackendFails
<1>2. up' = up /\ sdkCN' = sdkCN /\ cache' = cache
  BY <1>1 DEF Untouched, pollVars
<1>3. ASSUME NEW k \in RuleKinds PROVE \E h : KindAt(k, h)
  BY <1>3 DEF IInv, KindInv
<1>4. CASE HandleSplits
  <2>1. flight' = [NoFlight EXCEPT !.pc = "begin", !.key = sdkCN] /\ up /\ \A e \in cache : e.key # sdkCN
    BY <1>4 DEF HandleSplits
  <2>2. flight'.pc = "begin" /\ flight'.kind = "flags" /\ flight'.key = sdkCN
    BY <2>1 DEF NoFlight
  <2>3. FlightInv'
    BY <1>2, <2>1, <2>2 DEF FlightInv
  <2>4. ASSUME NEW k \in RuleKinds PROVE KindInv(k)'
    <3>1. PICK h : KindAt(k, h)
      BY <1>3
    <3>2. RequestInv(k, h)'
      BY <2>2 DEF RequestInv, Reading, Done
    <3> QED
      BY <1>1, <3>1, <3>2, RequestKeeps
  <2> QED
    BY <2>3, <2>4
<1>5. CASE BackendFails
  <2>1. flight' = NoFlight /\ NoFlight.pc = "idle" /\ NoFlight.kind = "flags"
    BY <1>5 DEF BackendFails, NoFlight
  <2>2. FlightInv'
    BY <2>1 DEF FlightInv
  <2>3. ASSUME NEW k \in RuleKinds PROVE KindInv(k)'
    <3>1. PICK h : KindAt(k, h)
      BY <1>3
    <3>2. RequestInv(k, h)'
      BY <2>1 DEF RequestInv, Reading, Done
    <3> QED
      BY <1>1, <3>1, <3>2, RequestKeeps
  <2> QED
    BY <2>2, <2>3
<1>6. CASE ReadSnapshotCN \/ ReadSnapshot \/ SinceIsTooOld \/ FetchRuleVersions \/ FetchFromBackendSince
  <2>1. /\ flight.pc # "idle" /\ flight'.pc # "idle" /\ flight'.key = flight.key
        /\ flight'.pc = "backend" => flight'.old
    BY <1>6, RequestGoesOn
  <2>2. flight # NoFlight
    BY <2>1 DEF NoFlight
  <2>3. FlightInv'
    BY <1>2, <2>1, <2>2 DEF FlightInv, IInv
  <2>4. ASSUME NEW k \in RuleKinds PROVE KindInv(k)'
    <3>1. PICK h : KindAt(k, h)
      BY <1>3
    <3>2. RequestInv(k, h)'
      <4>1. CASE ReadSnapshotCN \/ ReadSnapshot
        BY <3>1, <4>1, ReadSnapshotInv
      <4>2. CASE SinceIsTooOld
        BY <3>1, <4>2, SinceIsTooOldInv
      <4>3. CASE FetchRuleVersions
        BY <3>1, <4>3, FetchRuleVersionsInv
      <4>4. CASE FetchFromBackendSince
        BY <3>1, <4>4, BackendInv
      <4> QED
        BY <1>6, <4>1, <4>2, <4>3, <4>4
    <3> QED
      BY <1>1, <3>1, <3>2, RequestKeeps
  <2> QED
    BY <2>3, <2>4
<1> QED
  BY <1>4, <1>5, <1>6

LEMMA ReadViewsStepInv ==
    ASSUME IInv, ReadViews
    PROVE  FlightInv' /\ \A k \in RuleKinds : KindInv(k)'
<1>1. up' = up /\ sdkCN' = sdkCN /\ cache' = cache
  BY DEF ReadViews
<1>2. /\ flight.pc # "idle" /\ flight'.pc # "idle" /\ flight'.key = flight.key
      /\ flight'.pc = "backend" => flight'.old
  BY RequestGoesOn
<1>3. flight # NoFlight
  BY <1>2 DEF NoFlight
<1>4. FlightInv'
  BY <1>1, <1>2, <1>3 DEF FlightInv, IInv
<1> QED
  BY <1>4, ReadViewsInv

\* What the SDK becomes by applying an answer.
LEMMA ReceivedIs ==
    ASSUME NEW body, ReceiveRules(body), NEW k \in RuleKinds
    PROVE  /\ sdkCN'[k] = body[k].till
           /\ sdkRules'[k] = Applied(sdkRules[k], body[k])
           /\ Early(k)' = EarlyAfter(Early(k), body[k])
<1>1. sdkCN'[k] = body[k].till
  BY DEF ReceiveRules
<1>2. sdkRules'[k] = Applied(sdkRules[k], body[k])
  BY DEF ReceiveRules, Applied
<1>3. ASSUME NEW r \in Rules
      PROVE  <<k, r>> \in early' <=> IF r \in DOMAIN body[k].got THEN body[k].early ELSE <<k, r>> \in early
  <2> DEFINE p == <<k, r>>
  <2>1. p \in RuleKinds \X Rules /\ p[1] = k /\ p[2] = r
    OBVIOUS
  <2>2. early' = {q \in RuleKinds \X Rules :
                    IF q[2] \in DOMAIN body[q[1]].got THEN body[q[1]].early ELSE q \in early}
    BY DEF ReceiveRules
  <2> HIDE DEF p
  <2>3. p \in early' <=> IF p[2] \in DOMAIN body[p[1]].got THEN body[p[1]].early ELSE p \in early
    BY <2>1, <2>2
  <2> QED
    BY <2>1, <2>3 DEF p
<1>4. Early(k)' = EarlyAfter(Early(k), body[k])
  <2>1. \A r \in Rules : r \in Early(k)' <=> <<k, r>> \in early'
    BY DEF Early
  <2>2. \A r \in Rules : r \in Early(k) <=> <<k, r>> \in early
    BY DEF Early
  <2>3. \A r \in Rules : r \in EarlyAfter(Early(k), body[k])
                            <=> IF r \in DOMAIN body[k].got THEN body[k].early ELSE r \in Early(k)
    BY DEF EarlyAfter
  <2>4. Early(k)' \subseteq Rules /\ EarlyAfter(Early(k), body[k]) \subseteq Rules
    BY DEF Early, EarlyAfter
  <2> QED
    BY <1>3, <2>1, <2>2, <2>3, <2>4
<1> QED
  BY <1>1, <1>2, <1>4

\* The SDK applies an answer that fits, and the cache keeps it.
LEMMA ReceiveInv ==
    ASSUME IInv, NEW body, ReceiveRules(body), NEW k \in RuleKinds, NEW h, KindAt(k, h),
           AnswerFits(Storage(k), h, body[k], sdkRules[k], Early(k)),
           UNCHANGED <<published, storeVars, up, sync, backup>>, flight' = NoFlight,
           \A e \in cache' : e.body = body
    PROVE  KindInv(k)'
<1>1. Storage(k)' = Storage(k)
  BY DEF storeVars, Storage, Stage
<1>2. /\ sdkCN'[k] = body[k].till /\ sdkRules'[k] = Applied(sdkRules[k], body[k])
      /\ Early(k)' = EarlyAfter(Early(k), body[k])
  BY ReceivedIs
<1>3. Fits(Storage(k), h, sdkCN'[k], sdkRules'[k], Early(k)')
  BY <1>2 DEF AnswerFits
<1>4. AnswerFits(Storage(k), h, body[k], sdkRules'[k], Early(k)')
  BY <1>2, AppliedTwice DEF AnswerFits
<1>5. RequestInv(k, h)'
  BY DEF RequestInv, Reading, Done, NoFlight
<1>6. KindAt(k, h)'
  <2>1. \A e \in cache' : AnswerFits(Storage(k), h, e.body[k], sdkRules'[k], Early(k)')
    BY <1>4
  <2> QED
    BY <1>1, <1>3, <1>5, <2>1 DEF KindAt
<1>7. BackupInv(published[k], backup[k])'
  BY DEF IInv, KindInv, BackupInv
<1> QED
  BY <1>6, <1>7 DEF KindInv

LEMMA RespondInv ==
    ASSUME IInv, (\E own \in BOOLEAN : Respond(own)) \/ HitSplits
    PROVE  FlightInv' /\ \A k \in RuleKinds : KindInv(k)'
<1>1. ASSUME NEW k \in RuleKinds PROVE \E h : KindAt(k, h)
  BY <1>1 DEF IInv, KindInv
<1>2. ASSUME NEW own \in BOOLEAN, Respond(own) PROVE FlightInv' /\ \A k \in RuleKinds : KindInv(k)'
  <2>1. /\ flight.pc = "reply" /\ flight' = NoFlight
        /\ UNCHANGED <<published, storeVars, up, sync, backup>>
        /\ cache' = {[key |-> flight.key, body |-> flight.body, late |-> flight.late]}
    BY <1>2 DEF Respond
  <2>2. \A e \in cache' : e.body = flight.body
    BY <2>1
  <2>3. FlightInv'
    BY <2>1 DEF FlightInv, NoFlight
  <2>4. ASSUME NEW k \in RuleKinds PROVE KindInv(k)'
    <3>1. PICK h : KindAt(k, h)
      BY <1>1
    <3>2. AnswerFits(Storage(k), h, flight.body[k], sdkRules[k], Early(k))
      BY <2>1, <3>1 DEF KindAt, RequestInv, Done
    <3>3. CASE own
      <4>1. ReceiveRules(flight.body)
        BY <1>2, <3>3 DEF Respond
      <4> QED
        BY <2>1, <2>2, <3>1, <3>2, <4>1, ReceiveInv
    <3>4. CASE ~own
      <4>1. UNCHANGED pollVars
        BY <1>2, <3>4 DEF Respond
      <4>2. Storage(k)' = Storage(k) /\ Early(k)' = Early(k) /\ sdkCN' = sdkCN /\ sdkRules' = sdkRules
        BY <2>1, <4>1 DEF storeVars, pollVars, Storage, Stage, Early
      <4>3. RequestInv(k, h)'
        BY <2>1 DEF RequestInv, Reading, Done, NoFlight
      <4>4. \A e \in cache' : AnswerFits(Storage(k), h, e.body[k], sdkRules[k], Early(k))
        BY <2>2, <3>2
      <4>5. KindAt(k, h)'
        BY <3>1, <4>2, <4>3, <4>4 DEF KindAt
      <4>6. BackupInv(published[k], backup[k])'
        BY <2>1 DEF IInv, KindInv, BackupInv
      <4> QED
        BY <4>5, <4>6 DEF KindInv
    <3> QED
      BY <3>3, <3>4
  <2> QED
    BY <2>3, <2>4
<1>3. CASE HitSplits
  <2>1. PICK e \in cache : e.key = sdkCN /\ ReceiveRules(e.body)
    BY <1>3 DEF HitSplits
  <2>2. UNCHANGED <<published, storeVars, up, sync, killing, cache, flight, backup, starts>>
    BY <1>3 DEF HitSplits
  <2>3. flight = NoFlight
    BY <2>1 DEF IInv, FlightInv
  <2>4. \A x \in cache' : x.body = e.body
    BY <2>1, <2>2 DEF IInv, Typed, CacheTyped
  <2>5. FlightInv'
    BY <2>2, <2>3 DEF FlightInv, NoFlight
  <2>6. ASSUME NEW k \in RuleKinds PROVE KindInv(k)'
    <3>1. PICK h : KindAt(k, h)
      BY <1>1
    <3>2. AnswerFits(Storage(k), h, e.body[k], sdkRules[k], Early(k))
      BY <2>1, <3>1 DEF KindAt
    <3> QED
      BY <2>1, <2>2, <2>3, <2>4, <3>1, <3>2, ReceiveInv
  <2> QED
    BY <2>5, <2>6
<1> QED
  BY <1>2, <1>3

-----------------------------------------------------------------------------
(* Starts, and the theorem                                                 *)

LEMMA StartInv ==
    ASSUME IInv, StartBlank \/ StartFromBackup
    PROVE  FlightInv' /\ \A k \in RuleKinds : KindInv(k)'
<1> DEFINE high == [k \in RuleKinds |-> BackupCN(k)]
<1>0. Typed /\ \A k \in RuleKinds : KindInv(k)
  BY DEF IInv
<1>1. PICK records, cn, served :
        /\ StartFrom(records, cn, served)
        /\ \/ records = NoRules /\ cn = FromScratch /\ served = FALSE
           \/ records = backup /\ cn = high /\ served = TRUE
  BY DEF StartBlank, StartFromBackup
<1>2. /\ UNCHANGED published /\ UNCHANGED pollVars
      /\ disk' = records /\ updatedAt' = activeRules' /\ activeCN' = cn /\ oldestKnownCN' = cn
      /\ up' = served /\ sync' = NoSync /\ cache' = {} /\ flight' = NoFlight
      /\ backup' = backup \/ backup' = NoRules
      /\ activeRules' = [k \in RuleKinds |-> [r \in Rules |->
                  IF records[k][r] = 0 THEN 0 ELSE VersionOf(k, records[k][r])]]
  BY <1>1 DEF StartFrom, StillUsable
<1>3. FlightInv'
  BY <1>2 DEF FlightInv, NoFlight
<1>4. ASSUME NEW k \in RuleKinds PROVE KindInv(k)'
  <2> DEFINE z == Storage(k)'
  <2>1. PICK h : KindAt(k, h)
    BY <1>0 DEF KindInv
  <2>2. Promise(z.log, sdkCN[k], sdkRules[k], Early(k))
    <3>1. z.log = Storage(k).log
      BY <1>2 DEF Storage
    <3> QED
      BY <2>1, <3>1 DEF KindAt, Fits
  <2>3. /\ z.log = published[k] /\ z.cn = cn[k] /\ z.from = cn[k] /\ z.disk = records[k]
        /\ z.rules = activeRules'[k] /\ z.at = activeRules'[k] /\ z.up = served /\ z.stage = "off"
    BY <1>2, NextStorageIs DEF Stage, NoSync
  <2>4. published[k] \in Seq(Log!Change)
    BY <1>0 DEF Typed, StoresTyped
  <2>5. \A r \in Rules : activeRules'[k][r] = IF records[k][r] = 0 THEN 0
                                              ELSE IF published[k][records[k][r]].active THEN records[k][r] ELSE 0
    BY <1>2 DEF VersionOf
  <2>6. \E g : Sound(z, g) /\ \A t, w, e : Promise(z.log, t, w, e) => Fits(z, g, t, w, e)
    <3>1. CASE records = NoRules /\ cn = FromScratch /\ served = FALSE
      <4>1. z.cn = -1 /\ z.from = -1 /\ z.up = FALSE /\ \A r \in Rules : records[k][r] = 0
        BY <2>3, <3>1 DEF FromScratch, NoRules
      <4>2. \A r \in Rules : z.rules[r] = 0 /\ z.at[r] = 0 /\ z.disk[r] = 0
        BY <2>3, <2>5, <4>1
      <4>3. z.log \in Seq(Log!Change) /\ z.stage = "off"
        BY <2>3, <2>4
      <4> HIDE DEF z
      <4> QED
        BY <4>1, <4>2, <4>3, BlankStoreFits
    <3>2. CASE records = backup /\ cn = high /\ served = TRUE
      <4>1. /\ high[k] \in -1..Len(published[k])
            /\ \A r \in Rules : backup[k][r] = 0 \/ backup[k][r] <= high[k]
            /\ \/ high[k] = -1 /\ \A r \in Rules : backup[k][r] = 0
               \/ high[k] > 0 /\ \E r \in Rules : high[k] = backup[k][r]
        BY <1>0, BackupCNIs
      <4>2. /\ \A r \in Rules : backup[k][r] \in Nat /\ backup[k][r] <= Len(published[k])
            /\ BackupInv(published[k], backup[k])
        BY <1>0 DEF Typed, StoresTyped, Within, KindInv
      <4>3. z.cn = high[k] /\ z.from = z.cn /\ z.disk = backup[k] /\ z.log = published[k]
            /\ z.stage = "off"
        BY <2>3, <3>2
      <4>4. \A r \in Rules : /\ z.at[r] = z.rules[r]
                             /\ z.rules[r] = IF z.disk[r] = 0 THEN 0
                                             ELSE IF z.log[z.disk[r]].active THEN z.disk[r] ELSE 0
        <5> HIDE DEF z, high
        <5> QED
          BY <2>3, <2>5, <3>2, <4>3
      <4> HIDE DEF z, high
      <4>5. CASE high[k] = -1
        <5>1. \A r \in Rules : z.disk[r] = 0 /\ z.rules[r] = 0 /\ z.at[r] = 0
          BY <4>1, <4>3, <4>4, <4>5
        <5> QED
          BY <2>4, <4>3, <4>5, <5>1, BlankStoreFits
      <4>6. CASE high[k] > 0
        <5>1. z.log \in Seq(Log!Change) /\ z.cn \in 0..Len(z.log) /\ BackupInv(z.log, z.disk)
          BY <2>4, <4>1, <4>2, <4>3, <4>6
        <5>2. \A r \in Rules : z.disk[r] \in Nat /\ z.disk[r] <= z.cn /\ z.disk[r] <= Len(z.log)
          BY <4>1, <4>2, <4>3, <4>6
        <5>3. \E r \in Rules : z.cn = z.disk[r]
          BY <4>1, <4>3, <4>6
        <5> QED
          BY <4>3, <4>4, <5>1, <5>2, <5>3, BackupStoreFits
      <4> QED
        BY <4>1, <4>5, <4>6
    <3> QED
      BY <1>1, <3>1, <3>2
  <2>7. PICK g : Sound(z, g) /\ Fits(z, g, sdkCN[k], sdkRules[k], Early(k))
    <3> HIDE DEF z
    <3> QED
      BY <2>2, <2>6
  <2>8. sdkCN' = sdkCN /\ sdkRules' = sdkRules /\ Early(k)' = Early(k)
    BY <1>2 DEF pollVars, Early
  <2>9. RequestInv(k, g)'
    BY <1>2 DEF RequestInv, Reading, Done, NoFlight
  <2>10. KindAt(k, g)'
    BY <1>2, <2>7, <2>8, <2>9 DEF KindAt
  <2>11. BackupInv(published[k], backup[k])'
    BY <1>0, <1>2, BackupKept DEF KindInv
  <2> QED
    BY <2>10, <2>11 DEF KindInv
<1> QED
  BY <1>3, <1>4

LEMMA IInvInit == RulesInit => IInv
<1> SUFFICES ASSUME RulesInit PROVE IInv
  OBVIOUS
<1>1. Typed
  BY TypedInit
<1>2. FlightInv
  BY DEF RulesInit, FlightInv, NoFlight
<1>3. ASSUME NEW k \in RuleKinds PROVE KindInv(k)
  <2> DEFINE z == Storage(k)
  <2>1. /\ z.log = <<>> /\ z.log \in Seq(Log!Change) /\ z.cn = -1 /\ z.from = -1 /\ z.stage = "off" /\ z.up = FALSE
        /\ \A r \in Rules : z.rules[r] = 0 /\ z.at[r] = 0 /\ z.disk[r] = 0
    BY DEF RulesInit, Storage, Stage, NoSync, NoRules, FromScratch
  <2>2. sdkCN[k] = -1 /\ (\A r \in Rules : sdkRules[k][r] = 0) /\ published[k] = <<>>
        /\ \A r \in Rules : backup[k][r] = 0
    BY DEF RulesInit, NoRules, FromScratch
  <2>3. \A r, t : t \in Int => ~Log!Due(<<>>, r, t)
    <3>1. <<>> \in Seq(Log!Change) /\ Len(<<>>) = 0
      OBVIOUS
    <3>2. ASSUME NEW r PROVE Log!Current(<<>>, r) = 0
      <4> DEFINE l == <<>>
      <4>1. l \in Seq(Log!Change) /\ Len(l) = 0
        BY <3>1
      <4> HIDE DEF l
      <4>2. Log!Current(l, r) = 0 \/ Log!Current(l, r) \in 1..Len(l)
        BY <4>1, Log!CurrentIs
      <4> QED
        BY <4>1, <4>2 DEF l
    <3> QED
      BY <3>2 DEF Log!Due
  <2>4. Promise(<<>>, -1, sdkRules[k], Early(k))
    BY <2>2, <2>3 DEF Promise, Blank, Log!Known
  <2>5. Sound(z, -1) /\ Fits(z, -1, -1, sdkRules[k], Early(k))
    <3> HIDE DEF z
    <3> QED
      BY <2>1, <2>4, BlankStoreFits
  <2>6. RequestInv(k, -1)
    BY DEF RulesInit, RequestInv, Reading, Done, NoFlight
  <2>7. KindAt(k, -1)
    BY <2>2, <2>5, <2>6 DEF KindAt, RulesInit
  <2>8. BackupInv(published[k], backup[k])
    BY <2>2, <2>3 DEF BackupInv, Log!Known, Log!Covers
  <2> QED
    BY <2>7, <2>8 DEF KindInv
<1> QED
  BY <1>1, <1>2, <1>3 DEF IInv

LEMMA IInvStep ==
    ASSUME ~ExportMidWrite, ~SavesFail, IInv, [RulesNext]_rulesVars
    PROVE  IInv'
<1>1. Typed'
  BY TypedStep DEF IInv
<1>2. CASE UNCHANGED rulesVars
  <2>1. UNCHANGED <<published, storeVars, up, sync, killing, cache, flight, pollVars, backup, starts>>
    BY <1>2 DEF rulesVars
  <2>2. FlightInv'
    BY <2>1 DEF IInv, FlightInv, pollVars
  <2>3. ASSUME NEW k \in RuleKinds PROVE KindInv(k)'
    <3>1. PICK h : KindAt(k, h)
      BY DEF IInv, KindInv
    <3>2. Storage(k)' = Storage(k) /\ Early(k)' = Early(k) /\ sdkCN' = sdkCN /\ sdkRules' = sdkRules
      BY <2>1 DEF storeVars, pollVars, Storage, Stage, Early
    <3>3. KindAt(k, h)'
      BY <2>1, <3>1, <3>2 DEF KindAt, RequestInv, Reading, Done
    <3>4. BackupInv(published[k], backup[k])'
      BY <2>1 DEF IInv, KindInv, BackupInv
    <3> QED
      BY <3>3, <3>4 DEF KindInv
  <2> QED
    BY <1>1, <2>2, <2>3 DEF IInv
<1>3. CASE RulesNext
  <2>1. FlightInv' /\ \A k \in RuleKinds : KindInv(k)'
    <3>1. CASE \/ \E j \in RuleKinds, c \in History!Change : PublishRule(j, c)
               \/ SyncRules \/ FetchWorks \/ FetchFails
               \/ (\E n \in 1..MaxRuleCN : KillRule(n)) \/ EvictKilled
      BY <3>1, StoreStepInv
    <3>2. CASE \/ HandleSplits \/ ReadSnapshotCN \/ ReadSnapshot \/ SinceIsTooOld
               \/ FetchRuleVersions \/ FetchFromBackendSince \/ BackendFails
      BY <3>2, RequestStepInv
    <3>3. CASE ReadViews
      BY <3>3, ReadViewsStepInv
    <3>4. CASE (\E own \in BOOLEAN : Respond(own)) \/ HitSplits
      BY <3>4, RespondInv
    <3>5. CASE ExportRules
      BY <3>5, ExportInv
    <3>6. CASE StartBlank \/ StartFromBackup
      BY <3>6, StartInv
    <3> QED
      BY <1>3, <3>1, <3>2, <3>3, <3>4, <3>5, <3>6 DEF RulesNext, ServeRules
  <2> QED
    BY <1>1, <2>1 DEF IInv
<1> QED
  BY <1>2, <1>3

LEMMA IInvKeepsRules == IInv => RulesKept
<1> SUFFICES ASSUME IInv PROVE RulesKept
  OBVIOUS
<1>1. RulesTypeOK
  BY TypedIsTypeOK DEF IInv
<1>2. ASSUME NEW k \in RuleKinds, NEW r \in Rules
      PROVE  LET n == History!LatestCN(published[k], r, Len(published[k]))
             IN  n > 0 /\ n <= sdkCN[k] => sdkRules[k][r] = VersionOf(k, n) \/ <<k, r>> \in early
  <2> DEFINE l == published[k]
             n == Log!Current(l, r)
  <2>1. History!LatestCN(l, r, Len(l)) = n
    BY SameLog DEF Log!Current
  <2>2. PICK h : KindAt(k, h)
    BY DEF IInv, KindInv
  <2>3. Promise(l, sdkCN[k], sdkRules[k], Early(k))
    BY <2>2 DEF KindAt, Fits, Storage
  <2>4. ASSUME n > 0, n <= sdkCN[k] PROVE sdkRules[k][r] = VersionOf(k, n) \/ <<k, r>> \in early
    <3>1. n # 0 /\ Log!Due(l, r, sdkCN[k])
      <4>1. n = 0 \/ n \in 1..Len(l)
        BY Log!CurrentIs DEF IInv, Typed, StoresTyped
      <4> QED
        BY <2>4, <4>1 DEF Log!Due
    <3>2. r \in Early(k) \/ sdkRules[k][r] = IF Log!Archived(l, r) THEN 0 ELSE n
      BY <2>3, <3>1 DEF Promise
    <3>3. VersionOf(k, n) = IF Log!Archived(l, r) THEN 0 ELSE n
      BY <3>1 DEF VersionOf, Log!Archived
    <3> QED
      BY <3>2, <3>3 DEF Early
  <2> HIDE DEF n
  <2> QED
    BY <2>1, <2>4
<1> QED
  BY <1>1, <1>2 DEF RulesKept

\* Where records are saved without errors and exported between two updates, an SDK
\* that polls /splitChanges holds every change of either kind at or below its change
\* number of that kind, but for rules it got before the storage had any and rules it
\* held when a request read summaries that an update without rules had moved past it:
\* whatever is published, killed, exported or restored meanwhile, a file without a
\* kind included, whoever answered (storage, backend or cache), and wherever the
\* process died, between two records too (rulebasedsegments.go, sdk.go
\* fetchRulesSince, workers.go).
THEOREM RulesAreKept ==
    ASSUME ~ExportMidWrite, ~SavesFail
    PROVE  RulesSpec => []RulesKept
<1>1. RulesInit => IInv
  BY IInvInit
<1>2. IInv /\ [RulesNext]_rulesVars => IInv'
  BY IInvStep
<1>3. IInv => RulesKept
  BY IInvKeepsRules
<1> QED
  BY <1>1, <1>2, <1>3, PTL DEF RulesSpec

-----------------------------------------------------------------------------
(* The inductive invariant of OnlyLateRulesStale                           *)

\* Since before the synchronization under way, nothing of a kind was written.
Settled(k) == ~killing /\ (sync.pc = "idle" \/ activeCN[k] = sync.previous[k])

\* The summaries as the update under way leaves them: a rule they have as archived
\* is not in the snapshot.
View(k, r) ==
    IF Stage(k) = "historic" /\ ChangesIn(r) # {} THEN Max(ChangesIn(r)) ELSE updatedAt[k][r]
Consistent(k) ==
    \A r \in Rules : View(k, r) # 0 /\ ~published[k][View(k, r)].active => activeRules[k][r] = 0

OrderInv(k) ==
    /\ Consistent(k)
    /\ sync.pc # "idle" => sync.previous[k] <= activeCN[k]
    /\ Stage(k) = "historic" => sync.previous[k] < activeCN[k]

\* What a settled storage has is in the answers that are not late.
Seen(k, till) == \A r \in Rules : updatedAt[k][r] = 0 \/ updatedAt[k][r] <= till
Fresh(k, b) ==
    \/ b.till > activeCN[k]
    \/ Seen(k, b.till) /\ \A r \in DOMAIN b.got : b.got[r] >= activeRules[k][r]
ReadFresh(k) ==
    LET b == flight.body[k]
    IN  /\ Done(k) => Fresh(k, b)
        /\ Reading(k, "all") => b.till = activeCN[k]
        /\ Reading(k, "fetch") => /\ Seen(k, b.till)
                                  /\ \A r \in DOMAIN b.got : b.got[r] = 0 => activeRules[k][r] = 0
AnswersInv(k) ==
    Settled(k) => /\ \A e \in cache : e.late \/ Fresh(k, e.body[k])
                  /\ flight.late \/ ReadFresh(k)

FreshInv == \A k \in RuleKinds : OrderInv(k) /\ AnswersInv(k)

LEMMA StageIs ==
    ASSUME NEW k
    PROVE  Stage(k) = "historic" <=> sync.pc = "historic" /\ sync.kind = k
BY DEF Stage

LEMMA PointsAre ==
    ASSUME Typed, NEW k \in RuleKinds
    PROVE  /\ published[k] \in Seq(Log!Change) /\ Len(published[k]) \in Nat
           /\ activeCN[k] \in Int /\ -1 <= activeCN[k] /\ activeCN[k] <= Len(published[k])
           /\ sync.previous[k] \in Int
           /\ \A r \in Rules : /\ updatedAt[k][r] \in Nat /\ updatedAt[k][r] <= Len(published[k])
                               /\ activeRules[k][r] \in Nat
BY DEF Typed, StoresTyped, SyncTyped, Within, Reached

LEMMA TillIsInt ==
    ASSUME Typed, NEW k \in RuleKinds
    PROVE  sync.changes[k].till \in Int
<1>1. sync.changes[k].till \in -1..Len(published[k]) /\ Len(published[k]) \in Nat
  BY PointsAre DEF Typed, SyncTyped, ChangesTyped
<1> QED
  BY <1>1

LEMMA ViewIs ==
    ASSUME Typed, NEW k \in RuleKinds, NEW r \in Rules
    PROVE  View(k, r) \in Nat /\ View(k, r) <= Len(published[k])
<1>1. CASE Stage(k) = "historic" /\ ChangesIn(r) # {}
  <2>1. sync.kind = k
    BY <1>1, StageIs
  <2>2. Max(ChangesIn(r)) \in 1..Len(published[k])
    BY <1>1, <2>1, ChangesAre
  <2> QED
    BY <1>1, <2>2, PointsAre DEF View
<1>2. CASE ~(Stage(k) = "historic" /\ ChangesIn(r) # {})
  BY <1>2, PointsAre DEF View
<1> QED
  BY <1>1, <1>2

\* A step that writes nothing of a kind, but for the end of its update.
LEMMA OrderKept ==
    ASSUME Typed, NEW k \in RuleKinds, OrderInv(k),
           activeRules'[k] = activeRules[k], activeCN'[k] = activeCN[k],
           \A n \in 1..Len(published[k]) : published'[k][n] = published[k][n],
           \A r \in Rules : View(k, r)' = View(k, r),
           sync'.pc # "idle" => sync'.previous[k] <= activeCN[k],
           Stage(k)' = "historic" => Stage(k) = "historic" /\ sync'.previous = sync.previous
    PROVE  OrderInv(k)'
<1>1. Consistent(k)'
  <2>1. ASSUME NEW r \in Rules, View(k, r)' # 0, ~published'[k][View(k, r)'].active PROVE activeRules'[k][r] = 0
    <3> DEFINE v == View(k, r)
    <3>1. v \in Nat /\ v <= Len(published[k]) /\ v # 0 /\ View(k, r)' = v /\ Len(published[k]) \in Nat
      BY <2>1, ViewIs, PointsAre
    <3> HIDE DEF v
    <3>2. v \in 1..Len(published[k])
      BY <3>1
    <3>3. ~published[k][v].active
      BY <2>1, <3>1, <3>2
    <3> QED
      BY <3>1, <3>3 DEF OrderInv, Consistent, v
  <2> QED
    BY <2>1 DEF Consistent
<1> QED
  BY <1>1 DEF OrderInv

LEMMA ViewKept ==
    ASSUME NEW k, UNCHANGED updatedAt,
           \/ Stage(k) # "historic" /\ Stage(k)' # "historic"
           \/ UNCHANGED <<published, sync>>
    PROVE  \A r : View(k, r)' = View(k, r)
BY DEF View, Stage, ChangesIn, Batch

\* Steps of a synchronization that only turn the page.
LEMMA OrderTurns ==
    ASSUME Typed, NEW k \in RuleKinds, OrderInv(k),
           \/ BeginSync \/ FetchRules \/ NothingNew \/ FetchFails \/ StartingPoint \/ EndSync
           \/ \E n \in 1..MaxRuleCN : SaveRule(n)
    PROVE  /\ OrderInv(k)'
           /\ UNCHANGED <<published, activeRules, activeCN, updatedAt, killing>>
           /\ sync'.pc # "idle" /\ sync.pc # "idle" => sync'.previous = sync.previous
           /\ sync'.pc = "idle" => EndSync
<1>1. UNCHANGED <<published, activeRules, activeCN, updatedAt, killing>>
  BY DEF BeginSync, FetchRules, NothingNew, FetchFails, StartingPoint, EndSync, SaveRule, storeVars
<1>2. sync.pc # "historic"
  BY DEF BeginSync, FetchRules, NothingNew, FetchFails, StartingPoint, EndSync, SaveRule
<1>3. /\ sync'.pc # "historic"
      /\ \/ sync.pc = "idle" /\ sync'.previous = activeCN
         \/ sync.pc # "idle" /\ sync'.previous = sync.previous
         \/ sync'.pc = "idle"
      /\ sync'.pc = "idle" => EndSync
  <2>1. sync = [pc |-> sync.pc, kind |-> sync.kind, changes |-> sync.changes, previous |-> sync.previous]
    BY DEF Typed, SyncTyped
  <2>2. CASE BeginSync
    BY <2>2 DEF BeginSync, NoSync
  <2>3. CASE FetchRules \/ NothingNew \/ FetchFails
    <3>1. PICK q, c : \E p \in {"start", "evict"} :
             sync' = [pc |-> p, kind |-> q, changes |-> c, previous |-> sync.previous]
      <4>1. CASE FetchRules
        BY <2>1, <4>1 DEF FetchRules
      <4>2. CASE NothingNew \/ FetchFails
        BY <2>1, <4>2 DEF NothingNew, FetchFails
      <4> QED
        BY <2>3, <4>1, <4>2
    <3>2. sync.pc = "fetch"
      BY <2>3 DEF FetchRules, NothingNew, FetchFails
    <3> QED
      BY <3>1, <3>2
  <2>4. CASE StartingPoint
    BY <2>1, <2>4 DEF StartingPoint, AfterKind
  <2>5. CASE EndSync
    BY <2>5 DEF EndSync, NoSync
  <2>6. ASSUME NEW n, SaveRule(n)
        PROVE  sync.pc = "save" /\ sync'.pc \in {"save", "start", "fetch"} /\ sync'.previous = sync.previous
    <3>1. CASE Batch = {n}
      <4>1. sync' = AfterKind /\ sync.pc = "save"
        BY <2>6, <3>1, SaveRuleIs
      <4> QED
        BY <2>1, <4>1 DEF AfterKind
    <3>2. CASE Batch # {n}
      <4>1. PICK q, c : sync' = [pc |-> "save", kind |-> q, changes |-> c, previous |-> sync.previous]
        BY <2>6, <3>2, SaveRuleIs
      <4>2. sync.pc = "save"
        BY <2>6 DEF SaveRule
      <4> QED
        BY <4>1, <4>2
    <3> QED
      BY <3>1, <3>2
  <2> QED
    BY <2>2, <2>3, <2>4, <2>5, <2>6
<1>4. Stage(k) # "historic" /\ Stage(k)' # "historic"
  BY <1>2, <1>3 DEF Stage
<1>5. \A r : View(k, r)' = View(k, r)
  BY <1>1, <1>4, ViewKept
<1>6. sync'.pc # "idle" => sync'.previous[k] <= activeCN[k]
  BY <1>3, PointsAre DEF OrderInv
<1>7. OrderInv(k)'
  BY <1>1, <1>4, <1>5, <1>6, OrderKept
<1> QED
  BY <1>1, <1>3, <1>7

\* A new snapshot is at a greater CN.
LEMMA SnapshotGrows ==
    ASSUME IInv, WriteSnapshot
    PROVE  activeCN[sync.kind] < sync.changes[sync.kind].till
<1> DEFINE k == sync.kind
           s == Storage(k)
<1>1. k \in RuleKinds /\ sync.pc = "snapshot" /\ Batch # {} /\ Typed
  BY DEF IInv, Typed, SyncTyped, WriteSnapshot
<1>2. PICK h : KindAt(k, h)
  BY <1>1 DEF IInv, KindInv
<1>3. StorageTyped(s) /\ Sound(s, h) /\ s.cn = activeCN[k] /\ s.till = sync.changes[k].till
      /\ s.stage = "snapshot" /\ s.batch = Batch
  BY <1>1, <1>2, StorageIs DEF KindAt, Stage, Batch
<1> HIDE DEF s
<1>4. s.cn = h
  BY <1>3 DEF Sound
<1>5. PICK n \in s.batch : TRUE
  BY <1>1, <1>3
<1>6. n \in Nat /\ h < n /\ n <= s.till
  BY <1>3, <1>5, BatchIs
<1>7. h \in Int /\ s.till \in Int
  BY <1>3, SoundIs
<1> QED
  BY <1>3, <1>4, <1>6, <1>7

LEMMA OrderWrites ==
    ASSUME IInv, NEW k \in RuleKinds, OrderInv(k), WriteSnapshot \/ WriteHistoric
    PROVE  OrderInv(k)'
<1>0. /\ sync = [pc |-> sync.pc, kind |-> sync.kind, changes |-> sync.changes, previous |-> sync.previous]
      /\ sync.kind \in RuleKinds /\ Typed
  BY DEF IInv, Typed, SyncTyped
<1>1. CASE WriteSnapshot
  <2>1. /\ UNCHANGED <<published, updatedAt>> /\ sync.pc = "snapshot"
        /\ sync' = [sync EXCEPT !.pc = "historic"]
    BY <1>1 DEF WriteSnapshot
  <2>2. sync'.pc = "historic" /\ sync'.kind = sync.kind /\ sync'.changes = sync.changes
        /\ sync'.previous = sync.previous
    BY <1>0, <2>1
  <2>3. CASE k # sync.kind
    <3>1. activeRules'[k] = activeRules[k] /\ activeCN'[k] = activeCN[k]
      BY <1>0, <1>1, <2>3 DEF WriteSnapshot, Typed, StoresTyped, Within, Reached
    <3>2. Stage(k) # "historic" /\ Stage(k)' # "historic"
      BY <2>1, <2>2, <2>3 DEF Stage
    <3>3. \A r : View(k, r)' = View(k, r)
      BY <2>1, <3>2, ViewKept
    <3>4. sync'.previous[k] <= activeCN[k]
      BY <2>1, <2>2 DEF OrderInv
    <3> QED
      BY <1>0, <2>1, <3>1, <3>2, <3>3, <3>4, OrderKept
  <2>4. CASE k = sync.kind
    <3>1. activeCN'[k] = sync.changes[k].till
      BY <1>0, <1>1, <2>4 DEF WriteSnapshot, Typed, StoresTyped, Reached
    <3>2. sync'.previous[k] < activeCN'[k]
      <4>1. sync.changes[k].till \in Int
        BY <1>0, TillIsInt
      <4>2. activeCN[k] < sync.changes[k].till /\ sync.previous[k] <= activeCN[k]
        BY <1>1, <2>1, <2>4, SnapshotGrows DEF OrderInv
      <4> QED
        BY <1>0, <2>2, <3>1, <4>1, <4>2, PointsAre
    <3>3. sync'.previous[k] <= activeCN'[k]
      <4>1. sync'.previous[k] \in Int /\ activeCN'[k] \in Int
        BY <1>0, <2>2, <3>1, PointsAre, TillIsInt
      <4> QED
        BY <3>2, <4>1
    <3>4. Stage(k)' = "historic" /\ Stage(k) # "historic"
      BY <2>1, <2>2, <2>4 DEF Stage
    <3>5. ASSUME NEW r \in Rules, View(k, r)' # 0, ~published'[k][View(k, r)'].active
          PROVE  activeRules'[k][r] = 0
      <4>1. ChangesIn(r)' = ChangesIn(r)
        BY <2>1, <2>2 DEF ChangesIn, Batch
      <4>2. activeRules'[k][r] = IF ChangesIn(r) = {} THEN activeRules[k][r] ELSE VersionOf(k, Max(ChangesIn(r)))
        BY <1>0, <1>1, <2>4 DEF WriteSnapshot, Typed, StoresTyped, Within
      <4>3. CASE ChangesIn(r) = {}
        <5>1. View(k, r)' = View(k, r)
          BY <2>1, <3>4, <4>1, <4>3 DEF View
        <5> QED
          BY <2>1, <3>5, <4>2, <4>3, <5>1 DEF OrderInv, Consistent
      <4>4. CASE ChangesIn(r) # {}
        <5> DEFINE m == Max(ChangesIn(r))
        <5>1. View(k, r)' = m
          BY <3>4, <4>1, <4>4 DEF View
        <5>2. VersionOf(k, m) = 0
          BY <2>1, <3>5, <5>1 DEF VersionOf
        <5> QED
          BY <4>2, <4>4, <5>2
      <4> QED
        BY <4>3, <4>4
    <3> QED
      BY <3>2, <3>3, <3>5 DEF OrderInv, Consistent
  <2> QED
    BY <2>3, <2>4
<1>2. CASE WriteHistoric
  <2>1. /\ UNCHANGED <<published, activeRules, activeCN>> /\ sync.pc = "historic"
        /\ sync' = [sync EXCEPT !.pc = "save"]
        /\ updatedAt' = [updatedAt EXCEPT ![sync.kind] = [r \in Rules |->
               IF ChangesIn(r) = {} THEN @[r] ELSE Max(ChangesIn(r))]]
    BY <1>2 DEF WriteHistoric
  <2>2. sync'.pc = "save" /\ sync'.previous = sync.previous
    BY <1>0, <2>1
  <2>3. Stage(k)' # "historic"
    BY <2>2 DEF Stage
  <2>4. ASSUME NEW r \in Rules PROVE View(k, r)' = View(k, r)
    <3>1. View(k, r)' = updatedAt'[k][r]
      BY <2>3 DEF View
    <3>2. CASE k = sync.kind
      <4>1. updatedAt'[k][r] = IF ChangesIn(r) = {} THEN updatedAt[k][r] ELSE Max(ChangesIn(r))
        BY <1>0, <2>1, <3>2 DEF Typed, StoresTyped, Within
      <4>2. Stage(k) = "historic"
        BY <2>1, <3>2 DEF Stage
      <4> QED
        BY <3>1, <4>1, <4>2 DEF View
    <3>3. CASE k # sync.kind
      <4>1. updatedAt'[k][r] = updatedAt[k][r]
        BY <1>0, <2>1, <3>3 DEF Typed, StoresTyped, Within
      <4>2. Stage(k) # "historic"
        BY <3>3, StageIs
      <4> QED
        BY <3>1, <4>1, <4>2 DEF View
    <3> QED
      BY <3>2, <3>3
  <2>5. sync'.previous[k] <= activeCN[k]
    BY <2>1, <2>2 DEF OrderInv
  <2> QED
    BY <1>0, <2>1, <2>3, <2>4, <2>5, OrderKept
<1> QED
  BY <1>1, <1>2

LEMMA OrderPublishes ==
    ASSUME Typed, NEW k \in RuleKinds, OrderInv(k),
           NEW j \in RuleKinds, NEW c \in History!Change, PublishRule(j, c)
    PROVE  OrderInv(k)'
<1>1. /\ published' = [published EXCEPT ![j] = Append(@, c)]
      /\ UNCHANGED <<activeRules, activeCN, updatedAt, sync>>
  BY DEF PublishRule, storeVars
<1>2. ASSUME NEW i \in RuleKinds, NEW n \in 1..Len(published[i]) PROVE published'[i][n] = published[i][n]
  <2>1. published[i] \in Seq(Log!Change) /\ c \in Log!Change
    BY SameLog DEF Typed, StoresTyped
  <2>2. published'[i] = published[i] \/ published'[i] = Append(published[i], c)
    BY <1>1 DEF Typed, StoresTyped
  <2> QED
    BY <2>1, <2>2
<1>3. ASSUME NEW r \in Rules PROVE View(k, r)' = View(k, r)
  <2>1. ChangesIn(r)' = ChangesIn(r)
    <3>1. sync.kind \in RuleKinds /\ Batch \subseteq 1..Len(published[sync.kind])
      BY DEF Typed, SyncTyped, ChangesTyped, Batch
    <3>2. Batch' = Batch /\ sync'.kind = sync.kind
      BY <1>1 DEF Batch
    <3>3. \A n \in Batch : published'[sync.kind][n] = published[sync.kind][n]
      BY <1>2, <3>1
    <3> QED
      BY <3>2, <3>3 DEF ChangesIn
  <2>2. Stage(k)' = Stage(k) /\ updatedAt'[k][r] = updatedAt[k][r]
    BY <1>1 DEF Stage
  <2> QED
    BY <2>1, <2>2 DEF View
<1>4. /\ sync'.pc # "idle" => sync'.previous[k] <= activeCN[k]
      /\ Stage(k)' = "historic" => Stage(k) = "historic" /\ sync'.previous = sync.previous
  BY <1>1 DEF OrderInv, Stage
<1> QED
  BY <1>1, <1>2, <1>3, <1>4, OrderKept

\* A kill replaces one version that is served by another.
LEMMA OrderKills ==
    ASSUME Typed, NEW k \in RuleKinds, OrderInv(k), NEW n, KillRule(n)
    PROVE  OrderInv(k)'
<1> DEFINE q == published["flags"][n].name
<1>1. /\ UNCHANGED <<published, activeCN, updatedAt, sync>>
      /\ activeRules["flags"][q] \in 1..n - 1 /\ n \in 1..Len(published["flags"])
      /\ activeRules' = [activeRules EXCEPT !["flags"][q] = n]
  BY DEF KillRule
<1>2. \A r \in Rules : View(k, r)' = View(k, r)
  BY <1>1, ViewKept
<1>3. ASSUME NEW r \in Rules, activeRules[k][r] = 0 PROVE activeRules'[k][r] = 0
  <2>1. ~(k = "flags" /\ r = q)
    BY <1>1, <1>3
  <2> HIDE DEF q
  <2> QED
    BY <1>1, <1>3, <2>1 DEF Typed, StoresTyped, Within
<1>4. ASSUME NEW r \in Rules, View(k, r)' # 0, ~published'[k][View(k, r)'].active PROVE activeRules'[k][r] = 0
  <2>1. activeRules[k][r] = 0
    BY <1>1, <1>2, <1>4 DEF OrderInv, Consistent
  <2> QED
    BY <1>3, <2>1
<1>5. Stage(k)' = Stage(k)
  BY <1>1 DEF Stage
<1> QED
  BY <1>1, <1>4, <1>5 DEF OrderInv, Consistent

LEMMA OrderStarts ==
    ASSUME Typed, NEW k \in RuleKinds, StartBlank \/ StartFromBackup
    PROVE  OrderInv(k)'
<1>1. PICK records, cn, served : StartFrom(records, cn, served) /\ (records = NoRules \/ records = backup)
  BY DEF StartBlank, StartFromBackup
<1>2. /\ UNCHANGED published /\ updatedAt' = activeRules' /\ sync' = NoSync
      /\ activeRules' = [j \in RuleKinds |-> [r \in Rules |->
                  IF records[j][r] = 0 THEN 0 ELSE VersionOf(j, records[j][r])]]
  BY <1>1 DEF StartFrom
<1>3. sync'.pc = "idle" /\ Stage(k)' = "off"
  BY <1>2 DEF NoSync, Stage
<1>4. \A r \in Rules : View(k, r)' = activeRules'[k][r]
  BY <1>2, <1>3 DEF View
<1>5. ASSUME NEW r \in Rules, activeRules'[k][r] # 0 PROVE published'[k][activeRules'[k][r]].active
  BY <1>2, <1>5 DEF VersionOf
<1> QED
  BY <1>3, <1>4, <1>5 DEF OrderInv, Consistent

LEMMA OrderStep ==
    ASSUME IInv, NEW k \in RuleKinds, OrderInv(k), [RulesNext]_rulesVars
    PROVE  OrderInv(k)'
<1>0. Typed
  BY DEF IInv
<1>1. CASE \/ UNCHANGED rulesVars
           \/ EvictKilled \/ HandleSplits \/ ServeRules \/ HitSplits \/ ExportRules
  <2>1. UNCHANGED <<published, activeRules, activeCN, updatedAt, sync>>
    BY <1>1 DEF rulesVars, storeVars, EvictKilled, HandleSplits, ServeRules, ReadSnapshotCN, ReadSnapshot,
         SinceIsTooOld, ReadViews, FetchRuleVersions, FetchFromBackendSince, BackendFails, Respond, HitSplits,
         ExportRules, Untouched
  <2>2. \A r \in Rules : View(k, r)' = View(k, r)
    BY <2>1, ViewKept
  <2>3. /\ sync'.pc # "idle" => sync'.previous[k] <= activeCN[k]
        /\ Stage(k)' = "historic" => Stage(k) = "historic" /\ sync'.previous = sync.previous
    BY <2>1 DEF OrderInv, Stage
  <2> QED
    BY <1>0, <2>1, <2>2, <2>3, OrderKept
<1>2. CASE \E j \in RuleKinds, c \in History!Change : PublishRule(j, c)
  BY <1>0, <1>2, OrderPublishes
<1>3. CASE SyncRules \/ FetchWorks \/ FetchFails
  BY <1>0, <1>3, OrderTurns, OrderWrites DEF SyncRules, FetchWorks
<1>4. CASE \E n \in 1..MaxRuleCN : KillRule(n)
  BY <1>0, <1>4, OrderKills
<1>5. CASE StartBlank \/ StartFromBackup
  BY <1>0, <1>5, OrderStarts
<1> QED
  BY <1>1, <1>2, <1>3, <1>4, <1>5 DEF RulesNext

-----------------------------------------------------------------------------
(* What the answers have                                                   *)

\* A settled storage is not between snapshot and summaries.
LEMMA SettledIs ==
    ASSUME IInv, NEW k \in RuleKinds, OrderInv(k), Settled(k)
    PROVE  /\ Stage(k) # "historic"
           /\ \A r \in Rules : updatedAt[k][r] = 0 \/ updatedAt[k][r] <= activeCN[k]
<1>1. Typed
  BY DEF IInv
<1>2. Stage(k) # "historic"
  <2>1. ASSUME Stage(k) = "historic" PROVE FALSE
    <3>1. sync.pc # "idle" /\ sync.previous[k] < activeCN[k]
      BY <2>1, StageIs DEF OrderInv
    <3>2. activeCN[k] = sync.previous[k]
      BY <3>1 DEF Settled
    <3> QED
      BY <1>1, <3>1, <3>2, PointsAre
  <2> QED
    BY <2>1
<1>3. PICK h : KindAt(k, h)
  BY DEF IInv, KindInv
<1> DEFINE s == Storage(k)
<1>4. Sound(s, h) /\ s.stage = Stage(k) /\ s.cn = activeCN[k] /\ s.at = updatedAt[k]
  BY <1>1, <1>3, StorageIs DEF KindAt
<1> HIDE DEF s
<1>5. \A r \in Rules : s.at[r] = 0 \/ s.at[r] <= s.cn
  BY <1>2, <1>4 DEF Sound
<1> QED
  BY <1>2, <1>4, <1>5

\* A step that writes nothing of a settled kind and leaves answers alone.
LEMMA AnswersKept ==
    ASSUME NEW k, AnswersInv(k), UNCHANGED <<cache, flight>>,
           Settled(k)' => /\ Settled(k) /\ activeRules'[k] = activeRules[k]
                          /\ activeCN'[k] = activeCN[k] /\ updatedAt'[k] = updatedAt[k]
    PROVE  AnswersInv(k)'
<1> SUFFICES ASSUME Settled(k)'
             PROVE  /\ \A e \in cache : e.late \/ Fresh(k, e.body[k])'
                    /\ flight.late \/ ReadFresh(k)'
  BY DEF AnswersInv
<1>1. /\ activeRules'[k] = activeRules[k] /\ activeCN'[k] = activeCN[k] /\ updatedAt'[k] = updatedAt[k]
      /\ \A e \in cache : e.late \/ Fresh(k, e.body[k])
      /\ flight.late \/ ReadFresh(k)
  BY DEF AnswersInv
<1>2. \A till : Seen(k, till) => Seen(k, till)'
  BY <1>1 DEF Seen
<1>3. ASSUME NEW b, Fresh(k, b) PROVE Fresh(k, b)'
  BY <1>1, <1>2, <1>3 DEF Fresh
<1>4. \A e \in cache : e.late \/ Fresh(k, e.body[k])'
  BY <1>1, <1>3
<1>5. ReadFresh(k) => ReadFresh(k)'
  BY <1>1, <1>2, <1>3 DEF ReadFresh, Done, Reading
<1> QED
  BY <1>1, <1>4, <1>5

\* An eviction leaves nothing in the cache, and requests that are late or have
\* read nothing.
NothingRead == flight.pc \in {"idle", "begin"} /\ flight.kind = "flags"

LEMMA AnswersGone ==
    ASSUME NEW k, cache' = {}, flight'.late \/ NothingRead'
    PROVE  AnswersInv(k)'
<1>1. NothingRead' => ReadFresh(k)'
  BY DEF NothingRead, ReadFresh, Done, Reading
<1> QED
  BY <1>1 DEF AnswersInv

LEMMA EvictedIs ==
    ASSUME IInv, EvictSplits
    PROVE  cache' = {} /\ (flight'.late \/ NothingRead')
<1>1. flight = [pc |-> flight.pc, kind |-> flight.kind, key |-> flight.key, old |-> flight.old,
                body |-> flight.body, late |-> flight.late]
  BY DEF IInv, Typed, FlightTyped
<1>2. CASE flight' = flight
  <2>1. flight.late \/ NothingRead
    <3>1. flight.pc = "idle" => flight.kind = "flags"
      BY DEF IInv, FlightInv, NoFlight
    <3>2. \/ flight.pc \in {"idle", "begin"} /\ flight.kind = "flags"
          \/ flight' = [flight EXCEPT !.late = TRUE]
      BY <3>1 DEF EvictSplits
    <3> QED
      BY <1>1, <1>2, <3>2 DEF NothingRead
  <2> QED
    BY <1>2, <2>1 DEF EvictSplits, NothingRead
<1>3. CASE flight' = [flight EXCEPT !.late = TRUE]
  BY <1>1, <1>3 DEF EvictSplits
<1> QED
  BY <1>2, <1>3 DEF EvictSplits

\* Steps of the backend, the synchronizer, kills, exports and starts.
LEMMA AnswersWhileStored ==
    ASSUME IInv, NEW k \in RuleKinds, OrderInv(k), AnswersInv(k),
           \/ UNCHANGED rulesVars
           \/ \E j \in RuleKinds, c \in History!Change : PublishRule(j, c)
           \/ SyncRules \/ FetchWorks \/ FetchFails
           \/ (\E n \in 1..MaxRuleCN : KillRule(n)) \/ EvictKilled
           \/ HitSplits \/ ExportRules \/ StartBlank \/ StartFromBackup
    PROVE  AnswersInv(k)'
<1>0. Typed
  BY DEF IInv
<1>1. CASE \/ UNCHANGED rulesVars
           \/ \E j \in RuleKinds, c \in History!Change : PublishRule(j, c)
           \/ HitSplits \/ ExportRules
  <2>1. UNCHANGED <<activeRules, activeCN, updatedAt, sync, killing, cache, flight>>
    BY <1>1 DEF rulesVars, storeVars, PublishRule, HitSplits, ExportRules
  <2> QED
    BY <2>1, AnswersKept DEF Settled
<1>2. CASE \/ BeginSync \/ FetchRules \/ NothingNew \/ FetchFails \/ StartingPoint
           \/ \E n \in 1..MaxRuleCN : SaveRule(n)
  <2>1. /\ UNCHANGED <<published, activeRules, activeCN, updatedAt, killing>>
        /\ sync'.pc # "idle" /\ sync.pc # "idle" => sync'.previous = sync.previous
    BY <1>0, <1>2, OrderTurns
  <2>2. UNCHANGED <<cache, flight>> /\ (sync'.pc # "idle" \/ sync.pc = "idle")
    <3>1. sync = [pc |-> sync.pc, kind |-> sync.kind, changes |-> sync.changes, previous |-> sync.previous]
      BY <1>0 DEF Typed, SyncTyped
    <3>2. CASE BeginSync
      BY <3>2 DEF BeginSync
    <3>3. CASE FetchRules \/ NothingNew \/ FetchFails
      BY <3>1, <3>3 DEF FetchRules, NothingNew, FetchFails
    <3>4. CASE StartingPoint
      BY <3>1, <3>4 DEF StartingPoint, AfterKind
    <3>5. CASE \E n \in 1..MaxRuleCN : SaveRule(n)
      <4>1. PICK n \in 1..MaxRuleCN : SaveRule(n)
        BY <3>5
      <4>2. UNCHANGED <<cache, flight>> /\ sync.pc = "save"
        BY <4>1 DEF SaveRule
      <4>3. sync'.pc # "idle"
        <5>1. CASE Batch = {n}
          <6>1. sync' = AfterKind
            BY <1>0, <4>1, <5>1, SaveRuleIs
          <6> QED
            BY <3>1, <6>1 DEF AfterKind
        <5>2. CASE Batch # {n}
          <6>1. PICK q, c : sync' = [pc |-> "save", kind |-> q, changes |-> c, previous |-> sync.previous]
            BY <1>0, <4>1, <5>2, SaveRuleIs
          <6> QED
            BY <6>1
        <5> QED
          BY <5>1, <5>2
      <4> QED
        BY <4>2, <4>3
    <3> QED
      BY <1>2, <3>2, <3>3, <3>4, <3>5
  <2>3. Settled(k)' => Settled(k)
    BY <2>1, <2>2 DEF Settled
  <2> QED
    BY <2>1, <2>2, <2>3, AnswersKept
<1>3. CASE EndSync
  <2>1. UNCHANGED <<activeRules, activeCN, updatedAt, killing>> /\ sync.pc = "evict"
    BY <1>3 DEF EndSync, storeVars
  <2>2. CASE Moved
    <3>1. EvictSplits
      BY <1>3, <2>2 DEF EndSync
    <3> QED
      BY <3>1, EvictedIs, AnswersGone
  <2>3. CASE ~Moved
    <3>1. UNCHANGED <<cache, flight>>
      BY <1>3, <2>3 DEF EndSync
    <3>2. activeCN[k] = sync.previous[k]
      BY <1>0, <2>1, <2>3, PointsAre DEF Moved, OrderInv
    <3>3. Settled(k)' => Settled(k)
      BY <2>1, <3>2 DEF Settled
    <3> QED
      BY <2>1, <3>1, <3>3, AnswersKept
  <2> QED
    BY <2>2, <2>3
<1>4. CASE WriteSnapshot \/ WriteHistoric
  <2>1. UNCHANGED <<cache, flight, killing>>
    BY <1>4 DEF WriteSnapshot, WriteHistoric
  <2>2. OrderInv(k)'
    BY <1>4, OrderWrites
  <2>3. sync.pc # "idle" /\ sync'.pc # "idle" /\ sync'.previous = sync.previous /\ sync.kind \in RuleKinds
    <3>1. sync = [pc |-> sync.pc, kind |-> sync.kind, changes |-> sync.changes, previous |-> sync.previous]
          /\ sync.kind \in RuleKinds
      BY <1>0 DEF Typed, SyncTyped
    <3>2. CASE WriteSnapshot
      BY <3>1, <3>2 DEF WriteSnapshot
    <3>3. CASE WriteHistoric
      BY <3>1, <3>3 DEF WriteHistoric
    <3> QED
      BY <1>4, <3>2, <3>3
  <2>4. CASE k # sync.kind
    <3>1. activeRules'[k] = activeRules[k] /\ activeCN'[k] = activeCN[k] /\ updatedAt'[k] = updatedAt[k]
      BY <1>0, <1>4, <2>3, <2>4 DEF WriteSnapshot, WriteHistoric, Typed, StoresTyped, Within, Reached
    <3>2. Settled(k)' => Settled(k)
      BY <2>1, <2>3, <3>1 DEF Settled
    <3> QED
      BY <2>1, <3>1, <3>2, AnswersKept
  <2>5. CASE k = sync.kind
    <3>1. sync.previous[k] < activeCN'[k] /\ activeCN'[k] \in Int
      <4>1. CASE WriteSnapshot
        <5>1. activeCN'[k] = sync.changes[k].till
          BY <1>0, <2>3, <2>5, <4>1 DEF WriteSnapshot, Typed, StoresTyped, Reached
        <5>2. Stage(k)' = "historic"
          <6>1. sync = [pc |-> sync.pc, kind |-> sync.kind, changes |-> sync.changes, previous |-> sync.previous]
            BY <1>0 DEF Typed, SyncTyped
          <6> QED
            BY <2>5, <4>1, <6>1 DEF WriteSnapshot, Stage
        <5>3. sync'.previous[k] < activeCN'[k]
          BY <2>2, <5>2 DEF OrderInv
        <5> QED
          BY <1>0, <2>3, <5>1, <5>3, TillIsInt
      <4>2. CASE WriteHistoric
        <5>1. Stage(k) = "historic" /\ activeCN' = activeCN
          BY <2>5, <4>2 DEF WriteHistoric, Stage
        <5> QED
          BY <1>0, <5>1, PointsAre DEF OrderInv
      <4> QED
        BY <1>4, <4>1, <4>2
    <3>2. ~Settled(k)'
      BY <1>0, <2>3, <3>1, PointsAre DEF Settled
    <3> QED
      BY <3>2 DEF AnswersInv
  <2> QED
    BY <2>4, <2>5
<1>5. CASE \E n \in 1..MaxRuleCN : KillRule(n)
  BY <1>5 DEF KillRule, AnswersInv, Settled
<1>6. CASE EvictKilled
  BY <1>6, EvictedIs, AnswersGone DEF EvictKilled
<1>7. CASE StartBlank \/ StartFromBackup
  <2>1. cache' = {} /\ flight' = NoFlight
    BY <1>7 DEF StartBlank, StartFromBackup, StartFrom
  <2>2. NothingRead'
    BY <2>1 DEF NothingRead, NoFlight
  <2> QED
    BY <2>1, <2>2, AnswersGone
<1> QED
  BY <1>1, <1>2, <1>3, <1>4, <1>5, <1>6, <1>7 DEF SyncRules, FetchWorks

\* The part of an answer that is ready is fresh; so is the other one, if it was ready.
LEMMA AnsweredFresh ==
    ASSUME IInv, flight.pc # "idle", UNCHANGED storeVars, NEW k \in RuleKinds, ReadFresh(k),
           NEW till, NEW got, AnswerTyped(flight.kind, [till |-> till, got |-> got, early |-> till = -1]),
           flight' = Answered(flight.kind, till, got),
           k = flight.kind => Fresh(k, [till |-> till, got |-> got, early |-> till = -1])
    PROVE  ReadFresh(k)'
<1> DEFINE b == [till |-> till, got |-> got, early |-> till = -1]
<1>1. /\ flight'.pc = IF flight.kind = "flags" THEN "begin" ELSE IF flight.old THEN "backend" ELSE "reply"
      /\ flight'.kind = "segments" /\ flight'.old = flight.old
      /\ \A j \in RuleKinds : flight'.body[j] = IF j = flight.kind THEN b ELSE flight.body[j]
  <2> DEFINE f == Answered(flight.kind, till, got)
  <2>1. /\ f = [pc |-> IF flight.kind = "flags" THEN "begin" ELSE IF flight.old THEN "backend" ELSE "reply",
                kind |-> "segments", key |-> flight.key, old |-> flight.old,
                body |-> f.body, late |-> flight.late]
        /\ \A j \in RuleKinds : f.body[j] = IF j = flight.kind THEN b ELSE flight.body[j]
    BY AnsweredIs DEF IInv
  <2>2. flight' = f
    OBVIOUS
  <2> HIDE DEF f, b
  <2> QED
    BY <2>1, <2>2
<1>2. flight.kind \in {"flags", "segments"} /\ k \in {"flags", "segments"}
  BY DEF RuleKinds, IInv, Typed, FlightTyped
<1> HIDE DEF b
<1>3. \A d : Fresh(k, d)' = Fresh(k, d)
  BY DEF storeVars, Fresh, Seen
<1>4. ~Reading(k, "all")' /\ ~Reading(k, "fetch")'
  BY <1>1 DEF Reading
<1>5. ASSUME Done(k)' PROVE Fresh(k, flight'.body[k])
  <2>1. CASE k = flight.kind
    BY <1>1, <2>1 DEF b
  <2>2. CASE k # flight.kind
    <3>1. Done(k)
      BY <1>1, <1>2, <1>5, <2>2 DEF Done
    <3> QED
      BY <1>1, <2>2, <3>1 DEF ReadFresh
  <2> QED
    BY <2>1, <2>2
<1>6. Done(k)' => Fresh(k, flight.body[k])'
  <2>1. Fresh(k, flight.body[k])' <=> Fresh(k, flight'.body[k])
    BY DEF storeVars, Fresh, Seen
  <2> QED
    BY <1>5, <2>1
<1> QED
  BY <1>4, <1>6 DEF ReadFresh

\* The part of a request that is not being read.
LEMMA OtherFresh ==
    ASSUME flight.pc # "idle", flight.pc # "reply", UNCHANGED storeVars, NEW k \in RuleKinds, ReadFresh(k),
           flight'.pc # "reply", flight'.kind = flight.kind, flight'.old = flight.old,
           k # flight.kind, flight'.body[k] = flight.body[k]
    PROVE  ReadFresh(k)'
<1>1. ~Reading(k, "all")' /\ ~Reading(k, "fetch")'
  BY DEF Reading
<1>2. Done(k)' => Done(k)
  BY DEF Done
<1>3. Fresh(k, flight.body[k])' <=> Fresh(k, flight.body[k])
  BY DEF storeVars, Fresh, Seen
<1> QED
  BY <1>1, <1>2, <1>3 DEF ReadFresh

\* What the steps of a request that are about the summaries leave behind.
LEMMA ReadStepIs ==
    ASSUME IInv, ReadSnapshotCN \/ ReadViews
    PROVE  LET j == flight.kind IN
           /\ j \in RuleKinds /\ flight'.kind = j /\ flight'.old = flight.old
           /\ \A i \in RuleKinds : i # j => flight'.body[i] = flight.body[i]
           /\ ReadSnapshotCN => flight'.pc = "all" /\ flight'.body[j].till = activeCN[j]
           /\ ReadViews => /\ flight'.pc = "fetch"
                           /\ flight'.body[j].till
                                = Max({flight.key[j]} \cup {updatedAt[j][r] : r \in NewerThan(j, flight.key[j])})
                           /\ DOMAIN flight'.body[j].got = NewerThan(j, flight.key[j])
                           /\ \A r \in NewerThan(j, flight.key[j]) :
                                 flight'.body[j].got[r] = VersionOf(j, updatedAt[j][r])
<1> DEFINE j == flight.kind
<1>1. /\ flight = [pc |-> flight.pc, kind |-> flight.kind, key |-> flight.key, old |-> flight.old,
                   body |-> flight.body, late |-> flight.late]
      /\ j \in RuleKinds /\ flight.body = [i \in RuleKinds |-> flight.body[i]]
      /\ AnswerTyped(j, flight.body[j])
  BY DEF IInv, Typed, FlightTyped, BodyTyped
<1>2. flight.body[j] = [till |-> flight.body[j].till, got |-> flight.body[j].got, early |-> flight.body[j].early]
  BY <1>1 DEF AnswerTyped
<1>3. ReadSnapshotCN => flight' = [flight EXCEPT !.pc = "all", !.body[j].till = activeCN[j]]
  BY DEF ReadSnapshotCN
<1> DEFINE newer == NewerThan(j, flight.key[j])
           till == Max({flight.key[j]} \cup {updatedAt[j][r] : r \in newer})
           got == [r \in newer |-> VersionOf(j, updatedAt[j][r])]
           b == [till |-> till, got |-> got, early |-> FALSE]
<1>4. ReadViews => flight' = [flight EXCEPT !.pc = "fetch", !.body[j] = b]
  BY DEF ReadViews
<1>5. b.till = till /\ b.got = got /\ DOMAIN got = newer /\ \A r \in newer : got[r] = VersionOf(j, updatedAt[j][r])
  OBVIOUS
<1> HIDE DEF b, till, got, newer
<1>6. ASSUME ReadSnapshotCN
      PROVE  /\ flight'.kind = j /\ flight'.old = flight.old
             /\ \A i \in RuleKinds : i # j => flight'.body[i] = flight.body[i]
             /\ flight'.pc = "all" /\ flight'.body[j].till = activeCN[j]
  <2>1. flight' = [flight EXCEPT !.pc = "all", !.body[j].till = activeCN[j]]
    BY <1>3, <1>6
  <2>2. flight'.kind = j /\ flight'.old = flight.old /\ flight'.pc = "all"
        /\ flight'.body = [flight.body EXCEPT ![j].till = activeCN[j]]
    BY <1>1, <2>1
  <2>3. \A i \in RuleKinds : i # j => flight'.body[i] = flight.body[i]
    BY <1>1, <2>2
  <2>4. flight'.body[j].till = activeCN[j]
    BY <1>1, <1>2, <2>2
  <2> QED
    BY <2>2, <2>3, <2>4
<1>7. ASSUME ReadViews
      PROVE  /\ flight'.kind = j /\ flight'.old = flight.old
             /\ \A i \in RuleKinds : i # j => flight'.body[i] = flight.body[i]
             /\ flight'.pc = "fetch" /\ flight'.body[j] = b
  <2>1. flight' = [flight EXCEPT !.pc = "fetch", !.body[j] = b]
    BY <1>4, <1>7
  <2>2. flight'.kind = j /\ flight'.old = flight.old /\ flight'.pc = "fetch"
        /\ flight'.body = [flight.body EXCEPT ![j] = b]
    BY <1>1, <2>1
  <2> QED
    BY <1>1, <2>2
<1>8. ~(ReadSnapshotCN /\ ReadViews)
  BY DEF ReadSnapshotCN, ReadViews
<1> QED
  BY <1>1, <1>5, <1>6, <1>7, <1>8 DEF till, newer

LEMMA SnapshotFresh ==
    ASSUME IInv, ReadSnapshotCN \/ ReadSnapshot, NEW k \in RuleKinds, OrderInv(k), Settled(k), ReadFresh(k)
    PROVE  ReadFresh(k)'
<1>0. flight.pc # "idle" /\ flight.pc # "reply" /\ UNCHANGED storeVars /\ Typed
  BY DEF ReadSnapshotCN, ReadSnapshot, Untouched, IInv
<1>1. CASE ReadSnapshotCN
  <2>1. /\ flight'.pc = "all" /\ flight'.kind = flight.kind /\ flight'.old = flight.old
        /\ flight'.body[flight.kind].till = activeCN[flight.kind]
        /\ \A i \in RuleKinds : i # flight.kind => flight'.body[i] = flight.body[i]
    BY <1>1, ReadStepIs
  <2>2. CASE k # flight.kind
    BY <1>0, <2>1, <2>2, OtherFresh
  <2>3. CASE k = flight.kind
    <3>1. ~Reading(k, "fetch")' /\ ~Done(k)'
      <4>1. ~(flight.kind = "segments" /\ k = "flags")
        BY <2>3
      <4> QED
        BY <2>1, <4>1 DEF Reading, Done
    <3>2. flight'.body[k].till = activeCN'[k]
      BY <1>0, <2>1, <2>3 DEF storeVars
    <3> QED
      BY <3>1, <3>2 DEF ReadFresh
  <2> QED
    BY <2>2, <2>3
<1>2. CASE ReadSnapshot
  <2> DEFINE j == flight.kind
             served == {r \in Rules : activeRules[j][r] # 0}
             got == [r \in served |-> activeRules[j][r]]
             till == flight.body[j].till
             b == [till |-> till, got |-> got, early |-> till = -1]
  <2>1. flight' = Answered(j, till, got) /\ flight.pc = "all"
    BY <1>2 DEF ReadSnapshot
  <2>2. AnswerTyped(j, flight.body[j]) /\ j \in RuleKinds
    BY DEF IInv, Typed, FlightTyped, BodyTyped
  <2>3. AnswerTyped(j, b)
    <3>1. till \in -1..Len(published[j]) /\ Len(published[j]) \in Nat
      BY <2>2 DEF AnswerTyped, IInv, Typed, StoresTyped
    <3>2. \A r \in Rules : activeRules[j][r] \in 0..Len(published[j])
      BY <2>2, <3>1 DEF IInv, Typed, StoresTyped, Within
    <3> QED
      BY <3>1, <3>2 DEF AnswerTyped
  <2>4. ASSUME k = j PROVE Fresh(k, b)
    <3>1. till = activeCN[k]
      BY <2>1, <2>4 DEF ReadFresh, Reading
    <3>2. Seen(k, till)
      BY <3>1, SettledIs DEF Seen
    <3>3. b.till = till /\ DOMAIN b.got \subseteq Rules /\ \A r \in DOMAIN b.got : b.got[r] = activeRules[k][r]
      BY <2>4
    <3> HIDE DEF b, till
    <3>4. \A r \in DOMAIN b.got : b.got[r] >= activeRules[k][r]
      BY <1>0, <3>3, PointsAre
    <3> QED
      BY <3>2, <3>3, <3>4 DEF Fresh
  <2> HIDE DEF till, got
  <2> QED
    BY <1>0, <2>1, <2>3, <2>4, AnsweredFresh
<1> QED
  BY <1>1, <1>2

LEMMA SinceIsTooOldFresh ==
    ASSUME IInv, SinceIsTooOld, NEW k \in RuleKinds, ReadFresh(k)
    PROVE  ReadFresh(k)'
<1> DEFINE j == flight.kind
<1>0. flight.pc = "begin" /\ UNCHANGED storeVars
  BY DEF SinceIsTooOld, Untouched
<1>1. /\ flight = [pc |-> flight.pc, kind |-> flight.kind, key |-> flight.key, old |-> flight.old,
                   body |-> flight.body, late |-> flight.late]
      /\ j \in RuleKinds
  BY DEF IInv, Typed, FlightTyped
<1>2. CASE flight.key[j] < oldestKnownCN[j]
  <2> DEFINE f == Answered(j, -1, <<>>)
  <2>1. flight' = [f EXCEPT !.old = TRUE, !.pc = IF j = "flags" THEN "begin" ELSE "backend"]
    BY <1>2 DEF SinceIsTooOld
  <2>2. AnswerTyped(j, [till |-> -1, got |-> <<>>, early |-> -1 = -1])
    BY IdleTyped DEF IInv, Typed, StoresTyped, FlightTyped
  <2>3. f = [pc |-> IF j = "flags" THEN "begin" ELSE IF flight.old THEN "backend" ELSE "reply",
             kind |-> "segments", key |-> flight.key, old |-> flight.old, body |-> f.body, late |-> flight.late]
    BY <2>2, AnsweredIs DEF IInv
  <2>4. flight'.old = TRUE /\ flight'.pc \in {"begin", "backend"}
    <3> HIDE DEF f
    <3>1. PICK p, c : f = [pc |-> p, kind |-> "segments", key |-> flight.key, old |-> flight.old,
                           body |-> c, late |-> flight.late]
      BY <2>3
    <3> QED
      BY <2>1, <3>1
  <2> QED
    BY <2>4 DEF ReadFresh, Reading, Done
<1>3. CASE ~(flight.key[j] < oldestKnownCN[j])
  <2>1. flight' = [flight EXCEPT !.pc = "historic"]
    BY <1>3 DEF SinceIsTooOld
  <2>2. flight'.pc = "historic" /\ flight'.kind = j /\ flight'.old = flight.old /\ flight'.body = flight.body
    BY <1>1, <2>1
  <2>3. CASE k # j
    BY <1>0, <2>2, <2>3, OtherFresh
  <2>4. CASE k = j
    <3>1. ~(flight.kind = "segments" /\ k = "flags")
      BY <2>4
    <3> QED
      BY <2>2, <3>1 DEF ReadFresh, Reading, Done
  <2> QED
    BY <2>3, <2>4
<1> QED
  BY <1>2, <1>3

LEMMA ReadViewsFresh ==
    ASSUME IInv, ReadViews, NEW k \in RuleKinds, OrderInv(k), Settled(k), ReadFresh(k)
    PROVE  ReadFresh(k)'
<1> DEFINE j == flight.kind
           t == flight.key[j]
           newer == NewerThan(j, t)
           till == Max({t} \cup {updatedAt[j][r] : r \in newer})
<1>0. flight.pc = "historic" /\ UNCHANGED storeVars /\ UNCHANGED published /\ Typed
  BY DEF ReadViews, IInv
<1>1. /\ j \in RuleKinds /\ flight'.kind = j /\ flight'.old = flight.old /\ flight'.pc = "fetch"
      /\ \A i \in RuleKinds : i # j => flight'.body[i] = flight.body[i]
      /\ flight'.body[j].till = till /\ DOMAIN flight'.body[j].got = newer
      /\ \A r \in newer : flight'.body[j].got[r] = VersionOf(j, updatedAt[j][r])
  BY ReadStepIs
<1>2. CASE k # j
  BY <1>0, <1>1, <1>2, OtherFresh
<1>3. CASE k = j
  <2>1. t \in Nat /\ t <= Len(published[k])
    BY <1>0, <1>3 DEF IInv, Typed, FlightTyped, Reached
  <2>2. newer = {r \in Rules : updatedAt[k][r] > t} /\ \A r \in Rules : updatedAt[k][r] <= till
    BY <1>0, <1>3, <2>1, ViewsAre
  <2> HIDE DEF till, newer
  <2> DEFINE read == flight.body[k]
  <2>6. read'.till = till /\ DOMAIN read'.got = newer /\ updatedAt' = updatedAt
    BY <1>0, <1>1, <1>3 DEF storeVars
  <2>3. Seen(k, read.till)'
    <3>1. \A r \in Rules : updatedAt'[k][r] <= read'.till
      BY <2>2, <2>6
    <3> QED
      BY <3>1 DEF Seen
  <2>4. ASSUME NEW r \in newer, flight'.body[k].got[r] = 0 PROVE activeRules'[k][r] = 0
    <3>1. r \in Rules /\ updatedAt[k][r] # 0
      <4>1. updatedAt[k][r] > t /\ r \in Rules
        BY <2>2
      <4> QED
        BY <1>0, <2>1, <4>1, PointsAre
    <3>2. VersionOf(k, updatedAt[k][r]) = 0
      BY <1>1, <1>3, <2>4
    <3>3. ~published[k][updatedAt[k][r]].active
      BY <3>1, <3>2 DEF VersionOf
    <3>4. View(k, r) = updatedAt[k][r]
      BY SettledIs DEF View
    <3>5. activeRules[k][r] = 0
      BY <3>1, <3>3, <3>4 DEF OrderInv, Consistent
    <3> QED
      BY <1>0, <3>5 DEF storeVars
  <2>5. ~Reading(k, "all")' /\ ~Done(k)'
    <3>1. ~(flight.kind = "segments" /\ k = "flags")
      BY <1>3
    <3> QED
      BY <1>1, <3>1 DEF Reading, Done
  <2> QED
    <3>1. \A r \in DOMAIN read'.got : read'.got[r] = 0 => activeRules'[k][r] = 0
      BY <2>4, <2>6
    <3>2. Seen(k, read.till)' /\ ~Reading(k, "all")' /\ ~Done(k)'
      BY <2>3, <2>5
    <3> QED
      BY <3>1, <3>2 DEF ReadFresh
<1> QED
  BY <1>2, <1>3

LEMMA FetchRuleVersionsFresh ==
    ASSUME IInv, FetchRuleVersions, NEW k \in RuleKinds, ReadFresh(k)
    PROVE  ReadFresh(k)'
<1> DEFINE j == flight.kind
           c == flight.body[j]
           sent == {r \in DOMAIN c.got : c.got[r] = 0 \/ activeRules[j][r] # 0}
           got == [r \in sent |-> IF c.got[r] = 0 THEN 0 ELSE activeRules[j][r]]
           till == c.till
           d == [till |-> till, got |-> got, early |-> till = -1]
<1>0. /\ flight.pc = "fetch" /\ flight.pc # "idle" /\ UNCHANGED storeVars /\ Typed
      /\ flight' = Answered(j, till, got)
  BY DEF FetchRuleVersions, Untouched, IInv
<1>1. AnswerTyped(j, c) /\ j \in RuleKinds
  BY DEF IInv, Typed, FlightTyped, BodyTyped
<1>2. AnswerTyped(j, d)
  <2>1. c.till \in -1..Len(published[j]) /\ Len(published[j]) \in Nat /\ DOMAIN c.got \subseteq Rules
    BY <1>1 DEF AnswerTyped, IInv, Typed, StoresTyped
  <2>2. \A r \in Rules : activeRules[j][r] \in 0..Len(published[j])
    BY <1>1, <2>1 DEF IInv, Typed, StoresTyped, Within
  <2>3. sent \subseteq Rules /\ \A r \in sent : got[r] \in 0..Len(published[j])
    BY <2>1, <2>2
  <2>4. DOMAIN got = sent /\ got = [r \in DOMAIN got |-> got[r]]
    OBVIOUS
  <2> HIDE DEF c, sent, got
  <2> QED
    BY <1>1, <2>1, <2>3, <2>4 DEF AnswerTyped
<1>3. ASSUME k = j PROVE Fresh(k, d)
  <2>1. Seen(k, till) /\ \A r \in DOMAIN c.got : c.got[r] = 0 => activeRules[k][r] = 0
    BY <1>0, <1>3 DEF ReadFresh, Reading
  <2>2. DOMAIN c.got \subseteq Rules
    BY <1>1 DEF AnswerTyped
  <2>3. \A r \in sent : got[r] >= activeRules[k][r]
    BY <1>0, <1>3, <2>1, <2>2, PointsAre
  <2>4. d.till = till /\ d.got = got /\ DOMAIN got = sent
    OBVIOUS
  <2> HIDE DEF c, sent, got, till, d
  <2> QED
    BY <2>1, <2>3, <2>4 DEF Fresh
<1> HIDE DEF till, got
<1> QED
  BY <1>0, <1>2, <1>3, AnsweredFresh

\* The backend has everything.
LEMMA BackendFresh ==
    ASSUME IInv, FetchFromBackendSince, NEW k \in RuleKinds
    PROVE  ReadFresh(k)'
<1> DEFINE l == published[k]
           t == flight.key[k]
           b == flight'.body[k]
<1>0. Typed /\ UNCHANGED storeVars /\ t \in -1..Len(l) /\ l \in Seq(Log!Change) /\ Len(l) \in Nat
  BY DEF IInv, FetchFromBackendSince, Untouched, Typed, StoresTyped, FlightTyped, Reached
<1>1. /\ flight'.pc = "reply"
      /\ b = [till |-> TillFrom(k, t),
              got |-> [r \in {l[n].name : n \in History!ChangedSince(l, t)} |-> History!Served(l, r, Len(l))],
              early |-> activeCN[k] = -1]
  <2>1. flight = [pc |-> flight.pc, kind |-> flight.kind, key |-> flight.key, old |-> flight.old,
                  body |-> flight.body, late |-> flight.late]
    BY DEF IInv, Typed, FlightTyped
  <2>2. flight' = [flight EXCEPT !.pc = "reply", !.body = flight'.body]
        /\ b = [till |-> TillFrom(k, t),
                got |-> [r \in {l[n].name : n \in History!ChangedSince(l, t)} |-> History!Served(l, r, Len(l))],
                early |-> activeCN[k] = -1]
    BY <2>1 DEF FetchFromBackendSince
  <2> HIDE DEF b
  <2> QED
    BY <2>1, <2>2
<1>2. TillFrom(k, t) = IF l = <<>> THEN t ELSE Len(l)
  BY <1>0, TillIs
<1>3. DOMAIN b.got = {l[n].name : n \in History!ChangedSince(l, t)}
      /\ \A r \in DOMAIN b.got : b.got[r] = Log!Served(l, r, Len(l))
  BY <1>1, SameLog
<1>4. \A r \in DOMAIN b.got : r \in Rules /\ l # <<>>
  <2>1. History!ChangedSince(l, t) \subseteq 1..Len(l)
    BY <1>0, SameLog, Log!FetchedBatch
  <2>2. \A n \in 1..Len(l) : l[n] \in Log!Change /\ l # <<>>
    BY <1>0
  <2> QED
    BY <1>3, <2>1, <2>2 DEF Log!Change
<1>5. b.till = IF l = <<>> THEN t ELSE Len(l)
  BY <1>1, <1>2
<1>6. Seen(k, b.till)
  <2>1. ASSUME NEW r \in Rules PROVE updatedAt[k][r] = 0 \/ updatedAt[k][r] <= b.till
    <3>1. updatedAt[k][r] \in Nat /\ updatedAt[k][r] <= Len(l) /\ (l = <<>> => Len(l) = 0)
      BY <1>0, PointsAre
    <3> HIDE DEF b, l, t
    <3> QED
      BY <1>5, <3>1
  <2> QED
    BY <2>1 DEF Seen
<1>7. ASSUME activeCN[k] >= b.till, NEW r \in DOMAIN b.got PROVE b.got[r] >= activeRules[k][r]
  <2>1. PICK h : KindAt(k, h)
    BY DEF IInv, KindInv
  <2> DEFINE s == Storage(k)
  <2>2. StorageTyped(s) /\ Sound(s, h) /\ s.log = l /\ s.cn = activeCN[k] /\ s.rules = activeRules[k]
    BY <1>0, <2>1, StorageIs DEF KindAt
  <2> HIDE DEF s, l, b, t
  <2>3. r \in Rules /\ s.cn >= Len(l)
    BY <1>4, <1>5, <1>7, <2>2
  <2>4. s.rules[r] \in Nat /\ s.cn \in Int
    BY <2>2, <2>3, SoundIs
  <2>5. b.got[r] = IF Log!Current(s.log, r) = 0 \/ Log!Archived(s.log, r) THEN 0 ELSE Log!Current(s.log, r)
    BY <1>3, <1>7, <2>2, SoundIs
  <2>6. CASE Log!Current(s.log, r) = 0
    <3>1. s.rules[r] = 0
      BY <2>2, <2>3, <2>6 DEF Sound, Log!Known
    <3> QED
      BY <2>2, <2>5, <2>6, <3>1
  <2>7. CASE Log!Current(s.log, r) # 0
    <3>1. Log!Due(s.log, r, s.cn)
      BY <1>0, <2>2, <2>3, <2>4, <2>7, SoundIs DEF Log!Due
    <3>2. s.rules[r] = IF Log!Archived(s.log, r) THEN 0 ELSE Log!Current(s.log, r)
      BY <2>2, <2>3, <3>1, SoundIs
    <3> QED
      BY <2>2, <2>4, <2>5, <2>7, <3>2
  <2> QED
    BY <2>6, <2>7
<1>8. Fresh(k, b)
  <2>1. b.till \in Int /\ activeCN[k] \in Int
    <3>1. t \in Int /\ Len(l) \in Int
      BY <1>0
    <3> HIDE DEF b, l, t
    <3> QED
      BY <1>0, <1>5, <3>1, PointsAre
  <2>2. b.till > activeCN[k] \/ activeCN[k] >= b.till
    BY <2>1
  <2> HIDE DEF b
  <2> QED
    BY <1>6, <1>7, <2>2 DEF Fresh
<1>9. Fresh(k, flight.body[k])' <=> Fresh(k, b)
  BY <1>0 DEF storeVars, Fresh, Seen
<1> QED
  BY <1>1, <1>8, <1>9 DEF ReadFresh, Reading

\* Steps of a request.
LEMMA AnswersWhileServed ==
    ASSUME IInv, NEW k \in RuleKinds, OrderInv(k), AnswersInv(k), HandleSplits \/ ServeRules
    PROVE  AnswersInv(k)'
<1>1. CASE \E own \in BOOLEAN : Respond(own)
  <2>1. /\ flight.pc = "reply" /\ flight' = NoFlight /\ UNCHANGED <<storeVars, sync, killing>>
        /\ cache' = {[key |-> flight.key, body |-> flight.body, late |-> flight.late]}
    BY <1>1 DEF Respond
  <2>2. Settled(k)' => Settled(k)
    BY <2>1 DEF Settled, storeVars
  <2>3. ASSUME Settled(k) PROVE flight.late \/ Fresh(k, flight.body[k])
    BY <2>1, <2>3 DEF AnswersInv, ReadFresh, Done
  <2>4. \A b : Fresh(k, b)' <=> Fresh(k, b)
    BY <2>1 DEF storeVars, Fresh, Seen
  <2>5. ASSUME Settled(k)', NEW e \in cache' PROVE e.late \/ Fresh(k, e.body[k])'
    <3>1. e.late = flight.late /\ e.body = flight.body
      BY <2>1, <2>5
    <3>2. flight.late \/ Fresh(k, e.body[k])
      BY <2>2, <2>3, <2>5, <3>1
    <3> QED
      BY <2>1, <3>1, <3>2 DEF storeVars, Fresh, Seen
  <2>6. ReadFresh(k)'
    BY <2>1 DEF NoFlight, ReadFresh, Done, Reading
  <2> QED
    BY <2>5, <2>6 DEF AnswersInv
<1>2. CASE ~\E own \in BOOLEAN : Respond(own)
  <2>1. UNCHANGED <<storeVars, sync, killing, cache>>
    BY <1>2 DEF HandleSplits, ServeRules, ReadSnapshotCN, ReadSnapshot, SinceIsTooOld, ReadViews,
                FetchRuleVersions, FetchFromBackendSince, BackendFails, Untouched
  <2>2. Settled(k)' => Settled(k)
    BY <2>1 DEF Settled, storeVars
  <2>3. ASSUME Settled(k) PROVE flight'.late \/ ReadFresh(k)'
    <3>1. CASE HandleSplits \/ BackendFails
      <4>1. ASSUME HandleSplits PROVE flight'.pc = "begin" /\ flight'.kind = "flags"
        <5>1. flight' = [NoFlight EXCEPT !.pc = "begin", !.key = sdkCN]
          BY <4>1 DEF HandleSplits
        <5> QED
          BY <5>1 DEF NoFlight
      <4>2. flight'.pc \in {"idle", "begin"} /\ flight'.kind = "flags"
        <5>1. BackendFails => flight'.pc = "idle" /\ flight'.kind = "flags"
          BY DEF BackendFails, NoFlight
        <5> QED
          BY <3>1, <4>1, <5>1
      <4> QED
        BY <4>2 DEF ReadFresh, Done, Reading
    <3>2. CASE ReadSnapshotCN \/ ReadSnapshot \/ SinceIsTooOld \/ ReadViews \/ FetchRuleVersions
               \/ FetchFromBackendSince
      <4>1. flight'.late = flight.late
        BY <3>2, RequestGoesOn
      <4>2. ASSUME ReadFresh(k) PROVE ReadFresh(k)'
        <5>1. CASE ReadSnapshotCN \/ ReadSnapshot
          BY <2>3, <4>2, <5>1, SnapshotFresh
        <5>2. CASE SinceIsTooOld
          BY <4>2, <5>2, SinceIsTooOldFresh
        <5>3. CASE ReadViews
          BY <2>3, <4>2, <5>3, ReadViewsFresh
        <5>4. CASE FetchRuleVersions
          BY <4>2, <5>4, FetchRuleVersionsFresh
        <5>5. CASE FetchFromBackendSince
          BY <5>5, BackendFresh
        <5> QED
          BY <3>2, <5>1, <5>2, <5>3, <5>4, <5>5
      <4> QED
        BY <2>3, <4>1, <4>2 DEF AnswersInv
    <3> QED
      BY <1>2, <3>1, <3>2 DEF ServeRules
  <2>4. ASSUME Settled(k)', NEW e \in cache' PROVE e.late \/ Fresh(k, e.body[k])'
    <3>1. e \in cache /\ Settled(k)
      BY <2>1, <2>2, <2>4
    <3>2. e.late \/ Fresh(k, e.body[k])
      BY <3>1 DEF AnswersInv
    <3> QED
      BY <2>1, <3>2 DEF storeVars, Fresh, Seen
  <2> QED
    BY <2>2, <2>3, <2>4 DEF AnswersInv
<1> QED
  BY <1>1, <1>2

LEMMA FreshStep == IInv /\ FreshInv /\ [RulesNext]_rulesVars => FreshInv'
<1> SUFFICES ASSUME IInv, FreshInv, [RulesNext]_rulesVars, NEW k \in RuleKinds
             PROVE  OrderInv(k)' /\ AnswersInv(k)'
  BY DEF FreshInv
<1>1. OrderInv(k) /\ AnswersInv(k)
  BY DEF FreshInv
<1>2. OrderInv(k)'
  BY <1>1, OrderStep
<1>3. AnswersInv(k)'
  BY <1>1, AnswersWhileStored, AnswersWhileServed DEF RulesNext
<1> QED
  BY <1>2, <1>3

LEMMA FreshInit == RulesInit => FreshInv
<1> SUFFICES ASSUME RulesInit, NEW k \in RuleKinds PROVE OrderInv(k) /\ AnswersInv(k)
  BY DEF FreshInv
<1>1. sync.pc = "idle" /\ Stage(k) = "off" /\ cache = {} /\ flight = NoFlight
  BY DEF RulesInit, NoSync, Stage
<1>2. \A r \in Rules : View(k, r) = 0
  BY <1>1 DEF View, RulesInit, NoRules
<1> QED
  BY <1>1, <1>2 DEF OrderInv, Consistent, AnswersInv, ReadFresh, Done, Reading, NoFlight

\* With no synchronization under way and no kill being applied, a cached answer that
\* was not filed late accounts for all that the storages have of both kinds, also
\* after a synchronization that failed in the middle (workers.go:47-60), as long as
\* snapshot files are whole.
THEOREM OnlyLateRulesAreStale ==
    ASSUME ~ExportMidWrite, ~SavesFail
    PROVE  RulesSpec => []OnlyLateRulesStale
<1>1. RulesInit => IInv /\ FreshInv
  BY IInvInit, FreshInit
<1>2. IInv /\ FreshInv /\ [RulesNext]_rulesVars => (IInv /\ FreshInv)'
  BY IInvStep, FreshStep
<1>3. IInv /\ FreshInv => OnlyLateRulesStale
  <2> SUFFICES ASSUME IInv, FreshInv, sync.pc = "idle", ~killing, NEW e \in cache, ~e.late, NEW k \in RuleKinds
               PROVE  LET b == e.body[k]
                      IN  \/ b.till > activeCN[k]
                          \/ \A r \in Rules : /\ updatedAt[k][r] <= Max({b.till, 0})
                                              /\ r \in DOMAIN b.got => b.got[r] >= activeRules[k][r]
    BY DEF OnlyLateRulesStale
  <2> DEFINE b == e.body[k]
  <2>1. Fresh(k, b)
    BY DEF FreshInv, AnswersInv, Settled
  <2>2. b.till \in Int /\ b.till >= -1
    <3>1. AnswerTyped(k, b)
      BY DEF IInv, Typed, CacheTyped, EntryTyped, BodyTyped
    <3>2. b.till \in -1..Len(published[k]) /\ Len(published[k]) \in Nat
      BY <3>1, PointsAre DEF AnswerTyped, IInv
    <3> HIDE DEF b
    <3> QED
      BY <3>2
  <2> HIDE DEF b
  <2>3. Max({b.till, 0}) = IF b.till = -1 THEN 0 ELSE b.till
    BY <2>2, MaxOfTwo
  <2>4. ASSUME Seen(k, b.till), NEW r \in Rules PROVE updatedAt[k][r] <= Max({b.till, 0})
    <3>1. updatedAt[k][r] \in Nat /\ (updatedAt[k][r] = 0 \/ updatedAt[k][r] <= b.till)
      BY <2>4, PointsAre DEF Seen, IInv
    <3> QED
      BY <2>2, <2>3, <3>1
  <2> QED
    BY <2>1, <2>4 DEF Fresh, b
<1> QED
  BY <1>1, <1>2, <1>3, PTL DEF RulesSpec
=============================================================================
