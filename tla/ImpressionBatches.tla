------------------------- MODULE ImpressionBatches -------------------------
(***************************************************************************)
(* How the workers of the impressions and events tasks make bulks: items   *)
(* of one instance go together, and a new bulk is begun when the last one  *)
(* has grown too large.  Processors and sinkers work side by side and get  *)
(* their buffers from one pool.  An event is an impression of one feature. *)
(***************************************************************************)
EXTENDS Naturals, Sequences, FiniteSets

CONSTANTS
    Impressions, \* what a fetch has brought
    Metadatas,   \* SDK instances
    Features,
    BatchProcessors,
    BulkSize,    \* defaultBulkSize
    Buffers      \* memory for bulks

ASSUME BatchAssumption == BulkSize \in Nat

VARIABLES
    item,        \* the instance and the feature of each item
    todo,        \* items that no processor has looked at
    mode,        \* where each processor is in Process
    groups,      \* the bulks it has made
    index,       \* the last bulk of each instance
    free, used,  \* buffers in the pool, and those that ever left it
    sink,        \* bulks sent and not recycled yet
    told,        \* history: items the listener was given
    lost, posted \* history: items not used, items posted or given up

batchVars == <<item, todo, mode, groups, index, free, used, sink, told, lost, posted>>

ItemsOf(g) == UNION {g.imps[f] : f \in DOMAIN g.imps}
GroupsOf(p) == {groups[p][n] : n \in 1..Len(groups[p])}
Live == sink \cup UNION {GroupsOf(p) : p \in BatchProcessors}

IsGroup(g) ==
    /\ g.metadata \in Metadatas /\ g.count \in Nat /\ g.buffer \in Buffers
    /\ DOMAIN g.imps \subseteq Features /\ ItemsOf(g) \subseteq Impressions

BatchTypeOK ==
    /\ item \in [Impressions -> [metadata : Metadatas, feature : Features]]
    /\ todo \subseteq Impressions /\ lost \subseteq Impressions /\ posted \subseteq Impressions /\ told \subseteq Impressions
    /\ mode \in [BatchProcessors -> {"idle", "add", "send"}]
    /\ \A g \in Live : IsGroup(g)
    /\ \A p \in BatchProcessors : \A m \in DOMAIN index[p] : index[p][m] \in 1..Len(groups[p])
    /\ free \subseteq used /\ used \subseteq Buffers

BatchInit ==
    /\ item \in [Impressions -> [metadata : Metadatas, feature : Features]]
    /\ todo = Impressions
    /\ mode = [p \in BatchProcessors |-> "idle"]
    /\ groups = [p \in BatchProcessors |-> <<>>]
    /\ index = [p \in BatchProcessors |-> <<>>]
    /\ free = {} /\ used = {} /\ sink = {} /\ told = {} /\ lost = {} /\ posted = {}

-----------------------------------------------------------------------------
\* newImpBatches: the map that is taken from the pool is emptied first.
BeginProcess(p) ==
    /\ mode[p] = "idle" /\ todo # {}
    /\ mode' = [mode EXCEPT ![p] = "add"]
    /\ groups' = [groups EXCEPT ![p] = <<>>]
    /\ index' = [index EXCEPT ![p] = <<>>]
    /\ UNCHANGED <<item, todo, free, used, sink, told, lost, posted>>

\* An item that cannot be parsed, or that the impression manager (external) has seen.
Ignore(p, x) ==
    /\ mode[p] = "add" /\ x \in todo
    /\ todo' = todo \ {x} /\ lost' = lost \cup {x}
    /\ UNCHANGED <<item, mode, groups, index, free, used, sink, told, posted>>

\* impsWithMetadata.add
Grown(g, x) ==
    LET f == item[x].feature IN
    [g EXCEPT !.count = @ + 1,
              !.imps = [h \in DOMAIN @ \cup {f} |->
                           (IF h \in DOMAIN @ THEN @[h] ELSE {}) \cup (IF h = f THEN {x} ELSE {})]]

\* Mutant: the test comes one too late.
HasRoomMore(g) == g.count <= BulkSize + 1

\* A bulk is too large only when it is larger than BulkSize.
HasRoom(g) == g.count <= BulkSize

\* impBatches.add: to the last bulk of the instance, or to a new one, whose buffers come
\* from the pool or are new.
Add(p, x) ==
    LET m == item[x].metadata IN
    /\ mode[p] = "add" /\ x \in todo
    /\ todo' = todo \ {x}
    /\ IF m \in DOMAIN index[p] /\ HasRoom(groups[p][index[p][m]])
       THEN /\ groups' = [groups EXCEPT ![p][index[p][m]] = Grown(@, x)]
            /\ UNCHANGED <<index, free, used>>
       ELSE \E b \in free \cup (Buffers \ used) :
               LET new == [metadata |-> m, count |-> 0, imps |-> <<>>, buffer |-> b] IN
               /\ groups' = [groups EXCEPT ![p] = Append(@, Grown(new, x))]
               /\ index' = [index EXCEPT ![p] = [h \in DOMAIN @ \cup {m} |-> IF h = m THEN Len(groups[p]) + 1 ELSE @[h]]]
               /\ free' = free \ {b} /\ used' = used \cup {b}
    /\ UNCHANGED <<item, mode, sink, told, lost, posted>>

\* The listener is given every bulk before the first one is sent.
Tell(p) ==
    /\ mode[p] = "add"
    /\ mode' = [mode EXCEPT ![p] = "send"]
    /\ told' = told \cup UNION {ItemsOf(g) : g \in GroupsOf(p)}
    /\ UNCHANGED <<item, todo, groups, index, free, used, sink, lost, posted>>

\* Mutant: the processor returns the buffers of what it has sent.
SendRecycled(p) ==
    /\ mode[p] = "send" /\ groups[p] # <<>>
    /\ sink' = sink \cup {Head(groups[p])}
    /\ groups' = [groups EXCEPT ![p] = Tail(@)]
    /\ index' = [index EXCEPT ![p] = <<>>]
    /\ free' = free \cup {Head(groups[p]).buffer}
    /\ UNCHANGED <<item, todo, mode, used, told, lost, posted>>

\* Bulks are sent in order; the containers go back to the pool, their contents do not.
Send(p) ==
    /\ mode[p] = "send" /\ groups[p] # <<>>
    /\ sink' = sink \cup {Head(groups[p])}
    /\ groups' = [groups EXCEPT ![p] = Tail(@)]
    /\ index' = [index EXCEPT ![p] = <<>>]
    /\ UNCHANGED <<item, todo, mode, free, used, told, lost, posted>>

EndProcess(p) ==
    /\ mode[p] = "send" /\ groups[p] = <<>>
    /\ mode' = [mode EXCEPT ![p] = "idle"]
    /\ UNCHANGED <<item, todo, groups, index, free, used, sink, told, lost, posted>>

\* The sinker is done with a bulk, whatever became of it, and recycles it.
RecycleBulk(g) ==
    /\ g \in sink
    /\ sink' = sink \ {g}
    /\ posted' = posted \cup ItemsOf(g)
    /\ free' = free \cup {g.buffer}
    /\ UNCHANGED <<item, todo, mode, groups, index, used, told, lost>>

BatchNext ==
    \/ \E p \in BatchProcessors :
          \/ BeginProcess(p) \/ Tell(p) \/ Send(p) \/ EndProcess(p)
          \/ \E x \in Impressions : Add(p, x) \/ Ignore(p, x)
    \/ \E g \in sink : RecycleBulk(g)

BatchSpec == BatchInit /\ [][BatchNext]_batchVars

-----------------------------------------------------------------------------
\* A bulk holds items of one instance, each under its feature, as many as it counts, and
\* at most one more than defaultBulkSize (impressions.go:212 tests before it adds). There
\* are no more bulks than needed: of two bulks of an instance that a processor is making,
\* the earlier is as large as a bulk can be.
BulksAreSound ==
    /\ BatchTypeOK
    /\ \A g \in Live :
          /\ \A f \in DOMAIN g.imps, x \in Impressions :
                x \in g.imps[f] => item[x] = [metadata |-> g.metadata, feature |-> f]
          /\ g.count = Cardinality(ItemsOf(g)) /\ g.count \in 1..(BulkSize + 1)
    /\ \A p \in BatchProcessors : \A k, l \in 1..Len(groups[p]) :
          k < l /\ groups[p][k].metadata = groups[p][l].metadata =>
              groups[p][k].count = BulkSize + 1

\* No buffer is in two bulks, or in a bulk and in the pool, and no item in two bulks, or
\* in a bulk and posted: processors and sinkers do not write over each other's bulks. The
\* listener is given what is sent before it can be recycled.
NothingIsShared ==
    /\ \A g, h \in Live :
          g # h => g.buffer # h.buffer /\ ItemsOf(g) \cap ItemsOf(h) = {}
    /\ \A g \in Live :
          /\ g.buffer \notin free
          /\ ItemsOf(g) \cap (todo \cup lost \cup posted) = {}
    /\ Impressions = todo \cup lost \cup posted \cup UNION {ItemsOf(g) : g \in Live}
    /\ posted \cup UNION {ItemsOf(g) : g \in sink} \subseteq told

=============================================================================
