---------------------------- MODULE RedisOwner -----------------------------
(***************************************************************************)
(* Whose data is in Redis: at every start the synchronizer compares a hash *)
(* of its SDK key, specification and flag sets with the one it finds, and  *)
(* clears Redis when they differ.  It may crash between two commands, and  *)
(* any command may fail.                                                   *)
(***************************************************************************)
CONSTANTS
    Owners,      \* hashes of the configurations the synchronizer is started with
    NoOwner      \* no hash

ASSUME OwnerAssumption == NoOwner \notin Owners

VARIABLES
    phase,       \* of the start
    owner,       \* the configuration of the running synchronizer
    stored,      \* the hash in Redis
    data,        \* whose data is in Redis
    tainted      \* history: since the last time Redis was cleared, a command of a start
                 \* failed, other than storing the hash

ownerVars == <<phase, owner, stored, data, tainted>>

OwnerTypeOK ==
    /\ phase \in {"off", "compare", "clear", "stamp", "stampAndFail", "run"}
    /\ owner \in Owners \cup {NoOwner} /\ stored \in Owners \cup {NoOwner}
    /\ data \subseteq Owners /\ tainted \in BOOLEAN

OwnerInit ==
    /\ phase = "off" /\ owner = NoOwner /\ stored = NoOwner /\ data = {} /\ tainted = FALSE

-----------------------------------------------------------------------------
\* A synchronizer starts, with ForceFreshStartup or without.
StartAs(o) ==
    /\ phase = "off"
    /\ owner' = o
    /\ phase' \in {"clear", "compare"}
    /\ UNCHANGED <<stored, data, tainted>>

\* Mutant: no hash is taken for the right one.
CompareMissing ==
    /\ phase = "compare"
    /\ \/ phase' = (IF stored \in {owner, NoOwner} THEN "stamp" ELSE "clear") /\ UNCHANGED tainted
       \/ phase' = "stampAndFail" /\ tainted' = TRUE
    /\ UNCHANGED <<owner, stored, data>>

\* GetApikeyHash. When it fails the start fails, after the deferred SetApikeyHash.
Compare ==
    /\ phase = "compare"
    /\ \/ phase' = (IF stored = owner THEN "stamp" ELSE "clear") /\ UNCHANGED tainted
       \/ phase' = "stampAndFail" /\ tainted' = TRUE
    /\ UNCHANGED <<owner, stored, data>>

\* ClearAll (it removes the hash too). Nobody looks at its error.
Clear ==
    /\ phase = "clear"
    /\ phase' = "stamp"
    /\ \/ data' = {} /\ stored' = NoOwner /\ tainted' = FALSE
       \/ data' = data /\ stored' = stored /\ tainted' = TRUE
    /\ UNCHANGED owner

\* SetApikeyHash. Nobody looks at its error either.
Stamp ==
    /\ phase \in {"stamp", "stampAndFail"}
    /\ stored' \in {owner, stored}
    /\ phase' = IF phase = "stamp" THEN "run" ELSE "off"
    /\ UNCHANGED <<owner, data, tainted>>

\* Flags and segments are stored.
Store ==
    /\ phase = "run"
    /\ data' = data \cup {owner}
    /\ UNCHANGED <<phase, owner, stored, tainted>>

\* It stops, or crashes at any point.
Leave ==
    /\ phase # "off"
    /\ phase' = "off"
    /\ UNCHANGED <<owner, stored, data, tainted>>

OwnerNext ==
    \/ \E o \in Owners : StartAs(o)
    \/ Compare \/ Clear \/ Stamp \/ Store \/ Leave

OwnerSpec == OwnerInit /\ [][OwnerNext]_ownerVars

-----------------------------------------------------------------------------
\* A synchronizer that runs finds and leaves its own data only, and the hash never names
\* one owner over the data of another, through crashes between any two commands and a
\* hash that could not be stored, unless a clear or a comparison failed since the last
\* clear that worked: it then takes another's data for its own, and says so to no one
\* (util.go:125-143).
ServesOwnData ==
    ~tainted =>
        /\ phase = "run" => data \subseteq {owner}
        /\ stored # NoOwner => data \subseteq {stored}
=============================================================================
