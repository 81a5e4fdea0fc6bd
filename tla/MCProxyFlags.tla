---------------------------- MODULE MCProxyFlags ----------------------------
(***************************************************************************)
(* ProxyFlags and RuleServing on small instances. The two share no         *)
(* variable, so each is explored with the other at rest.                   *)
(***************************************************************************)
EXTENDS ProxyFlags, RuleServing

VARIABLE part

MCInit ==
    /\ Init /\ RulesInit
    /\ part \in {"flags", "rules"}
    /\ part = "rules" => ~filtered

MCNext ==
    /\ UNCHANGED part
    /\ \/ part = "flags" /\ Next /\ UNCHANGED rulesVars
       \/ part = "rules" /\ RulesNext /\ UNCHANGED vars

MCSpec == MCInit /\ [][MCNext]_<<vars, rulesVars, part>>

\* FairSpec and RulesFairSpec, for the part that runs.
MCFairSpec ==
    /\ MCSpec
    /\ WF_vars(part = "flags" /\ Fetch)
    /\ WF_vars(part = "flags" /\ Update)
    /\ WF_vars(part = "flags" /\ Request)
    /\ WF_rulesVars(part = "rules" /\ SyncRules)
    /\ SF_rulesVars(part = "rules" /\ FetchWorks)
    /\ WF_rulesVars(part = "rules" /\ EvictKilled)
    /\ WF_rulesVars(part = "rules" /\ ServeRules)
    /\ SF_rulesVars(part = "rules" /\ FetchFromBackendSince)
    /\ WF_rulesVars(part = "rules" /\ HandleSplits)
    /\ SF_rulesVars(part = "rules" /\ SdkReceives)

\* Once a flag stays published, every SDK that keeps polling ends up with the
\* flags the backend serves, kills, restarts and restored snapshots
\* notwithstanding (splits.go Update, sdk.go SplitChanges).
Converges ==
    <>[](\E f \in Flags : Served(log, f, Len(log)) # 0)
      => <>[](\A f \in Flags : view[f] = Served(log, f, Len(log)))
=============================================================================
