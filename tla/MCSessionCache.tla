--------------------------- MODULE MCSessionCache ---------------------------
(***************************************************************************)
(* SessionCache for TLC.  A behaviour is one of two deployments: "alone",  *)
(* the first process on its Redis, which does not restart and where only   *)
(* an invalidation ends a session; "streams", all processes on one Redis,  *)
(* which restart and copy entries from each other, and do not invalidate.  *)
(***************************************************************************)
EXTENDS SessionCache, TLC

CONSTANT First

VARIABLE part

MCInit ==
    /\ Init
    /\ part \in {"alone", "streams"}
    /\ part = "alone" => home = [r \in Request |-> First]

Stays(p) == generation'[p] = generation[p]

MCNext ==
    /\ Next
    /\ UNCHANGED part
    /\ part = "alone" =>
        /\ home' = home
        /\ \A p \in Process \ {First} : Stays(p)
        /\ \A p \in Process : ~ Restart(p)
        /\ account'.state = "open"
    /\ part = "streams" =>
        /\ \A p \in Process : ~ AdvanceGeneration(p)
        /\ account'.revision = 0

\* Only "streams" promises something in the end.
MCFairness ==
    /\ WF_vars(part = "streams" /\ EvictL2)
    /\ \A r \in Request : /\ WF_vars(part = "streams" /\ Step(r))
                          /\ WF_vars(part = "streams" /\ Tick(r))
    /\ \A p \in Process : WF_vars(part = "streams" /\ EvictL1(p))

MCFairSpec == MCInit /\ [][MCNext]_<<vars, part>> /\ MCFairness

=============================================================================
