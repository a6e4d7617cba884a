------------------------- MODULE MCConfigPublication -------------------------
(***************************************************************************)
(* ConfigPublication for TLC.  A behaviour is one of two deployments:      *)
(* "tasks", the tasks of one process and an admin request, over a Redis    *)
(* that keeps its data, with more revisions, epochs and faults;            *)
(* "processes", all processes, without admin requests, over a Redis that   *)
(* may lose its data.                                                      *)
(***************************************************************************)
EXTENDS ConfigInvariant

CONSTANTS First, FewRev, FewFaults

VARIABLE part

MCInit ==
    /\ Init
    /\ part \in {"tasks", "processes"}
    /\ \A a \in Admin : home[a] = First

\* A process takes no step of its own and receives none.
Stays(p) ==
    /\ serving'[p] = serving[p]
    /\ pc'[p] = pc[p]
    /\ connected'[p] = connected[p]

MCNext ==
    /\ UNCHANGED part
    /\ \/ /\ part = "tasks"
          /\ Next
          /\ \A p \in Process \ {First} : Stays(p)
          /\ UNCHANGED home
       \/ /\ part = "processes"
          /\ LossyNext
          /\ \A a \in Admin : pc'[a] = "idle"
          /\ durable' <= FewRev /\ faults' <= FewFaults

MCFairSpec == MCInit /\ [][MCNext]_<<vars, part>> /\ Fairness

\* Without a loss of Redis' data, what a process serves is of a revision that
\* moved the shared epoch (cache/mod.rs: the epoch is advanced before the swaps).
NotAheadWhileKept == part = "tasks" => NotAheadOfEpoch

\* Whatever was lost, every process ends up with the last revision and the
\* shared epoch (cache/mod.rs: the one second retry of the listener).
ProcessesConverge == part = "processes" => Converges

=============================================================================
