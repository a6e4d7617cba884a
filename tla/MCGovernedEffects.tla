-------------------------- MODULE MCGovernedEffects --------------------------
(***************************************************************************)
(* The challenges of governed effects and the approval stores, side by     *)
(* side: they share nothing, so a behaviour is one of either (part), and   *)
(* the variables of the other stay as they are.                            *)
(***************************************************************************)
EXTENDS GovernedEffects, TLC

Symmetry == Permutations(Call) \cup Permutations(Process) \cup Permutations(Policy)

VARIABLES part, durable, time, entries, doomed

rowVars == <<durable, time, entries, doomed>>

Approvals == INSTANCE DurableApprovals WITH Approval <- Call, now <- time

ASSUME RowsAssumption == None \notin Approvals!Entry \cup 0..MaxTime

MCInit ==
    /\ part \in {"challenges", "approvals"}
    /\ Init /\ Approvals!Init
    /\ part = "challenges" => durable
    /\ part = "approvals" => backend = "memory"

MCNext ==
    /\ UNCHANGED part
    /\ \/ part = "challenges" /\ Next /\ UNCHANGED rowVars
       \/ part = "approvals" /\ Approvals!Next /\ UNCHANGED vars

MCSpec == MCInit /\ [][MCNext]_<<part, vars, rowVars>>

\* What is approved stands, and is not purged too early (DurableApprovals).
ApprovalsStand == Approvals!ApprovalsStand

=============================================================================
