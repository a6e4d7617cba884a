--------------------------- MODULE MonotonicFence ---------------------------
(***************************************************************************)
(* What the shared authority fence promises to every replica, whoever      *)
(* writes it: within a namespace it never moves backwards, and a namespace *)
(* it has left is never installed again.  Only a loss of the Redis data    *)
(* forgets the fence.                                                      *)
(***************************************************************************)
EXTENDS FenceScripts

VARIABLES fence,        \* the water in the Redis hash, or NoWater
          superseded    \* the namespaces the fence has left

fenceVars == <<fence, superseded>>

Init == fence = NoWater /\ superseded = {}

\* The first water, or a water in a namespace the fence has never left.
Install ==
    /\ fence'.inc # fence.inc
    /\ fence'.inc \notin superseded
    /\ superseded' = SupersededBy(fence, superseded, fence')

\* A move forward in the namespace the fence is in.
MoveForward ==
    /\ fence # NoWater
    /\ fence'.inc = fence.inc
    /\ NotBehind(fence', fence)
    /\ UNCHANGED superseded

\* The Redis data set is lost (FLUSHALL, failover to an empty replica).
Forget == fence' = NoWater /\ superseded' = {}

Next == Install \/ MoveForward \/ Forget

Spec == Init /\ [][Next]_fenceVars

=============================================================================
