---------------------------- MODULE HumanApproval ----------------------------
(***************************************************************************)
(* What "human-in-the-loop approval" promises (README.md): a held call is  *)
(* released only when a human approved it, one decision is taken per       *)
(* request, an approval given before the deadline counts, and no call is   *)
(* held for ever.                                                          *)
(***************************************************************************)
EXTENDS FiniteSets

CONSTANT Approval

VARIABLES
    state,   \* of the held calls
    said     \* what an operator was told Ok for

vars == <<state, said>>

Init ==
    /\ state = [a \in Approval |-> "fresh"]
    /\ said = [a \in Approval |-> "nothing"]

Move(a, from, to) == state[a] = from /\ state' = [state EXCEPT ![a] = to]

Hold(a) == Move(a, "fresh", "held") /\ UNCHANGED said

Say(a, what) ==
    /\ state[a] # "fresh" /\ said[a] = "nothing"
    /\ said' = [said EXCEPT ![a] = what]
    /\ UNCHANGED state

\* "late" is said when the deadline is over, or the stream.
Release(a) ==
    /\ said[a] \in {"approve", "late approve"}
    /\ Move(a, "held", "released") /\ UNCHANGED said

\* The deadline denies all that the stream still holds.
Deny(A) ==
    /\ \A a \in A : state[a] = "held" /\ said[a] # "approve"
    /\ state' = [a \in Approval |-> IF a \in A THEN "denied" ELSE state[a]]
    /\ UNCHANGED said

\* The stream ends.
Drop(A) ==
    /\ \A a \in A : state[a] = "held"
    /\ state' = [a \in Approval |-> IF a \in A THEN "dropped" ELSE state[a]]
    /\ UNCHANGED said

Next ==
    \/ \E a \in Approval : Hold(a) \/ Release(a)
    \/ \E a \in Approval :
           \E what \in {"approve", "deny", "late approve"} : Say(a, what)
    \/ \E A \in SUBSET Approval : Deny(A) \/ Drop(A)

Spec == Init /\ [][Next]_vars

\* "a tool call never hangs forever waiting on a human"
EveryHoldEnds == \A a \in Approval : state[a] = "held" ~> state[a] # "held"

=============================================================================
