---------------------------- MODULE OneShotPermit ----------------------------
(***************************************************************************)
(* What the channel authority promises of the release of an effect: it is  *)
(* permitted or spent once, and the permit is handed out at most once.     *)
(***************************************************************************)
CONSTANT Effect

VARIABLE state

Init == state = [e \in Effect |-> "open"]

Move(e, from, to) == state[e] = from /\ state' = [state EXCEPT ![e] = to]

\* A release is recorded; its answer may be lost ...
Permit(e) == Move(e, "open", "permitted")

\* ... or reaches the caller.
Deliver(e) == Move(e, "permitted", "delivered")

\* A release was refused, for good.
Spend(e) == Move(e, "open", "spent")

Next == \E e \in Effect : Permit(e) \/ Deliver(e) \/ Spend(e)

Spec == Init /\ [][Next]_state

=============================================================================
