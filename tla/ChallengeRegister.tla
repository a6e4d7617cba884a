--------------------------- MODULE ChallengeRegister ---------------------------
(***************************************************************************)
(* What a register of approval challenges promises (governed_effect): a    *)
(* challenge has one deadline and takes one decision, before it; an effect *)
(* is permitted only by an approval whose deadline has not come.  A retry  *)
(* of the request neither reopens a challenge nor puts off its deadline.   *)
(* Only a challenge that is kept in memory may be forgotten.               *)
(***************************************************************************)
EXTENDS Integers

CONSTANTS Challenge, Volatile, Absent

VARIABLES clock, register, permitted

vars == <<clock, register, permitted>>

Init ==
    /\ clock = 0
    /\ register = [c \in Challenge |-> Absent]
    /\ permitted = {}

Open(c) ==
    /\ register[c] = Absent
    /\ register'[c] \in [deadline : Nat, decision : {"none"}]
    /\ register' = [register EXCEPT ![c] = register'[c]]
    /\ UNCHANGED <<clock, permitted>>

Decide(c) ==
    /\ register[c] # Absent /\ register[c].decision = "none"
    /\ clock < register[c].deadline
    /\ \E decision \in {"approve", "deny"} :
           register' = [register EXCEPT ![c].decision = decision]
    /\ UNCHANGED <<clock, permitted>>

Permit(c) ==
    /\ register[c] # Absent /\ register[c].decision = "approve"
    /\ clock < register[c].deadline
    /\ permitted' = permitted \cup {c}
    /\ UNCHANGED <<clock, register>>

Forget(lost) ==
    /\ register' = [c \in Challenge |-> IF c \in lost THEN Absent ELSE register[c]]
    /\ UNCHANGED <<clock, permitted>>

Tick == clock' = clock + 1 /\ UNCHANGED <<register, permitted>>

Next ==
    \/ \E c \in Challenge : Open(c) \/ Decide(c) \/ Permit(c)
    \/ \E lost \in SUBSET Volatile : Forget(lost)
    \/ Tick

Spec == Init /\ [][Next]_vars

=============================================================================
