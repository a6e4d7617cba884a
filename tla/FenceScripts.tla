---------------------------- MODULE FenceScripts ----------------------------
(***************************************************************************)
(* The shared authority fence as Redis evaluates it: each Lua script of    *)
(* cache/redis_fence.rs runs atomically, so a script is the code it        *)
(* returns, a function of the stored hash and of its arguments.            *)
(*                                                                         *)
(* A namespace (deployment, incarnation) is only ever compared for         *)
(* equality by the code.  It is a number here, given out in the order in   *)
(* which the ASO source adopts namespaces, so that properties can say      *)
(* "later"; no script compares it by size.                                 *)
(***************************************************************************)
EXTENDS Integers

\* AuthorityHighWater: the stamp (namespace, revision) and outbox sequence.
HighWater == [inc : Nat, rev : Nat, seq : Nat]

\* SharedAuthorityFence::Missing, and "no high water" of a process.  The
\* source numbers its namespaces from 1, so this is no source's water.
NoWater == [inc |-> 0, rev |-> 0, seq |-> 0]

\* Neither the revision nor the sequence of a lies behind b's.
NotBehind(a, b) == a.rev >= b.rev /\ a.seq >= b.seq

\* What a script answers: 0 unchanged, 1 written, -1 the compare-and-set lost,
\* -2 the candidate regresses.
Unchanged == 0
Written   == 1
Mismatch  == -1
Regressed == -2

\* Variant: a lost compare-and-set is taken for success.
AcceptedOnMismatch(verdict) == verdict # Regressed

Accepted(verdict) == verdict \in {Unchanged, Written}

\* BOOTSTRAP_SCRIPT: install candidate if the fence is still the observed one,
\* the candidate's namespace is not superseded and nothing regresses.
BootstrapVerdict(current, superseded, before, candidate) ==
    IF current = candidate THEN Unchanged
    ELSE IF current # before THEN Mismatch
    ELSE IF \/ candidate.inc \in superseded
            \/ current.inc = candidate.inc /\ ~NotBehind(candidate, current)
         THEN Regressed
    ELSE Written

\* The superseded set after a written bootstrap: a namespace that is replaced
\* by another one can never be installed again.
SupersededBy(current, superseded, candidate) ==
    IF current # NoWater /\ current.inc # candidate.inc
    THEN superseded \cup {current.inc}
    ELSE superseded

\* Variant: no compare-and-set against the stored water.
AdvanceVerdictUnchecked(current, before, candidate) ==
    IF current = candidate THEN Unchanged
    ELSE IF before.inc # candidate.inc \/ ~NotBehind(candidate, before)
         THEN Regressed
    ELSE Written

\* ADVANCE_SCRIPT: move from the expected water to the candidate, in one
\* namespace and never backwards.
AdvanceVerdict(current, before, candidate) ==
    IF current = candidate THEN Unchanged
    ELSE IF current # before THEN Mismatch
    ELSE IF before.inc # candidate.inc \/ ~NotBehind(candidate, before)
         THEN Regressed
    ELSE Written

=============================================================================
