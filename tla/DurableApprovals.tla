--------------------------- MODULE DurableApprovals ---------------------------
(***************************************************************************)
(* The two approval stores (approval/durable): a map in memory and a table *)
(* of Postgres.  Each operation takes its entry's lock once, or is one     *)
(* statement, except that memory purges in two passes.  No request waits   *)
(* on these stores yet; what is modelled is their contract.                *)
(***************************************************************************)
EXTENDS Integers, FiniteSets, FiniteSetsExt

CONSTANTS
    Approval,    \* ids, each given out once
    None,
    MaxTime      \* bound

VARIABLES
    durable,     \* Postgres, or memory
    now,
    entries,     \* by id
    doomed       \* memory: what purge_expired has found and not removed yet

vars == <<durable, now, entries, doomed>>

Entry == [expires : 0..MaxTime, decision : {"none", "approved", "rejected"}]

TypeOK ==
    /\ durable \in BOOLEAN
    /\ now \in 0..MaxTime
    /\ entries \in [Approval -> Entry \cup {None}]
    /\ doomed \in SUBSET Approval

Init == /\ durable \in BOOLEAN /\ now = 0 /\ doomed = {}
        /\ entries = [a \in Approval |-> None]

Register(a) ==
    /\ entries[a] = None /\ a \notin doomed
    /\ \E expires \in 0..MaxTime :
           entries' = [entries EXCEPT ![a] = [expires |-> expires, decision |-> "none"]]
    /\ UNCHANGED <<durable, now, doomed>>

\* Variant: a second decision overwrites the first (as memory has it).
AcceptsAgain(entry) == entry # None
\* Postgres takes the first decision, at any time; memory takes every one.
Accepts(entry) == entry # None /\ (durable => entry.decision = "none")

Decide(a) ==
    /\ Accepts(entries[a])
    /\ \E decision \in {"approved", "rejected"} :
           entries' = [entries EXCEPT ![a].decision = decision]
    /\ UNCHANGED <<durable, now, doomed>>

Expired == {a \in Approval : entries[a] # None /\ entries[a].expires <= now}

PurgeRows ==
    /\ durable /\ Expired # {}
    /\ entries' = [a \in Approval |-> IF a \in Expired THEN None ELSE entries[a]]
    /\ UNCHANGED <<durable, now, doomed>>

FindExpired ==
    /\ ~ durable /\ doomed = {} /\ Expired # {}
    /\ doomed' = Expired
    /\ UNCHANGED <<durable, now, entries>>

Remove(a) ==
    /\ a \in doomed
    /\ entries' = [entries EXCEPT ![a] = None]
    /\ doomed' = doomed \ {a}
    /\ UNCHANGED <<durable, now>>

Tick == now < MaxTime /\ now' = now + 1 /\ UNCHANGED <<durable, entries, doomed>>

Next ==
    \/ \E a \in Approval : Register(a) \/ Decide(a) \/ Remove(a)
    \/ PurgeRows \/ FindExpired \/ Tick

Spec == Init /\ [][Next]_vars

----------------------------------------------------------------------------

Undecided == {a \in Approval : entries[a] # None /\ entries[a].decision = "none"}

\* list
Listed == {a \in Undecided : entries[a].expires > now}

\* earliest_expiry: memory counts those that have expired.
EarliestExpiry ==
    LET of == IF durable THEN Listed ELSE Undecided
    IN  IF of = {} THEN None ELSE Min({entries[a].expires : a \in of})

\* A waiter that sleeps until earliest_expiry wakes before anything it may still
\* wait for is gone: what is purged has expired, and nothing expires earlier.
PurgedAtExpiry ==
    [][\A a \in Listed :
          /\ entries'[a] # None
          /\ EarliestExpiry # None /\ EarliestExpiry <= entries[a].expires]_vars

\* In Postgres the first decision stands until the row is purged.
FirstDecisionStands ==
    [][durable => \A a \in Approval \ Undecided :
          entries[a] # None => entries'[a] \in {entries[a], None}]_vars

(* What a waiter may rely on, in either store: nothing it may still wait   *)
(* for goes before the deadline it sleeps to, and in Postgres the answer   *)
(* it reads stays the answer (durable/postgres.rs, durable/mod.rs).        *)
ApprovalsStand == []TypeOK /\ FirstDecisionStands /\ PurgedAtExpiry

=============================================================================
