--------------------------- MODULE ConfigInvariant ---------------------------
(* The inductive invariant of ConfigPublication. *)
EXTENDS ConfigPublication

\* The awaits at which a task holds the advisory lock, at which it has
\* confirmed the revision under it, and at which it holds the guard.
Locked    == {"under_lock", "guard", "advance", "published", "router", "install",
              "commit"}
Confirmed == {"guard", "advance", "published", "router", "install"}
Guarded   == {"advance", "published", "router", "install", "flush"}

\* The awaits at which the candidates are complete, and at which there is a
\* revision they are prepared for.
Prepared  == {"lock", "under_lock"} \cup Confirmed
Preparing == {"fence", "routes", "policies", "confirm"}

LocksAreHeld ==
    \A t \in Task :
        /\ pc[t] \in Locked => lock = t
        /\ pc[t] \in Guarded => guard[home[t]] = t

\* No change commits between the confirmation under the lock and the swaps.
LockPinsRevision ==
    \A t \in Task : pc[t] \in Confirmed => job[t].rev = durable

\* Whatever was loaded between two equal readings is of that revision.
CandidatesAreOneRevision ==
    \A t \in Task :
        /\ pc[t] \in Preparing \cup Prepared => job[t].rev <= durable
        /\ pc[t] \in {"policies", "confirm"} =>
               job[t].rev <= job[t].routes /\ job[t].routes <= durable
        /\ pc[t] = "confirm" =>
               job[t].routes <= job[t].policies /\ job[t].policies <= durable
        /\ pc[t] \in Prepared =>
               job[t].routes = job[t].rev /\ job[t].policies = job[t].rev

\* Only a task between the two swaps sees two revisions.
Swapping(p) == \E t \in Task : home[t] = p /\ pc[t] = "install"

PairInv ==
    /\ \A p \in Process :
        /\ installed[p] <= durable
        /\ applied[p] \in {Uninit, installed[p]}
        /\ ~Swapping(p) => router[p] = policies[p] /\ router[p] = installed[p]
    /\ \A t \in Task : pc[t] = "install" =>
        /\ router[home[t]] = job[t].rev
        /\ policies[home[t]] = installed[home[t]]

EpochInv ==
    Fenced =>
        /\ \A p \in Process : router[p] <= shared.rev /\ policies[p] <= shared.rev
        /\ \A t \in Task : pc[t] \in {"router", "install"} => job[t].rev <= shared.rev

\* What an admin request needs to answer truthfully, at each await.
ReplyInv ==
    /\ \A t \in Task : pc[t] = "fence" =>
           job[t].seen <= installed[home[t]]
    /\ \A a \in Admin :
        /\ change[a] <= durable
        /\ pc[a] \in Preparing \cup Prepared => change[a] <= job[a].rev
        /\ pc[a] = "commit" => change[a] <= installed[home[a]]
        /\ reply[a] = "reloaded" => change[a] <= installed[home[a]]
        /\ pc[a] # "idle" => reply[a] = "none"

\* What holds whether or not Redis loses its data, and what else holds when it
\* does not.
Core == /\ TypeOK
        /\ LocksAreHeld
        /\ LockPinsRevision
        /\ CandidatesAreOneRevision
        /\ PairInv
        /\ ReplyInv

Inv == Core /\ EpochInv

-----------------------------------------------------------------------------
(* Who waits for whom: a task at "lock" for the one that has the advisory  *)
(* lock, a task at "guard" or "flush_guard" for the one that has the       *)
(* guard of its process; every other await is answered from outside.       *)

WaitsFor(t, u) ==
    \/ pc[t] = "lock" /\ lock = u
    \/ pc[t] \in {"guard", "flush_guard"} /\ guard[home[t]] = u

\* However tasks fail, are refused, restarted or dropped with their clients: a
\* lock is only held by a task that is on its way to releasing it, and waiting
\* goes from the advisory lock to a guard and no further.  Nobody waits in a
\* circle (cache/mod.rs: the guard is taken under the advisory lock, never the
\* other way round).
WaitingEnds ==
    \A t, u \in Task : WaitsFor(t, u) =>
        /\ pc[u] \in Locked \cup Guarded \cup {"disable"}
        /\ \A v \in Task : WaitsFor(u, v) => \A w \in Task : ~WaitsFor(v, w)

LocksAreInUse ==
    /\ \A t \in Task : lock = t => pc[t] \in Locked \cup {"disable"}
    /\ \A p \in Process, t \in Task :
          guard[p] = t => home[t] = p /\ pc[t] \in Guarded

=============================================================================
