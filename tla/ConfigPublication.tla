-------------------------- MODULE ConfigPublication --------------------------
(***************************************************************************)
(* Publication of the durable configuration (cache/mod.rs, db/mod.rs).     *)
(*                                                                         *)
(* Routes and Cedar policies live in Postgres under one revision.  Every   *)
(* process reads both, publishes the revision to Redis, where it moves the *)
(* epoch that cached sessions are tagged with, and swaps its router and    *)
(* its policy bundle.  The listener of a process does so on notifications  *)
(* and once a second, admin requests do so after a change of a policy, and *)
(* both may be at work in one process.  An advisory lock of Postgres       *)
(* orders publications and changes; a lock of the process keeps requests   *)
(* out between the two swaps.                                              *)
(*                                                                         *)
(* The contents of a table are the revision they were read at.             *)
(* database.override_yaml is on; without it no route comes from Postgres.  *)
(***************************************************************************)
EXTENDS Integers

CONSTANTS
    Process,     \* gateway processes; also the name of their listener task
    Admin,       \* admin requests
    NoTask,      \* nobody holds the lock
    Fenced,      \* whether there is an authority fence in Redis
    Ungoverned,  \* revisions whose routes fail the strict governance lint
    MaxRev,      \* bound: durable revisions
    MaxEpoch,    \* bound: epoch up to which sessions are flushed by hand
    MaxFaults    \* bound: failed awaits, lost connections, restarts

ASSUME PublicationAssumption ==
    /\ Process \cap Admin = {} /\ NoTask \notin Process \cup Admin
    /\ Fenced \in BOOLEAN
    /\ Ungoverned \subseteq Nat \ {0}
    /\ MaxRev \in Nat /\ MaxEpoch \in Nat /\ MaxFaults \in Nat

VARIABLES
    durable,    \* config_revision, and the tables that commit with it
    lock,       \* CONFIGURATION_PUBLICATION_LOCK
    shared,     \* config_revision and config_epoch of the fence
    \* a process
    serving,    \* initialize_configuration succeeded, requests are accepted
    router,     \* the shared router
    policies,   \* the bundle of the authorization engine
    applied,    \* configuration_revision
    epoch,      \* authority_config_epoch
    guard,      \* configuration_snapshot_lock, when it is held for writing
    connected,  \* its PgListener listens
    notes,      \* the notifications the listener has not received
    installed,  \* history: the revision of the last publication
    \* a task
    pc,         \* the await it is at
    home,       \* the process it runs in
    job,        \* its locals
    change,     \* history: the revision an admin request committed
    reply,      \* the "reloaded" an admin request answered
    faults      \* faults so far (bound)

processVars == <<serving, router, policies, applied, epoch, guard, installed>>
listenVars  == <<connected, notes>>
taskVars    == <<pc, home, job, change, reply>>
vars == <<durable, lock, shared, processVars, listenVars, taskVars, faults>>

Task == Process \cup Admin

Uninit  == -1       \* CONFIG_REVISION_UNINITIALIZED, CONFIG_EPOCH_UNINITIALIZED
Invalid == -2       \* CONFIG_EPOCH_INVALID
None    == -1       \* no revision was notified

\* prepare_configuration: what was notified, the revision read first, the
\* applied revision seen before the fence was asked, and the candidates.
Job == [notified : Nat \cup {None}, rev : Nat, seen : Nat \cup {Uninit},
        routes : Nat, policies : Nat]

NoJob == [notified |-> None, rev |-> 0, seen |-> Uninit, routes |-> 0, policies |-> 0]

Awaits == {"idle", "read", "fence", "routes", "policies", "confirm", "lock",
           "under_lock", "guard", "advance", "published", "router", "install",
           "commit", "disable", "flush_guard", "flush"}

TypeOK ==
    /\ durable \in Nat
    /\ lock \in Task \cup {NoTask}
    /\ shared \in [present : BOOLEAN, rev : Nat, epoch : Nat]
    /\ serving \in [Process -> BOOLEAN]
    /\ router \in [Process -> Nat]
    /\ policies \in [Process -> Nat]
    /\ applied \in [Process -> Nat \cup {Uninit}]
    /\ epoch \in [Process -> Nat \cup {Uninit, Invalid}]
    /\ guard \in [Process -> Task \cup {NoTask}]
    /\ connected \in [Process -> BOOLEAN]
    /\ notes \in [Process -> SUBSET Nat]
    /\ installed \in [Process -> Nat]
    /\ pc \in [Task -> Awaits]
    /\ home \in [Task -> Process]
    /\ job \in [Task -> Job]
    /\ change \in [Admin -> Nat]
    /\ reply \in [Admin -> {"none", "reloaded", "not_reloaded"}]
    /\ faults \in Nat

Init ==
    /\ durable = 0
    /\ lock = NoTask
    /\ shared = [present |-> TRUE, rev |-> 0, epoch |-> 0]
    /\ serving = [p \in Process |-> FALSE]
    /\ router = [p \in Process |-> 0]
    /\ policies = [p \in Process |-> 0]
    /\ applied = [p \in Process |-> Uninit]
    /\ epoch = [p \in Process |-> Uninit]
    /\ guard = [p \in Process |-> NoTask]
    /\ connected = [p \in Process |-> FALSE]
    /\ notes = [p \in Process |-> {}]
    /\ installed = [p \in Process |-> 0]
    /\ pc = [t \in Task |-> "idle"]
    /\ home \in [Task -> Process] /\ \A p \in Process : home[p] = p
    /\ job = [t \in Task |-> NoJob]
    /\ change = [a \in Admin |-> 0]
    /\ reply = [a \in Admin |-> "none"]
    /\ faults = 0

-----------------------------------------------------------------------------
(* Pieces of a step.                                                       *)

Goto(t, await) == pc' = [pc EXCEPT ![t] = await]

\* disable_authority_cache_for_configuration.
Disable(p) ==
    /\ applied' = [applied EXCEPT ![p] = Uninit]
    /\ epoch' = [epoch EXCEPT ![p] = Invalid]

\* The transaction of a task ends, and its advisory lock with it.
EndTransaction(t) == lock' = IF lock = t THEN NoTask ELSE lock

\* The reconciliation of a task returns: an admin request answers, and a
\* process that could publish its first configuration starts to serve.  One
\* that could not exits, and starts again from Initialize.
Return(t, ok) ==
    /\ pc' = [pc EXCEPT ![t] = "idle"]
    /\ job' = [job EXCEPT ![t] = NoJob]
    /\ reply' = IF t \in Admin
                THEN [reply EXCEPT ![t] = IF ok THEN "reloaded" ELSE "not_reloaded"]
                ELSE reply
    /\ serving' = IF t \in Process /\ ok THEN [serving EXCEPT ![t] = TRUE] ELSE serving
    /\ EndTransaction(t)
    /\ UNCHANGED <<home, change>>

\* A refusal before the publication: the cache is disabled, the last good
\* configuration stays.
Refuse(t) ==
    /\ Disable(home[t]) /\ Return(t, FALSE)
    /\ UNCHANGED <<durable, shared, router, policies, guard, installed, listenVars>>

\* A step of prepare_configuration that only changes the task.
Local(t, await) ==
    /\ Goto(t, await)
    /\ UNCHANGED <<durable, lock, shared, processVars, listenVars, home, change,
                   reply, faults>>

-----------------------------------------------------------------------------
(* Changes and the ways a reconciliation starts.                           *)

\* record_config_change: the change, its revision and its notification are
\* one transaction, which holds the publication lock.
Record ==
    /\ lock = NoTask /\ durable < MaxRev
    /\ durable' = durable + 1
    /\ notes' = [p \in Process |->
                    IF connected[p] THEN notes[p] \cup {durable + 1} ELSE notes[p]]

Start(t, notified) ==
    /\ pc' = [pc EXCEPT ![t] = "read"]
    /\ job' = [job EXCEPT ![t] = [NoJob EXCEPT !.notified = notified]]

\* upsert_route and delete_route: nobody publishes but the listeners.
ChangeRoute ==
    /\ Record
    /\ UNCHANGED <<lock, shared, processVars, connected, taskVars, faults>>

\* The handlers of policies: the change, then publish_policy_configuration.
ChangePolicy(a, p) ==
    /\ pc[a] = "idle" /\ serving[p]
    /\ Record
    /\ Start(a, None)
    /\ home' = [home EXCEPT ![a] = p]
    /\ change' = [change EXCEPT ![a] = durable']
    /\ reply' = [reply EXCEPT ![a] = "none"]
    /\ UNCHANGED <<lock, shared, processVars, connected, faults>>

\* initialize_configuration, before the process serves.
Initialize(p) ==
    /\ pc[p] = "idle" /\ ~serving[p]
    /\ Start(p, None)
    /\ UNCHANGED <<durable, lock, shared, processVars, listenVars, home, change,
                   reply, faults>>

\* The listener connects, listens, and reconciles what it missed.
Connect(p) ==
    /\ pc[p] = "idle" /\ serving[p] /\ ~connected[p]
    /\ connected' = [connected EXCEPT ![p] = TRUE]
    /\ Start(p, None)
    /\ UNCHANGED <<durable, lock, shared, processVars, notes, home, change, reply,
                   faults>>

\* The next notification, in the order of the commits.
Notified(p) ==
    /\ pc[p] = "idle" /\ connected[p]
    /\ \E n \in notes[p] :
        /\ \A m \in notes[p] : n <= m
        /\ notes' = [notes EXCEPT ![p] = @ \ {n}]
        /\ Start(p, n)
    /\ UNCHANGED <<durable, lock, shared, processVars, connected, home, change,
                   reply, faults>>

\* Variant: the timer only looks again when a notification waits.
RetryWhenNotified(p) ==
    /\ pc[p] = "idle" /\ connected[p]
    /\ IF notes[p] # {} THEN Start(p, None) ELSE UNCHANGED <<pc, job>>
    /\ UNCHANGED <<durable, lock, shared, processVars, listenVars, home, change,
                   reply, faults>>

\* The one second timer of the listener.
Retry(p) ==
    /\ pc[p] = "idle" /\ connected[p]
    /\ Start(p, None)
    /\ UNCHANGED <<durable, lock, shared, processVars, listenVars, home, change,
                   reply, faults>>

-----------------------------------------------------------------------------
(* prepare_configuration.                                                  *)

\* The durable revision is read; a revision behind what was notified or
\* applied is refused.
ReadRevision(t) ==
    LET p == home[t] IN
    /\ pc[t] = "read"
    /\ IF job[t].notified > durable \/ applied[p] > durable
       THEN Refuse(t) /\ UNCHANGED faults
       ELSE IF ~Fenced /\ applied[p] = durable
       THEN /\ Return(t, TRUE)
            /\ UNCHANGED <<durable, shared, router, policies, applied, epoch,
                           guard, installed, listenVars, faults>>
       ELSE /\ job' = [job EXCEPT ![t].rev = durable, ![t].seen = applied[p]]
            /\ Local(t, IF Fenced THEN "fence" ELSE "routes")

\* Variant: what another process published counts as published here.
IsCurrentShared(t) ==
    shared.rev = job[t].rev /\ epoch[home[t]] # Uninit

\* configuration_fence_is_current, once Redis has answered: the revision that
\* was applied when it was asked, the shared one and the epoch all agree.
IsCurrent(t) ==
    /\ job[t].seen = job[t].rev
    /\ shared.rev = job[t].rev
    /\ epoch[home[t]] = shared.epoch

ReadFence(t) ==
    /\ pc[t] = "fence" /\ shared.present
    /\ IF shared.rev > job[t].rev
       THEN Refuse(t)
       ELSE IF IsCurrent(t)
       THEN /\ Return(t, TRUE)
            /\ UNCHANGED <<durable, shared, router, policies, applied, epoch,
                           guard, installed, listenVars>>
       ELSE /\ Goto(t, "routes")
            /\ UNCHANGED <<durable, lock, shared, processVars, listenVars, home,
                           job, change, reply>>
    /\ UNCHANGED faults

\* A fence that cannot be read counts as not current.
MissFence(t) ==
    /\ pc[t] = "fence" /\ ~shared.present
    /\ Local(t, "routes") /\ UNCHANGED job

\* load_routes, merge_routes and the lint of the merged routes.
LoadRoutes(t) ==
    /\ pc[t] = "routes"
    /\ IF durable \in Ungoverned
       THEN Refuse(t) /\ UNCHANGED faults
       ELSE job' = [job EXCEPT ![t].routes = durable] /\ Local(t, "policies")

\* load_enabled_policies.
LoadPolicies(t) ==
    /\ pc[t] = "policies"
    /\ job' = [job EXCEPT ![t].policies = durable]
    /\ Local(t, "confirm")

\* The revision is read again: nothing was committed between the two loads.
ConfirmRevision(t) ==
    /\ pc[t] = "confirm"
    /\ IF durable # job[t].rev
       THEN Refuse(t) /\ UNCHANGED faults
       ELSE Local(t, "lock") /\ UNCHANGED job

-----------------------------------------------------------------------------
(* reconcile_and_publish_configuration, publish_prepared_configuration.    *)

TakeLock(t) ==
    /\ pc[t] = "lock" /\ lock = NoTask
    /\ lock' = t
    /\ Goto(t, "under_lock")
    /\ UNCHANGED <<durable, shared, processVars, listenVars, home, job, change,
                   reply, faults>>

\* The revision is read a third time, now that no change can commit.
ConfirmUnderLock(t) ==
    /\ pc[t] = "under_lock"
    /\ IF durable # job[t].rev
       THEN Refuse(t) /\ UNCHANGED faults
       ELSE Local(t, "guard") /\ UNCHANGED job

\* Variant: the swaps come first, the shared epoch is left for later.
TakeGuardUnpublished(t) ==
    /\ pc[t] = "guard" /\ guard[home[t]] = NoTask
    /\ guard' = [guard EXCEPT ![home[t]] = t]
    /\ Goto(t, "router")
    /\ UNCHANGED <<durable, lock, shared, serving, router, policies, applied, epoch,
                   installed, listenVars, home, job, change, reply, faults>>

\* configuration_publication_guard.
TakeGuard(t) ==
    /\ pc[t] = "guard" /\ guard[home[t]] = NoTask
    /\ guard' = [guard EXCEPT ![home[t]] = t]
    /\ Goto(t, "advance")
    /\ UNCHANGED <<durable, lock, shared, serving, router, policies, applied, epoch,
                   installed, listenVars, home, job, change, reply, faults>>

DropGuard(t) == guard' = [guard EXCEPT ![home[t]] = NoTask]

\* ADVANCE_CONFIG_EPOCH_SCRIPT for a revision that is not behind the shared one.
Advanced(rev) ==
    IF rev <= shared.rev THEN shared
    ELSE [shared EXCEPT !.rev = rev, !.epoch = @ + 1]

\* What the script answers: an epoch, or an error.
AdvanceAccepts(rev) == shared.present /\ Advanced(rev).rev = rev

\* invalidate_all_at_revision: the epoch of the process follows the shared one.
AdvanceEpoch(t) ==
    /\ pc[t] = "advance" /\ (Fenced => AdvanceAccepts(job[t].rev))
    /\ shared' = IF Fenced THEN Advanced(job[t].rev) ELSE shared
    /\ epoch' = IF Fenced THEN [epoch EXCEPT ![home[t]] = shared'.epoch] ELSE epoch
    /\ Goto(t, IF Fenced THEN "published" ELSE "router")
    /\ UNCHANGED <<durable, lock, serving, router, policies, applied, guard,
                   installed, listenVars, home, job, change, reply, faults>>

\* The script refuses, or there is no fence.
AdvanceRefused(t) ==
    /\ pc[t] = "advance" /\ Fenced /\ ~AdvanceAccepts(job[t].rev)
    /\ epoch' = [epoch EXCEPT ![home[t]] = Invalid]
    /\ DropGuard(t) /\ Goto(t, "disable")
    /\ UNCHANGED <<durable, lock, shared, serving, router, policies, applied,
                   installed, listenVars, home, job, change, reply, faults>>

\* configuration_fence_is_published_at.
ConfirmPublished(t) ==
    /\ pc[t] = "published"
    /\ IF /\ shared.present /\ shared.rev = job[t].rev
          /\ epoch[home[t]] = shared.epoch
       THEN Local(t, "router") /\ UNCHANGED job
       ELSE /\ DropGuard(t) /\ Goto(t, "disable")
            /\ UNCHANGED <<durable, lock, shared, serving, router, policies, applied,
                           epoch, installed, listenVars, home, job, change, reply,
                           faults>>

\* Variant: requests are let in before the bundle is swapped.
SwapRouterUnguarded(t) ==
    /\ pc[t] = "router"
    /\ router' = [router EXCEPT ![home[t]] = job[t].routes]
    /\ DropGuard(t)
    /\ Goto(t, "install")
    /\ UNCHANGED <<durable, lock, shared, serving, policies, applied, epoch,
                   installed, listenVars, home, job, change, reply, faults>>

\* The router is swapped, ...
SwapRouter(t) ==
    /\ pc[t] = "router"
    /\ router' = [router EXCEPT ![home[t]] = job[t].routes]
    /\ Goto(t, "install")
    /\ UNCHANGED <<durable, lock, shared, serving, policies, applied, epoch, guard,
                   installed, listenVars, home, job, change, reply, faults>>

\* ... then the policies, the revision is noted and requests are let in.
InstallPolicies(t) ==
    LET p == home[t] IN
    /\ pc[t] = "install"
    /\ policies' = [policies EXCEPT ![p] = job[t].policies]
    /\ applied' = [applied EXCEPT ![p] = job[t].rev]
    /\ installed' = [installed EXCEPT ![p] = job[t].rev]
    /\ DropGuard(t)
    /\ Goto(t, "commit")
    /\ UNCHANGED <<durable, lock, shared, serving, router, epoch, listenVars, home,
                   job, change, reply, faults>>

\* The transaction commits and gives back the lock, unless it was lost.
Commit(t) ==
    /\ pc[t] = "commit"
    /\ IF lock = t
       THEN /\ Return(t, TRUE)
            /\ UNCHANGED <<durable, shared, router, policies, applied, epoch,
                           guard, installed, listenVars>>
       ELSE Refuse(t)
    /\ UNCHANGED faults

\* A publication that failed under the guard disables the cache afterwards.
DisableAfterFailure(t) ==
    pc[t] = "disable" /\ Refuse(t) /\ UNCHANGED faults

-----------------------------------------------------------------------------
(* cache_invalidate_handler: the sessions of every process are flushed by  *)
(* hand, whatever configuration each of them is at.                        *)

RequestFlush(a, p) ==
    /\ pc[a] = "idle" /\ serving[p] /\ shared.epoch < MaxEpoch
    /\ Goto(a, "flush_guard")
    /\ home' = [home EXCEPT ![a] = p]
    /\ reply' = [reply EXCEPT ![a] = "none"]
    /\ UNCHANGED <<durable, lock, shared, processVars, listenVars, job, change,
                   faults>>

TakeFlushGuard(a) ==
    /\ pc[a] = "flush_guard" /\ guard[home[a]] = NoTask
    /\ guard' = [guard EXCEPT ![home[a]] = a]
    /\ Goto(a, "flush")
    /\ UNCHANGED <<durable, lock, shared, serving, router, policies, applied, epoch,
                   installed, listenVars, home, job, change, reply, faults>>

\* invalidate_all: the epoch moves, the revision does not.
Flush(a) ==
    /\ pc[a] = "flush"
    /\ shared' = IF Fenced /\ shared.present
                 THEN [shared EXCEPT !.epoch = @ + 1] ELSE shared
    /\ epoch' = IF ~Fenced THEN epoch
                ELSE [epoch EXCEPT ![home[a]] =
                          IF shared.present THEN shared'.epoch ELSE Invalid]
    /\ DropGuard(a) /\ Goto(a, "idle")
    /\ UNCHANGED <<durable, lock, serving, router, policies, applied, installed,
                   listenVars, home, job, change, reply, faults>>

-----------------------------------------------------------------------------
(* Faults.                                                                 *)

Fault == faults < MaxFaults /\ faults' = faults + 1

\* A query fails, or its connection does; the lock goes with the connection.
FailQuery(t) ==
    /\ Fault
    /\ pc[t] \in {"read", "routes", "policies", "confirm", "lock", "under_lock",
                  "commit"}
    /\ Refuse(t)

\* A call to Redis fails, before or (written) after it took effect.
FailFence(t, written) ==
    LET p == home[t] IN
    /\ Fault /\ Fenced
    /\ \/ /\ pc[t] = "fence" /\ ~written
          /\ Goto(t, "routes")
          /\ UNCHANGED <<shared, epoch, guard>>
       \/ /\ pc[t] = "advance"
          /\ shared' = IF written /\ AdvanceAccepts(job[t].rev)
                       THEN Advanced(job[t].rev) ELSE shared
          /\ epoch' = [epoch EXCEPT ![p] = Invalid]
          /\ DropGuard(t) /\ Goto(t, "disable")
       \/ /\ pc[t] = "published" /\ ~written
          /\ DropGuard(t) /\ Goto(t, "disable")
          /\ UNCHANGED <<shared, epoch>>
       \/ /\ pc[t] = "flush"
          /\ shared' = IF written /\ shared.present
                       THEN [shared EXCEPT !.epoch = @ + 1] ELSE shared
          /\ epoch' = [epoch EXCEPT ![p] = Invalid]
          /\ DropGuard(t) /\ Goto(t, "idle")
    /\ UNCHANGED <<durable, lock, serving, router, policies, applied, installed,
                   listenVars, home, job, change, reply>>

\* The future of an admin request is dropped, with its client, at an await: the
\* guard and the transaction go, and nothing is disabled.
Cancel(a) ==
    /\ Fault
    /\ pc[a] \notin {"idle", "install", "disable"}
    /\ guard' = [p \in Process |-> IF guard[p] = a THEN NoTask ELSE guard[p]]
    /\ pc' = [pc EXCEPT ![a] = "idle"]
    /\ job' = [job EXCEPT ![a] = NoJob]
    /\ EndTransaction(a)
    /\ UNCHANGED <<durable, shared, serving, router, policies, applied, epoch,
                   installed, listenVars, home, change, reply>>

\* The listener reconnects by itself; what was sent meanwhile is lost.
LoseNotifications(p) ==
    /\ Fault
    /\ notes[p] # {}
    /\ notes' = [notes EXCEPT ![p] = {}]
    /\ UNCHANGED <<durable, lock, shared, processVars, connected, taskVars>>

\* It cannot reconnect: the cache is disabled until it can.
LoseListener(p) ==
    /\ Fault
    /\ pc[p] = "idle" /\ connected[p]
    /\ connected' = [connected EXCEPT ![p] = FALSE]
    /\ notes' = [notes EXCEPT ![p] = {}]
    /\ Disable(p)
    /\ UNCHANGED <<durable, lock, shared, serving, router, policies, guard,
                   installed, taskVars>>

\* The process stops; nothing of it is kept.
Restart(p) ==
    LET gone == {t \in Task : home[t] = p} IN
    /\ Fault
    /\ serving' = [serving EXCEPT ![p] = FALSE]
    /\ router' = [router EXCEPT ![p] = 0]
    /\ policies' = [policies EXCEPT ![p] = 0]
    /\ applied' = [applied EXCEPT ![p] = Uninit]
    /\ epoch' = [epoch EXCEPT ![p] = Uninit]
    /\ guard' = [guard EXCEPT ![p] = NoTask]
    /\ installed' = [installed EXCEPT ![p] = 0]
    /\ connected' = [connected EXCEPT ![p] = FALSE]
    /\ notes' = [notes EXCEPT ![p] = {}]
    /\ pc' = [t \in Task |-> IF t \in gone THEN "idle" ELSE pc[t]]
    /\ job' = [t \in Task |-> IF t \in gone THEN NoJob ELSE job[t]]
    /\ reply' = [a \in Admin |-> IF a \in gone THEN "none" ELSE reply[a]]
    /\ lock' = IF lock \in gone THEN NoTask ELSE lock
    /\ UNCHANGED <<durable, shared, home, change>>

\* Redis loses its data; until a consumer installs the fence again there is
\* no configuration state to read or to advance.
LoseRedis ==
    /\ Fault
    /\ Fenced /\ shared.present
    /\ shared' = [present |-> FALSE, rev |-> 0, epoch |-> 0]
    /\ UNCHANGED <<durable, lock, processVars, listenVars, taskVars>>

\* BOOTSTRAP_SCRIPT, run by a consumer.
BootstrapFence ==
    /\ Fenced /\ ~shared.present
    /\ shared' = [present |-> TRUE, rev |-> 0, epoch |-> 0]
    /\ UNCHANGED <<durable, lock, processVars, listenVars, taskVars, faults>>

-----------------------------------------------------------------------------

Prepare(t) ==
    \/ ReadRevision(t) \/ ReadFence(t) \/ MissFence(t)
    \/ LoadRoutes(t) \/ LoadPolicies(t) \/ ConfirmRevision(t)

Publish(t) ==
    \/ TakeLock(t) \/ ConfirmUnderLock(t) \/ TakeGuard(t)
    \/ AdvanceEpoch(t) \/ AdvanceRefused(t) \/ ConfirmPublished(t)
    \/ SwapRouter(t) \/ InstallPolicies(t) \/ Commit(t) \/ DisableAfterFailure(t)

Listen(p) == Initialize(p) \/ Connect(p) \/ Notified(p) \/ Retry(p)

Work(t) == Prepare(t) \/ Publish(t)

Request(a) ==
    \/ \E p \in Process : ChangePolicy(a, p) \/ RequestFlush(a, p)
    \/ TakeFlushGuard(a) \/ Flush(a)

FaultStep ==
    \/ \E t \in Task :
        \/ FailQuery(t)
        \/ \E written \in BOOLEAN : FailFence(t, written)
    \/ \E a \in Admin : Cancel(a)
    \/ \E p \in Process : LoseNotifications(p) \/ LoseListener(p) \/ Restart(p)

Next ==
    \/ ChangeRoute
    \/ \E p \in Process : Listen(p)
    \/ \E a \in Admin : Request(a)
    \/ \E t \in Task : Work(t)
    \/ FaultStep

Spec == Init /\ [][Next]_vars

\* The same system over a Redis that may lose its data.
LossyNext == Next \/ LoseRedis \/ BootstrapFence

LossySpec == Init /\ [][LossyNext]_vars

\* Tasks are scheduled, the timer ticks, and what failed is tried again: a
\* process starts over, a listener reconnects, a consumer installs the fence.
Fairness ==
    /\ \A t \in Task : WF_vars(Work(t))
    /\ \A p \in Process : WF_vars(Initialize(p) \/ Connect(p) \/ Retry(p))
    /\ \A a \in Admin : WF_vars(TakeFlushGuard(a) \/ Flush(a))
    /\ WF_vars(BootstrapFence)

FairSpec == LossySpec /\ Fairness

-----------------------------------------------------------------------------
(* Properties.                                                             *)

\* A request captures the router and the policies under the read side of the
\* snapshot lock.  Whenever it can, the pair is of one durable revision,
\* although the two were loaded, and are swapped, one after the other.
PairIsOneRevision ==
    \A p \in Process :
        guard[p] = NoTask => /\ router[p] = policies[p]
                             /\ router[p] = installed[p]

\* However the tasks of a process interleave, a process that runs never replaces
\* a configuration by an older one, although each task loads its revision long
\* before it publishes it.
NeverOlder ==
    [][\A p \in Process : installed'[p] >= installed[p] \/ ~serving'[p]]_vars

\* "they cannot expose a policy bundle outside the shared Redis epoch": no
\* process runs a configuration whose revision has not moved the shared epoch.
NotAheadOfEpoch ==
    Fenced => \A p \in Process :
                  /\ router[p] <= shared.rev
                  /\ policies[p] <= shared.rev

\* An admin request that answered that its change was reloaded was right: its
\* process runs that revision or a later one.
ReloadedIsServed ==
    \A a \in Admin :
        reply[a] = "reloaded" => installed[home[a]] >= change[a]

\* "If the publication fails, the policy remains stored but no surface is
\* exposed": when a request answers that its change was stored and not
\* activated, its process does not run that change.
NotActivatedIsNotExposed ==
    [][\A a \in Admin :
        reply[a] = "none" /\ reply'[a] = "not_reloaded"
            => installed'[home[a]] < change[a]]_vars

\* Every process ends up with the last revision and the shared epoch, whatever
\* notifications were lost, unless that revision fails the lint.
Published(p) ==
    /\ serving[p]
    /\ router[p] = durable /\ policies[p] = durable
    /\ Fenced => epoch[p] = shared.epoch

Converges == <>[](durable \in Ungoverned \/ \A p \in Process : Published(p))

=============================================================================
