------------------------ MODULE VersionedSessionCache ------------------------
(***************************************************************************)
(* The cache of verified sessions under an authority (cache/redis_fence.rs *)
(* and cache/mod.rs).                                                      *)
(*                                                                         *)
(* An entry carries the authority high water and the configuration epoch   *)
(* it was stored under; Redis stores, loads and attests one only while its *)
(* fence is at both.  A process knows its own epoch, its own high water    *)
(* while it is ready, and its own generation, each of which other tasks    *)
(* may move while a request awaits Redis.                                  *)
(*                                                                         *)
(* One credential of one session in one namespace of the authority, so one *)
(* key of Redis.  AuthorityConsumer and ConfigPublication prove what is    *)
(* taken for granted here: a ready process is not ahead of the fence and   *)
(* has applied the denials up to its high water; publications and changes  *)
(* of the configuration exclude each other.  An identity is the revision   *)
(* of the account it was verified at.  The memory of Redis is not lost.    *)
(***************************************************************************)
EXTENDS Integers

CONSTANTS
    Process,      \* gateway processes
    Request,      \* requests in flight, each in one process
    MaxWater,     \* bound: events of the authority
    MaxRevision,  \* bound: changes of the account
    MaxRev,       \* bound: changes of the configuration
    MaxFlush,     \* bound: flushes by hand
    MaxFaults     \* bound: failing Redis calls, lapses of readiness, restarts

ASSUME VersionedAssumption ==
    {MaxWater, MaxRevision, MaxRev, MaxFlush, MaxFaults} \subseteq Nat

VARIABLES
    account,     \* external: the revision of the account at the provider
    denied,      \* external: the event that denied the session, or 0
    database,    \* whether the configuration comes from Postgres
    durable,     \* config_revision
    fence,       \* the fence in Redis
    l2,          \* the entry in Redis
    \* a process
    generation,  \* session_generation
    water,       \* the high water of readiness, or None
    epoch,       \* authority_config_epoch
    conf,        \* configuration_revision
    l1,          \* sessions
    notes,       \* a message on the invalidation channel is under way
    task,        \* its invalidation
    \* a request
    home, pc, job,
    \* history and bounds
    committed,   \* the revision of the account when a configuration committed
    floors,      \* for each epoch so far, the same for the configuration that moved
                 \* the fence to it; 0 if a flush did
    flushed,     \* the account at the start of the last flush that moved the epoch
                 \* and was answered
    flushes, faults

outside     == <<account, denied, database, durable, committed>>
localVars   == <<generation, l1>>
processVars == <<localVars, water, epoch, conf, task>>
requestVars == <<home, pc, job>>
historyVars == <<floors, flushed, flushes>>
vars == <<outside, fence, l2, processVars, notes, requestVars, historyVars, faults>>

None    == -1
Uninit  == -1       \* CONFIG_EPOCH_UNINITIALIZED, CONFIG_REVISION_UNINITIALIZED
Invalid == -2       \* CONFIG_EPOCH_INVALID
ByForce == -1       \* the mode of a flush by hand

\* SharedSessionEntry; LocalSessionEntry has a generation too.
Entry   == [generation : Nat, water : Nat, epoch : Nat, identity : Nat]
NoEntry == [generation |-> 0, water |-> 0, epoch |-> 0, identity |-> None]

\* What a request captured, what Redis last answered, and where it attests:
\* an entry of the first level, of the second, or its own.
\* History: the fence and the last flush when it began.
Job == [generation : Nat, expected : Nat, epoch : Nat, entry : Entry \cup {NoEntry},
        reply : BOOLEAN, phase : {"l1", "l2", "put"}, known : Nat, flushed : Nat]

NoJob == [generation |-> 0, expected |-> 0, epoch |-> 0, entry |-> NoEntry,
          reply |-> FALSE, phase |-> "l1", known |-> 0, flushed |-> 0]

\* aim is the revision it publishes, or ByForce; epoch what the script answered;
\* cause is history: the account when its configuration committed, or when the
\* flush began.
Task == [at : {"idle", "advance", "advanced", "confirm", "delete"},
         aim : Nat \cup {ByForce}, epoch : Nat, cause : Nat]

NoTask == [at |-> "idle", aim |-> ByForce, epoch |-> 0, cause |-> 0]

Awaits == {"idle", "enter", "epoch", "adopt", "local", "attest", "attested", "load",
           "loaded", "authenticate", "publish", "published", "served"}

TypeOK ==
    /\ account \in Nat /\ denied \in Nat
    /\ database \in BOOLEAN /\ durable \in Nat
    /\ fence \in [water : Nat, epoch : Nat, rev : Nat]
    /\ l2 \in Entry \cup {NoEntry}
    /\ generation \in [Process -> Nat]
    /\ water \in [Process -> Nat \cup {None}]
    /\ epoch \in [Process -> Nat \cup {Uninit, Invalid}]
    /\ conf \in [Process -> Nat \cup {Uninit}]
    /\ l1 \in [Process -> Entry \cup {NoEntry}]
    /\ notes \in [Process -> BOOLEAN]
    /\ task \in [Process -> Task]
    /\ home \in [Request -> Process]
    /\ pc \in [Request -> Awaits]
    /\ job \in [Request -> Job]
    /\ committed \in [0 .. MaxRev -> Nat]
    /\ floors \in [0 .. fence.epoch -> Nat]
    /\ flushed \in Nat /\ flushes \in Nat /\ faults \in Nat

Init ==
    /\ account = 0 /\ denied = 0
    /\ database \in BOOLEAN /\ durable = 0
    /\ fence = [water |-> 0, epoch |-> 0, rev |-> 0]
    /\ l2 = NoEntry
    /\ generation = [p \in Process |-> 0]
    /\ water = [p \in Process |-> 0]
    /\ epoch = [p \in Process |-> Uninit]
    /\ conf = [p \in Process |-> Uninit]
    /\ l1 = [p \in Process |-> NoEntry]
    /\ notes = [p \in Process |-> FALSE]
    /\ task = [p \in Process |-> NoTask]
    /\ home \in [Request -> Process]
    /\ pc = [r \in Request |-> "idle"]
    /\ job = [r \in Request |-> NoJob]
    /\ committed = [c \in 0 .. MaxRev |-> 0]
    /\ floors = [e \in 0 .. 0 |-> 0]
    /\ flushed = 0 /\ flushes = 0 /\ faults = 0

-----------------------------------------------------------------------------
(* Pieces of a step.                                                       *)

Goto(r, await) == pc' = [pc EXCEPT ![r] = await]

Fault == faults < MaxFaults /\ faults' = faults + 1

\* Nothing has invalidated sessions since the request captured the generation.
Unmoved(r) == generation[home[r]] = job[r].generation

\* authority_expected_is_current.
ExpectedIsCurrent(r) == water[home[r]] = job[r].expected

\* Variant: the denied sessions are not looked up.
PermitsAll(r) == ExpectedIsCurrent(r)

\* authority_still_permits.
Permits(r) ==
    /\ ExpectedIsCurrent(r)
    /\ ~(denied # 0 /\ denied <= water[home[r]])

\* entry_is_current.
EntryCurrent(r, entry) ==
    /\ entry # NoEntry
    /\ entry.water = job[r].expected
    /\ entry.epoch = job[r].epoch

\* The comparison all three scripts begin with.
FenceMatches(r) ==
    /\ fence.water = job[r].expected
    /\ fence.epoch = job[r].epoch

SetL1(p, entry) == l1' = [l1 EXCEPT ![p] = entry]

\* Variant: the sentinel of the epoch.
DisableInvalid(p) == water' = [water EXCEPT ![p] = Invalid]

\* disable_authority_cache: the process is not ready until it has bootstrapped.
Disable(p) == water' = [water EXCEPT ![p] = None]

Done(r) == Goto(r, "idle") /\ job' = [job EXCEPT ![r] = NoJob]

\* A lookup that finds nothing asks the provider; a store that fails is all the
\* same to the request, which has its identity and is answered.
Refuse(r) ==
    IF job[r].phase = "put" THEN Done(r)
    ELSE /\ Goto(r, "authenticate")
         /\ job' = [job EXCEPT ![r].entry = NoEntry, ![r].epoch = 0, ![r].reply = FALSE]

\* The request is served from the cache.
Serve(r) ==
    /\ Goto(r, "served")
    /\ job' = [job EXCEPT ![r] = [NoJob EXCEPT
          !.entry = job[r].entry, !.known = job[r].known, !.flushed = job[r].flushed]]

Proceed(r) == Goto(r, IF job[r].phase = "put" THEN "publish" ELSE "local")

\* A step of a request between two awaits.
Local(r) == UNCHANGED <<outside, fence, l2, generation, conf, task, notes, home,
                        historyVars, faults>>

\* A call of a request to Redis.
Remote(r) == UNCHANGED <<outside, fence, processVars, notes, home, historyVars>>

-----------------------------------------------------------------------------
(* get_versioned_session_if_current, put_versioned_session_if_current.     *)

\* A request of a ready process captures its generation and high water.  It has
\* published its configuration, since main serves nothing before that.
Begin(r) ==
    LET p == home[r] IN
    /\ pc[r] = "idle" /\ water[p] # None
    /\ database => conf[p] # Uninit
    /\ job' = [job EXCEPT ![r] = [NoJob EXCEPT
          !.generation = generation[p], !.expected = water[p],
          !.known = fence.water, !.flushed = flushed]]
    /\ Goto(r, "enter")
    /\ UNCHANGED <<water, epoch, l1>> /\ Local(r)

\* The checks at the head of both functions, and current_configuration_epoch.
Enter(r) ==
    LET p == home[r]
        allowed == /\ Unmoved(r) /\ ExpectedIsCurrent(r)
                   /\ job[r].phase = "put" => Permits(r)
    IN
    /\ pc[r] = "enter"
    /\ \/ ~allowed /\ Refuse(r) /\ UNCHANGED water
       \/ allowed /\ epoch[p] = Invalid /\ Refuse(r) /\ Disable(p)
       \/ allowed /\ epoch[p] = Uninit /\ Goto(r, "epoch") /\ UNCHANGED <<job, water>>
       \/ /\ allowed /\ epoch[p] \in Nat
          /\ job' = [job EXCEPT ![r].epoch = epoch[p]]
          /\ Proceed(r) /\ UNCHANGED water
    /\ UNCHANGED <<epoch, l1>> /\ Local(r)

ReadEpoch(r) ==
    /\ pc[r] = "epoch"
    /\ job' = [job EXCEPT ![r].epoch = fence.epoch]
    /\ Goto(r, "adopt")
    /\ UNCHANGED <<l2, faults>> /\ Remote(r)

ReadEpochFails(r) ==
    /\ pc[r] = "epoch" /\ Fault
    /\ Refuse(r) /\ Disable(home[r])
    /\ UNCHANGED <<outside, fence, l2, localVars, epoch, conf, task, notes, home,
                   historyVars>>

\* The compare and exchange, and the generation again.
AdoptEpoch(r) ==
    LET p == home[r] IN
    /\ pc[r] = "adopt"
    /\ \/ epoch[p] = Invalid /\ Refuse(r) /\ Disable(p) /\ UNCHANGED epoch
       \/ /\ epoch[p] # Invalid
          /\ epoch' = [epoch EXCEPT ![p] = IF @ = Uninit THEN job[r].epoch ELSE @]
          /\ IF Unmoved(r) THEN Proceed(r) /\ job' = [job EXCEPT ![r].epoch = epoch'[p]]
                           ELSE Refuse(r)
          /\ UNCHANGED water
    /\ UNCHANGED l1 /\ Local(r)

LookupL1(r) ==
    LET p == home[r]
        hit == /\ EntryCurrent(r, l1[p]) /\ l1[p].generation = job[r].generation
               /\ Unmoved(r)
    IN
    /\ pc[r] = "local"
    /\ \/ /\ hit
          /\ job' = [job EXCEPT ![r].entry = l1[p], ![r].phase = "l1"]
          /\ Goto(r, "attest") /\ UNCHANGED l1
       \/ ~hit /\ SetL1(p, NoEntry) /\ Goto(r, "load") /\ UNCHANGED job
    /\ UNCHANGED <<water, epoch>> /\ Local(r)

\* MATCH_SESSION_EPOCH.
Attest(r) ==
    /\ pc[r] = "attest"
    /\ \/ job' = [job EXCEPT ![r].reply = FenceMatches(r)] /\ UNCHANGED faults
       \/ job' = [job EXCEPT ![r].reply = FALSE] /\ Fault
    /\ Goto(r, "attested")
    /\ UNCHANGED l2 /\ Remote(r)

\* An entry just stored is removed if anything moved; one of the first level
\* was there before, and stays if only the authority moved.
Attested(r) ==
    LET p == home[r]
        good == /\ job[r].reply /\ Permits(r)
                /\ job[r].phase # "l1" => Unmoved(r)
    IN
    /\ pc[r] = "attested"
    /\ \/ /\ good
          /\ IF job[r].phase = "put" THEN Done(r) ELSE Serve(r)
          /\ UNCHANGED <<l1, water>>
       \/ /\ ~good /\ Refuse(r)
          /\ IF job[r].reply THEN UNCHANGED water ELSE Disable(p)
          /\ IF job[r].reply /\ job[r].phase = "l1" THEN UNCHANGED l1
                                                    ELSE SetL1(p, NoEntry)
    /\ UNCHANGED epoch /\ Local(r)

\* LOAD_SESSION.
Load(r) ==
    /\ pc[r] = "load"
    /\ \/ /\ job' = [job EXCEPT ![r].reply = FenceMatches(r),
                                ![r].entry = IF FenceMatches(r) THEN l2 ELSE NoEntry]
          /\ UNCHANGED faults
       \/ job' = [job EXCEPT ![r].reply = FALSE, ![r].entry = NoEntry] /\ Fault
    /\ Goto(r, "loaded")
    /\ UNCHANGED l2 /\ Remote(r)

Loaded(r) ==
    LET p == home[r]
        good == /\ EntryCurrent(r, job[r].entry) /\ Unmoved(r) /\ Permits(r)
    IN
    /\ pc[r] = "loaded"
    /\ \/ ~job[r].reply /\ Refuse(r) /\ Disable(p) /\ UNCHANGED l1
       \/ job[r].reply /\ ~good /\ Refuse(r) /\ UNCHANGED <<l1, water>>
       \/ /\ job[r].reply /\ good
          /\ SetL1(p, [job[r].entry EXCEPT !.generation = job[r].generation])
          /\ job' = [job EXCEPT ![r].phase = "l2"]
          /\ Goto(r, "attest") /\ UNCHANGED water
    /\ UNCHANGED epoch /\ Local(r)

\* External: the provider verifies the session.
Authenticate(r) ==
    /\ pc[r] = "authenticate"
    /\ job' = [job EXCEPT ![r].phase = "put",
                          ![r].entry = [NoEntry EXCEPT !.identity = account]]
    /\ Goto(r, "enter")
    /\ UNCHANGED <<water, epoch, l1>> /\ Local(r)

Own(r) == [generation |-> 0, water |-> job[r].expected, epoch |-> job[r].epoch,
           identity |-> job[r].entry.identity]

\* PUBLISH_SESSION; the reply of a call that had its effect may be lost.
Publish(r) ==
    /\ pc[r] = "publish"
    /\ l2' = IF FenceMatches(r) THEN Own(r) ELSE l2
    /\ \/ job' = [job EXCEPT ![r].reply = FenceMatches(r)] /\ UNCHANGED faults
       \/ job' = [job EXCEPT ![r].reply = FALSE] /\ Fault
    /\ Goto(r, "published")
    /\ Remote(r)

Published(r) ==
    LET p == home[r] IN
    /\ pc[r] = "published"
    /\ \/ ~job[r].reply /\ Refuse(r) /\ Disable(p) /\ UNCHANGED l1
       \/ job[r].reply /\ ~(Unmoved(r) /\ Permits(r)) /\ Refuse(r) /\ UNCHANGED <<l1, water>>
       \/ /\ job[r].reply /\ Unmoved(r) /\ Permits(r)
          /\ SetL1(p, [Own(r) EXCEPT !.generation = job[r].generation])
          /\ Goto(r, "attest") /\ UNCHANGED <<job, water>>
    /\ UNCHANGED epoch /\ Local(r)

\* The request is done, or dropped with its client at any await.
Leave(r) ==
    /\ pc[r] # "idle" /\ Done(r)
    /\ UNCHANGED <<water, epoch, l1>> /\ Local(r)

-----------------------------------------------------------------------------
(* Invalidation: publications of the configuration, and flushes by hand.   *)

\* Publications and changes of the configuration hold the advisory lock.
Locked == \E p \in Process : task[p].at # "idle" /\ task[p].aim # ByForce

\* Variant: the generation stays, the epoch will do.
StartLate(p, aim, cause) ==
    /\ task[p].at = "idle"
    /\ task' = [task EXCEPT ![p] =
          [at |-> "advance", aim |-> aim, epoch |-> 0, cause |-> cause]]
    /\ UNCHANGED localVars

\* The head of invalidate_all_inner; no await between.
Start(p, aim, cause) ==
    /\ task[p].at = "idle"
    /\ task' = [task EXCEPT ![p] =
          [at |-> "advance", aim |-> aim, epoch |-> 0, cause |-> cause]]
    /\ generation' = [generation EXCEPT ![p] = @ + 1]
    /\ SetL1(p, NoEntry)

\* A process that does not run the durable revision at the shared epoch.
StartPublication(p) ==
    /\ database /\ ~Locked
    /\ conf[p] # durable \/ epoch[p] # fence.epoch \/ fence.rev # durable
    /\ Start(p, durable, committed[durable])
    /\ UNCHANGED <<outside, fence, l2, water, epoch, conf, notes, requestVars,
                   historyVars, faults>>

\* POST /cache/invalidate.
StartFlush(p) ==
    /\ flushes < MaxFlush /\ flushes' = flushes + 1
    /\ Start(p, ByForce, account)
    /\ UNCHANGED <<outside, fence, l2, water, epoch, conf, notes, requestVars,
                   floors, flushed, faults>>

\* A flush goes on without the epoch, a publication fails.
Abandon(p) ==
    /\ Disable(p)
    /\ epoch' = [epoch EXCEPT ![p] = Invalid]
    /\ IF task[p].aim = ByForce
          THEN task' = [task EXCEPT ![p].at = "delete"] /\ UNCHANGED conf
          ELSE /\ task' = [task EXCEPT ![p] = NoTask]
               /\ conf' = [conf EXCEPT ![p] = Uninit]

\* Variant: the epoch stays unless the revision is new.
MovesByRevision(p) == task[p].aim # ByForce /\ task[p].aim > fence.rev

\* ADVANCE_CONFIG_EPOCH moves the epoch for a new revision, and by force.
Moves(p) == task[p].aim = ByForce \/ task[p].aim > fence.rev

\* ADVANCE_CONFIG_EPOCH, which tells everyone when it moves the epoch.
MoveEpoch(p) ==
    /\ task[p].at = "advance"
    /\ IF Moves(p)
          THEN /\ fence' = [fence EXCEPT !.epoch = @ + 1,
                  !.rev = IF task[p].aim = ByForce THEN @ ELSE task[p].aim]
               /\ floors' = [e \in 0 .. fence.epoch + 1 |->
                     IF e <= fence.epoch THEN floors[e]
                     ELSE IF task[p].aim = ByForce THEN 0 ELSE task[p].cause]
               /\ notes' = [q \in Process |-> TRUE]
          ELSE UNCHANGED <<fence, floors, notes>>

AdvanceEpoch(p) ==
    /\ MoveEpoch(p)
    /\ task' = [task EXCEPT ![p].at = "advanced", ![p].epoch = fence'.epoch]
    /\ UNCHANGED <<outside, l2, localVars, water, epoch, conf, requestVars, flushed,
                   flushes, faults>>

\* The call fails, with its effect or without.
AdvanceFails(p) ==
    /\ task[p].at = "advance" /\ Fault
    /\ MoveEpoch(p) \/ UNCHANGED <<fence, floors, notes>>
    /\ Abandon(p)
    /\ UNCHANGED <<outside, l2, localVars, requestVars, flushed, flushes>>

StoreEpoch(p) ==
    /\ task[p].at = "advanced"
    /\ epoch' = [epoch EXCEPT ![p] = task[p].epoch]
    /\ task' = [task EXCEPT ![p].at = IF task[p].aim = ByForce THEN "delete" ELSE "confirm"]
    /\ UNCHANGED <<outside, fence, l2, localVars, water, conf, notes, requestVars,
                   historyVars, faults>>

\* configuration_fence_is_published_at, and the swaps.
Confirm(p) ==
    /\ task[p].at = "confirm"
    /\ \/ /\ fence.rev = task[p].aim /\ fence.epoch = epoch[p]
          /\ conf' = [conf EXCEPT ![p] = task[p].aim]
          /\ task' = [task EXCEPT ![p].at = "delete"]
          /\ UNCHANGED <<water, epoch, faults>>
       \/ ~(fence.rev = task[p].aim /\ fence.epoch = epoch[p]) /\ Abandon(p) /\ UNCHANGED faults
       \/ Fault /\ Abandon(p)
    /\ UNCHANGED <<outside, fence, l2, localVars, notes, requestVars, historyVars>>

\* delete_l2_sessions, and the answer "invalidated" of a flush, whether it moved
\* the epoch or not; flushed dates those that did.
DeleteL2(p) ==
    /\ task[p].at = "delete"
    /\ \/ l2' = NoEntry /\ UNCHANGED faults
       \/ UNCHANGED l2 /\ Fault
    /\ flushed' = IF task[p].aim = ByForce /\ task[p].epoch # 0 /\ task[p].cause > flushed
                     THEN task[p].cause ELSE flushed
    /\ task' = [task EXCEPT ![p] = NoTask]
    /\ UNCHANGED <<outside, fence, localVars, water, epoch, conf, notes, requestVars,
                   floors, flushes>>

\* run_invalidation_listener hears a message, at once, late or (a lost one) never.
Listen(p) ==
    /\ notes[p]
    /\ notes' = [notes EXCEPT ![p] = FALSE]
    /\ generation' = [generation EXCEPT ![p] = @ + 1]
    /\ SetL1(p, NoEntry)
    /\ UNCHANGED <<outside, fence, l2, water, epoch, conf, task, requestVars,
                   historyVars, faults>>

-----------------------------------------------------------------------------
(* Surroundings.                                                           *)

\* The authority consumer of some process advances the fence by an event,
\* which may deny the session.
AdvanceFence ==
    /\ fence.water < MaxWater
    /\ fence' = [fence EXCEPT !.water = @ + 1]
    /\ denied' \in {denied, IF denied = 0 THEN fence.water + 1 ELSE denied}
    /\ notes' = [q \in Process |-> TRUE]
    /\ UNCHANGED <<account, database, durable, committed, l2, processVars, requestVars,
                   historyVars, faults>>

\* That of p applies the denials up to the fence and proves p ready.
Observe(p) ==
    /\ water[p] # fence.water
    /\ water' = [water EXCEPT ![p] = fence.water]
    /\ UNCHANGED <<outside, fence, l2, localVars, epoch, conf, task, notes,
                   requestVars, historyVars, faults>>

\* Its last observation grows too old.
Lapse(p) ==
    /\ water[p] # None /\ Fault
    /\ Disable(p)
    /\ UNCHANGED <<outside, fence, l2, localVars, epoch, conf, task, notes,
                   requestVars, historyVars>>

\* External: the account changes.
ChangeAccount ==
    /\ account < MaxRevision
    /\ account' = account + 1
    /\ UNCHANGED <<denied, database, durable, committed, fence, l2, processVars, notes,
                   requestVars, historyVars, faults>>

\* A change of the configuration commits (record_config_change).
Commit ==
    /\ database /\ ~Locked /\ durable < MaxRev
    /\ durable' = durable + 1
    /\ committed' = [committed EXCEPT ![durable + 1] = account]
    /\ UNCHANGED <<account, denied, database, fence, l2, processVars, notes, requestVars,
                   historyVars, faults>>

Restart(p) ==
    /\ Fault
    /\ generation' = [generation EXCEPT ![p] = 0]
    /\ SetL1(p, NoEntry)
    /\ Disable(p)
    /\ epoch' = [epoch EXCEPT ![p] = Uninit]
    /\ conf' = [conf EXCEPT ![p] = Uninit]
    /\ task' = [task EXCEPT ![p] = NoTask]
    /\ pc' = [r \in Request |-> IF home[r] = p THEN "idle" ELSE pc[r]]
    /\ job' = [r \in Request |-> IF home[r] = p THEN NoJob ELSE job[r]]
    /\ UNCHANGED <<outside, fence, l2, notes, home, historyVars>>

-----------------------------------------------------------------------------

RequestNext(r) ==
    \/ Begin(r) \/ Enter(r) \/ ReadEpoch(r) \/ ReadEpochFails(r) \/ AdoptEpoch(r)
    \/ LookupL1(r) \/ Attest(r) \/ Attested(r) \/ Load(r) \/ Loaded(r)
    \/ Authenticate(r) \/ Publish(r) \/ Published(r) \/ Leave(r)

ProcessNext(p) ==
    \/ StartPublication(p) \/ StartFlush(p) \/ AdvanceEpoch(p) \/ AdvanceFails(p)
    \/ StoreEpoch(p) \/ Confirm(p) \/ DeleteL2(p) \/ Listen(p) \/ Observe(p)
    \/ Lapse(p) \/ Restart(p)

Next ==
    \/ \E r \in Request : RequestNext(r)
    \/ \E p \in Process : ProcessNext(p)
    \/ AdvanceFence \/ ChangeAccount \/ Commit

Spec == Init /\ [][Next]_vars

-----------------------------------------------------------------------------
(* Properties.                                                             *)

\* A session that was denied at the fence before a request began is not served
\* from the cache, of whatever level and process (redis_fence.rs: the scripts
\* compare the fence, the process looks up its denials after every await).
DeniedIsNotServed ==
    \A r \in Request :
        pc[r] = "served" => ~(denied # 0 /\ denied <= job[r].known)

\* An identity served under an epoch was verified after the change of the
\* configuration that moved the fence to it had committed, though processes
\* adopt the epoch at different times, requests span the adoption, and flushes
\* move the epoch between (invalidate_all_inner).  An epoch that a flush moved
\* the fence to says nothing of configurations.
EpochFencesIdentities ==
    \A r \in Request :
        pc[r] = "served" => job[r].entry.identity >= floors[job[r].entry.epoch]

\* A flush that moved the epoch and was answered "invalidated" leaves its own
\* process no cached identity older than itself, in either level, whatever
\* requests were awaiting Redis or the provider meanwhile
\* (cache_invalidate_handler).  Of one process: another may be inside a flush of
\* its own, or read its first epoch, between verifying and storing.
FlushesAllCaches ==
    \A r \in Request :
        pc[r] = "served" => job[r].entry.identity >= job[r].flushed

=============================================================================
