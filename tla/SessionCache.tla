---------------------------- MODULE SessionCache ----------------------------
(***************************************************************************)
(* The cache of verified sessions without an authority (cache/session.rs,  *)
(* cache/mod.rs), the requests that fill it and the watchdogs of streams   *)
(* that ask it (middleware/pipeline.rs).                                   *)
(*                                                                         *)
(* A process keeps a first level in memory and a generation that every     *)
(* invalidation advances; the second level, in Redis, is one for all       *)
(* processes.  An entry of either level carries the generation of the      *)
(* process that wrote it.  A request captures the generation, looks up,    *)
(* asks the provider on a miss and stores the answer if no invalidation    *)
(* came meanwhile; each check is repeated after each await.                *)
(*                                                                         *)
(* One credential.  An identity is the revision of the account it was      *)
(* verified at; it carries the end of its session, so the cache sees that  *)
(* a session expired, and cannot see that it was revoked.  What leaves a   *)
(* level when its time to live or its capacity is used up is an eviction.  *)
(***************************************************************************)
EXTENDS Integers

CONSTANTS
    Process,      \* gateway processes
    Request,      \* requests in flight, each in one process
    Shared,       \* whether the second level (Redis) is configured
    Restarts,     \* whether processes restart
    MaxRevision,  \* bound: changes of the account
    MaxGen,       \* bound: invalidations of a process
    MaxFaults     \* bound: Redis calls that fail, restarts

ASSUME SessionAssumption ==
    /\ Shared \in BOOLEAN /\ Restarts \in BOOLEAN
    /\ MaxRevision \in Nat /\ MaxGen \in Nat /\ MaxFaults \in Nat

VARIABLES
    account,     \* external: the session at the provider
    l2,          \* the entry of the second level
    \* a process
    generation,  \* session_generation
    l1,          \* sessions
    flush,       \* where invalidate_all or invalidate_session is
    floor,       \* history: the revision at the last invalidation
    \* a request
    home,        \* the process it runs in
    pc,          \* the await it is at
    job,         \* its locals
    faults       \* faults so far (bound)

processVars == <<generation, l1, flush, floor>>
requestVars == <<home, pc, job>>
vars == <<account, l2, processVars, requestVars, faults>>

NoIdentity == -1
Identity   == Nat
Entry      == [generation : Nat, identity : Nat]
NoEntry    == [generation |-> 0, identity |-> NoIdentity]

\* The captured generation, what was found or verified, and whether it is the
\* watchdog of a stream that looks up.  History: the last invalidation of the
\* process when the lookup began.
Job == [generation : Nat, entry : Entry \cup {NoEntry}, watching : BOOLEAN,
        floor : Nat]

NoJob == [generation |-> 0, entry |-> NoEntry, watching |-> FALSE, floor |-> 0]

Awaits == {"idle", "lookup", "drop_l1", "l2", "got", "drop_l2", "copy", "copied",
           "authenticate", "put", "set", "set_done", "store", "stored", "undo",
           "served", "stream", "cut"}

TypeOK ==
    /\ account \in [revision : Nat, state : {"open", "expired", "revoked"}]
    /\ l2 \in Entry \cup {NoEntry}
    /\ generation \in [Process -> Nat]
    /\ l1 \in [Process -> Entry \cup {NoEntry}]
    /\ flush \in [Process -> {"idle", "clear", "delete"}]
    /\ floor \in [Process -> Nat]
    /\ home \in [Request -> Process]
    /\ pc \in [Request -> Awaits]
    /\ job \in [Request -> Job]
    /\ faults \in Nat

Init ==
    /\ account = [revision |-> 0, state |-> "open"]
    /\ l2 = NoEntry
    /\ generation = [p \in Process |-> 0]
    /\ l1 = [p \in Process |-> NoEntry]
    /\ flush = [p \in Process |-> "idle"]
    /\ floor = [p \in Process |-> 0]
    /\ home \in [Request -> Process]
    /\ pc = [r \in Request |-> "idle"]
    /\ job = [r \in Request |-> NoJob]
    /\ faults = 0

-----------------------------------------------------------------------------
(* Pieces of a step.                                                       *)

Goto(r, await) == pc' = [pc EXCEPT ![r] = await]

\* Nothing has invalidated sessions since the request captured the generation.
Unmoved(r) == generation[home[r]] = job[r].generation

\* Variant: the tag of an entry is not looked at.
CurrentUntagged(r, entry) ==
    /\ entry # NoEntry
    /\ Unmoved(r)
    /\ account.state # "expired"

\* cached_session_is_current.
Current(r, entry) ==
    /\ entry # NoEntry
    /\ entry.generation = job[r].generation
    /\ Unmoved(r)
    /\ account.state # "expired"

SetL1(p, entry) == l1' = [l1 EXCEPT ![p] = entry]

\* A call to Redis works, or fails and changes nothing.
Redis(works) == works /\ UNCHANGED faults
RedisFails   == faults < MaxFaults /\ faults' = faults + 1 /\ UNCHANGED l2

\* Variant: a watchdog that finds nothing lets the stream go on.
MissUnnoticed(r) == Goto(r, IF job[r].watching THEN "stream" ELSE "authenticate")

\* The lookup found nothing: the provider is asked, or the stream is cut.
Miss(r) == Goto(r, IF job[r].watching THEN "cut" ELSE "authenticate")

\* The request has its identity; a watchdog lets its stream go on.
Serve(r, entry) ==
    /\ Goto(r, "served")
    /\ job' = [job EXCEPT ![r].entry = entry]

-----------------------------------------------------------------------------
(* get_session_if_current.                                                 *)

Capture(r, watching) ==
    /\ job' = [job EXCEPT ![r] =
          [generation |-> generation[home[r]], entry |-> NoEntry,
           watching |-> watching, floor |-> floor[home[r]]]]
    /\ Goto(r, "lookup")
    /\ UNCHANGED <<account, l2, processVars, home, faults>>

\* A request comes in and captures the generation.
Begin(r) == pc[r] = "idle" /\ Capture(r, FALSE)

\* The ticker of a stream's watchdog: get_session.
Tick(r) == pc[r] = "stream" /\ Capture(r, TRUE)

LookupL1(r) ==
    LET entry == l1[home[r]] IN
    /\ pc[r] = "lookup"
    /\ \/ ~Unmoved(r) /\ Miss(r) /\ UNCHANGED <<l1, job>>
       \/ Unmoved(r) /\ Current(r, entry) /\ Serve(r, entry) /\ UNCHANGED l1
       \/ /\ Unmoved(r) /\ entry # NoEntry /\ ~Current(r, entry)
          /\ SetL1(home[r], NoEntry)
          /\ Goto(r, "drop_l1")
          /\ UNCHANGED job
       \/ /\ Unmoved(r) /\ entry = NoEntry
          /\ IF Shared THEN Goto(r, "l2") ELSE Miss(r)
          /\ UNCHANGED <<l1, job>>
    /\ UNCHANGED <<account, l2, generation, flush, floor, home, faults>>

\* The DEL of remove_session_key, after either level had a stale entry.
DropStale(r) ==
    /\ pc[r] \in {"drop_l1", "drop_l2"}
    /\ IF Shared THEN Redis(l2' = NoEntry) \/ RedisFails
                 ELSE UNCHANGED <<l2, faults>>
    /\ IF pc[r] = "drop_l1" /\ Shared THEN Goto(r, "l2") ELSE Miss(r)
    /\ UNCHANGED <<account, processVars, home, job>>

GetL2(r) ==
    /\ pc[r] = "l2"
    /\ \/ /\ Redis(job' = [job EXCEPT ![r].entry = l2])
          /\ IF l2 = NoEntry THEN Miss(r) ELSE Goto(r, "got")
          /\ UNCHANGED l2
       \/ RedisFails /\ Miss(r) /\ UNCHANGED job
    /\ UNCHANGED <<account, processVars, home>>

CheckL2(r) ==
    /\ pc[r] = "got"
    /\ IF Current(r, job[r].entry)
          THEN Goto(r, "copy") /\ UNCHANGED l1
          ELSE Goto(r, "drop_l2") /\ SetL1(home[r], NoEntry)
    /\ UNCHANGED <<account, l2, generation, flush, floor, home, job, faults>>

CopyToL1(r) ==
    /\ pc[r] = "copy"
    /\ SetL1(home[r], job[r].entry)
    /\ Goto(r, "copied")
    /\ UNCHANGED <<account, l2, generation, flush, floor, home, job, faults>>

AfterCopy(r) ==
    /\ pc[r] = "copied"
    /\ IF Unmoved(r) THEN Serve(r, job[r].entry) ELSE Miss(r) /\ UNCHANGED job
    /\ UNCHANGED <<account, l2, processVars, home, faults>>

-----------------------------------------------------------------------------
(* Authentication and put_session_if_current.                              *)

Authenticate(r) ==
    /\ pc[r] = "authenticate"
    /\ IF account.state = "open"
          THEN /\ job' = [job EXCEPT ![r].entry =
                      [generation |-> job[r].generation, identity |-> account.revision]]
               /\ Goto(r, "put")
          ELSE Goto(r, "idle") /\ job' = [job EXCEPT ![r] = NoJob]
    /\ UNCHANGED <<account, l2, processVars, home, faults>>

\* An answer that has expired, or that an invalidation overtook, is not stored.
Put(r) ==
    /\ pc[r] = "put"
    /\ Goto(r, IF account.state = "expired" \/ ~Unmoved(r) THEN "served"
               ELSE IF Shared THEN "set" ELSE "store")
    /\ UNCHANGED <<account, l2, processVars, home, job, faults>>

SetL2(r) ==
    /\ pc[r] = "set"
    /\ Redis(l2' = job[r].entry) \/ RedisFails
    /\ Goto(r, "set_done")
    /\ UNCHANGED <<account, processVars, home, job>>

AfterSet(r) ==
    /\ pc[r] = "set_done"
    /\ Goto(r, IF Unmoved(r) THEN "store" ELSE "undo")
    /\ UNCHANGED <<account, l2, processVars, home, job, faults>>

StoreL1(r) ==
    /\ pc[r] = "store"
    /\ IF Unmoved(r) THEN SetL1(home[r], job[r].entry) /\ Goto(r, "stored")
                     ELSE UNCHANGED l1 /\ Goto(r, "served")
    /\ UNCHANGED <<account, l2, generation, flush, floor, home, job, faults>>

AfterStore(r) ==
    /\ pc[r] = "stored"
    /\ IF Unmoved(r) THEN UNCHANGED l1 /\ Goto(r, "served")
                     ELSE SetL1(home[r], NoEntry) /\ Goto(r, "undo")
    /\ UNCHANGED <<account, l2, generation, flush, floor, home, job, faults>>

\* An invalidation came while the answer was stored: it is removed.
Undo(r) ==
    /\ pc[r] = "undo"
    /\ IF Shared THEN Redis(l2' = NoEntry) \/ RedisFails
                 ELSE UNCHANGED <<l2, faults>>
    /\ Goto(r, "served")
    /\ UNCHANGED <<account, processVars, home, job>>

-----------------------------------------------------------------------------
(* After the lookup: a request ends or becomes a stream, whose watchdog    *)
(* looks up again and again.                                               *)

Respond(r) ==
    /\ pc[r] = "served" /\ ~job[r].watching
    /\ \/ Goto(r, "idle") /\ job' = [job EXCEPT ![r] = NoJob]
       \/ Goto(r, "stream") /\ UNCHANGED job
    /\ UNCHANGED <<account, l2, processVars, home, faults>>

GoOn(r) ==
    /\ pc[r] = "served" /\ job[r].watching
    /\ Goto(r, "stream")
    /\ UNCHANGED <<account, l2, processVars, home, job, faults>>

\* The cancellation of a stream reaches its client; or a client leaves, and
\* its request is dropped at whatever await it is.
Leave(r) ==
    /\ pc[r] # "idle"
    /\ Goto(r, "idle")
    /\ job' = [job EXCEPT ![r] = NoJob]
    /\ UNCHANGED <<account, l2, processVars, home, faults>>

-----------------------------------------------------------------------------
(* Invalidation: invalidate_all, and invalidate_session, which does the    *)
(* same to one credential.                                                 *)

AdvanceGeneration(p) ==
    /\ flush[p] = "idle" /\ generation[p] < MaxGen
    /\ generation' = [generation EXCEPT ![p] = @ + 1]
    /\ floor' = [floor EXCEPT ![p] = account.revision]
    /\ flush' = [flush EXCEPT ![p] = "clear"]
    /\ UNCHANGED <<account, l2, l1, requestVars, faults>>

ClearL1(p) ==
    /\ flush[p] = "clear"
    /\ SetL1(p, NoEntry)
    /\ flush' = [flush EXCEPT ![p] = IF Shared THEN "delete" ELSE "idle"]
    /\ UNCHANGED <<account, l2, generation, floor, requestVars, faults>>

\* delete_l2_sessions: a failure is logged and forgotten.
DeleteL2(p) ==
    /\ flush[p] = "delete"
    /\ Redis(l2' = NoEntry) \/ RedisFails
    /\ flush' = [flush EXCEPT ![p] = "idle"]
    /\ UNCHANGED <<account, generation, l1, floor, requestVars>>

-----------------------------------------------------------------------------
(* Surroundings.                                                           *)

\* External: the account changes, its session ends.
ChangeAccount ==
    /\ account.state = "open"
    /\ \/ /\ account.revision < MaxRevision
          /\ account' = [account EXCEPT !.revision = @ + 1]
       \/ \E end \in {"expired", "revoked"} : account' = [account EXCEPT !.state = end]
    /\ UNCHANGED <<l2, processVars, requestVars, faults>>

\* The time to live, or the capacity, of a level.
EvictL1(p) ==
    /\ l1[p] # NoEntry /\ SetL1(p, NoEntry)
    /\ UNCHANGED <<account, l2, generation, flush, floor, requestVars, faults>>

EvictL2 ==
    /\ l2 # NoEntry /\ l2' = NoEntry
    /\ UNCHANGED <<account, processVars, requestVars, faults>>

\* The memory of a process is gone, and its generation with it.
Restart(p) ==
    /\ Restarts /\ faults < MaxFaults
    /\ faults' = faults + 1
    /\ generation' = [generation EXCEPT ![p] = 0]
    /\ SetL1(p, NoEntry)
    /\ flush' = [flush EXCEPT ![p] = "idle"]
    /\ pc' = [r \in Request |-> IF home[r] = p THEN "idle" ELSE pc[r]]
    /\ job' = [r \in Request |-> IF home[r] = p THEN NoJob ELSE job[r]]
    /\ UNCHANGED <<account, l2, floor, home>>

-----------------------------------------------------------------------------

\* What the runtime goes on with by itself.
Step(r) ==
    \/ LookupL1(r) \/ DropStale(r) \/ GetL2(r) \/ CheckL2(r) \/ CopyToL1(r)
    \/ AfterCopy(r) \/ Authenticate(r) \/ Put(r) \/ SetL2(r) \/ AfterSet(r)
    \/ StoreL1(r) \/ AfterStore(r) \/ Undo(r) \/ GoOn(r)

RequestNext(r) == Begin(r) \/ Step(r) \/ Respond(r) \/ Tick(r) \/ Leave(r)

ProcessNext(p) ==
    \/ AdvanceGeneration(p) \/ ClearL1(p) \/ DeleteL2(p) \/ EvictL1(p) \/ Restart(p)

Next ==
    \/ \E r \in Request : RequestNext(r)
    \/ \E p \in Process : ProcessNext(p)
    \/ ChangeAccount \/ EvictL2

Spec == Init /\ [][Next]_vars

\* Tasks go on, tickers tick, entries live no longer than their time to live.
Fairness ==
    /\ WF_vars(EvictL2)
    /\ \A r \in Request : WF_vars(Step(r)) /\ WF_vars(Tick(r))
    /\ \A p \in Process : WF_vars(EvictL1(p))

FairSpec == Spec /\ Fairness

-----------------------------------------------------------------------------
(* Properties.                                                             *)

\* A request, or a watchdog, that begins after its process invalidated the
\* sessions is not served an identity older than the invalidation, however
\* late an answer of the provider or of Redis comes and whatever call to Redis
\* fails (session.rs: the generation checked after every await).
ServedSinceInvalidation ==
    \A r \in Request :
        pc[r] = "served" => job[r].entry.identity >= job[r].floor

Streams == {r \in Request : pc[r] = "stream" \/ (job[r].watching /\ pc[r] # "cut")}

\* A session that expired or was revoked ends: in the end no stream goes on
\* with it, though the cache does not know that it was revoked (pipeline.rs,
\* the session watchdog; cache/mod.rs, time_to_live).
EndedSessionsLoseStreams == account.state # "open" ~> Streams = {}

-----------------------------------------------------------------------------
(* The argument.  Where there is no second level, or the processes that    *)
(* have requests keep their generation and agree on what it stands for, an *)
(* entry tagged with the present one is younger than the last              *)
(* invalidation.                                                           *)

\* Nothing in the code sees to it: one process with all requests that does not
\* restart does, and so do any number whose sessions nobody invalidates.
TagsAgree ==
    Shared => \A r \in Request :
        /\ generation'[home[r]] >= generation[home[r]]
        /\ \A q \in Request : /\ generation[home[q]] = generation[home[r]]
                             /\ floor[home[q]] = floor[home[r]]

\* The entry is no later than the process, and young if it is of its present.
Tagged(p, entry) ==
    entry # NoEntry =>
        /\ entry.generation <= generation[p]
        /\ entry.generation = generation[p] => entry.identity >= floor[p]

PastOnly ==
    /\ \A p \in Process : floor[p] <= account.revision
    /\ \A r \in Request : /\ job[r].floor <= floor[home[r]]
                          /\ job[r].generation <= generation[home[r]]

EntriesAreTagged ==
    /\ \A p \in Process : Tagged(p, l1[p])
    /\ \A r \in Request : Tagged(home[r], l2) /\ Tagged(home[r], job[r].entry)

\* What a request stores or is served is not older than its floor, and what it
\* stores carries the generation it captured.
AnswersAreYoung ==
    \A r \in Request :
        /\ pc[r] \in {"copy", "copied", "put", "set", "set_done", "store", "stored",
                      "undo", "served"} =>
              job[r].entry # NoEntry /\ job[r].entry.identity >= job[r].floor
        /\ pc[r] = "got" => job[r].entry # NoEntry

NothingShared == ~Shared => l2 = NoEntry /\ \A r \in Request : pc[r] \notin {"set", "l2"}

Inv == TypeOK /\ PastOnly /\ EntriesAreTagged /\ AnswersAreYoung /\ NothingShared

=============================================================================
