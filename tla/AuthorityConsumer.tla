-------------------------- MODULE AuthorityConsumer --------------------------
(***************************************************************************)
(* The ASO authority consumer (authority/consumer.rs, mod.rs, postgres.rs) *)
(* of every gateway replica, the ASO source it follows, the durable cursor *)
(* and the shared Redis fence it publishes through.                        *)
(*                                                                         *)
(* A replica may answer from its session cache only while it holds a proof *)
(* that it has applied every denial the source had committed a bounded     *)
(* time ago.  The proof is built by a chain of awaits (observe the fence,  *)
(* read a snapshot, check the cursor, replay the outbox, publish) and any  *)
(* of them may fail, be slow, or lose a race with the source or a peer.    *)
(* Each await is one action, so that the others interleave between them.   *)
(***************************************************************************)
EXTENDS FenceScripts, FiniteSets

CONSTANTS
    Replica,        \* gateway processes
    Session,        \* Kratos sessions (an issuer and a session id)
    NoSession,      \* the session of an event that denies none
    Fresh,          \* HIGH_WATER_FRESHNESS, in ticks
    Retain,         \* how long the source retains a denial, in ticks
    PageSize,       \* EVENT_PAGE_SIZE
    Gaps,           \* steps of the outbox sequence (2: a rolled back number)
    MaxTime,        \* bound: ticks of the clock
    MaxInc,         \* bound: namespaces the source adopts
    MaxRev,         \* bound: authorization revisions of a namespace
    MaxSeq,         \* bound: outbox sequences of a namespace
    MaxFaults       \* bound: failed awaits, crashes and cache fence failures

ASSUME ConsumerAssumption ==
    /\ NoSession \notin Session
    /\ Fresh \in Nat
    /\ Retain \in Nat \ {0}
    /\ PageSize \in Nat \ {0}
    /\ Gaps \subseteq Nat \ {0}
    /\ MaxTime \in Nat /\ MaxInc \in Nat /\ MaxRev \in Nat /\ MaxSeq \in Nat
    /\ MaxFaults \in Nat

VARIABLES
    now,        \* the clock (Instant::now of the replicas, NOW() of the source)
    \* the ASO source
    source,     \* its high water: namespace, revision, last outbox sequence
    outbox,     \* its authority_outbox rows
    denials,    \* its session_denials: retain_until, 0 where there is no row
    denied_at,  \* history: when a session was last denied
    \* shared by the replicas
    cursor,     \* aso_authority_cursors: one water for each namespace
    fence,      \* the Redis fence
    superseded, \* the Redis set of superseded namespaces
    \* AuthorityReadiness of a replica
    mode,       \* AuthorityCacheMode
    high_water, \* the applied water, NoWater before the first snapshot
    observed,   \* observed_high_water: the sequence last seen at the source
    last_probe, \* when the proof was taken, NoProbe without a proof
    required,   \* bootstrap_required
    denied,     \* denied_sessions: retain_until, 0 where there is no entry
    \* the consumer task of a replica
    pc,         \* the await it is at
    booting,    \* whether it runs bootstrap() or synchronize()
    retry,      \* requires_bootstrap of run()
    before,     \* shared_before_snapshot, or the expected water
    snap,       \* the snapshot read from the source
    observed_at,\* when the high water was asked for
    target,     \* the sequence the replay must reach
    page,       \* the events of one page not yet applied
    faults      \* faults so far (bound)

sourceVars == <<now, source, outbox, denials, denied_at>>
sharedVars == <<cursor, fence, superseded>>
readyVars  == <<mode, high_water, observed, last_probe, required, denied>>
taskVars   == <<pc, booting, retry, before, snap, observed_at, target, page>>
vars == <<sourceVars, sharedVars, readyVars, taskVars, faults>>

NoProbe == -1

Incarnation == 1..MaxInc
Time        == 0..MaxTime
RetainUntil == Nat

Event == [inc : Nat \ {0}, seq : Nat, rev : Nat \ {0},
          session : Session \cup {NoSession}]

\* A page row: the outbox row joined with the denial row as it is now.
PageEvent == [inc : Nat, seq : Nat, rev : Nat,
              session : Session \cup {NoSession}, retain_until : RetainUntil]

Snapshot == [water : HighWater, denied : [Session -> RetainUntil]]

EmptySnapshot == [water |-> NoWater, denied |-> [s \in Session |-> 0]]

Awaits == {"idle", "observe", "snapshot", "load", "store", "probe",
           "highwater", "replay", "apply", "advance", "publish", "mark"}

SourceTypeOK ==
    /\ now \in Nat
    /\ source \in HighWater /\ source.inc >= 1
    /\ outbox \subseteq Event
    /\ denials \in [Session -> RetainUntil]
    /\ denied_at \in [Session -> Nat]

SharedTypeOK ==
    /\ cursor \in [Incarnation -> HighWater]
    /\ fence \in HighWater
    /\ superseded \subseteq Nat

ReadyTypeOK ==
    /\ mode \in [Replica -> {"Bootstrapping", "Ready", "Bypass"}]
    /\ high_water \in [Replica -> HighWater]
    /\ observed \in [Replica -> Nat]
    /\ last_probe \in [Replica -> Nat \cup {NoProbe}]
    /\ required \in [Replica -> BOOLEAN]
    /\ denied \in [Replica -> [Session -> RetainUntil]]

TaskTypeOK ==
    /\ pc \in [Replica -> Awaits]
    /\ booting \in [Replica -> BOOLEAN]
    /\ retry \in [Replica -> BOOLEAN]
    /\ before \in [Replica -> HighWater]
    /\ snap \in [Replica -> Snapshot]
    /\ observed_at \in [Replica -> Nat]
    /\ target \in [Replica -> Nat]
    /\ page \in [Replica -> SUBSET PageEvent]

\* The types of the state of the source, the stores, a process and its task.
TypeOK ==
    SourceTypeOK /\ SharedTypeOK /\ ReadyTypeOK /\ TaskTypeOK /\ faults \in Nat

Init ==
    /\ now = 0
    /\ source = [inc |-> 1, rev |-> 1, seq |-> 0]
    /\ outbox = {}
    /\ denials = [s \in Session |-> 0]
    /\ denied_at = [s \in Session |-> 0]
    /\ cursor = [i \in Incarnation |-> NoWater]
    /\ fence = NoWater
    /\ superseded = {}
    /\ mode = [r \in Replica |-> "Bootstrapping"]
    /\ high_water = [r \in Replica |-> NoWater]
    /\ observed = [r \in Replica |-> 0]
    /\ last_probe = [r \in Replica |-> NoProbe]
    /\ required = [r \in Replica |-> TRUE]
    /\ denied = [r \in Replica |-> [s \in Session |-> 0]]
    /\ pc = [r \in Replica |-> "idle"]
    /\ booting = [r \in Replica |-> FALSE]
    /\ retry = [r \in Replica |-> TRUE]
    /\ before = [r \in Replica |-> NoWater]
    /\ snap = [r \in Replica |-> EmptySnapshot]
    /\ observed_at = [r \in Replica |-> 0]
    /\ target = [r \in Replica |-> 0]
    /\ page = [r \in Replica |-> {}]
    /\ faults = 0

-----------------------------------------------------------------------------
(* The ASO source (external).  The writers of an incarnation are           *)
(* serialised by its revision row, so sequences commit in order; a rolled  *)
(* back transaction leaves a gap.                                          *)

Tick ==
    /\ now < MaxTime
    /\ now' = now + 1
    /\ UNCHANGED <<source, outbox, denials, denied_at, sharedVars,
                   readyVars, taskVars, faults>>

Commit(session, gap) ==
    LET water == [inc |-> source.inc, rev |-> source.rev + 1,
                  seq |-> source.seq + gap] IN
    /\ water.rev <= MaxRev /\ water.seq <= MaxSeq
    /\ source' = water
    /\ outbox' = outbox \cup {[inc |-> water.inc, seq |-> water.seq,
                               rev |-> water.rev, session |-> session]}
    /\ IF session \in Session
       THEN /\ denials' = [denials EXCEPT ![session] = now + Retain]
            /\ denied_at' = [denied_at EXCEPT ![session] = now]
       ELSE UNCHANGED <<denials, denied_at>>
    /\ UNCHANGED <<now, sharedVars, readyVars, taskVars, faults>>

\* A revision with no outbox row: the code compares the two separately.
BumpRevision ==
    /\ source.rev < MaxRev
    /\ source' = [source EXCEPT !.rev = @ + 1]
    /\ UNCHANGED <<now, outbox, denials, denied_at, sharedVars,
                   readyVars, taskVars, faults>>

\* A restored or re-created authority database takes a new incarnation; its
\* denials belong to the deployment and stay.
Reincarnate ==
    /\ source.inc < MaxInc
    /\ source' = [inc |-> source.inc + 1, rev |-> 1, seq |-> 0]
    /\ UNCHANGED <<now, outbox, denials, denied_at, sharedVars,
                   readyVars, taskVars, faults>>

\* A denial is removed once nothing retains it: an event read later carries
\* no retain_until.
Purge(s) ==
    /\ denials[s] > 0 /\ denials[s] <= now
    /\ denials' = [denials EXCEPT ![s] = 0]
    /\ UNCHANGED <<now, source, outbox, denied_at, sharedVars,
                   readyVars, taskVars, faults>>

\* events_after: the outbox rows of the current incarnation after `from` and
\* through `through`, the first PageSize of them, each joined with the denial
\* row of its session as that row is now.
RowsAfter(from, through) ==
    {e \in outbox : e.inc = source.inc /\ e.seq > from /\ e.seq <= through}

JoinDenial(e) ==
    [inc |-> e.inc, seq |-> e.seq, rev |-> e.rev, session |-> e.session,
     retain_until |-> IF e.session \in Session THEN denials[e.session] ELSE 0]

EventsAfter(from, through) ==
    LET rows == RowsAfter(from, through) IN
    {JoinDenial(e) : e \in {e \in rows :
        Cardinality({f \in rows : f.seq < e.seq}) < PageSize}}

-----------------------------------------------------------------------------
(* The consumer task of replica r.                                         *)

SourceUnchanged == UNCHANGED sourceVars

\* The locals of an attempt go out of scope with it.
DropLocals(r) ==
    /\ booting' = [booting EXCEPT ![r] = FALSE]
    /\ before' = [before EXCEPT ![r] = NoWater]
    /\ snap' = [snap EXCEPT ![r] = EmptySnapshot]
    /\ observed_at' = [observed_at EXCEPT ![r] = 0]
    /\ target' = [target EXCEPT ![r] = 0]
    /\ page' = [page EXCEPT ![r] = {}]

\* Variant: the error of an attempt is not remembered.
AbandonForgetsRetry(r) ==
    /\ mode' = [mode EXCEPT ![r] = "Bypass"]
    /\ last_probe' = [last_probe EXCEPT ![r] = NoProbe]
    /\ retry' = [retry EXCEPT ![r] = FALSE]
    /\ pc' = [pc EXCEPT ![r] = "idle"]
    /\ DropLocals(r)
    /\ UNCHANGED <<high_water, observed, required, denied>>

\* run(): any error ends the attempt, lifts the proof and asks for a bootstrap
\* at the next tick.
Abandon(r) ==
    /\ mode' = [mode EXCEPT ![r] = "Bypass"]
    /\ last_probe' = [last_probe EXCEPT ![r] = NoProbe]
    /\ retry' = [retry EXCEPT ![r] = TRUE]
    /\ pc' = [pc EXCEPT ![r] = "idle"]
    /\ DropLocals(r)
    /\ UNCHANGED <<high_water, observed, required, denied>>

\* The tick of run(): a whole bootstrap, which first calls request_bootstrap.
StartBootstrap(r) ==
    /\ pc[r] = "idle" /\ (retry[r] \/ required[r])
    /\ required' = [required EXCEPT ![r] = TRUE]
    /\ mode' = [mode EXCEPT ![r] = "Bypass"]
    /\ last_probe' = [last_probe EXCEPT ![r] = NoProbe]
    /\ booting' = [booting EXCEPT ![r] = TRUE]
    /\ pc' = [pc EXCEPT ![r] = "observe"]
    /\ UNCHANGED <<sourceVars, sharedVars, high_water, observed, denied, retry,
                   before, snap, observed_at, target, page, faults>>

\* The tick of run(): a synchronization from the water applied so far.
StartSynchronize(r) ==
    /\ pc[r] = "idle" /\ ~retry[r] /\ ~required[r]
    /\ booting' = [booting EXCEPT ![r] = FALSE]
    /\ before' = [before EXCEPT ![r] = high_water[r]]
    /\ pc' = [pc EXCEPT ![r] = "probe"]
    /\ UNCHANGED <<sourceVars, sharedVars, readyVars, retry, snap, observed_at,
                   target, page, faults>>

\* fence.observe(), before the snapshot is read.
ObserveFence(r) ==
    /\ pc[r] = "observe"
    /\ before' = [before EXCEPT ![r] = fence]
    /\ pc' = [pc EXCEPT ![r] = "snapshot"]
    /\ UNCHANGED <<sourceVars, sharedVars, readyVars, booting, retry, snap,
                   observed_at, target, page, faults>>

\* source.snapshot(): the water and the denials of one repeatable-read
\* transaction; denials nothing retains any more are left out.
ReadSnapshot(r) ==
    /\ pc[r] = "snapshot"
    /\ snap' = [snap EXCEPT ![r] =
            [water |-> source,
             denied |-> [s \in Session |->
                            IF denials[s] > now THEN denials[s] ELSE 0]]]
    /\ pc' = [pc EXCEPT ![r] = "load"]
    /\ UNCHANGED <<sourceVars, sharedVars, readyVars, booting, retry, before,
                   observed_at, target, page, faults>>

\* The durable cursor of the snapshot's namespace is not ahead of the snapshot.
CursorAllows(r) == NotBehind(snap[r].water, cursor[snap[r].water.inc])

\* cursors.load() and, unless the durable cursor of that namespace is ahead of
\* the snapshot, apply_snapshot().
LoadCursor(r) ==
    LET water == snap[r].water IN
    /\ pc[r] = "load"
    /\ \/ /\ ~CursorAllows(r)
          /\ Abandon(r)
       \/ /\ CursorAllows(r)
          /\ mode' = [mode EXCEPT ![r] = "Bypass"]
          /\ high_water' = [high_water EXCEPT ![r] = water]
          /\ observed' = [observed EXCEPT ![r] = water.seq]
          /\ last_probe' = [last_probe EXCEPT ![r] = NoProbe]
          /\ denied' = [denied EXCEPT ![r] = snap[r].denied]
          /\ pc' = [pc EXCEPT ![r] = "store"]
          /\ UNCHANGED <<required, booting, retry, before, snap, observed_at,
                         target, page>>
    /\ UNCHANGED <<sourceVars, sharedVars, faults>>

\* The upsert of a snapshot's water leaves a row that is further ahead.
UpsertCursor(water) ==
    IF cursor[water.inc].seq <= water.seq
    THEN [cursor EXCEPT ![water.inc] = water]
    ELSE cursor

\* GREATEST() of each column.
RaiseCursor(water) ==
    [cursor EXCEPT ![water.inc].rev = IF @ < water.rev THEN water.rev ELSE @,
                   ![water.inc].seq = IF @ < water.seq THEN water.seq ELSE @]

\* cursors.store_snapshot().
StoreCursor(r) ==
    /\ pc[r] = "store"
    /\ cursor' = UpsertCursor(snap[r].water)
    /\ snap' = [snap EXCEPT ![r] = EmptySnapshot]
    /\ pc' = [pc EXCEPT ![r] = "probe"]
    /\ UNCHANGED <<sourceVars, fence, superseded, readyVars, booting, retry,
                   before, observed_at, target, page, faults>>

\* catch_up(): the observation is dated before the query that makes it.
DateProbe(r) ==
    /\ pc[r] = "probe"
    /\ observed_at' = [observed_at EXCEPT ![r] = now]
    /\ pc' = [pc EXCEPT ![r] = "highwater"]
    /\ UNCHANGED <<sourceVars, sharedVars, readyVars, booting, retry, before,
                   snap, target, page, faults>>

\* source.high_water() and observe_high_water(): another namespace or a
\* regression ends the attempt; a source that is ahead lifts the proof until
\* its events have been replayed.
ReadHighWater(r) ==
    /\ pc[r] = "highwater"
    /\ \/ /\ \/ source.inc # high_water[r].inc
             \/ ~NotBehind(source, high_water[r])
          /\ Abandon(r)
       \/ /\ source.inc = high_water[r].inc
          /\ NotBehind(source, high_water[r])
          /\ observed' = [observed EXCEPT ![r] = source.seq]
          /\ IF high_water[r].seq < source.seq
             THEN /\ mode' = [mode EXCEPT ![r] = "Bypass"]
                  /\ last_probe' = [last_probe EXCEPT ![r] = NoProbe]
                  /\ target' = [target EXCEPT ![r] = source.seq]
                  /\ pc' = [pc EXCEPT ![r] = "replay"]
             ELSE /\ pc' = [pc EXCEPT ![r] = "publish"]
                  /\ UNCHANGED <<mode, last_probe, target>>
          /\ UNCHANGED <<high_water, required, denied, booting, retry, before,
                         snap, observed_at, page>>
    /\ UNCHANGED <<sourceVars, sharedVars, faults>>

\* replay(): the next page; an empty one means a committed row is missing.
ReadPage(r) ==
    LET events == EventsAfter(high_water[r].seq, target[r]) IN
    /\ pc[r] = "replay"
    /\ \/ events = {} /\ Abandon(r)
       \/ /\ events # {}
          /\ page' = [page EXCEPT ![r] = events]
          /\ pc' = [pc EXCEPT ![r] = "apply"]
          /\ UNCHANGED <<readyVars, booting, retry, before, snap, observed_at,
                         target>>
    /\ UNCHANGED <<sourceVars, sharedVars, faults>>

\* apply_event() on the first event of the page.
ApplyEvent(r) ==
    /\ pc[r] = "apply"
    /\ \E e \in page[r] :
        /\ \A f \in page[r] : e.seq <= f.seq
        /\ \/ /\ e.inc # high_water[r].inc \/ e.rev < high_water[r].rev
              /\ Abandon(r)
           \/ /\ e.inc = high_water[r].inc /\ e.rev >= high_water[r].rev
              /\ high_water' = [high_water EXCEPT ![r].rev = e.rev,
                                                  ![r].seq = e.seq]
              /\ denied' = IF e.session \in Session /\ e.retain_until > 0
                           THEN [denied EXCEPT ![r][e.session] = e.retain_until]
                           ELSE denied
              /\ page' = [page EXCEPT ![r] = @ \ {e}]
              /\ pc' = [pc EXCEPT ![r] = "advance"]
              /\ UNCHANGED <<mode, observed, last_probe, required, booting, retry,
                             before, snap, observed_at, target>>
    /\ UNCHANGED <<sourceVars, sharedVars, faults>>

\* cursors.advance(), which raises each column to at least the event's; then
\* the next event, the next page or the next probe.
AdvanceCursor(r) ==
    /\ pc[r] = "advance"
    /\ cursor' = RaiseCursor(high_water[r])
    /\ pc' = [pc EXCEPT ![r] =
                  IF page[r] # {} THEN "apply"
                  ELSE IF high_water[r].seq < target[r] THEN "replay" ELSE "probe"]
    /\ UNCHANGED <<sourceVars, fence, superseded, readyVars, booting, retry,
                   before, snap, observed_at, target, page, faults>>

\* The verdict of the fence call that ends the attempt: fence.bootstrap(),
\* fence.advance(), or fence.matches() when nothing was applied.
FenceVerdict(r) ==
    IF booting[r]
    THEN BootstrapVerdict(fence, superseded, before[r], high_water[r])
    ELSE IF high_water[r] = before[r]
    THEN IF fence = high_water[r] THEN Unchanged ELSE Mismatch
    ELSE AdvanceVerdict(fence, before[r], high_water[r])

\* The effect of that call on the Redis data.
FenceWrite(r) ==
    IF FenceVerdict(r) = Written
    THEN /\ fence' = high_water[r]
         /\ superseded' = IF booting[r]
                          THEN SupersededBy(fence, superseded, high_water[r])
                          ELSE superseded
    ELSE UNCHANGED <<fence, superseded>>

Publish(r) ==
    /\ pc[r] = "publish"
    /\ FenceWrite(r)
    /\ \/ /\ Accepted(FenceVerdict(r))
          /\ pc' = [pc EXCEPT ![r] = "mark"]
          /\ UNCHANGED <<readyVars, booting, retry, before, snap, observed_at,
                         target, page>>
       \/ ~Accepted(FenceVerdict(r)) /\ Abandon(r)
    /\ UNCHANGED <<sourceVars, cursor, faults>>

\* The applied water has reached the observed sequence.
CaughtUp(r) == high_water[r] # NoWater /\ high_water[r].seq >= observed[r]

\* Variant: the proof is dated when it is complete.
DateOfCompletion(r) == now

\* The proof is dated by the probe it rests on.
DateOfProof(r) == observed_at[r]

\* mark_bootstrapped_ready(), or mark_ready(), which honours a bootstrap that
\* a cache operation has asked for in the meantime.
MarkReady(r) ==
    /\ pc[r] = "mark"
    /\ IF CaughtUp(r) /\ (booting[r] \/ ~required[r])
       THEN /\ mode' = [mode EXCEPT ![r] = "Ready"]
            /\ last_probe' = [last_probe EXCEPT ![r] = DateOfProof(r)]
            /\ required' = [required EXCEPT ![r] = FALSE]
       ELSE /\ mode' = [mode EXCEPT ![r] = "Bypass"]
            /\ last_probe' = [last_probe EXCEPT ![r] = NoProbe]
            /\ UNCHANGED required
    /\ retry' = [retry EXCEPT ![r] = FALSE]
    /\ pc' = [pc EXCEPT ![r] = "idle"]
    /\ DropLocals(r)
    /\ UNCHANGED <<sourceVars, sharedVars, high_water, observed, denied, faults>>

Consume(r) ==
    \/ StartBootstrap(r) \/ StartSynchronize(r)
    \/ ObserveFence(r) \/ ReadSnapshot(r) \/ LoadCursor(r) \/ StoreCursor(r)
    \/ DateProbe(r) \/ ReadHighWater(r) \/ ReadPage(r) \/ ApplyEvent(r)
    \/ AdvanceCursor(r) \/ Publish(r) \/ MarkReady(r)

-----------------------------------------------------------------------------
(* What goes wrong.                                                        *)

Fault == faults < MaxFaults /\ faults' = faults + 1

\* Any await may return an error without having had an effect...
FailAwait(r) ==
    /\ pc[r] \notin {"idle", "probe", "apply", "mark"}
    /\ Fault /\ Abandon(r)
    /\ UNCHANGED <<sourceVars, sharedVars>>

\* ... or after the write it asked for: the reply of a cursor store is lost, ...
LoseCursorReply(r) ==
    /\ Fault
    /\ \/ pc[r] = "store" /\ cursor' = UpsertCursor(snap[r].water)
       \/ pc[r] = "advance" /\ cursor' = RaiseCursor(high_water[r])
    /\ Abandon(r)
    /\ UNCHANGED <<sourceVars, fence, superseded>>

\* ... or a Redis call that timed out has been executed all the same.
LoseFenceReply(r) ==
    /\ pc[r] = "publish"
    /\ Fault /\ FenceWrite(r) /\ Abandon(r)
    /\ UNCHANGED <<sourceVars, cursor>>

\* request_bootstrap() from a cache operation or the configuration listener.
RequestBootstrap(r) ==
    /\ Fault
    /\ required' = [required EXCEPT ![r] = TRUE]
    /\ mode' = [mode EXCEPT ![r] = "Bypass"]
    /\ last_probe' = [last_probe EXCEPT ![r] = NoProbe]
    /\ UNCHANGED <<sourceVars, sharedVars, high_water, observed, denied, taskVars>>

\* The process is killed and started again: only the cursor and the fence stay.
Restart(r) ==
    /\ Fault
    /\ mode' = [mode EXCEPT ![r] = "Bootstrapping"]
    /\ high_water' = [high_water EXCEPT ![r] = NoWater]
    /\ observed' = [observed EXCEPT ![r] = 0]
    /\ last_probe' = [last_probe EXCEPT ![r] = NoProbe]
    /\ required' = [required EXCEPT ![r] = TRUE]
    /\ denied' = [denied EXCEPT ![r] = [s \in Session |-> 0]]
    /\ pc' = [pc EXCEPT ![r] = "idle"]
    /\ retry' = [retry EXCEPT ![r] = TRUE]
    /\ DropLocals(r)
    /\ UNCHANGED <<sourceVars, sharedVars>>

\* The Redis data set is lost.
LoseRedis ==
    /\ Fault
    /\ fence' = NoWater /\ superseded' = {}
    /\ UNCHANGED <<sourceVars, cursor, readyVars, taskVars>>

\* The source is restored from a backup that misses its newest event, without
\* taking a new incarnation (external).
Regress ==
    \E e \in outbox :
        /\ e.inc = source.inc /\ e.seq = source.seq
        /\ Fault
        /\ outbox' = outbox \ {e}
        /\ \E seq \in 0..e.seq - 1 :
            /\ \A f \in outbox' : f.inc = source.inc => f.seq <= seq
            /\ seq = 0 \/ \E f \in outbox' : f.inc = source.inc /\ f.seq = seq
            /\ source' = [source EXCEPT !.rev = e.rev - 1, !.seq = seq]
        /\ UNCHANGED <<now, denials, denied_at, sharedVars, readyVars, taskVars>>

-----------------------------------------------------------------------------
SourceStep ==
    \/ \E s \in Session \cup {NoSession}, gap \in Gaps : Commit(s, gap)
    \/ BumpRevision \/ Reincarnate
    \/ \E s \in Session : Purge(s)

FaultStep ==
    \E r \in Replica :
        \/ FailAwait(r) \/ LoseCursorReply(r) \/ LoseFenceReply(r)
        \/ RequestBootstrap(r) \/ Restart(r)

Next == Tick \/ SourceStep \/ FaultStep \/ \E r \in Replica : Consume(r)

Spec == Init /\ [][Next]_vars

\* The same system on a Redis that may lose its data, ...
LossySpec == Init /\ [][Next \/ LoseRedis]_vars

\* ... over a source that may be restored under the same incarnation, ...
RegressSpec == Init /\ [][Next \/ Regress]_vars

\* ... and with both.
WorstSpec == Init /\ [][Next \/ LoseRedis \/ Regress]_vars

\* The ticker of run() keeps every consumer going.
Fairness == \A r \in Replica : WF_vars(Consume(r))

FairSpec == Spec /\ Fairness

-----------------------------------------------------------------------------
(* Properties.                                                             *)

\* readiness_is_current: what every cache operation asks before it answers.
Current(r) ==
    /\ ~required[r]
    /\ mode[r] = "Ready"
    /\ last_probe[r] # NoProbe /\ now - last_probe[r] <= Fresh
    /\ CaughtUp(r)

\* still_permits_session, for the high water the caller acquired.
Permits(r, s) == Current(r) /\ ~(denied[r][s] > now)

\* Bounded staleness: however slow the awaits of a replica were, and whatever
\* failed, restarted or was lost meanwhile, a session the source denied more
\* than the freshness window ago is not answered from the cache while the
\* source retains the denial.
BoundedStaleness ==
    \A r \in Replica, s \in Session :
        Permits(r, s) /\ denials[s] > now => now <= denied_at[s] + Fresh

\* A proof is only held for a water that was published: as long as Redis keeps
\* its data, the fence is at or past what a ready replica has applied, or has
\* left the namespace for good.
ReadyIsPublished ==
    \A r \in Replica : mode[r] = "Ready" =>
        \/ fence.inc = high_water[r].inc /\ NotBehind(fence, high_water[r])
        \/ high_water[r].inc \in superseded

\* The durable cursor is a watermark: two replicas that write it in any order
\* never move the sequence of a namespace back.
CursorIsWatermark ==
    [][\A i \in Incarnation : cursor'[i].seq >= cursor[i].seq]_vars

\* The fence the replicas share is the one MonotonicFence promises: their
\* races, retries and lost replies never take it back.
Shared == INSTANCE MonotonicFence
ImplementsFence == Shared!Spec

\* Once commits and failures stop, every replica proves itself ready at the
\* last sequence of the source: no interleaving of compare-and-sets leaves two
\* replicas turning each other away for ever.
Converges ==
    <>[](\A r \in Replica : /\ mode[r] = "Ready"
                            /\ high_water[r].inc = source.inc
                            /\ high_water[r].seq = source.seq
                            /\ fence = high_water[r])

=============================================================================
