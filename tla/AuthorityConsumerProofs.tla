----------------------- MODULE AuthorityConsumerProofs -----------------------
(***************************************************************************)
(* Proofs, for any number of replicas and sessions, any page size and any  *)
(* freshness window, of the safety properties of AuthorityConsumer; the    *)
(* last part, bounded staleness, with a Redis that may lose its data.      *)
(***************************************************************************)
EXTENDS AuthorityInvariant, TLAPS, FiniteSetTheorems

-----------------------------------------------------------------------------
(* Types.                                                                  *)

\* An abandoned attempt leaves a process and its task well typed.
LEMMA AbandonType ==
    ASSUME ReadyTypeOK, TaskTypeOK, NEW r \in Replica, Abandon(r)
    PROVE  ReadyTypeOK' /\ TaskTypeOK'
  BY DEF ReadyTypeOK, TaskTypeOK, Abandon, DropLocals, NoProbe, Awaits,
         HighWater, NoWater, Snapshot, EmptySnapshot, RetainUntil

\* A fence call leaves the shared stores well typed.
LEMMA FenceWriteType ==
    ASSUME SharedTypeOK, ReadyTypeOK, NEW r \in Replica, FenceWrite(r)
    PROVE  fence' \in HighWater /\ superseded' \subseteq Nat
  <1>1. high_water[r] \in HighWater /\ fence.inc \in Nat
    BY DEF SharedTypeOK, ReadyTypeOK, HighWater
  <1>2. CASE FenceVerdict(r) = Written
    <2>1. fence' \in HighWater
      BY <1>1, <1>2 DEF FenceWrite
    <2>2. SupersededBy(fence, superseded, high_water[r]) \subseteq Nat
      BY <1>1 DEF SupersededBy, SharedTypeOK
    <2>3. superseded' \subseteq Nat
      BY <1>2, <2>2 DEF FenceWrite, SharedTypeOK
    <2> QED  BY <2>1, <2>3
  <1>3. CASE FenceVerdict(r) # Written
    BY <1>3 DEF FenceWrite, SharedTypeOK
  <1> QED  BY <1>2, <1>3

\* The initial values are well typed.
LEMMA InitType == Init => TypeOK
  <1> SUFFICES ASSUME Init PROVE TypeOK  OBVIOUS
  <1>1. NoWater \in HighWater /\ EmptySnapshot \in Snapshot
    BY DEF NoWater, HighWater, EmptySnapshot, Snapshot, RetainUntil
  <1>2. SourceTypeOK
    BY DEF Init, SourceTypeOK, HighWater, RetainUntil
  <1>3. SharedTypeOK
    BY <1>1 DEF Init, SharedTypeOK
  <1>4. ReadyTypeOK
    BY <1>1 DEF Init, ReadyTypeOK, RetainUntil
  <1>5. TaskTypeOK
    BY <1>1 DEF Init, TaskTypeOK, Awaits
  <1> QED
    BY <1>2, <1>3, <1>4, <1>5 DEF Init, TypeOK

\* Every step of the clock and of the source keeps the types.
LEMMA SourceType ==
    ASSUME TypeOK, Tick \/ SourceStep \/ Regress
    PROVE  TypeOK'
  <1>1. CASE Tick
    BY <1>1 DEF Tick, TypeOK, SourceTypeOK, SharedTypeOK, ReadyTypeOK,
                TaskTypeOK, sharedVars, readyVars, taskVars
  <1>2. ASSUME NEW s \in Session \cup {NoSession}, NEW gap \in Gaps, Commit(s, gap)
        PROVE  TypeOK'
    <2>1. gap \in Nat  BY ConsumerAssumption
    <2> DEFINE water == [inc |-> source.inc, rev |-> source.rev + 1,
                         seq |-> source.seq + gap]
    <2>3. /\ water \in HighWater
          /\ water.inc \in Nat \ {0} /\ water.seq \in Nat
          /\ water.rev \in Nat \ {0}
      BY <2>1 DEF TypeOK, SourceTypeOK, HighWater
    <2>4. outbox' \subseteq Event
      <3>1. [inc |-> water.inc, seq |-> water.seq, rev |-> water.rev, session |-> s]
                \in Event
        BY <2>3 DEF Event
      <3> QED  BY <1>2, <3>1 DEF Commit, TypeOK, SourceTypeOK
    <2>5. denials' \in [Session -> RetainUntil] /\ denied_at' \in [Session -> Nat]
      BY <1>2, ConsumerAssumption DEF Commit, TypeOK, SourceTypeOK, RetainUntil
    <2>2. SourceTypeOK'
      BY <1>2, <2>3, <2>4, <2>5 DEF Commit, TypeOK, SourceTypeOK
    <2> QED
      BY <1>2, <2>2 DEF Commit, TypeOK, SharedTypeOK, ReadyTypeOK, TaskTypeOK,
                        sharedVars, readyVars, taskVars
  <1>3. CASE BumpRevision \/ Reincarnate
    <2>1. SourceTypeOK'
      BY <1>3 DEF BumpRevision, Reincarnate, TypeOK, SourceTypeOK, HighWater
    <2> QED
      BY <1>3, <2>1 DEF BumpRevision, Reincarnate, TypeOK, SharedTypeOK,
                        ReadyTypeOK, TaskTypeOK, sharedVars, readyVars, taskVars
  <1>4. ASSUME NEW s \in Session, Purge(s) PROVE TypeOK'
    BY <1>4 DEF Purge, TypeOK, SourceTypeOK, SharedTypeOK, ReadyTypeOK,
                TaskTypeOK, sharedVars, readyVars, taskVars, RetainUntil
  <1>5. CASE Regress
    <2>1. PICK e \in outbox, seq \in Nat :
                /\ outbox' = outbox \ {e}
                /\ source' = [source EXCEPT !.rev = e.rev - 1, !.seq = seq]
                /\ faults' = faults + 1
                /\ UNCHANGED <<now, denials, denied_at, sharedVars, readyVars,
                               taskVars>>
      BY <1>5 DEF Regress, Fault, TypeOK, SourceTypeOK, Event
    <2>2. e.rev - 1 \in Nat
      BY DEF TypeOK, SourceTypeOK, Event
    <2>3. SourceTypeOK'
      BY <2>1, <2>2 DEF TypeOK, SourceTypeOK, HighWater
    <2> QED
      BY <2>1, <2>3 DEF TypeOK, SharedTypeOK, ReadyTypeOK, TaskTypeOK,
                        sharedVars, readyVars, taskVars
  <1> QED
    BY <1>1, <1>2, <1>3, <1>4, <1>5 DEF SourceStep

\* What a page holds is well typed.
LEMMA PageType ==
    ASSUME SourceTypeOK, NEW from, NEW through
    PROVE  EventsAfter(from, through) \subseteq PageEvent
  <1> SUFFICES ASSUME NEW p \in EventsAfter(from, through) PROVE p \in PageEvent
    OBVIOUS
  <1>1. PICK e \in outbox : p = JoinDenial(e)
    BY DEF EventsAfter, RowsAfter
  <1>2. e \in Event
    BY DEF SourceTypeOK
  <1>3. e.session \in Session => denials[e.session] \in Nat
    BY DEF SourceTypeOK, RetainUntil
  <1> QED
    BY <1>1, <1>2, <1>3 DEF JoinDenial, Event, PageEvent, RetainUntil

\* Every step of a consumer keeps the types.
LEMMA ConsumeType ==
    ASSUME TypeOK, NEW r \in Replica, Consume(r)
    PROVE  TypeOK'
  <1> USE DEF TypeOK
  <1>1. SourceTypeOK' /\ faults' \in Nat
    BY DEF Consume, StartBootstrap, StartSynchronize, ObserveFence, ReadSnapshot,
           LoadCursor, StoreCursor, DateProbe, ReadHighWater, ReadPage, ApplyEvent,
           AdvanceCursor, Publish, MarkReady, SourceTypeOK, sourceVars
  <1>2. CASE StartBootstrap(r)
    BY <1>1, <1>2 DEF StartBootstrap, SharedTypeOK, ReadyTypeOK, TaskTypeOK,
                      sharedVars, Awaits
  <1>3. CASE StartSynchronize(r)
    BY <1>1, <1>3 DEF StartSynchronize, SharedTypeOK, ReadyTypeOK, TaskTypeOK,
                      sharedVars, readyVars, Awaits
  <1>4. CASE ObserveFence(r)
    BY <1>1, <1>4 DEF ObserveFence, SharedTypeOK, ReadyTypeOK, TaskTypeOK,
                      sharedVars, readyVars, Awaits
  <1>5. CASE ReadSnapshot(r)
    <2>1. [s \in Session |-> IF denials[s] > now THEN denials[s] ELSE 0]
            \in [Session -> RetainUntil]
      BY DEF SourceTypeOK, RetainUntil
    <2> QED
      BY <1>1, <1>5, <2>1 DEF ReadSnapshot, SourceTypeOK, SharedTypeOK,
         ReadyTypeOK, TaskTypeOK, sharedVars, readyVars, Awaits, Snapshot
  <1>6. CASE LoadCursor(r)
    <2>1. SharedTypeOK'
      BY <1>6 DEF LoadCursor, SharedTypeOK, sharedVars
    <2>2. CASE Abandon(r)
      BY <1>1, <2>1, <2>2, AbandonType
    <2>3. CASE ~Abandon(r)
      <3>1. /\ snap[r].water \in HighWater /\ snap[r].water.seq \in Nat
            /\ snap[r].denied \in [Session -> RetainUntil]
        BY DEF TaskTypeOK, Snapshot, HighWater
      <3>2. ReadyTypeOK'
        BY <1>6, <2>3, <3>1 DEF LoadCursor, ReadyTypeOK, NoProbe
      <3>3. TaskTypeOK'
        BY <1>6, <2>3 DEF LoadCursor, TaskTypeOK, Awaits
      <3> QED  BY <1>1, <2>1, <3>2, <3>3
    <2> QED  BY <2>2, <2>3
  <1>7. CASE StoreCursor(r)
    <2>1. snap[r].water \in HighWater /\ EmptySnapshot \in Snapshot
      BY DEF TaskTypeOK, Snapshot, EmptySnapshot, NoWater, HighWater, RetainUntil
    <2>2. SharedTypeOK'
      BY <1>7, <2>1 DEF StoreCursor, UpsertCursor, SharedTypeOK
    <2> QED
      BY <1>1, <1>7, <2>1, <2>2 DEF StoreCursor, ReadyTypeOK, TaskTypeOK, readyVars,
         Awaits
  <1>8. CASE DateProbe(r)
    BY <1>1, <1>8 DEF DateProbe, SourceTypeOK, SharedTypeOK, ReadyTypeOK,
                      TaskTypeOK, sharedVars, readyVars, Awaits
  <1>9. CASE ReadHighWater(r)
    <2>1. SharedTypeOK'
      BY <1>9 DEF ReadHighWater, SharedTypeOK, sharedVars
    <2>2. CASE Abandon(r)
      BY <1>1, <2>1, <2>2, AbandonType
    <2>3. CASE ~Abandon(r)
      <3>1. ReadyTypeOK'
        BY <1>9, <2>3 DEF ReadHighWater, SourceTypeOK, ReadyTypeOK, HighWater
      <3>2. TaskTypeOK'
        BY <1>9, <2>3 DEF ReadHighWater, SourceTypeOK, TaskTypeOK, HighWater, Awaits
      <3> QED  BY <1>1, <2>1, <3>1, <3>2
    <2> QED  BY <2>2, <2>3
  <1>10. CASE ReadPage(r)
    <2>1. SharedTypeOK'
      BY <1>10 DEF ReadPage, SharedTypeOK, sharedVars
    <2>2. CASE Abandon(r)
      BY <1>1, <2>1, <2>2, AbandonType
    <2>3. CASE ~Abandon(r)
      <3>1. ReadyTypeOK'
        BY <1>10, <2>3 DEF ReadPage, ReadyTypeOK, readyVars
      <3>2. TaskTypeOK'
        BY <1>10, <2>3, PageType DEF ReadPage, TaskTypeOK, Awaits
      <3> QED  BY <1>1, <2>1, <3>1, <3>2
    <2> QED  BY <2>2, <2>3
  <1>11. CASE ApplyEvent(r)
    <2>1. SharedTypeOK'
      BY <1>11 DEF ApplyEvent, SharedTypeOK, sharedVars
    <2>2. CASE Abandon(r)
      BY <1>1, <2>1, <2>2, AbandonType
    <2>3. CASE ~Abandon(r)
      <3>1. PICK e \in page[r] :
                /\ high_water' = [high_water EXCEPT ![r].rev = e.rev,
                                                    ![r].seq = e.seq]
                /\ denied' = IF e.session \in Session /\ e.retain_until > 0
                             THEN [denied EXCEPT ![r][e.session] = e.retain_until]
                             ELSE denied
                /\ page' = [page EXCEPT ![r] = @ \ {e}]
                /\ pc' = [pc EXCEPT ![r] = "advance"]
                /\ UNCHANGED <<mode, observed, last_probe, required, booting, retry,
                               before, snap, observed_at, target>>
        BY <1>11, <2>3 DEF ApplyEvent
      <3>2. e \in PageEvent
        BY DEF TaskTypeOK
      <3>3. ReadyTypeOK'
        BY ZenonT(60), <3>1, <3>2 DEF ReadyTypeOK, PageEvent, HighWater
      <3>4. TaskTypeOK'
        BY <3>1 DEF TaskTypeOK, Awaits
      <3> QED  BY <1>1, <2>1, <3>3, <3>4
    <2> QED  BY <2>2, <2>3
  <1>12. CASE AdvanceCursor(r)
    <2>1. SharedTypeOK'
      BY ZenonT(60), <1>12 DEF AdvanceCursor, RaiseCursor, SharedTypeOK, ReadyTypeOK, HighWater
    <2> QED
      BY <1>1, <1>12, <2>1 DEF AdvanceCursor, ReadyTypeOK, TaskTypeOK, readyVars,
         Awaits
  <1>13. CASE Publish(r)
    <2>1. SharedTypeOK'
      BY <1>13, FenceWriteType DEF Publish, SharedTypeOK
    <2>2. CASE Abandon(r)
      BY <1>1, <2>1, <2>2, AbandonType
    <2>3. CASE ~Abandon(r)
      BY <1>1, <1>13, <2>1, <2>3 DEF Publish, ReadyTypeOK, TaskTypeOK, readyVars,
         Awaits
    <2> QED  BY <2>2, <2>3
  <1>14. CASE MarkReady(r)
    <2>1. SharedTypeOK' /\ ReadyTypeOK'
      BY <1>14 DEF MarkReady, SharedTypeOK, ReadyTypeOK, TaskTypeOK, sharedVars,
         DateOfProof, NoProbe
    <2>2. TaskTypeOK'
      BY <1>14 DEF MarkReady, TaskTypeOK, DropLocals, Awaits, HighWater, NoWater,
         Snapshot, EmptySnapshot, RetainUntil
    <2> QED  BY <1>1, <2>1, <2>2
  <1> QED
    BY <1>2, <1>3, <1>4, <1>5, <1>6, <1>7, <1>8, <1>9, <1>10, <1>11, <1>12,
       <1>13, <1>14 DEF Consume

\* Every failure keeps the types.
LEMMA FaultType ==
    ASSUME TypeOK, FaultStep \/ LoseRedis
    PROVE  TypeOK'
  <1> USE DEF TypeOK
  <1>1. ASSUME NEW r \in Replica, FailAwait(r) \/ LoseCursorReply(r) \/ LoseFenceReply(r)
        PROVE  TypeOK'
    <2>1. SourceTypeOK' /\ faults' \in Nat /\ Abandon(r)
      BY <1>1 DEF FailAwait, LoseCursorReply, LoseFenceReply, Fault, SourceTypeOK,
                  sourceVars
    <2>2. ReadyTypeOK' /\ TaskTypeOK'
      BY <2>1, AbandonType
    <2>3. snap[r].water \in HighWater
      BY DEF TaskTypeOK, Snapshot
    <2>4. SharedTypeOK'
      <3>1. CASE FailAwait(r)
        BY <3>1 DEF FailAwait, SharedTypeOK, sharedVars
      <3>2. CASE LoseCursorReply(r)
        BY <2>3, <3>2 DEF LoseCursorReply, UpsertCursor, RaiseCursor, SharedTypeOK,
                          ReadyTypeOK, HighWater
      <3>3. CASE LoseFenceReply(r)
        BY <3>3, FenceWriteType DEF LoseFenceReply, SharedTypeOK
      <3> QED  BY <1>1, <3>1, <3>2, <3>3
    <2> QED  BY <2>1, <2>2, <2>4
  <1>2. ASSUME NEW r \in Replica, RequestBootstrap(r) PROVE TypeOK'
    BY <1>2 DEF RequestBootstrap, Fault, SourceTypeOK, SharedTypeOK, ReadyTypeOK,
                TaskTypeOK, sourceVars, sharedVars, taskVars
  <1>3. ASSUME NEW r \in Replica, Restart(r) PROVE TypeOK'
    <2>1. SourceTypeOK' /\ SharedTypeOK' /\ faults' \in Nat
      BY <1>3 DEF Restart, Fault, SourceTypeOK, SharedTypeOK, sourceVars, sharedVars
    <2>2. ReadyTypeOK'
      BY <1>3 DEF Restart, ReadyTypeOK, HighWater, NoWater, RetainUntil
    <2>3. TaskTypeOK'
      BY <1>3 DEF Restart, TaskTypeOK, DropLocals, Awaits, HighWater, NoWater,
                  Snapshot, EmptySnapshot, RetainUntil
    <2> QED  BY <2>1, <2>2, <2>3
  <1>4. CASE LoseRedis
    BY <1>4 DEF LoseRedis, Fault, SourceTypeOK, SharedTypeOK, ReadyTypeOK, TaskTypeOK,
                sourceVars, readyVars, taskVars, HighWater, NoWater
  <1> QED
    BY <1>1, <1>2, <1>3, <1>4 DEF FaultStep

LEMMA StepType ==
    ASSUME TypeOK, [Next \/ LoseRedis \/ Regress]_vars
    PROVE  TypeOK'
  <1>1. CASE UNCHANGED vars
    BY <1>1 DEF vars, sourceVars, sharedVars, readyVars, taskVars, TypeOK,
                SourceTypeOK, SharedTypeOK, ReadyTypeOK, TaskTypeOK
  <1> QED
    BY <1>1, SourceType, ConsumeType, FaultType DEF Next

\* Type correctness, whatever fails: Redis may lose its data and the source may
\* be restored.
THEOREM TypeCorrect == WorstSpec => []TypeOK
  BY InitType, StepType, PTL DEF WorstSpec

-----------------------------------------------------------------------------
(* Every process touches its own state only.                               *)

\* Nothing of process q changes.
Untouched(q) ==
    /\ mode'[q] = mode[q] /\ high_water'[q] = high_water[q]
    /\ observed'[q] = observed[q] /\ last_probe'[q] = last_probe[q]
    /\ required'[q] = required[q] /\ denied'[q] = denied[q]
    /\ pc'[q] = pc[q] /\ booting'[q] = booting[q] /\ retry'[q] = retry[q]
    /\ before'[q] = before[q] /\ snap'[q] = snap[q]
    /\ observed_at'[q] = observed_at[q] /\ target'[q] = target[q]
    /\ page'[q] = page[q]

ProcessFault(r) ==
    FailAwait(r) \/ LoseCursorReply(r) \/ LoseFenceReply(r)
        \/ RequestBootstrap(r) \/ Restart(r)

LEMMA AbandonLocal ==
    ASSUME TypeOK, NEW r \in Replica, NEW q \in Replica, q # r, Abandon(r)
    PROVE  Untouched(q)
  BY DEF TypeOK, ReadyTypeOK, TaskTypeOK, Abandon, DropLocals, Untouched

\* A step of one process leaves the others alone.
LEMMA ProcessLocal ==
    ASSUME TypeOK, NEW r \in Replica, NEW q \in Replica, q # r,
           Consume(r) \/ ProcessFault(r)
    PROVE  Untouched(q)
  <1> USE DEF TypeOK, ReadyTypeOK, TaskTypeOK, readyVars, taskVars
  <1>1. CASE Abandon(r)
    BY <1>1, AbandonLocal
  <1>2. CASE StartBootstrap(r)
    BY <1>2 DEF StartBootstrap, Untouched
  <1>3. CASE StartSynchronize(r)
    BY <1>3 DEF StartSynchronize, Untouched
  <1>4. CASE ObserveFence(r)
    BY <1>4 DEF ObserveFence, Untouched
  <1>5. CASE ReadSnapshot(r)
    BY <1>5 DEF ReadSnapshot, Untouched
  <1>6. CASE LoadCursor(r) /\ ~Abandon(r)
    BY <1>6 DEF LoadCursor, Untouched
  <1>7. CASE StoreCursor(r)
    BY <1>7 DEF StoreCursor, Untouched
  <1>8. CASE DateProbe(r)
    BY <1>8 DEF DateProbe, Untouched
  <1>9. CASE ReadHighWater(r) /\ ~Abandon(r)
    BY <1>9 DEF ReadHighWater, Untouched
  <1>10. CASE ReadPage(r) /\ ~Abandon(r)
    BY <1>10 DEF ReadPage, Untouched
  <1>11. CASE ApplyEvent(r) /\ ~Abandon(r)
    BY <1>11 DEF ApplyEvent, Untouched
  <1>12. CASE AdvanceCursor(r)
    BY <1>12 DEF AdvanceCursor, Untouched
  <1>13. CASE Publish(r) /\ ~Abandon(r)
    BY <1>13 DEF Publish, Untouched
  <1>14. CASE MarkReady(r)
    BY <1>14 DEF MarkReady, DropLocals, Untouched
  <1>15. CASE RequestBootstrap(r)
    BY <1>15 DEF RequestBootstrap, Untouched
  <1>16. CASE Restart(r)
    BY <1>16 DEF Restart, DropLocals, Untouched
  <1> QED
    BY <1>1, <1>2, <1>3, <1>4, <1>5, <1>6, <1>7, <1>8, <1>9, <1>10, <1>11, <1>12,
       <1>13, <1>14, <1>15, <1>16
       DEF Consume, ProcessFault, FailAwait, LoseCursorReply, LoseFenceReply

\* A step outside the processes leaves all of them alone.
LEMMA EnvironmentLocal ==
    ASSUME Tick \/ SourceStep \/ LoseRedis \/ Regress \/ UNCHANGED vars,
           NEW q
    PROVE  Untouched(q)
  <1>1. UNCHANGED <<readyVars, taskVars>>
    BY DEF Tick, SourceStep, Commit, BumpRevision, Reincarnate, Purge, LoseRedis,
           Regress, vars
  <1> QED
    BY <1>1 DEF readyVars, taskVars, Untouched

-----------------------------------------------------------------------------
(* Readiness is published.                                                 *)

LEMMA SteadyUntouched ==
    ASSUME NEW q, Steady(q), Untouched(q)
    PROVE  Steady(q)'
  BY DEF Steady, Untouched

LEMMA SteadyAbandon ==
    ASSUME TypeOK, NEW r \in Replica, Steady(r), Abandon(r)
    PROVE  Steady(r)'
  BY DEF TypeOK, ReadyTypeOK, TaskTypeOK, Steady, Abandon, NoProbe

\* A step of a process keeps it steady.
LEMMA SteadyProcess ==
    ASSUME TypeOK, NEW r \in Replica, Steady(r), Consume(r) \/ ProcessFault(r)
    PROVE  Steady(r)'
  <1> USE DEF TypeOK, ReadyTypeOK, TaskTypeOK, readyVars, taskVars, Steady
  <1>1. CASE Abandon(r)
    BY <1>1, SteadyAbandon
  <1>2. CASE StartBootstrap(r)
    BY <1>2 DEF StartBootstrap
  <1>3. CASE StartSynchronize(r)
    BY <1>3 DEF StartSynchronize
  <1>4. CASE ObserveFence(r)
    BY <1>4 DEF ObserveFence
  <1>5. CASE ReadSnapshot(r)
    BY <1>5 DEF ReadSnapshot, SourceTypeOK
  <1>6. CASE LoadCursor(r) /\ ~Abandon(r)
    BY <1>6 DEF LoadCursor
  <1>7. CASE StoreCursor(r)
    BY <1>7 DEF StoreCursor
  <1>8. CASE DateProbe(r)
    BY <1>8 DEF DateProbe
  <1>9. CASE ReadHighWater(r) /\ ~Abandon(r)
    BY <1>9 DEF ReadHighWater
  <1>10. CASE ReadPage(r) /\ ~Abandon(r)
    BY <1>10 DEF ReadPage
  <1>11. CASE ApplyEvent(r) /\ ~Abandon(r)
    BY SMTT(60), <1>11 DEF ApplyEvent, HighWater
  <1>12. CASE AdvanceCursor(r)
    BY <1>12 DEF AdvanceCursor
  <1>13. CASE Publish(r) /\ ~Abandon(r)
    BY <1>13 DEF Publish
  <1>14. CASE MarkReady(r)
    BY <1>14 DEF MarkReady, DropLocals
  <1>15. CASE RequestBootstrap(r)
    BY <1>15 DEF RequestBootstrap
  <1>16. CASE Restart(r)
    BY <1>16 DEF Restart, DropLocals
  <1> QED
    BY <1>1, <1>2, <1>3, <1>4, <1>5, <1>6, <1>7, <1>8, <1>9, <1>10, <1>11, <1>12,
       <1>13, <1>14, <1>15, <1>16
       DEF Consume, ProcessFault, FailAwait, LoseCursorReply, LoseFenceReply

\* Whatever happens, no proof is held while the applied water moves.
LEMMA SteadyStep ==
    ASSUME TypeOK, NoProofWhileMoving, [Next \/ LoseRedis \/ Regress]_vars
    PROVE  NoProofWhileMoving'
  <1> SUFFICES ASSUME NEW q \in Replica PROVE Steady(q)'
    BY DEF NoProofWhileMoving
  <1>1. Steady(q)
    BY DEF NoProofWhileMoving
  <1>2. ASSUME NEW r \in Replica, Consume(r) \/ ProcessFault(r) PROVE Steady(q)'
    BY <1>1, <1>2, ProcessLocal, SteadyProcess, SteadyUntouched
  <1>3. CASE Tick \/ SourceStep \/ LoseRedis \/ Regress \/ UNCHANGED vars
    BY <1>1, <1>3, EnvironmentLocal, SteadyUntouched
  <1> QED
    BY <1>2, <1>3 DEF Next, FaultStep, ProcessFault

\* Whoever writes it, the fence only moves past what was published.
LEMMA PublishedFence ==
    ASSUME TypeOK, NEW r \in Replica, FenceWrite(r),
           NEW w \in HighWater, w.inc >= 1, Published(w)
    PROVE  Published(w)'
  <1>1. CASE UNCHANGED <<fence, superseded>>
    BY <1>1 DEF Published
  <1>2. CASE FenceVerdict(r) = Written
    <2>1. /\ fence \in HighWater /\ high_water[r] \in HighWater
          /\ before[r] \in HighWater /\ booting[r] \in BOOLEAN
      BY DEF TypeOK, SharedTypeOK, ReadyTypeOK, TaskTypeOK
    <2>2. fence' = high_water[r]
      BY <1>2 DEF FenceWrite
    <2>3. CASE booting[r]
      <3>1. superseded' = SupersededBy(fence, superseded, high_water[r])
        BY <1>2, <2>3 DEF FenceWrite
      <3>2. fence.inc = high_water[r].inc => NotBehind(high_water[r], fence)
        BY <1>2, <2>3 DEF FenceVerdict, BootstrapVerdict, Written, Unchanged,
                          Mismatch, Regressed
      <3>3. fence.inc = w.inc => fence # NoWater
        BY DEF NoWater
      <3> QED
        BY <2>1, <2>2, <3>1, <3>2, <3>3
           DEF Published, SupersededBy, NotBehind, HighWater
    <2>4. CASE ~booting[r]
      <3>1. superseded' = superseded
        BY <1>2, <2>4 DEF FenceWrite
      <3>2. fence.inc = high_water[r].inc /\ NotBehind(high_water[r], fence)
        BY <1>2, <2>4 DEF FenceVerdict, AdvanceVerdict, Written, Unchanged,
                          Mismatch, Regressed
      <3> QED
        BY <2>1, <2>2, <3>1, <3>2 DEF Published, NotBehind, HighWater
    <2> QED  BY <2>3, <2>4
  <1> QED  BY <1>1, <1>2 DEF FenceWrite

\* A fence call that is accepted has published the applied water.
LEMMA AcceptedPublishes ==
    ASSUME TypeOK, NEW r \in Replica, FenceWrite(r), Accepted(FenceVerdict(r))
    PROVE  fence' = high_water[r]
  BY DEF FenceWrite, Accepted, FenceVerdict, BootstrapVerdict, AdvanceVerdict,
         Written, Unchanged, Mismatch, Regressed

ClaimsPublished(r) ==
    mode[r] = "Ready" \/ pc[r] = "mark" => Published(high_water[r])

\* A step of a process keeps its own claim.
LEMMA ClaimProcess ==
    ASSUME TypeOK, NEW r \in Replica, Steady(r), ClaimsPublished(r),
           Consume(r) \/ ProcessFault(r)
    PROVE  ClaimsPublished(r)'
  <1> USE DEF TypeOK, ReadyTypeOK, TaskTypeOK, readyVars, taskVars, sharedVars,
              ClaimsPublished
  <1>1. CASE Abandon(r)
    BY <1>1 DEF Abandon
  <1>2. CASE StartBootstrap(r)
    BY <1>2 DEF StartBootstrap
  <1>3. CASE StartSynchronize(r)
    BY <1>3 DEF StartSynchronize, Published
  <1>4. CASE ObserveFence(r)
    BY <1>4 DEF ObserveFence, Published
  <1>5. CASE ReadSnapshot(r)
    BY <1>5 DEF ReadSnapshot, Published
  <1>6. CASE LoadCursor(r) /\ ~Abandon(r)
    BY <1>6 DEF LoadCursor
  <1>7. CASE StoreCursor(r)
    BY <1>7 DEF StoreCursor, Published
  <1>8. CASE DateProbe(r)
    BY <1>8 DEF DateProbe, Published
  <1>9. CASE ReadHighWater(r) /\ ~Abandon(r)
    BY <1>9 DEF ReadHighWater, Published
  <1>10. CASE ReadPage(r) /\ ~Abandon(r)
    BY <1>10 DEF ReadPage, Published
  <1>11. CASE ApplyEvent(r) /\ ~Abandon(r)
    BY <1>11 DEF ApplyEvent, Steady
  <1>12. CASE AdvanceCursor(r)
    BY <1>12 DEF AdvanceCursor, Published
  <1>13. CASE Publish(r) /\ ~Abandon(r)
    <2>1. fence' = high_water[r] /\ high_water'[r] = high_water[r]
      BY <1>13, AcceptedPublishes DEF Publish
    <2> QED
      BY <2>1 DEF Published, NotBehind, HighWater
  <1>14. CASE MarkReady(r)
    BY <1>14 DEF MarkReady, DropLocals, Published
  <1>15. CASE RequestBootstrap(r)
    BY <1>15 DEF RequestBootstrap, Published
  <1>16. CASE Restart(r)
    BY <1>16 DEF Restart, DropLocals
  <1> QED
    BY <1>1, <1>2, <1>3, <1>4, <1>5, <1>6, <1>7, <1>8, <1>9, <1>10, <1>11, <1>12,
       <1>13, <1>14, <1>15, <1>16
       DEF Consume, ProcessFault, FailAwait, LoseCursorReply, LoseFenceReply

\* A step of a process changes the fence by a fence call, or not at all.
LEMMA ProcessFence ==
    ASSUME NEW r \in Replica, Consume(r) \/ ProcessFault(r)
    PROVE  FenceWrite(r) \/ UNCHANGED <<fence, superseded>>
  BY DEF Consume, StartBootstrap, StartSynchronize, ObserveFence, ReadSnapshot,
         LoadCursor, StoreCursor, DateProbe, ReadHighWater, ReadPage, ApplyEvent,
         AdvanceCursor, Publish, MarkReady, ProcessFault, FailAwait, LoseCursorReply,
         LoseFenceReply, RequestBootstrap, Restart, sharedVars

\* The step of the inductive invariant: as long as Redis keeps its data.
LEMMA PublishedStep ==
    ASSUME PublishedInv, [Next \/ Regress]_vars
    PROVE  PublishedInv'
  <1>1. TypeOK' /\ NoProofWhileMoving'
    BY StepType, SteadyStep DEF PublishedInv
  <1>2. ASSUME NEW q \in Replica PROVE ClaimsPublished(q)'
    <2>1. TypeOK /\ Steady(q) /\ ClaimsPublished(q) /\ high_water[q] \in HighWater
      BY DEF PublishedInv, NoProofWhileMoving, ClaimsPublished, TypeOK, ReadyTypeOK
    <2>2. ASSUME NEW r \in Replica, r # q, Consume(r) \/ ProcessFault(r)
          PROVE  ClaimsPublished(q)'
      <3>1. Untouched(q)
        BY <2>1, <2>2, ProcessLocal
      <3>2. mode[q] = "Ready" \/ pc[q] = "mark" => high_water[q].inc >= 1
        BY <2>1 DEF Steady
      <3>3. CASE FenceWrite(r)
        BY <2>1, <3>1, <3>2, <3>3, PublishedFence
           DEF ClaimsPublished, Untouched, Published
      <3>4. CASE UNCHANGED <<fence, superseded>>
        BY <2>1, <3>1, <3>4 DEF ClaimsPublished, Untouched, Published
      <3> QED  BY <2>2, <3>3, <3>4, ProcessFence
    <2>3. ASSUME Consume(q) \/ ProcessFault(q) PROVE ClaimsPublished(q)'
      BY <2>1, <2>3, ClaimProcess
    <2>4. CASE Tick \/ SourceStep \/ Regress \/ UNCHANGED vars
      <3>1. Untouched(q)
        BY <2>4, EnvironmentLocal
      <3>2. UNCHANGED <<fence, superseded>>
        BY <2>4 DEF Tick, SourceStep, Commit, BumpRevision, Reincarnate, Purge,
                    Regress, vars, sharedVars
      <3> QED
        BY <2>1, <3>1, <3>2 DEF ClaimsPublished, Untouched, Published
    <2> QED
      BY <2>2, <2>3, <2>4 DEF Next, FaultStep, ProcessFault
  <1> QED
    BY <1>1, <1>2 DEF PublishedInv, ClaimsPublished

\* A process that takes part in the cache has published its water, and no peer,
\* late reply or restored source has taken it back.
THEOREM ReadinessIsPublished == RegressSpec => []ReadyIsPublished
  <1>1. Init => PublishedInv
    <2> SUFFICES ASSUME Init PROVE PublishedInv  OBVIOUS
    <2>1. TypeOK
      BY InitType
    <2>2. NoProofWhileMoving
      BY DEF Init, NoProofWhileMoving, Steady
    <2> QED
      BY <2>1, <2>2 DEF Init, PublishedInv
  <1>2. PublishedInv /\ [Next \/ Regress]_vars => PublishedInv'
    BY PublishedStep
  <1>3. PublishedInv => ReadyIsPublished
    BY DEF PublishedInv, ReadyIsPublished, Published
  <1> QED
    BY <1>1, <1>2, <1>3, PTL DEF RegressSpec

-----------------------------------------------------------------------------
(* The shared state never goes back.                                       *)

\* A fence call moves the fence as MonotonicFence allows, or not at all.
LEMMA FenceWriteMoves ==
    ASSUME TypeOK, NEW r \in Replica, Steady(r), pc[r] = "publish", FenceWrite(r)
    PROVE  Shared!Next \/ UNCHANGED <<fence, superseded>>
  <1>1. CASE FenceVerdict(r) # Written
    BY <1>1 DEF FenceWrite
  <1>2. CASE FenceVerdict(r) = Written
    <2>1. /\ fence' = high_water[r] /\ high_water[r].inc >= 1
          /\ fence \in HighWater /\ high_water[r] \in HighWater
      BY <1>2 DEF FenceWrite, Steady, TypeOK, SharedTypeOK, ReadyTypeOK
    <2>2. fence.inc = high_water[r].inc => fence # NoWater
      BY <2>1 DEF NoWater
    <2>3. CASE booting[r]
      <3>1. superseded' = SupersededBy(fence, superseded, high_water[r])
        BY <1>2, <2>3 DEF FenceWrite
      <3>2. /\ high_water[r].inc \notin superseded
            /\ fence.inc = high_water[r].inc => NotBehind(high_water[r], fence)
        BY <1>2, <2>3 DEF FenceVerdict, BootstrapVerdict, Written, Unchanged,
                          Mismatch, Regressed
      <3>3. CASE fence.inc = high_water[r].inc
        BY <2>1, <2>2, <3>1, <3>2, <3>3
           DEF Shared!Next, Shared!MoveForward, SupersededBy, Shared!NoWater, NoWater,
               Shared!NotBehind, NotBehind
      <3>4. CASE fence.inc # high_water[r].inc
        BY <2>1, <3>1, <3>2, <3>4
           DEF Shared!Next, Shared!Install, Shared!SupersededBy, SupersededBy,
               Shared!NoWater, NoWater
      <3> QED  BY <3>3, <3>4
    <2>4. CASE ~booting[r]
      <3>1. superseded' = superseded
        BY <1>2, <2>4 DEF FenceWrite
      <3>2. fence.inc = high_water[r].inc /\ NotBehind(high_water[r], fence)
        BY <1>2, <2>4 DEF FenceVerdict, AdvanceVerdict, Written, Unchanged,
                          Mismatch, Regressed
      <3> QED
        BY <2>1, <2>2, <3>1, <3>2
           DEF Shared!Next, Shared!MoveForward, Shared!NotBehind, NotBehind,
               Shared!NoWater, NoWater
    <2> QED  BY <2>3, <2>4
  <1> QED  BY <1>1, <1>2

LEMMA FenceStep ==
    ASSUME TypeOK, NoProofWhileMoving, [Next \/ LoseRedis \/ Regress]_vars
    PROVE  Shared!Next \/ UNCHANGED <<fence, superseded>>
  <1>1. ASSUME NEW r \in Replica, Publish(r) \/ LoseFenceReply(r)
        PROVE  Shared!Next \/ UNCHANGED <<fence, superseded>>
    BY <1>1, FenceWriteMoves DEF Publish, LoseFenceReply, NoProofWhileMoving
  <1>2. ASSUME NEW r \in Replica, Consume(r) \/ ProcessFault(r),
               ~Publish(r), ~LoseFenceReply(r)
        PROVE  UNCHANGED <<fence, superseded>>
    BY <1>2 DEF Consume, StartBootstrap, StartSynchronize, ObserveFence, ReadSnapshot,
         LoadCursor, StoreCursor, DateProbe, ReadHighWater, ReadPage, ApplyEvent,
         AdvanceCursor, MarkReady, ProcessFault, FailAwait, LoseCursorReply,
         RequestBootstrap, Restart, sharedVars
  <1>3. CASE Tick \/ SourceStep \/ Regress \/ UNCHANGED vars
    BY <1>3 DEF Tick, SourceStep, Commit, BumpRevision, Reincarnate, Purge, Regress,
                vars, sharedVars
  <1>4. CASE LoseRedis
    BY <1>4 DEF LoseRedis, Shared!Next, Shared!Forget, Shared!NoWater, NoWater
  <1> QED
    BY <1>1, <1>2, <1>3, <1>4 DEF Next, FaultStep, ProcessFault

\* The races, retries and lost replies of any number of replicas implement the
\* monotonic fence.
THEOREM FenceIsMonotonic == WorstSpec => ImplementsFence
  <1>1. Init => Shared!Init
    BY DEF Init, Shared!Init, NoWater, Shared!NoWater
  <1>2. Init => NoProofWhileMoving
    BY DEF Init, NoProofWhileMoving, Steady
  <1>3. TypeOK /\ NoProofWhileMoving /\ [Next \/ LoseRedis \/ Regress]_vars
            => NoProofWhileMoving'
    BY SteadyStep
  <1>4. TypeOK /\ NoProofWhileMoving /\ [Next \/ LoseRedis \/ Regress]_vars
            => [Shared!Next]_Shared!fenceVars
    BY FenceStep DEF Shared!fenceVars
  <1> QED
    BY <1>1, <1>2, <1>3, <1>4, TypeCorrect, PTL
       DEF WorstSpec, ImplementsFence, Shared!Spec

\* An upsert and a raise leave the sequence of no namespace behind.
LEMMA CursorMoves ==
    ASSUME TypeOK, NEW water \in HighWater,
           cursor' = UpsertCursor(water) \/ cursor' = RaiseCursor(water)
    PROVE  \A i \in Incarnation : cursor'[i].seq >= cursor[i].seq
  <1> cursor \in [Incarnation -> HighWater]
    BY DEF TypeOK, SharedTypeOK
  <1>1. CASE cursor' = UpsertCursor(water)
    BY <1>1 DEF UpsertCursor, HighWater
  <1>2. CASE cursor' = RaiseCursor(water)
    BY <1>2 DEF RaiseCursor, HighWater
  <1> QED  BY <1>1, <1>2

\* Replicas that write the durable cursor in any order, with replies lost and
\* the source restored, never move a sequence back.
THEOREM CursorOnlyAdvances == WorstSpec => CursorIsWatermark
  <1>1. ASSUME TypeOK, [Next \/ LoseRedis \/ Regress]_vars
        PROVE  \A i \in Incarnation : cursor'[i].seq >= cursor[i].seq
    <2>1. CASE cursor' = cursor
      BY <1>1, <2>1 DEF TypeOK, SharedTypeOK, HighWater
    <2>2. ASSUME NEW r \in Replica,
                 StoreCursor(r) \/ AdvanceCursor(r) \/ LoseCursorReply(r)
          PROVE  \A i \in Incarnation : cursor'[i].seq >= cursor[i].seq
      <3>1. snap[r].water \in HighWater /\ high_water[r] \in HighWater
        BY <1>1 DEF TypeOK, ReadyTypeOK, TaskTypeOK, Snapshot
      <3> QED
        BY <1>1, <2>2, <3>1, CursorMoves
           DEF StoreCursor, AdvanceCursor, LoseCursorReply
    <2>3. ASSUME NEW r \in Replica, Consume(r) \/ ProcessFault(r),
                 ~StoreCursor(r), ~AdvanceCursor(r), ~LoseCursorReply(r)
          PROVE  cursor' = cursor
      BY <2>3 DEF Consume, StartBootstrap, StartSynchronize, ObserveFence,
         ReadSnapshot, LoadCursor, DateProbe, ReadHighWater, ReadPage, ApplyEvent,
         Publish, MarkReady, ProcessFault, FailAwait, LoseFenceReply,
         RequestBootstrap, Restart, sharedVars
    <2>4. ASSUME Tick \/ SourceStep \/ Regress \/ LoseRedis \/ UNCHANGED vars
          PROVE  cursor' = cursor
      BY <2>4 DEF Tick, SourceStep, Commit, BumpRevision, Reincarnate, Purge, Regress,
                  LoseRedis, vars, sharedVars
    <2> QED
      BY <1>1, <2>1, <2>2, <2>3, <2>4 DEF Next, FaultStep, ProcessFault
  <1>2. TypeOK /\ [Next \/ LoseRedis \/ Regress]_vars
            => [\A i \in Incarnation : cursor'[i].seq >= cursor[i].seq]_vars
    BY <1>1
  <1> QED
    BY <1>2, TypeCorrect, PTL DEF WorstSpec, CursorIsWatermark

-----------------------------------------------------------------------------
(* Bounded staleness.                                                      *)

LEMMA ProcessSource ==
    ASSUME NEW r \in Replica, Consume(r) \/ ProcessFault(r)
    PROVE  UNCHANGED sourceVars
  BY DEF Consume, StartBootstrap, StartSynchronize, ObserveFence, ReadSnapshot,
         LoadCursor, StoreCursor, DateProbe, ReadHighWater, ReadPage, ApplyEvent,
         AdvanceCursor, Publish, MarkReady, ProcessFault, FailAwait, LoseCursorReply,
         LoseFenceReply, RequestBootstrap, Restart

\* What is sound of a process stays so while neither it nor the source moves.
LEMMA SoundUntouched ==
    ASSUME NEW q, Sound(q), Untouched(q), UNCHANGED sourceVars
    PROVE  Sound(q)'
  <1> USE DEF Untouched, sourceVars
  <1>1. FromThePast(q)'
    BY DEF Sound, FromThePast, Includes
  <1>2. AppliedIsComplete(q)'
    BY DEF Sound, AppliedIsComplete, Covers, Includes
  <1>3. SnapshotIsComplete(q)'
    BY DEF Sound, SnapshotIsComplete, Covers, Includes
  <1>4. PageIsComplete(q)'
    BY DEF Sound, PageIsComplete, Includes
  <1>5. ProofCovers(q)'
    BY DEF Sound, ProofCovers, Covers, Includes
  <1> QED  BY <1>1, <1>2, <1>3, <1>4, <1>5 DEF Sound

-----------------------------------------------------------------------------
(* The source moves.                                                       *)

LEMMA SoundTick ==
    ASSUME TypeOK, NEW q \in Replica, Sound(q), Tick
    PROVE  Sound(q)'
  <1> USE DEF Tick, readyVars, taskVars
  <1> now \in Nat /\ denials \in [Session -> Nat]
    BY DEF TypeOK, SourceTypeOK, RetainUntil
  <1>1. FromThePast(q)'
    <2>1. observed_at[q] \in Nat /\ last_probe[q] \in Int
      BY DEF TypeOK, ReadyTypeOK, TaskTypeOK, NoProbe
    <2> QED
      BY <2>1 DEF Sound, FromThePast, Includes
  <1>2. AppliedIsComplete(q)'
    BY DEF Sound, AppliedIsComplete, Covers, Includes
  <1>3. SnapshotIsComplete(q)'
    BY DEF Sound, SnapshotIsComplete, Covers, Includes
  <1>4. PageIsComplete(q)'
    BY DEF Sound, PageIsComplete, Includes, TypeOK, TaskTypeOK, PageEvent
  <1>5. ProofCovers(q)'
    BY DEF Sound, ProofCovers, Covers, Includes
  <1> QED  BY <1>1, <1>2, <1>3, <1>4, <1>5 DEF Sound

\* The new row of a commit is past everything a process has seen.
LEMMA CommitIsNew ==
    ASSUME TypeOK, SourceIsLog, NEW q \in Replica, Sound(q),
           NEW s \in Session \cup {NoSession}, NEW gap \in Gaps, Commit(s, gap)
    PROVE  \E e \in Event :
              /\ outbox' = outbox \cup {e} /\ e.session = s
              /\ e.inc = source.inc /\ e.seq > source.seq
              /\ source'.inc = source.inc /\ source'.seq = e.seq
              /\ ~Includes(high_water[q], e) /\ ~Includes(snap[q].water, e)
              /\ \A p \in page[q] : ~Includes(p, e)
  <1> DEFINE e == [inc |-> source.inc, seq |-> source.seq + gap,
                   rev |-> source.rev + 1, session |-> s]
  <1>1. gap \in Nat \ {0} /\ source.inc \in Nat \ {0} /\ source.seq \in Nat
        /\ source.rev \in Nat
    BY ConsumerAssumption DEF TypeOK, SourceTypeOK, HighWater
  <1>2. e \in Event /\ e.session = s /\ e.inc = source.inc /\ e.seq > source.seq
    BY <1>1 DEF Event
  <1>3. outbox' = outbox \cup {e} /\ source'.inc = source.inc /\ source'.seq = e.seq
    BY DEF Commit
  <1>4. high_water[q] \in HighWater /\ snap[q].water \in HighWater
    BY DEF TypeOK, ReadyTypeOK, TaskTypeOK, Snapshot
  <1>5. ~Includes(high_water[q], e) /\ ~Includes(snap[q].water, e)
    BY <1>1, <1>2, <1>4 DEF Sound, FromThePast, Includes, HighWater
  <1>6. ASSUME NEW p \in page[q] PROVE ~Includes(p, e)
    <2>1. p \in PageEvent /\ Includes(source, p)
      BY DEF TypeOK, TaskTypeOK, Sound, FromThePast
    <2> QED
      BY <1>1, <1>2, <2>1 DEF Includes, PageEvent
  <1> QED  BY <1>2, <1>3, <1>5, <1>6

LEMMA SoundCommit ==
    ASSUME TypeOK, SourceIsLog, NEW q \in Replica, Sound(q),
           NEW s \in Session \cup {NoSession}, NEW gap \in Gaps, Commit(s, gap)
    PROVE  Sound(q)'
  <1>1. PICK e \in Event :
              /\ outbox' = outbox \cup {e} /\ e.session = s
              /\ e.inc = source.inc /\ e.seq > source.seq
              /\ source'.inc = source.inc /\ source'.seq = e.seq
              /\ ~Includes(high_water[q], e) /\ ~Includes(snap[q].water, e)
              /\ \A p \in page[q] : ~Includes(p, e)
    BY CommitIsNew
  <1>2. /\ Untouched(q) /\ now' = now
        /\ \A t \in Session : t # s =>
              denials'[t] = denials[t] /\ denied_at'[t] = denied_at[t]
        /\ s \in Session => denied_at'[s] = now
    <2>1. Untouched(q)
      BY EnvironmentLocal DEF SourceStep
    <2> QED
      BY <2>1, ConsumerAssumption DEF Commit, TypeOK, SourceTypeOK
  <1>3. /\ source \in HighWater /\ high_water[q] \in HighWater
        /\ snap[q].water \in HighWater /\ page[q] \subseteq PageEvent
    BY DEF TypeOK, SourceTypeOK, ReadyTypeOK, TaskTypeOK, Snapshot
  <1>5. FromThePast(q)'
    <2>1. \A p \in page[q] : Includes(source', p)
      BY <1>1, <1>3 DEF Sound, FromThePast, Includes, HighWater, PageEvent, Event
    <2> QED
      BY <1>1, <1>2, <1>3, <2>1
         DEF Sound, FromThePast, Untouched, HighWater, Event, Includes
  <1>6. AppliedIsComplete(q)'
    BY <1>1, <1>2 DEF Sound, AppliedIsComplete, Untouched, Covers, Includes
  <1>7. SnapshotIsComplete(q)'
    BY <1>1, <1>2 DEF Sound, SnapshotIsComplete, Untouched, Covers, Includes
  <1>8. PageIsComplete(q)'
    <2> SUFFICES ASSUME NEW p \in page[q]
                 PROVE  /\ pc[q] \in {"apply", "advance"}
                        /\ p.inc = high_water[q].inc => high_water[q].seq <= p.seq
                        /\ p.inc = high_water[q].inc =>
                             \A f \in outbox' :
                                f.inc = p.inc /\ high_water[q].seq < f.seq
                                /\ f.seq <= p.seq =>
                                  \E x \in page[q] : x.inc = f.inc /\ x.seq = f.seq
                        /\ \A f \in outbox' :
                             f.inc = p.inc /\ f.seq = p.seq => f.session = p.session
                        /\ p.session \in Session /\ denials'[p.session] > now
                             /\ (\A f \in outbox' : f.session = p.session
                                                        => Includes(p, f))
                             => p.retain_until = denials'[p.session]
      BY <1>2 DEF PageIsComplete, Untouched, Includes
    <2>1. p \in PageEvent /\ ~Includes(p, e)
      BY <1>1, <1>3
    <2>2. e.inc = p.inc => e.seq > p.seq
      BY <2>1 DEF Includes, PageEvent, Event
    <2>3. p.session = s => ~(\A f \in outbox' : f.session = p.session
                                                        => Includes(p, f))
      BY <1>1, <2>1
    <2>4. \A f \in outbox' : f \in outbox \/ f = e
      BY <1>1
    <2>5. p.seq \in Nat /\ e.seq \in Nat
      BY <2>1 DEF PageEvent, Event
    <2> QED
      BY <1>1, <1>2, <2>2, <2>3, <2>4, <2>5 DEF Sound, PageIsComplete
  <1>9. ProofCovers(q)'
    <2> SUFFICES ASSUME NEW t \in Session
                 PROVE  /\ denied_at'[t] < last_probe[q] => Covers(high_water[q], t)'
                        /\ pc[q] \in {"publish", "mark"}
                             /\ denied_at'[t] < observed_at[q]
                             => Covers(high_water[q], t)'
      BY <1>2 DEF ProofCovers, Untouched
    <2>1. CASE t = s
      <3>1. /\ observed_at[q] <= now /\ last_probe[q] <= now
            /\ observed_at[q] \in Int /\ last_probe[q] \in Int /\ now \in Nat
        BY DEF Sound, FromThePast, TypeOK, SourceTypeOK, ReadyTypeOK, TaskTypeOK,
               NoProbe
      <3> QED  BY <1>2, <2>1, <3>1
    <2>2. CASE t # s
      BY <1>1, <1>2, <2>2 DEF Sound, ProofCovers, Covers, Untouched, Includes
    <2> QED  BY <2>1, <2>2
  <1> QED  BY <1>5, <1>6, <1>7, <1>8, <1>9 DEF Sound

LEMMA SoundSource ==
    ASSUME TypeOK, NEW q \in Replica, Sound(q),
           BumpRevision \/ Reincarnate \/ \E s \in Session : Purge(s)
    PROVE  Sound(q)'
  <1> Untouched(q)
    BY EnvironmentLocal DEF SourceStep
  <1> USE DEF Untouched
  <1>1. /\ now' = now /\ outbox' = outbox /\ denied_at' = denied_at
        /\ now \in Nat /\ denials \in [Session -> Nat]
        /\ source \in HighWater /\ page[q] \subseteq PageEvent
        /\ high_water[q] \in HighWater /\ snap[q].water \in HighWater
    BY DEF BumpRevision, Reincarnate, Purge, TypeOK, SourceTypeOK, ReadyTypeOK,
           TaskTypeOK, Snapshot, RetainUntil
  <1>2. \/ source'.inc = source.inc /\ source'.seq = source.seq
        \/ source'.inc = source.inc + 1
    BY <1>1 DEF BumpRevision, Reincarnate, Purge, HighWater
  <1>3. \A t \in Session : denials'[t] > now => denials'[t] = denials[t]
    BY <1>1 DEF BumpRevision, Reincarnate, Purge
  <1>4. FromThePast(q)'
    BY <1>1, <1>2 DEF Sound, FromThePast, Includes, HighWater, PageEvent
  <1>5. AppliedIsComplete(q)'
    BY <1>1, <1>3 DEF Sound, AppliedIsComplete, Covers, Includes
  <1>6. SnapshotIsComplete(q)'
    BY <1>1, <1>3 DEF Sound, SnapshotIsComplete, Covers, Includes
  <1>7. PageIsComplete(q)'
    BY <1>1, <1>3 DEF Sound, PageIsComplete, Includes
  <1>8. ProofCovers(q)'
    BY <1>1 DEF Sound, ProofCovers, Covers, Includes
  <1> QED  BY <1>4, <1>5, <1>6, <1>7, <1>8 DEF Sound

-----------------------------------------------------------------------------
(* A process moves.                                                        *)

\* A step that leaves the applied water alone, and drops a proof, a snapshot
\* or a page or leaves it alone, keeps what is sound.
LEMMA SoundStay ==
    ASSUME TypeOK, SourceIsLog, NEW r \in Replica, Sound(r), UNCHANGED sourceVars,
           high_water'[r] = high_water[r], denied'[r] = denied[r],
           last_probe'[r] \in {last_probe[r], NoProbe},
           snap'[r] = snap[r] \/ snap'[r] = EmptySnapshot,
           pc'[r] # "load",
           \/ page'[r] = {}
           \/ page'[r] = page[r] /\ pc'[r] \in {"apply", "advance"},
           observed_at'[r] \in {0, observed_at[r]},
           pc'[r] \in {"publish", "mark"}
             => pc[r] \in {"publish", "mark"} /\ observed_at'[r] = observed_at[r]
    PROVE  Sound(r)'
  <1> USE DEF sourceVars
  <1>1. /\ now \in Nat /\ source \in HighWater /\ source.inc >= 1
        /\ denied_at \in [Session -> Nat]
    BY DEF TypeOK, SourceTypeOK
  <1>2. FromThePast(r)'
    BY <1>1 DEF Sound, FromThePast, EmptySnapshot, NoWater, NoProbe, HighWater,
                Includes
  <1>3. AppliedIsComplete(r)'
    BY DEF Sound, AppliedIsComplete, Covers, Includes
  <1>4. SnapshotIsComplete(r)'
    BY DEF SnapshotIsComplete
  <1>5. PageIsComplete(r)'
    BY DEF Sound, PageIsComplete, Includes
  <1>6. ProofCovers(r)'
    BY <1>1 DEF Sound, ProofCovers, Covers, Includes, NoProbe
  <1> QED  BY <1>2, <1>3, <1>4, <1>5, <1>6 DEF Sound

LEMMA SoundAbandon ==
    ASSUME TypeOK, SourceIsLog, NEW r \in Replica, Sound(r), Abandon(r),
           UNCHANGED sourceVars
    PROVE  Sound(r)'
  <1>1. /\ high_water' = high_water /\ denied' = denied
        /\ last_probe'[r] = NoProbe /\ snap'[r] = EmptySnapshot
        /\ pc'[r] = "idle" /\ page'[r] = {} /\ observed_at'[r] = 0
    BY DEF Abandon, DropLocals, TypeOK, ReadyTypeOK, TaskTypeOK
  <1> QED  BY <1>1, SoundStay

\* A process that is not applying events holds no page.
LEMMA NoPage ==
    ASSUME NEW r, PageIsComplete(r), pc[r] \notin {"apply", "advance"}
    PROVE  page[r] = {}
  BY DEF PageIsComplete

\* The first step of an attempt, the fence observation, the cursor upsert, the
\* fence call and a request for a bootstrap move nothing that soundness is about.
LEMMA SoundPassing ==
    ASSUME TypeOK, SourceIsLog, NEW r \in Replica, Sound(r), UNCHANGED sourceVars,
           \/ StartBootstrap(r) \/ StartSynchronize(r) \/ ObserveFence(r)
           \/ StoreCursor(r) \/ AdvanceCursor(r) \/ Publish(r)
           \/ RequestBootstrap(r)
    PROVE  Sound(r)'
  <1> USE DEF TypeOK, ReadyTypeOK, TaskTypeOK, readyVars, taskVars
  <1>0. pc[r] \notin {"apply", "advance"} => page[r] = {}
    BY NoPage DEF Sound
  <1>1. CASE StartBootstrap(r)
    BY <1>0, <1>1, SoundStay DEF StartBootstrap
  <1>2. CASE StartSynchronize(r)
    BY <1>0, <1>2, SoundStay DEF StartSynchronize
  <1>3. CASE ObserveFence(r)
    BY <1>0, <1>3, SoundStay DEF ObserveFence
  <1>4. CASE StoreCursor(r)
    BY <1>0, <1>4, SoundStay DEF StoreCursor
  <1>5. CASE AdvanceCursor(r)
    BY <1>5, SoundStay DEF AdvanceCursor
  <1>6. CASE Publish(r)
    BY <1>0, <1>6, SoundStay, SoundAbandon DEF Publish
  <1>7. CASE RequestBootstrap(r)
    <2>1. CASE pc[r] = "load"
      <3>1. FromThePast(r)' /\ AppliedIsComplete(r)' /\ SnapshotIsComplete(r)'
        BY <1>7 DEF RequestBootstrap, Sound, FromThePast, AppliedIsComplete,
           SnapshotIsComplete, Covers, Includes, sourceVars, NoProbe, SourceTypeOK
      <3>2. PageIsComplete(r)' /\ ProofCovers(r)'
        BY <1>7 DEF RequestBootstrap, Sound, PageIsComplete, ProofCovers, Covers,
           Includes, sourceVars, NoProbe, SourceTypeOK
      <3> QED  BY <3>1, <3>2 DEF Sound
    <2>2. CASE pc[r] # "load"
      BY <1>0, <1>7, <2>2, SoundStay DEF RequestBootstrap
    <2> QED  BY <2>1, <2>2
  <1> QED  BY <1>1, <1>2, <1>3, <1>4, <1>5, <1>6, <1>7

-----------------------------------------------------------------------------
(* The steps that build a proof.                                           *)

\* A snapshot covers every denial of its source.
LEMMA SoundReadSnapshot ==
    ASSUME TypeOK, SourceIsLog, NEW r \in Replica, Sound(r), ReadSnapshot(r)
    PROVE  Sound(r)'
  <1> USE DEF TypeOK, ReadyTypeOK, TaskTypeOK, SourceTypeOK, readyVars, sourceVars,
              ReadSnapshot
  <1>1. snap'[r].water = source
        /\ \A s \in Session : denials[s] > now => snap'[r].denied[s] = denials[s]
    OBVIOUS
  <1>2. FromThePast(r)' /\ AppliedIsComplete(r)' /\ SnapshotIsComplete(r)'
    BY <1>1 DEF Sound, FromThePast, AppliedIsComplete, SnapshotIsComplete, Covers,
                Includes, HighWater
  <1>3. PageIsComplete(r)' /\ ProofCovers(r)'
    BY <1>1 DEF Sound, PageIsComplete, ProofCovers, Covers, Includes
  <1> QED  BY <1>2, <1>3 DEF Sound

LEMMA SoundLoadCursor ==
    ASSUME TypeOK, SourceIsLog, NEW r \in Replica, Sound(r), LoadCursor(r)
    PROVE  Sound(r)'
  <1> USE DEF TypeOK, ReadyTypeOK, TaskTypeOK, SourceTypeOK, sourceVars
  <1>1. CASE Abandon(r)
    BY <1>1, SoundAbandon DEF LoadCursor
  <1>2. CASE ~Abandon(r)
    <2> USE <1>2 DEF LoadCursor
    <2>1. /\ high_water'[r] = snap[r].water /\ denied'[r] = snap[r].denied
          /\ last_probe'[r] = NoProbe /\ pc'[r] = "store" /\ pc[r] = "load"
          /\ snap' = snap /\ page' = page /\ observed_at' = observed_at
          /\ UNCHANGED sourceVars
      OBVIOUS
    <2>2. page[r] = {}
      BY NoPage DEF Sound
    <2>3. FromThePast(r)'
      BY <2>1, <2>2 DEF Sound, FromThePast, NoProbe
    <2>4. AppliedIsComplete(r)'
      BY <2>1 DEF Sound, AppliedIsComplete, SnapshotIsComplete, Covers, Includes
    <2>5. SnapshotIsComplete(r)' /\ PageIsComplete(r)' /\ ProofCovers(r)'
      BY <2>1, <2>2 DEF SnapshotIsComplete, PageIsComplete, ProofCovers, NoProbe
    <2> QED  BY <2>3, <2>4, <2>5 DEF Sound
  <1> QED  BY <1>1, <1>2

LEMMA SoundDateProbe ==
    ASSUME TypeOK, SourceIsLog, NEW r \in Replica, Sound(r), DateProbe(r)
    PROVE  Sound(r)'
  <1> USE DEF TypeOK, ReadyTypeOK, TaskTypeOK, SourceTypeOK, readyVars, sourceVars,
              DateProbe
  <1>1. observed_at'[r] = now /\ pc'[r] = "highwater" /\ pc[r] = "probe"
    OBVIOUS
  <1>2. page[r] = {}
    BY NoPage DEF Sound
  <1>3. FromThePast(r)' /\ AppliedIsComplete(r)' /\ SnapshotIsComplete(r)'
    BY <1>1 DEF Sound, FromThePast, AppliedIsComplete, SnapshotIsComplete, Covers,
                Includes
  <1>4. PageIsComplete(r)' /\ ProofCovers(r)'
    BY <1>1, <1>2 DEF Sound, PageIsComplete, ProofCovers, Covers, Includes
  <1> QED  BY <1>3, <1>4 DEF Sound

\* A process that finds itself at the source's water covers everything.
LEMMA SoundReadHighWater ==
    ASSUME TypeOK, SourceIsLog, NEW r \in Replica, Sound(r), ReadHighWater(r)
    PROVE  Sound(r)'
  <1> USE DEF TypeOK, ReadyTypeOK, TaskTypeOK, SourceTypeOK, sourceVars
  <1>1. CASE Abandon(r)
    BY <1>1, SoundAbandon DEF ReadHighWater
  <1>2. CASE ~Abandon(r) /\ high_water[r].seq < source.seq
    BY ZenonT(60), <1>2, NoPage, SoundStay DEF ReadHighWater, Sound
  <1>3. CASE ~Abandon(r) /\ ~(high_water[r].seq < source.seq)
    <2>1. /\ high_water' = high_water /\ denied' = denied /\ snap' = snap
          /\ last_probe' = last_probe /\ page' = page /\ observed_at' = observed_at
          /\ pc'[r] = "publish" /\ pc[r] = "highwater" /\ UNCHANGED sourceVars
          /\ high_water[r].inc = source.inc /\ NotBehind(source, high_water[r])
      BY <1>3 DEF ReadHighWater
    <2>2. high_water[r].inc = source.inc /\ high_water[r].seq = source.seq
      <3>1. source \in HighWater /\ high_water[r] \in HighWater
        OBVIOUS
      <3> HIDE DEF TypeOK, ReadyTypeOK, TaskTypeOK, SourceTypeOK, sourceVars
      <3> QED  BY <1>3, <2>1, <3>1 DEF NotBehind, HighWater
    <2>3. \A s \in Session : Covers(high_water[r], s)
      BY <2>2 DEF SourceIsLog, Covers, Includes
    <2>4. page[r] = {}
      BY <2>1, NoPage DEF Sound
    <2>5. FromThePast(r)' /\ AppliedIsComplete(r)' /\ SnapshotIsComplete(r)'
      BY <2>1 DEF Sound, FromThePast, AppliedIsComplete, SnapshotIsComplete, Covers,
                  Includes
    <2>6. PageIsComplete(r)' /\ ProofCovers(r)'
      BY <2>1, <2>3, <2>4 DEF PageIsComplete, ProofCovers, Covers, Includes
    <2> QED  BY <2>5, <2>6 DEF Sound
  <1> QED  BY <1>1, <1>2, <1>3

\* The rows of a page are the first ones: with a row, every earlier row of the
\* range is in it.
LEMMA PageIsPrefix ==
    ASSUME TypeOK, IsFiniteSet(outbox), NEW from \in Nat, NEW through \in Nat,
           NEW p \in EventsAfter(from, through), NEW e \in outbox,
           e.inc = p.inc, from < e.seq, e.seq <= p.seq
    PROVE  JoinDenial(e) \in EventsAfter(from, through)
  <1> DEFINE rows == RowsAfter(from, through)
             Before(f) == {g \in rows : g.seq < f.seq}
  <1>1. PICK f \in rows : p = JoinDenial(f) /\ Cardinality(Before(f)) < PageSize
    BY DEF EventsAfter
  <1>2. /\ \A g \in rows : g \in outbox /\ g.seq \in Nat /\ g.inc = source.inc
                           /\ g.seq <= through
        /\ e.seq \in Nat /\ PageSize \in Nat
    BY ConsumerAssumption DEF RowsAfter, TypeOK, SourceTypeOK, Event
  <1>3. f.seq = p.seq /\ f.inc = p.inc
    BY <1>1 DEF JoinDenial
  <1>4. e \in rows
    BY <1>1, <1>2, <1>3 DEF RowsAfter
  <1>5. Before(e) \subseteq Before(f)
    BY <1>1, <1>2, <1>3
  <1>6. IsFiniteSet(Before(f))
    <2>1. Before(f) \subseteq outbox
      BY DEF RowsAfter
    <2> QED  BY <2>1, FS_Subset
  <1>7. /\ IsFiniteSet(Before(e)) /\ Cardinality(Before(e)) \in Nat
        /\ Cardinality(Before(f)) \in Nat
        /\ Cardinality(Before(e)) <= Cardinality(Before(f))
    BY <1>5, <1>6, FS_Subset, FS_CardinalityType
  <1>8. Cardinality(Before(e)) < PageSize
    BY <1>1, <1>2, <1>7
  <1> QED
    BY <1>4, <1>8 DEF EventsAfter

LEMMA SoundReadPage ==
    ASSUME TypeOK, SourceIsLog, NEW r \in Replica, Sound(r), ReadPage(r)
    PROVE  Sound(r)'
  <1> DEFINE events == EventsAfter(high_water[r].seq, target[r])
  <1>1. CASE Abandon(r)
    BY <1>1, SoundAbandon DEF ReadPage
  <1>2. CASE ~Abandon(r)
    <2>1. /\ page'[r] = events /\ pc'[r] = "apply" /\ pc[r] = "replay"
          /\ UNCHANGED <<readyVars, snap, observed_at, sourceVars>>
      BY <1>2 DEF ReadPage, TypeOK, TaskTypeOK
    <2>2. /\ high_water[r].seq \in Nat /\ target[r] \in Nat
          /\ source \in HighWater
      BY DEF TypeOK, SourceTypeOK, ReadyTypeOK, TaskTypeOK, HighWater
    <2>3. ASSUME NEW p \in events
          PROVE  \E e \in outbox :
                    /\ p = JoinDenial(e) /\ high_water[r].seq < e.seq
                    /\ e.inc = p.inc /\ e.seq = p.seq /\ e.session = p.session
      <3>1. PICK e \in RowsAfter(high_water[r].seq, target[r]) : p = JoinDenial(e)
        BY DEF EventsAfter
      <3>2. e \in outbox /\ e.seq > high_water[r].seq
        BY DEF RowsAfter
      <3> QED
        BY <2>2, <3>1, <3>2 DEF JoinDenial, TypeOK, SourceTypeOK, Event
    <2>4. FromThePast(r)'
      <3>1. \A p \in events : Includes(source, p)
        BY <2>3 DEF SourceIsLog, Includes
      <3> QED
        BY <2>1, <3>1 DEF Sound, FromThePast, readyVars, sourceVars, Includes
    <2>5. AppliedIsComplete(r)' /\ SnapshotIsComplete(r)' /\ ProofCovers(r)'
      BY <2>1 DEF Sound, AppliedIsComplete, SnapshotIsComplete, ProofCovers, Covers,
         Includes, readyVars, sourceVars
    <2>6. ASSUME NEW p \in events
          PROVE  /\ high_water[r].seq <= p.seq
                 /\ \A e \in outbox :
                      e.inc = p.inc /\ high_water[r].seq < e.seq /\ e.seq <= p.seq =>
                        \E q \in events : q.inc = e.inc /\ q.seq = e.seq
                 /\ \A e \in outbox :
                      e.inc = p.inc /\ e.seq = p.seq => e.session = p.session
                 /\ p.session \in Session => p.retain_until = denials[p.session]
      <3>1. ASSUME NEW e \in outbox, e.inc = p.inc, high_water[r].seq < e.seq,
                   e.seq <= p.seq
            PROVE  \E q \in events : q.inc = e.inc /\ q.seq = e.seq
        <4>1. JoinDenial(e) \in events
          BY <2>2, <3>1, PageIsPrefix DEF SourceIsLog
        <4> QED  BY <4>1 DEF JoinDenial
      <3>2. PICK f \in outbox :
                /\ p = JoinDenial(f) /\ high_water[r].seq < f.seq
                /\ f.inc = p.inc /\ f.seq = p.seq /\ f.session = p.session
        BY <2>3
      <3>3. p.session \in Session => p.retain_until = denials[p.session]
        BY <3>2 DEF JoinDenial
      <3>4. high_water[r].seq <= p.seq
        BY <2>2, <3>2 DEF TypeOK, SourceTypeOK, Event
      <3> QED  BY <3>1, <3>2, <3>3, <3>4 DEF SourceIsLog
    <2>7. PageIsComplete(r)'
      BY <2>1, <2>6 DEF PageIsComplete, Includes, readyVars, sourceVars
    <2> QED  BY <2>4, <2>5, <2>7 DEF Sound
  <1> QED  BY <1>1, <1>2

\* Applying the first event of a page: no denial between the applied water and
\* the event is passed over.
LEMMA SoundApplyEvent ==
    ASSUME TypeOK, SourceIsLog, NEW r \in Replica, Sound(r), Steady(r),
           ApplyEvent(r)
    PROVE  Sound(r)'
  <1>1. CASE Abandon(r)
    BY <1>1, SoundAbandon DEF ApplyEvent
  <1>2. CASE ~Abandon(r)
    <2>1. PICK p \in page[r] :
            /\ \A f \in page[r] : p.seq <= f.seq
            /\ p.inc = high_water[r].inc
            /\ high_water' = [high_water EXCEPT ![r].rev = p.rev, ![r].seq = p.seq]
            /\ denied' = IF p.session \in Session /\ p.retain_until > 0
                         THEN [denied EXCEPT ![r][p.session] = p.retain_until]
                         ELSE denied
            /\ page' = [page EXCEPT ![r] = @ \ {p}]
            /\ pc' = [pc EXCEPT ![r] = "advance"]
            /\ UNCHANGED <<last_probe, snap, observed_at, sourceVars>>
      BY <1>2 DEF ApplyEvent
    <2>2. /\ high_water'[r].inc = p.inc /\ high_water'[r].seq = p.seq
          /\ high_water[r].seq \in Nat
          /\ \A s \in Session : denied'[r][s] =
                IF s = p.session /\ p.retain_until > 0 THEN p.retain_until
                ELSE denied[r][s]
          /\ page'[r] = page[r] \ {p}
          /\ pc'[r] = "advance" /\ pc[r] = "apply" /\ last_probe[r] = NoProbe
          /\ page[r] \subseteq PageEvent
      BY <2>1 DEF ApplyEvent, TypeOK, ReadyTypeOK, TaskTypeOK, Steady, HighWater
    <2>3. /\ now \in Nat /\ source \in HighWater /\ outbox \subseteq Event
          /\ denials \in [Session -> Nat] /\ denied_at \in [Session -> Nat]
      BY DEF TypeOK, SourceTypeOK, RetainUntil
    <2>8. /\ outbox' = outbox /\ denials' = denials /\ now' = now
          /\ source' = source /\ denied_at' = denied_at
          /\ last_probe' = last_probe /\ snap' = snap /\ observed_at' = observed_at
      BY <2>1 DEF sourceVars
    <2>4. FromThePast(r)'
      <3>1. Includes(source, p) /\ p \in PageEvent
        BY <2>2 DEF Sound, FromThePast
      <3> QED
        BY <2>2, <2>3, <2>8, <3>1
           DEF Sound, FromThePast, Includes, HighWater, PageEvent
    <2>5. AppliedIsComplete(r)'
      <3> SUFFICES ASSUME NEW s \in Session, Covers(high_water'[r], s),
                          denials[s] > now
                   PROVE  denied'[r][s] = denials[s]
        BY <2>1 DEF AppliedIsComplete, Covers, Includes, sourceVars
      <3>1. (\A e \in outbox : e.session = s => Includes(p, e))
        BY <2>2 DEF Covers, Includes
      <3>2. CASE p.session = s
        <4>1. p.retain_until = denials[s]
          BY <3>1, <3>2 DEF Sound, PageIsComplete
        <4> QED  BY <2>2, <2>3, <3>2, <4>1
      <3>3. CASE p.session # s
        <4>1. Covers(high_water[r], s)
          <5> SUFFICES ASSUME NEW e \in outbox, e.session = s,
                              ~Includes(high_water[r], e)
                       PROVE  FALSE
            BY DEF Covers
          <5>1. e \in Event /\ p \in PageEvent
            BY <2>2, <2>3
          <5>2. e.inc = p.inc /\ high_water[r].seq < e.seq /\ e.seq <= p.seq
            BY <2>1, <2>2, <3>1, <5>1 DEF Includes, Event, PageEvent
          <5>3. PICK q \in page[r] : q.inc = e.inc /\ q.seq = e.seq
            BY <2>1, <5>2 DEF Sound, PageIsComplete
          <5>4. e.seq = p.seq
            BY <2>1, <5>1, <5>2, <5>3 DEF Event, PageEvent
          <5>5. e.session = p.session
            BY <5>2, <5>4 DEF Sound, PageIsComplete
          <5> QED  BY <3>3, <5>5
        <4>2. high_water[r] # NoWater
          BY DEF Steady, NoWater, ApplyEvent
        <4> QED  BY <2>2, <3>3, <4>1, <4>2 DEF Sound, AppliedIsComplete
      <3> QED  BY <3>2, <3>3
    <2>6. SnapshotIsComplete(r)' /\ ProofCovers(r)'
      BY <2>1, <2>2, <2>3 DEF SnapshotIsComplete, ProofCovers, NoProbe, sourceVars
    <2>7. PageIsComplete(r)'
      <3> SUFFICES ASSUME NEW x \in page[r], x # p
                   PROVE  /\ x.inc = p.inc => p.seq <= x.seq
                          /\ x.inc = p.inc =>
                               \A e \in outbox :
                                 e.inc = x.inc /\ p.seq < e.seq /\ e.seq <= x.seq =>
                                   \E q \in page[r] \ {p} :
                                       q.inc = e.inc /\ q.seq = e.seq
                          /\ \A e \in outbox :
                               e.inc = x.inc /\ e.seq = x.seq => e.session = x.session
                          /\ x.session \in Session /\ denials[x.session] > now
                               /\ (\A e \in outbox : e.session = x.session
                                                        => Includes(x, e))
                               => x.retain_until = denials[x.session]
        BY <2>2, <2>8 DEF PageIsComplete, Includes
      <3>1. ASSUME x.inc = p.inc, NEW e \in outbox, e.inc = x.inc, p.seq < e.seq,
                   e.seq <= x.seq
            PROVE  \E q \in page[r] \ {p} : q.inc = e.inc /\ q.seq = e.seq
        <4>1. e \in Event /\ p \in PageEvent /\ x \in PageEvent
          BY <2>2, <2>3
        <4>2. high_water[r].seq <= p.seq
          BY <2>1 DEF Sound, PageIsComplete
        <4>3. high_water[r].seq < e.seq
          BY <2>2, <3>1, <4>1, <4>2 DEF Event, PageEvent
        <4>4. PICK q \in page[r] : q.inc = e.inc /\ q.seq = e.seq
          BY <2>1, <3>1, <4>3 DEF Sound, PageIsComplete
        <4> QED  BY <3>1, <4>1, <4>4 DEF Event, PageEvent
      <3> QED  BY <2>1, <3>1 DEF Sound, PageIsComplete
    <2> QED  BY <2>4, <2>5, <2>6, <2>7 DEF Sound
  <1> QED  BY <1>1, <1>2

\* The proof is dated by the probe it rests on.
LEMMA SoundMarkReady ==
    ASSUME TypeOK, SourceIsLog, NEW r \in Replica, Sound(r), MarkReady(r)
    PROVE  Sound(r)'
  <1>1. /\ UNCHANGED <<high_water, denied, sourceVars>>
        /\ last_probe'[r] \in {observed_at[r], NoProbe}
        /\ snap'[r] = EmptySnapshot /\ page'[r] = {} /\ observed_at'[r] = 0
        /\ pc'[r] = "idle" /\ pc[r] = "mark"
    BY DEF MarkReady, DropLocals, DateOfProof, TypeOK, ReadyTypeOK, TaskTypeOK
  <1>2. /\ now \in Nat /\ source \in HighWater /\ source.inc >= 1
        /\ denied_at \in [Session -> Nat]
    BY DEF TypeOK, SourceTypeOK
  <1>3. FromThePast(r)'
    BY <1>1, <1>2 DEF Sound, FromThePast, EmptySnapshot, NoWater, NoProbe, HighWater,
                      sourceVars
  <1>4. AppliedIsComplete(r)'
    BY <1>1 DEF Sound, AppliedIsComplete, Covers, Includes, sourceVars
  <1>5. SnapshotIsComplete(r)' /\ PageIsComplete(r)'
    BY <1>1 DEF SnapshotIsComplete, PageIsComplete
  <1>6. ProofCovers(r)'
    BY <1>1, <1>2 DEF Sound, ProofCovers, Covers, Includes, NoProbe, sourceVars
  <1> QED  BY <1>3, <1>4, <1>5, <1>6 DEF Sound

LEMMA SoundRestart ==
    ASSUME TypeOK, NEW r \in Replica, Restart(r)
    PROVE  Sound(r)'
  <1>1. /\ UNCHANGED sourceVars /\ high_water'[r] = NoWater
        /\ last_probe'[r] = NoProbe
        /\ snap'[r] = EmptySnapshot /\ page'[r] = {} /\ observed_at'[r] = 0
        /\ pc'[r] = "idle"
    BY DEF Restart, DropLocals, TypeOK, ReadyTypeOK, TaskTypeOK
  <1>2. /\ now \in Nat /\ source \in HighWater /\ source.inc >= 1
        /\ denied_at \in [Session -> Nat]
    BY DEF TypeOK, SourceTypeOK
  <1>3. FromThePast(r)'
    BY <1>1, <1>2 DEF FromThePast, EmptySnapshot, NoWater, NoProbe, HighWater,
                      sourceVars
  <1>4. AppliedIsComplete(r)' /\ SnapshotIsComplete(r)' /\ PageIsComplete(r)'
    BY <1>1 DEF AppliedIsComplete, SnapshotIsComplete, PageIsComplete
  <1>5. ProofCovers(r)'
    BY <1>1, <1>2 DEF ProofCovers, NoProbe, sourceVars
  <1> QED  BY <1>3, <1>4, <1>5 DEF Sound

\* A step of a process keeps what is sound of it.
LEMMA SoundProcess ==
    ASSUME TypeOK, SourceIsLog, NEW r \in Replica, Sound(r), Steady(r),
           Consume(r) \/ ProcessFault(r)
    PROVE  Sound(r)'
  <1>1. UNCHANGED sourceVars
    BY ProcessSource
  <1>2. CASE Abandon(r)
    BY <1>1, <1>2, SoundAbandon
  <1>3. CASE \/ StartBootstrap(r) \/ StartSynchronize(r) \/ ObserveFence(r)
             \/ StoreCursor(r) \/ AdvanceCursor(r) \/ Publish(r)
             \/ RequestBootstrap(r)
    BY <1>1, <1>3, SoundPassing
  <1>4. CASE ReadSnapshot(r)
    BY <1>4, SoundReadSnapshot
  <1>5. CASE LoadCursor(r)
    BY <1>5, SoundLoadCursor
  <1>6. CASE DateProbe(r)
    BY <1>6, SoundDateProbe
  <1>7. CASE ReadHighWater(r)
    BY <1>7, SoundReadHighWater
  <1>8. CASE ReadPage(r)
    BY <1>8, SoundReadPage
  <1>9. CASE ApplyEvent(r)
    BY <1>9, SoundApplyEvent
  <1>10. CASE MarkReady(r)
    BY <1>10, SoundMarkReady
  <1>11. CASE Restart(r)
    BY <1>11, SoundRestart
  <1> QED
    BY <1>2, <1>3, <1>4, <1>5, <1>6, <1>7, <1>8, <1>9, <1>10, <1>11
       DEF Consume, ProcessFault, FailAwait, LoseCursorReply, LoseFenceReply

-----------------------------------------------------------------------------
(* The invariant.                                                          *)

\* The outbox stays a log: a commit takes a sequence past all others of its
\* namespace, and a new namespace starts after all of them.
LEMMA LogStep ==
    ASSUME TypeOK, SourceIsLog, [Next \/ LoseRedis]_vars
    PROVE  SourceIsLog'
  <1> /\ now \in Nat /\ source \in HighWater /\ outbox \subseteq Event
      /\ denied_at \in [Session -> Nat]
    BY DEF TypeOK, SourceTypeOK
  <1>1. CASE UNCHANGED sourceVars
    BY <1>1 DEF SourceIsLog, Includes, sourceVars
  <1>2. CASE Tick
    BY <1>2 DEF Tick, SourceIsLog, Includes
  <1>3. ASSUME NEW s \in Session \cup {NoSession}, NEW gap \in Gaps, Commit(s, gap)
        PROVE  SourceIsLog'
    <2> DEFINE e == [inc |-> source.inc, seq |-> source.seq + gap,
                     rev |-> source.rev + 1, session |-> s]
    <2>1. /\ outbox' = outbox \cup {e} /\ now' = now
          /\ source'.inc = source.inc /\ source'.seq = source.seq + gap
          /\ gap \in Nat \ {0}
      BY <1>3, ConsumerAssumption DEF Commit
    <2>2. e.inc = source.inc /\ e.seq = source.seq + gap
      OBVIOUS
    <2>3. \A f \in outbox : f \in Event /\ Includes(source, f)
      BY DEF SourceIsLog
    <2>4. \A f \in outbox : f.inc = e.inc => f.seq # e.seq
      BY <2>1, <2>2, <2>3 DEF Includes, HighWater, Event
    <2> HIDE DEF e
    <2>5. IsFiniteSet(outbox')
      BY <2>1, FS_AddElement DEF SourceIsLog
    <2>6. \A f \in outbox' : Includes(source', f)
      BY <2>1, <2>2, <2>3 DEF Includes, HighWater, Event
    <2>7. \A f, g \in outbox' : f.inc = g.inc /\ f.seq = g.seq => f = g
      BY <2>1, <2>4 DEF SourceIsLog
    <2>8. \A t \in Session : denied_at'[t] <= now'
      BY <1>3, <2>1 DEF Commit, SourceIsLog
    <2> QED  BY <2>5, <2>6, <2>7, <2>8 DEF SourceIsLog, Includes
  <1>4. CASE BumpRevision \/ \E s \in Session : Purge(s)
    BY <1>4 DEF BumpRevision, Purge, SourceIsLog, Includes, HighWater
  <1>5. CASE Reincarnate
    BY <1>5 DEF Reincarnate, SourceIsLog, Includes, HighWater, Event
  <1>6. ASSUME NEW r \in Replica, Consume(r) \/ ProcessFault(r) PROVE UNCHANGED sourceVars
    BY <1>6, ProcessSource
  <1> QED
    BY <1>1, <1>2, <1>3, <1>4, <1>5, <1>6
       DEF Next, SourceStep, FaultStep, ProcessFault, LoseRedis, vars

LEMMA StalenessStep ==
    ASSUME StalenessInv, [Next \/ LoseRedis]_vars
    PROVE  StalenessInv'
  <1>1. TypeOK' /\ NoProofWhileMoving' /\ SourceIsLog'
    BY StepType, SteadyStep, LogStep DEF StalenessInv
  <1>2. ASSUME NEW q \in Replica PROVE Sound(q)'
    <2>1. TypeOK /\ SourceIsLog /\ Steady(q) /\ Sound(q)
      BY DEF StalenessInv, NoProofWhileMoving
    <2>2. ASSUME NEW r \in Replica, r # q, Consume(r) \/ ProcessFault(r)
          PROVE  Sound(q)'
      BY <2>1, <2>2, ProcessLocal, ProcessSource, SoundUntouched
    <2>3. ASSUME Consume(q) \/ ProcessFault(q) PROVE Sound(q)'
      BY <2>1, <2>3, SoundProcess
    <2>4. CASE Tick
      BY <2>1, <2>4, SoundTick
    <2>5. CASE SourceStep
      BY <2>1, <2>5, SoundCommit, SoundSource DEF SourceStep
    <2>6. CASE LoseRedis \/ UNCHANGED vars
      <3>1. UNCHANGED sourceVars
        BY <2>6 DEF LoseRedis, vars
      <3> QED  BY <2>1, <2>6, <3>1, EnvironmentLocal, SoundUntouched
    <2> QED
      BY <2>2, <2>3, <2>4, <2>5, <2>6 DEF Next, FaultStep, ProcessFault
  <1> QED  BY <1>1, <1>2 DEF StalenessInv

\* What the invariant is for: a current proof is younger than the window, so a
\* denial older than the window is covered, applied and not permitted.
LEMMA StalenessBound == StalenessInv => BoundedStaleness
  <1> SUFFICES ASSUME StalenessInv, NEW r \in Replica, NEW s \in Session,
                      Permits(r, s), denials[s] > now, ~(now <= denied_at[s] + Fresh)
               PROVE  FALSE
    BY DEF BoundedStaleness
  <1>1. TypeOK /\ Sound(r) /\ Steady(r)
    BY DEF StalenessInv, NoProofWhileMoving
  <1>2. /\ now \in Nat /\ Fresh \in Nat /\ last_probe[r] \in Int /\ denied_at[s] \in Nat
    BY <1>1, ConsumerAssumption DEF TypeOK, SourceTypeOK, ReadyTypeOK, NoProbe
  <1>3. last_probe[r] # NoProbe /\ now - last_probe[r] <= Fresh
    BY DEF Permits, Current
  <1>4. denied_at[s] < last_probe[r]
    BY <1>2, <1>3
  <1>5. Covers(high_water[r], s)
    BY <1>1, <1>4 DEF Sound, ProofCovers
  <1>6. high_water[r] # NoWater
    BY <1>1, <1>3 DEF Steady, NoWater
  <1>7. denied[r][s] = denials[s]
    BY <1>1, <1>5, <1>6 DEF Sound, AppliedIsComplete
  <1> QED
    BY <1>7 DEF Permits

\* Bounded staleness, on a Redis that may lose its data.
THEOREM StalenessIsBounded == LossySpec => []BoundedStaleness
  <1>1. Init => StalenessInv
    <2> SUFFICES ASSUME Init PROVE StalenessInv  OBVIOUS
    <2>1. TypeOK
      BY InitType
    <2>2. SourceIsLog /\ NoProofWhileMoving
      BY FS_EmptySet DEF Init, SourceIsLog, NoProofWhileMoving, Steady
    <2>3. ASSUME NEW r \in Replica PROVE Sound(r)
      BY DEF Init, Sound, FromThePast, AppliedIsComplete, SnapshotIsComplete,
             PageIsComplete, ProofCovers, NoWater, NoProbe, EmptySnapshot
    <2> QED  BY <2>1, <2>2, <2>3 DEF StalenessInv
  <1>2. StalenessInv /\ [Next \/ LoseRedis]_vars => StalenessInv'
    BY StalenessStep
  <1> QED
    BY <1>1, <1>2, StalenessBound, PTL DEF LossySpec

=============================================================================
