---------------------------- MODULE IdentityProofs ----------------------------
(***************************************************************************)
(* Who a caller is, for every value of the constants: what the versioned   *)
(* session cache serves (VersionedInvariant has the inductive invariants), *)
(* and what exchanged tokens allow (TokenExchange!ShrinkInv).              *)
(*                                                                         *)
(* An "Effect" lemma says what a step changes, in terms of its variables   *)
(* and types only; the lemmas about an invariant are then about effects.   *)
(***************************************************************************)
EXTENDS MCIdentities, VersionedInvariant, TLAPS

\* What an empty place, request and task consist of.
LEMMA EntryTypes ==
    /\ NoEntry.identity = -1 /\ NoEntry.epoch = 0
    /\ NoJob \in Job /\ NoTask \in Task
    /\ NoJob.phase = "l1" /\ NoJob.epoch = 0 /\ NoJob.entry = NoEntry
    /\ NoJob.known = 0 /\ NoJob.flushed = 0 /\ NoJob.reply = FALSE
    /\ NoJob.generation = 0
    /\ NoTask.at = "idle" /\ NoTask.epoch = 0 /\ NoTask.cause = 0 /\ NoTask.aim = ByForce
  <1>1. NoEntry.identity = -1 /\ NoEntry.epoch = 0
    BY DEF NoEntry, None
  <1>2. /\ NoJob \in Job /\ NoJob.phase = "l1" /\ NoJob.epoch = 0 /\ NoJob.entry = NoEntry
        /\ NoJob.known = 0 /\ NoJob.flushed = 0 /\ NoJob.reply = FALSE
        /\ NoJob.generation = 0
    BY DEF NoJob, Job
  <1>3. /\ NoTask \in Task
        /\ NoTask.at = "idle" /\ NoTask.epoch = 0 /\ NoTask.cause = 0 /\ NoTask.aim = ByForce
    BY DEF NoTask, Task, ByForce
  <1> QED
    BY <1>1, <1>2, <1>3

\* What a step of a request does to the requests: the others stay as they are.
Others(r) ==
    /\ job' \in [Request -> Job] /\ pc' \in [Request -> Awaits]
    /\ \A q \in Request \ {r} : job'[q] = job[q] /\ pc'[q] = pc[q]

\* A request remembers what it captured.
Captured(r) ==
    /\ job'[r].generation = job[r].generation /\ job'[r].expected = job[r].expected
    /\ job'[r].known = job[r].known /\ job'[r].flushed = job[r].flushed

Kept(r) == job'[r] = job[r]

Dropped(r) == pc'[r] = "idle" /\ job'[r] = NoJob

Refused(r) ==
    /\ pc'[r] = "authenticate" /\ Captured(r)
    /\ job'[r].entry = NoEntry /\ job'[r].epoch = 0 /\ job'[r].reply = FALSE
    /\ job'[r].phase = job[r].phase /\ job[r].phase # "put"

\* A request moves on with another record.
LEMMA JobUpdate ==
    ASSUME TypeOK, NEW r \in Request, NEW j \in Job, NEW a \in Awaits,
           job' = [job EXCEPT ![r] = j], Goto(r, a)
    PROVE  Others(r) /\ job'[r] = j /\ pc'[r] = a
  BY DEF TypeOK, Others, Goto

\* A request that is done is forgotten.
LEMMA DoneEffect ==
    ASSUME TypeOK, NEW r \in Request, Done(r)
    PROVE  Others(r) /\ Dropped(r)
  BY EntryTypes, JobUpdate DEF Done, Dropped, Awaits

\* A request that is refused is authenticated anew, unless it was storing.
LEMMA RefuseEffect ==
    ASSUME TypeOK, NEW r \in Request, Refuse(r)
    PROVE  Others(r) /\ (Dropped(r) \/ Refused(r))
  <1>1. CASE job[r].phase = "put"
    BY <1>1, DoneEffect DEF Refuse
  <1>2. CASE job[r].phase # "put"
    <2> DEFINE j == [job[r] EXCEPT !.entry = NoEntry, !.epoch = 0, !.reply = FALSE]
    <2>1. job[r] \in Job
      BY DEF TypeOK
    <2>2. job' = [job EXCEPT ![r] = j]
      BY <1>2 DEF Refuse, TypeOK
    <2>3. /\ j \in Job /\ j.entry = NoEntry /\ j.epoch = 0 /\ j.reply = FALSE
          /\ j.phase = job[r].phase /\ j.generation = job[r].generation
          /\ j.expected = job[r].expected /\ j.known = job[r].known
          /\ j.flushed = job[r].flushed
      BY <2>1 DEF Job
    <2>4. Goto(r, "authenticate") /\ "authenticate" \in Awaits
      BY <1>2 DEF Refuse, Awaits
    <2> HIDE DEF j
    <2> QED
      BY <1>2, <2>2, <2>3, <2>4, JobUpdate DEF Refused, Captured
  <1> QED
    BY <1>1, <1>2

-----------------------------------------------------------------------------
(* What the steps of a request do.                                         *)

\* A request captures the generation, the high water and the fence.
LEMMA BeginEffect ==
    ASSUME TypeOK, NEW r \in Request, Begin(r)
    PROVE  /\ Others(r) /\ pc[r] = "idle" /\ pc'[r] = "enter" /\ water[home[r]] \in Nat
           /\ database => conf[home[r]] # Uninit
           /\ job'[r].generation = generation[home[r]] /\ job'[r].expected = water[home[r]]
           /\ job'[r].known = fence.water /\ job'[r].flushed = flushed
           /\ job'[r].entry = NoEntry /\ job'[r].epoch = 0 /\ job'[r].phase = "l1"
           /\ UNCHANGED <<account, denied, fence, l1, l2, generation, water, epoch, conf, task,
                          home, committed, floors, flushed, durable, database>>
  <1> DEFINE j == [NoJob EXCEPT !.generation = generation[home[r]],
                     !.expected = water[home[r]], !.known = fence.water, !.flushed = flushed]
  <1>1. water[home[r]] \in Nat
    BY DEF Begin, TypeOK
  <1>2. /\ j \in Job /\ j.generation = generation[home[r]] /\ j.expected = water[home[r]]
        /\ j.known = fence.water /\ j.flushed = flushed
        /\ j.entry = NoEntry /\ j.epoch = 0 /\ j.phase = "l1"
    BY <1>1, EntryTypes DEF Job, TypeOK
  <1>3. job' = [job EXCEPT ![r] = j] /\ Goto(r, "enter") /\ "enter" \in Awaits
    BY DEF Begin, Awaits
  <1>4. /\ pc[r] = "idle" /\ (database => conf[home[r]] # Uninit)
        /\ UNCHANGED <<account, denied, fence, l1, l2, generation, water, epoch, conf, task,
                       home, committed, floors, flushed, durable, database>>
    BY DEF Begin, Local, outside, historyVars
  <1> HIDE DEF j
  <1>5. Others(r) /\ job'[r] = j /\ pc'[r] = "enter"
    BY <1>2, <1>3, JobUpdate
  <1> QED
    BY <1>1, <1>2, <1>4, <1>5

\* The checks at the head leave a request, refuse it, or let it go on.
LEMMA EnterEffect ==
    ASSUME TypeOK, NEW r \in Request, Enter(r)
    PROVE  /\ Others(r) /\ pc[r] = "enter"
           /\ \/ Dropped(r) \/ Refused(r)
              \/ Unmoved(r) /\ epoch[home[r]] = Uninit /\ pc'[r] = "epoch" /\ Kept(r)
              \/ /\ Unmoved(r) /\ epoch[home[r]] \in Nat /\ Captured(r)
                 /\ job'[r].epoch = epoch[home[r]] /\ job'[r].entry = job[r].entry
                 /\ job'[r].phase = job[r].phase /\ job'[r].reply = job[r].reply
                 /\ pc'[r] = IF job[r].phase = "put" THEN "publish" ELSE "local"
           /\ UNCHANGED <<account, denied, fence, l1, l2, generation, epoch, conf, task,
                          home, committed, floors, flushed, durable, database>>
  <1> DEFINE j == [job[r] EXCEPT !.epoch = epoch[home[r]]]
             e == IF job[r].phase = "put" THEN "publish" ELSE "local"
  <1>1. CASE Refuse(r)
    BY <1>1, RefuseEffect DEF Enter, Local, outside, historyVars
  <1>2. CASE Goto(r, "epoch") /\ UNCHANGED job /\ epoch[home[r]] = Uninit /\ Unmoved(r)
    BY <1>2 DEF Enter, Local, outside, historyVars, Others, Kept, Goto, Awaits, TypeOK
  <1>3. CASE /\ Unmoved(r) /\ epoch[home[r]] \in Nat /\ Proceed(r)
             /\ job' = [job EXCEPT ![r].epoch = epoch[home[r]]]
    <2>1. job[r] \in Job
      BY DEF TypeOK
    <2>2. /\ j \in Job /\ j.epoch = epoch[home[r]] /\ j.entry = job[r].entry
          /\ j.phase = job[r].phase /\ j.reply = job[r].reply
          /\ j.generation = job[r].generation /\ j.expected = job[r].expected
          /\ j.known = job[r].known /\ j.flushed = job[r].flushed
      BY <1>3, <2>1 DEF Job
    <2>3. job' = [job EXCEPT ![r] = j] /\ Goto(r, e) /\ e \in Awaits
      BY <1>3 DEF Proceed, Awaits
    <2>4. Others(r) /\ job'[r] = j /\ pc'[r] = e
      <3> HIDE DEF j, e
      <3> QED  BY <2>2, <2>3, JobUpdate
    <2>5. Captured(r)
      <3> HIDE DEF j
      <3> QED  BY <2>2, <2>4 DEF Captured
    <2> HIDE DEF j
    <2> QED
      BY <1>3, <2>2, <2>4, <2>5 DEF Enter, Local, outside, historyVars
  <1> QED
    BY <1>1, <1>2, <1>3 DEF Enter

\* A request learns the epoch of the fence.
LEMMA ReadEpochEffect ==
    ASSUME TypeOK, NEW r \in Request, ReadEpoch(r)
    PROVE  /\ Others(r) /\ pc[r] = "epoch" /\ pc'[r] = "adopt" /\ Captured(r)
           /\ job'[r].epoch = fence.epoch /\ job'[r].entry = job[r].entry
           /\ job'[r].phase = job[r].phase
           /\ UNCHANGED <<account, denied, fence, l1, l2, generation, water, epoch, conf, task,
                          home, committed, floors, flushed, durable, database>>
  <1> DEFINE j == [job[r] EXCEPT !.epoch = fence.epoch]
  <1>1. job[r] \in Job /\ fence.epoch \in Nat
    BY DEF TypeOK
  <1>2. /\ j \in Job /\ j.epoch = fence.epoch /\ j.entry = job[r].entry
        /\ j.phase = job[r].phase
        /\ j.generation = job[r].generation /\ j.expected = job[r].expected
        /\ j.known = job[r].known /\ j.flushed = job[r].flushed
    BY <1>1 DEF Job
  <1>3. job' = [job EXCEPT ![r] = j] /\ Goto(r, "adopt") /\ "adopt" \in Awaits
    BY DEF ReadEpoch, Awaits
  <1> HIDE DEF j
  <1> QED
    BY ZenonT(40), <1>2, <1>3, JobUpdate
    DEF ReadEpoch, Remote, outside, processVars, localVars, historyVars, Captured

\* A request that cannot learn the epoch is refused.
LEMMA ReadEpochFailsEffect ==
    ASSUME TypeOK, NEW r \in Request, ReadEpochFails(r)
    PROVE  /\ Others(r) /\ (Dropped(r) \/ Refused(r)) /\ pc[r] = "epoch"
           /\ UNCHANGED <<account, denied, fence, l1, l2, generation, epoch, conf, task,
                          home, committed, floors, flushed, durable, database>>
  BY RefuseEffect DEF ReadEpochFails, outside, localVars, historyVars

\* A request takes the epoch its process has, and gives it one if it has none.
LEMMA AdoptEpochEffect ==
    ASSUME TypeOK, NEW r \in Request, AdoptEpoch(r)
    PROVE  /\ Others(r) /\ pc[r] = "adopt"
           /\ \/ Dropped(r) \/ Refused(r)
              \/ /\ Unmoved(r) /\ epoch[home[r]] # Invalid /\ Captured(r)
                 /\ job'[r].epoch = epoch'[home[r]] /\ job'[r].entry = job[r].entry
                 /\ job'[r].phase = job[r].phase /\ job'[r].reply = job[r].reply
                 /\ pc'[r] = IF job[r].phase = "put" THEN "publish" ELSE "local"
           /\ epoch' \in [Process -> Nat \cup {Uninit, Invalid}]
           /\ \A q \in Process :
                 \/ epoch'[q] = epoch[q]
                 \/ q = home[r] /\ epoch[q] = Uninit /\ epoch'[q] = job[r].epoch
           /\ epoch[home[r]] # Invalid => epoch'[home[r]] \in Nat
           /\ UNCHANGED <<account, denied, fence, l1, l2, generation, conf, task,
                          home, committed, floors, flushed, durable, database>>
  <1> DEFINE p == home[r]
             j == [job[r] EXCEPT !.epoch = epoch'[p]]
             e == IF job[r].phase = "put" THEN "publish" ELSE "local"
  <1>1. p \in Process /\ job[r] \in Job /\ job[r].epoch \in Nat
    BY DEF TypeOK, Job
  <1>2. /\ epoch' \in [Process -> Nat \cup {Uninit, Invalid}]
        /\ \A q \in Process :
              \/ epoch'[q] = epoch[q]
              \/ q = p /\ epoch[q] = Uninit /\ epoch'[q] = job[r].epoch
        /\ epoch[p] # Invalid => epoch'[p] \in Nat
    BY <1>1 DEF AdoptEpoch, TypeOK, Uninit, Invalid
  <1>3. UNCHANGED <<account, denied, fence, l1, l2, generation, conf, task,
                    home, committed, floors, flushed, durable, database>>
    BY DEF AdoptEpoch, Local, outside, historyVars
  <1>4. CASE Refuse(r)
    BY <1>2, <1>3, <1>4, RefuseEffect DEF AdoptEpoch
  <1>5. CASE /\ Unmoved(r) /\ epoch[p] # Invalid /\ Proceed(r)
             /\ job' = [job EXCEPT ![r].epoch = epoch'[p]]
    <2>2. /\ j \in Job /\ j.epoch = epoch'[p] /\ j.entry = job[r].entry
          /\ j.phase = job[r].phase /\ j.reply = job[r].reply
          /\ j.generation = job[r].generation /\ j.expected = job[r].expected
          /\ j.known = job[r].known /\ j.flushed = job[r].flushed
      BY <1>1, <1>2, <1>5 DEF Job
    <2>3. job' = [job EXCEPT ![r] = j] /\ Goto(r, e) /\ e \in Awaits
      BY <1>5 DEF Proceed, Awaits
    <2>4. Others(r) /\ job'[r] = j /\ pc'[r] = e
      <3> HIDE DEF j, e
      <3> QED  BY <2>2, <2>3, JobUpdate
    <2>5. Captured(r)
      <3> HIDE DEF j
      <3> QED  BY <2>2, <2>4 DEF Captured
    <2> HIDE DEF j
    <2> QED
      BY <1>2, <1>3, <1>5, <2>2, <2>4, <2>5 DEF AdoptEpoch
  <1> QED
    BY <1>4, <1>5 DEF AdoptEpoch

\* A request finds an entry of its epoch in the first level, or drops what it finds.
LEMMA LookupL1Effect ==
    ASSUME TypeOK, NEW r \in Request, LookupL1(r)
    PROVE  /\ Others(r) /\ pc[r] = "local" /\ Captured(r) /\ job'[r].epoch = job[r].epoch
           /\ \/ /\ pc'[r] = "attest" /\ job'[r].phase = "l1" /\ UNCHANGED l1
                 /\ job'[r].entry = l1[home[r]] /\ l1[home[r]] # NoEntry
                 /\ l1[home[r]].epoch = job[r].epoch
              \/ pc'[r] = "load" /\ Kept(r) /\ l1' = [l1 EXCEPT ![home[r]] = NoEntry]
           /\ UNCHANGED <<account, denied, fence, l2, generation, water, epoch, conf, task,
                          home, committed, floors, flushed, durable, database>>
  <1> DEFINE j == [job[r] EXCEPT !.entry = l1[home[r]], !.phase = "l1"]
  <1>1. job[r] \in Job /\ l1[home[r]] \in Entry \cup {NoEntry}
    BY DEF TypeOK
  <1>2. CASE /\ EntryCurrent(r, l1[home[r]])
             /\ job' = [job EXCEPT ![r].entry = l1[home[r]], ![r].phase = "l1"]
             /\ Goto(r, "attest") /\ UNCHANGED l1
    <2>1. /\ j \in Job /\ j.entry = l1[home[r]] /\ j.phase = "l1" /\ j.epoch = job[r].epoch
          /\ j.generation = job[r].generation /\ j.expected = job[r].expected
          /\ j.known = job[r].known /\ j.flushed = job[r].flushed
      BY <1>1 DEF Job
    <2>2. job' = [job EXCEPT ![r] = j] /\ Goto(r, "attest") /\ "attest" \in Awaits
      BY <1>1, <1>2 DEF TypeOK, Awaits
    <2>3. Others(r) /\ job'[r] = j /\ pc'[r] = "attest"
      <3>1. j \in Job  BY <2>1
      <3> HIDE DEF j
      <3> QED  BY <3>1, <2>2, JobUpdate
    <2> HIDE DEF j
    <2> QED
      BY <1>2, <2>1, <2>3
      DEF LookupL1, Local, outside, historyVars, Captured, EntryCurrent
  <1>3. CASE SetL1(home[r], NoEntry) /\ Goto(r, "load") /\ UNCHANGED job
    BY <1>3
    DEF LookupL1, Local, outside, historyVars, Captured, SetL1, Others, Kept, Goto,
        Awaits, TypeOK
  <1> QED
    BY <1>2, <1>3 DEF LookupL1

\* Redis confirms an entry to a request that expects the fence of now.
LEMMA AttestEffect ==
    ASSUME TypeOK, NEW r \in Request, Attest(r)
    PROVE  /\ Others(r) /\ pc[r] = "attest" /\ pc'[r] = "attested" /\ Captured(r)
           /\ job'[r].epoch = job[r].epoch /\ job'[r].entry = job[r].entry
           /\ job'[r].phase = job[r].phase
           /\ job'[r].reply => FenceMatches(r)
           /\ UNCHANGED <<account, denied, fence, l1, l2, generation, water, epoch, conf, task,
                          home, committed, floors, flushed, durable, database>>
  <1>1. PICK b \in BOOLEAN : job' = [job EXCEPT ![r].reply = b] /\ (b => FenceMatches(r))
    BY DEF Attest, FenceMatches
  <1> DEFINE j == [job[r] EXCEPT !.reply = b]
  <1>2. job[r] \in Job
    BY DEF TypeOK
  <1>3. /\ j \in Job /\ j.epoch = job[r].epoch /\ j.entry = job[r].entry /\ j.reply = b
        /\ j.phase = job[r].phase
        /\ j.generation = job[r].generation /\ j.expected = job[r].expected
        /\ j.known = job[r].known /\ j.flushed = job[r].flushed
    BY <1>2 DEF Job
  <1>4. job' = [job EXCEPT ![r] = j] /\ Goto(r, "attested") /\ "attested" \in Awaits
    BY <1>1 DEF Attest, Awaits
  <1> HIDE DEF j
  <1>5. Others(r) /\ job'[r] = j /\ pc'[r] = "attested"
    BY <1>3, <1>4, JobUpdate
  <1>6. job'[r].reply => FenceMatches(r)
    BY <1>1, <1>3, <1>5
  <1> QED
    BY <1>3, <1>5, <1>6
    DEF Attest, Remote, outside, processVars, localVars, historyVars, Captured

\* A confirmed entry is served, unless its session is denied.
LEMMA AttestedEffect ==
    ASSUME TypeOK, NEW r \in Request, Attested(r)
    PROVE  /\ Others(r) /\ pc[r] = "attested"
           /\ \/ Dropped(r) \/ Refused(r)
              \/ /\ pc'[r] = "served" /\ job'[r].entry = job[r].entry
                 /\ job'[r].known = job[r].known /\ job'[r].flushed = job[r].flushed
                 /\ job'[r].phase = "l1" /\ job'[r].epoch = 0 /\ job'[r].generation = 0
                 /\ job[r].phase # "put" /\ job[r].reply /\ Permits(r)
           /\ l1' = l1 \/ l1' = [l1 EXCEPT ![home[r]] = NoEntry]
           /\ UNCHANGED <<account, denied, fence, l2, generation, epoch, conf, task,
                          home, committed, floors, flushed, durable, database>>
  <1> DEFINE j == [NoJob EXCEPT !.entry = job[r].entry, !.known = job[r].known,
                                !.flushed = job[r].flushed]
  <1>1. job[r] \in Job
    BY DEF TypeOK
  <1>2. UNCHANGED <<account, denied, fence, l2, generation, epoch, conf, task,
                    home, committed, floors, flushed, durable, database>>
    BY DEF Attested, Local, outside, historyVars
  <1>3. l1' = l1 \/ l1' = [l1 EXCEPT ![home[r]] = NoEntry]
    BY DEF Attested, SetL1
  <1>4. CASE Refuse(r) \/ Done(r)
    BY <1>2, <1>3, <1>4, RefuseEffect, DoneEffect DEF Attested
  <1>5. CASE Serve(r) /\ job[r].phase # "put" /\ job[r].reply /\ Permits(r)
    <2>1. /\ j \in Job /\ j.entry = job[r].entry /\ j.known = job[r].known
          /\ j.flushed = job[r].flushed /\ j.phase = "l1" /\ j.epoch = 0 /\ j.generation = 0
      BY <1>1, EntryTypes DEF Job
    <2>2. job' = [job EXCEPT ![r] = j] /\ Goto(r, "served") /\ "served" \in Awaits
      BY <1>5 DEF Serve, Awaits
    <2>3. Others(r) /\ job'[r] = j /\ pc'[r] = "served"
      <3> HIDE DEF j
      <3> QED  BY <2>1, <2>2, JobUpdate
    <2> HIDE DEF j
    <2> QED
      BY <1>2, <1>3, <1>5, <2>1, <2>3 DEF Attested
  <1> QED
    BY <1>4, <1>5 DEF Attested

\* Redis gives its entry to a request that expects the fence of now.
LEMMA LoadEffect ==
    ASSUME TypeOK, NEW r \in Request, Load(r)
    PROVE  /\ Others(r) /\ pc[r] = "load" /\ pc'[r] = "loaded" /\ Captured(r)
           /\ job'[r].epoch = job[r].epoch /\ job'[r].phase = job[r].phase
           /\ job'[r].entry \in {l2, NoEntry}
           /\ UNCHANGED <<account, denied, fence, l1, l2, generation, water, epoch, conf, task,
                          home, committed, floors, flushed, durable, database>>
  <1>1. PICK b \in BOOLEAN, entry \in {l2, NoEntry} :
          job' = [job EXCEPT ![r].reply = b, ![r].entry = entry]
    BY DEF Load, FenceMatches
  <1> DEFINE j == [job[r] EXCEPT !.reply = b, !.entry = entry]
  <1>2. job[r] \in Job /\ entry \in Entry \cup {NoEntry}
    BY DEF TypeOK
  <1>3. /\ j \in Job /\ j.epoch = job[r].epoch /\ j.entry = entry
        /\ j.phase = job[r].phase
        /\ j.generation = job[r].generation /\ j.expected = job[r].expected
        /\ j.known = job[r].known /\ j.flushed = job[r].flushed
    BY <1>2 DEF Job
  <1>4. job' = [job EXCEPT ![r] = j] /\ Goto(r, "loaded") /\ "loaded" \in Awaits
    BY <1>1, <1>2 DEF Load, Awaits, TypeOK
  <1> HIDE DEF j
  <1>5. Others(r) /\ job'[r] = j /\ pc'[r] = "loaded"
    BY <1>3, <1>4, JobUpdate
  <1> QED
    BY <1>1, <1>3, <1>5
    DEF Load, Remote, outside, processVars, localVars, historyVars, Captured

\* An entry from Redis goes to the first level and is attested.
LEMMA LoadedEffect ==
    ASSUME TypeOK, NEW r \in Request, Loaded(r)
    PROVE  /\ Others(r) /\ pc[r] = "loaded"
           /\ \/ (Dropped(r) \/ Refused(r)) /\ UNCHANGED l1
              \/ /\ pc'[r] = "attest" /\ Captured(r) /\ job'[r].epoch = job[r].epoch
                 /\ job'[r].entry = job[r].entry /\ job'[r].phase = "l2"
                 /\ EntryCurrent(r, job[r].entry) /\ job[r].entry \in Entry
                 /\ l1' = [l1 EXCEPT ![home[r]] =
                              [job[r].entry EXCEPT !.generation = job[r].generation]]
           /\ UNCHANGED <<account, denied, fence, l2, generation, epoch, conf, task,
                          home, committed, floors, flushed, durable, database>>
  <1> DEFINE j == [job[r] EXCEPT !.phase = "l2"]
  <1>1. job[r] \in Job /\ job[r].entry \in Entry \cup {NoEntry}
    BY DEF TypeOK, Job
  <1>2. UNCHANGED <<account, denied, fence, l2, generation, epoch, conf, task,
                    home, committed, floors, flushed, durable, database>>
    BY DEF Loaded, Local, outside, historyVars
  <1>3. CASE Refuse(r) /\ UNCHANGED l1
    BY <1>2, <1>3, RefuseEffect DEF Loaded
  <1>4. CASE /\ EntryCurrent(r, job[r].entry) /\ Goto(r, "attest")
             /\ job' = [job EXCEPT ![r].phase = "l2"]
             /\ SetL1(home[r], [job[r].entry EXCEPT !.generation = job[r].generation])
    <2>1. /\ j \in Job /\ j.epoch = job[r].epoch /\ j.entry = job[r].entry
          /\ j.phase = "l2"
          /\ j.generation = job[r].generation /\ j.expected = job[r].expected
          /\ j.known = job[r].known /\ j.flushed = job[r].flushed
      BY <1>1 DEF Job
    <2>2. job' = [job EXCEPT ![r] = j] /\ Goto(r, "attest") /\ "attest" \in Awaits
      BY <1>4 DEF Awaits
    <2>3. Others(r) /\ job'[r] = j /\ pc'[r] = "attest"
      <3>1. j \in Job  BY <2>1
      <3> HIDE DEF j
      <3> QED  BY <3>1, <2>2, JobUpdate
    <2>4. job[r].entry \in Entry
      BY <1>1, <1>4 DEF EntryCurrent
    <2> HIDE DEF j
    <2> QED
      BY <1>2, <1>4, <2>1, <2>3, <2>4 DEF Loaded, Captured, SetL1
  <1> QED
    BY <1>3, <1>4 DEF Loaded

\* The provider verifies the session at the account of now.
LEMMA AuthenticateEffect ==
    ASSUME TypeOK, NEW r \in Request, Authenticate(r)
    PROVE  /\ Others(r) /\ pc[r] = "authenticate" /\ pc'[r] = "enter" /\ Captured(r)
           /\ job'[r].epoch = job[r].epoch /\ job'[r].phase = "put"
           /\ job'[r].entry \in Entry /\ job'[r].entry.identity = account
           /\ job'[r].entry.epoch = 0
           /\ UNCHANGED <<account, denied, fence, l1, l2, generation, water, epoch, conf, task,
                          home, committed, floors, flushed, durable, database>>
  <1> DEFINE own == [NoEntry EXCEPT !.identity = account]
             j == [job[r] EXCEPT !.phase = "put", !.entry = own]
  <1>1. job[r] \in Job /\ account \in Nat
    BY DEF TypeOK
  <1>2. own \in Entry /\ own.identity = account /\ own.epoch = 0
    BY <1>1 DEF Entry, NoEntry
  <1>3. /\ j \in Job /\ j.epoch = job[r].epoch /\ j.entry = own /\ j.phase = "put"
        /\ j.generation = job[r].generation /\ j.expected = job[r].expected
        /\ j.known = job[r].known /\ j.flushed = job[r].flushed
    <2> HIDE DEF own
    <2> QED  BY <1>1, <1>2 DEF Job
  <1>4. job' = [job EXCEPT ![r] = j] /\ Goto(r, "enter") /\ "enter" \in Awaits
    BY DEF Authenticate, Awaits, TypeOK
  <1> HIDE DEF j, own
  <1> QED
    BY ZenonT(40), <1>2, <1>3, <1>4, JobUpdate
    DEF Authenticate, Local, outside, historyVars, Captured

\* Redis stores the entry of a request that expects the fence of now.
LEMMA PublishEffect ==
    ASSUME TypeOK, NEW r \in Request, Publish(r)
    PROVE  /\ Others(r) /\ pc[r] = "publish" /\ pc'[r] = "published" /\ Captured(r)
           /\ job'[r].epoch = job[r].epoch /\ job'[r].entry = job[r].entry
           /\ job'[r].phase = job[r].phase
           /\ l2' = l2 \/ l2' = Own(r)
           /\ UNCHANGED <<account, denied, fence, l1, generation, water, epoch, conf, task,
                          home, committed, floors, flushed, durable, database>>
  <1>1. PICK b \in BOOLEAN : job' = [job EXCEPT ![r].reply = b]
    BY DEF Publish, FenceMatches
  <1> DEFINE j == [job[r] EXCEPT !.reply = b]
  <1>2. job[r] \in Job
    BY DEF TypeOK
  <1>3. /\ j \in Job /\ j.epoch = job[r].epoch /\ j.entry = job[r].entry
        /\ j.phase = job[r].phase
        /\ j.generation = job[r].generation /\ j.expected = job[r].expected
        /\ j.known = job[r].known /\ j.flushed = job[r].flushed
    BY <1>2 DEF Job
  <1>4. job' = [job EXCEPT ![r] = j] /\ Goto(r, "published") /\ "published" \in Awaits
    BY <1>1 DEF Publish, Awaits
  <1>5. l2' = l2 \/ l2' = Own(r)
    BY DEF Publish
  <1> HIDE DEF j
  <1> QED
    BY ZenonT(40), <1>3, <1>4, <1>5, JobUpdate
    DEF Publish, Remote, outside, processVars, localVars, historyVars, Captured

\* A stored entry goes to the first level too.
LEMMA PublishedEffect ==
    ASSUME TypeOK, NEW r \in Request, Published(r)
    PROVE  /\ Others(r) /\ pc[r] = "published"
           /\ \/ (Dropped(r) \/ Refused(r)) /\ UNCHANGED l1
              \/ /\ pc'[r] = "attest" /\ Kept(r)
                 /\ l1' = [l1 EXCEPT ![home[r]] =
                              [Own(r) EXCEPT !.generation = job[r].generation]]
           /\ UNCHANGED <<account, denied, fence, l2, generation, epoch, conf, task,
                          home, committed, floors, flushed, durable, database>>
  <1>1. UNCHANGED <<account, denied, fence, l2, generation, epoch, conf, task,
                    home, committed, floors, flushed, durable, database>>
    BY DEF Published, Local, outside, historyVars
  <1>2. CASE Refuse(r) /\ UNCHANGED l1
    BY <1>1, <1>2, RefuseEffect DEF Published
  <1>3. CASE /\ SetL1(home[r], [Own(r) EXCEPT !.generation = job[r].generation])
             /\ Goto(r, "attest") /\ UNCHANGED job
    BY <1>1, <1>3 DEF Published, Others, Kept, SetL1, Goto, Awaits, TypeOK
  <1> QED
    BY <1>2, <1>3 DEF Published

\* A request is over.
LEMMA LeaveEffect ==
    ASSUME TypeOK, NEW r \in Request, Leave(r)
    PROVE  /\ Others(r) /\ Dropped(r)
           /\ UNCHANGED <<account, denied, fence, l1, l2, generation, water, epoch, conf, task,
                          home, committed, floors, flushed, durable, database>>
  BY DoneEffect DEF Leave, Local, outside, historyVars

\* Whatever a request does, the others stay as they are.
LEMMA RequestEffects ==
    ASSUME TypeOK, NEW r \in Request, RequestNext(r)
    PROVE  Others(r)
  BY ZenonT(40), BeginEffect, EnterEffect, ReadEpochEffect, ReadEpochFailsEffect,
     AdoptEpochEffect, LookupL1Effect, AttestEffect, AttestedEffect, LoadEffect,
     LoadedEffect, AuthenticateEffect, PublishEffect, PublishedEffect, LeaveEffect
  DEF RequestNext

-----------------------------------------------------------------------------
(* Types.                                                                  *)

\* What a request writes is an entry.
LEMMA OwnType ==
    ASSUME TypeOK, InHand, NEW r \in Request, pc[r] \in Writing
    PROVE  /\ Own(r) \in Entry /\ Own(r) # NoEntry
           /\ Own(r).identity = job[r].entry.identity /\ Own(r).epoch = job[r].epoch
           /\ [Own(r) EXCEPT !.generation = job[r].generation] \in Entry
           /\ [Own(r) EXCEPT !.generation = job[r].generation].identity
                 = job[r].entry.identity
           /\ [Own(r) EXCEPT !.generation = job[r].generation].epoch = job[r].epoch
           /\ [Own(r) EXCEPT !.generation = job[r].generation] # NoEntry
  <1>1. job[r] \in Job
    BY DEF TypeOK
  <1>2. job[r].entry.identity \in Nat
    BY DEF InHand, HandOf
  <1> QED
    BY <1>1, <1>2 DEF Job, Own, Entry, NoEntry, None

\* A step of a request keeps the types.
LEMMA RequestTypes ==
    ASSUME TypeOK, InHand, NEW r \in Request, RequestNext(r)
    PROVE  TypeOK'
  <1>1. Others(r)
    BY RequestEffects
  <1>2. UNCHANGED <<account, denied, database, durable, fence, generation, conf, notes, task,
                    home, committed, floors, flushed, flushes>>
    BY DEF RequestNext, Begin, Enter, ReadEpoch, ReadEpochFails, AdoptEpoch, LookupL1, Attest, Attested, Load, Loaded, Authenticate, Publish, Published, Leave, Local, Remote, outside, processVars, localVars, historyVars
  <1>3. faults' \in Nat
    BY DEF RequestNext, Begin, Enter, ReadEpoch, ReadEpochFails, AdoptEpoch, LookupL1, Attest, Attested, Load, Loaded, Authenticate, Publish, Published, Leave, Local, Remote, Fault, TypeOK
  <1>4. water' = water \/ Disable(home[r])
    BY DEF RequestNext, Begin, Enter, ReadEpoch, ReadEpochFails, AdoptEpoch, LookupL1, Attest, Attested, Load, Loaded, Authenticate, Publish, Published, Leave, Local, Remote, processVars
  <1>5. water' \in [Process -> Nat \cup {None}]
    BY <1>4 DEF Disable, TypeOK
  <1>6. epoch' \in [Process -> Nat \cup {Uninit, Invalid}]
    BY AdoptEpochEffect DEF RequestNext, Begin, Enter, ReadEpoch, ReadEpochFails, AdoptEpoch, LookupL1, Attest, Attested, Load, Loaded, Authenticate, Publish, Published, Leave, Local, Remote, processVars, TypeOK
  <1>7. l1' \in [Process -> Entry \cup {NoEntry}]
    <2>1. home[r] \in Process /\ job[r] \in Job
      BY DEF TypeOK
    <2>2. CASE Loaded(r)
      <3> DEFINE copy == [job[r].entry EXCEPT !.generation = job[r].generation]
      <3>1. job[r].entry \in Entry => copy \in Entry
        BY <2>1 DEF Entry, Job
      <3>2. UNCHANGED l1 \/ (copy \in Entry /\ l1' = [l1 EXCEPT ![home[r]] = copy])
        BY <2>2, <3>1, LoadedEffect
      <3> HIDE DEF copy
      <3> QED
        BY <3>2 DEF TypeOK
    <2>3. CASE Published(r)
      <3> DEFINE copy == [Own(r) EXCEPT !.generation = job[r].generation]
      <3>1. UNCHANGED l1 \/ (copy \in Entry /\ l1' = [l1 EXCEPT ![home[r]] = copy])
        BY <2>3, OwnType, PublishedEffect DEF Writing
      <3> HIDE DEF copy
      <3> QED
        BY <3>1 DEF TypeOK
    <2>4. CASE LookupL1(r) \/ Attested(r)
      BY <2>4, LookupL1Effect, AttestedEffect DEF TypeOK
    <2>5. UNCHANGED l1 \/ Loaded(r) \/ Published(r) \/ LookupL1(r) \/ Attested(r)
      BY DEF RequestNext, Begin, Enter, ReadEpoch, ReadEpochFails, AdoptEpoch, LookupL1, Attest, Attested, Load, Loaded, Authenticate, Publish, Published, Leave, Remote, processVars, localVars
    <2> QED
      BY <2>2, <2>3, <2>4, <2>5 DEF TypeOK
  <1>8. l2' \in Entry \cup {NoEntry}
    <2>1. UNCHANGED l2 \/ Publish(r)
      BY DEF RequestNext, Begin, Enter, ReadEpoch, ReadEpochFails, AdoptEpoch, LookupL1, Attest, Attested, Load, Loaded, Authenticate, Publish, Published, Leave, Local
    <2> QED
      BY <2>1, OwnType, PublishEffect DEF Writing, TypeOK
  <1> QED
    BY <1>1, <1>2, <1>3, <1>5, <1>6, <1>7, <1>8 DEF Others, TypeOK

\* A step of a request leaves it with what its place says.
LEMMA RequestInHand ==
    ASSUME TypeOK, InHand,
           NEW r \in Request, RequestNext(r)
    PROVE  InHand'
  <1> SUFFICES HandOf(r)'
    <2>1. \A q \in Request \ {r} : HandOf(q)'
      BY RequestEffects DEF Others, InHand, HandOf
    <2> QED
      BY <2>1 DEF InHand
  <1>h. HandOf(r)
    BY DEF InHand
  <1>1. CASE Begin(r)
    BY <1>1, BeginEffect, <1>h, EntryTypes
    DEF Kept, Captured, Dropped, Refused, HandOf, Writing
  <1>2. CASE Enter(r)
    BY <1>2, EnterEffect, <1>h, EntryTypes
    DEF Kept, Captured, Dropped, Refused, HandOf, Writing
  <1>3. CASE ReadEpoch(r)
    BY <1>3, ReadEpochEffect, <1>h, EntryTypes
    DEF Kept, Captured, Dropped, Refused, HandOf, Writing
  <1>4. CASE ReadEpochFails(r)
    BY <1>4, ReadEpochFailsEffect, <1>h, EntryTypes
    DEF Kept, Captured, Dropped, Refused, HandOf, Writing
  <1>5. CASE AdoptEpoch(r)
    <2>1. \/ Dropped(r) \/ Refused(r)
          \/ /\ job'[r].entry = job[r].entry /\ job'[r].phase = job[r].phase
             /\ pc'[r] = IF job[r].phase = "put" THEN "publish" ELSE "local"
      BY <1>5, AdoptEpochEffect
    <2> QED
      BY <2>1, <1>h, EntryTypes DEF Dropped, Refused, HandOf, Writing
  <1>6. CASE LookupL1(r)
    BY <1>6, LookupL1Effect, <1>h, EntryTypes
    DEF Kept, Captured, Dropped, Refused, HandOf, Writing
  <1>7. CASE Attest(r)
    BY <1>7, AttestEffect, <1>h, EntryTypes
    DEF Kept, Captured, Dropped, Refused, HandOf, Writing
  <1>8. CASE Attested(r)
    BY <1>8, AttestedEffect, <1>h, EntryTypes
    DEF Kept, Captured, Dropped, Refused, HandOf, Writing
  <1>9. CASE Load(r)
    BY <1>9, LoadEffect, <1>h, EntryTypes
    DEF Kept, Captured, Dropped, Refused, HandOf, Writing
  <1>10. CASE Loaded(r)
    BY ZenonT(40), <1>10, LoadedEffect, <1>h, EntryTypes
    DEF Captured, Dropped, Refused, HandOf, Writing, EntryCurrent, TypeOK
  <1>11. CASE Authenticate(r)
    BY <1>11, AuthenticateEffect, <1>h, EntryTypes
    DEF Captured, HandOf, Writing, TypeOK
  <1>12. CASE Publish(r)
    BY <1>12, PublishEffect, <1>h, EntryTypes
    DEF Kept, Captured, Dropped, Refused, HandOf, Writing
  <1>13. CASE Published(r)
    BY <1>13, PublishedEffect, <1>h, EntryTypes
    DEF Kept, Captured, Dropped, Refused, HandOf, Writing
  <1>14. CASE Leave(r)
    BY <1>14, LeaveEffect, <1>h, EntryTypes
    DEF Kept, Captured, Dropped, Refused, HandOf, Writing
  <1> QED
    BY <1>1, <1>2, <1>3, <1>4, <1>5, <1>6, <1>7, <1>8, <1>9, <1>10, <1>11, <1>12,
       <1>13, <1>14 DEF RequestNext

-----------------------------------------------------------------------------
(* What the steps of a process do.                                         *)

\* The tasks of the others stay as they are.
OtherTasks(p) ==
    /\ task' \in [Process -> Task]
    /\ \A q \in Process \ {p} : task'[q] = task[q]

\* A task remembers what it is for.
Aimed(p) == task'[p].aim = task[p].aim /\ task'[p].cause = task[p].cause

\* A process moves on with its task.
LEMMA TaskUpdate ==
    ASSUME TypeOK, NEW p \in Process, NEW t \in Task, task' = [task EXCEPT ![p] = t]
    PROVE  OtherTasks(p) /\ task'[p] = t
  BY DEF TypeOK, OtherTasks

\* A task goes on to another place.
LEMMA PlaceEffect ==
    ASSUME TypeOK, NEW p \in Process,
           NEW a \in {"idle", "advance", "advanced", "confirm", "delete"},
           task' = [task EXCEPT ![p].at = a]
    PROVE  OtherTasks(p) /\ Aimed(p) /\ task'[p].at = a /\ task'[p].epoch = task[p].epoch
  <1> DEFINE t == [task[p] EXCEPT !.at = a]
  <1>1. task[p] \in Task
    BY DEF TypeOK
  <1>2. /\ t \in Task /\ t.at = a /\ t.aim = task[p].aim
        /\ t.epoch = task[p].epoch /\ t.cause = task[p].cause
    BY <1>1 DEF Task
  <1>3. task' = [task EXCEPT ![p] = t]
    OBVIOUS
  <1> HIDE DEF t
  <1> QED
    BY <1>2, <1>3, TaskUpdate DEF Aimed

\* An invalidation starts: the generation moves and the first level is emptied.
Started(p) ==
    /\ OtherTasks(p) /\ task[p].at = "idle"
    /\ task'[p].at = "advance" /\ task'[p].epoch = 0
    /\ generation' \in [Process -> Nat] /\ generation'[p] = generation[p] + 1
    /\ \A q \in Process \ {p} : generation'[q] = generation[q] /\ l1'[q] = l1[q]
    /\ l1' \in [Process -> Entry \cup {NoEntry}] /\ l1'[p] = NoEntry

\* A task starts from what the process knows.
LEMMA StartEffect ==
    ASSUME TypeOK, NEW p \in Process, NEW aim \in Nat \cup {ByForce}, NEW cause \in Nat,
           Start(p, aim, cause)
    PROVE  Started(p) /\ task'[p].aim = aim /\ task'[p].cause = cause
  <1> DEFINE t == [at |-> "advance", aim |-> aim, epoch |-> 0, cause |-> cause]
  <1>1. /\ t \in Task /\ t.at = "advance" /\ t.aim = aim /\ t.epoch = 0 /\ t.cause = cause
    BY DEF Task
  <1>2. task' = [task EXCEPT ![p] = t]
    BY DEF Start
  <1>3. OtherTasks(p) /\ task'[p] = t
    <2> HIDE DEF t
    <2> QED  BY <1>1, <1>2, TaskUpdate
  <1>4. /\ generation' \in [Process -> Nat] /\ generation'[p] = generation[p] + 1
        /\ \A q \in Process \ {p} : generation'[q] = generation[q] /\ l1'[q] = l1[q]
        /\ l1' \in [Process -> Entry \cup {NoEntry}] /\ l1'[p] = NoEntry
    BY DEF Start, SetL1, TypeOK
  <1>5. task[p].at = "idle"
    BY DEF Start
  <1> HIDE DEF t
  <1> QED
    BY <1>1, <1>3, <1>4, <1>5 DEF Started

\* A publication starts while the process has nothing else to do.
LEMMA StartPublicationEffect ==
    ASSUME TypeOK, durable <= MaxRev, NEW p \in Process, StartPublication(p)
    PROVE  /\ database /\ ~Locked /\ Started(p)
           /\ task'[p].aim = durable /\ task'[p].cause = committed[durable]
           /\ UNCHANGED <<account, denied, fence, l2, water, epoch, conf, home, pc, job,
                          committed, floors, flushed, durable, database>>
  <1>1. durable \in Nat /\ committed[durable] \in Nat
    BY VersionedAssumption DEF TypeOK
  <1> QED
    BY <1>1, StartEffect DEF StartPublication, outside, requestVars, historyVars

\* A flush by hand starts like a publication, without a configuration.
LEMMA StartFlushEffect ==
    ASSUME TypeOK, NEW p \in Process, StartFlush(p)
    PROVE  /\ Started(p) /\ task'[p].aim = ByForce /\ task'[p].cause = account
           /\ UNCHANGED <<account, denied, fence, l2, water, epoch, conf, home, pc, job,
                          committed, floors, flushed, durable, database>>
  BY StartEffect DEF StartFlush, outside, requestVars, TypeOK

\* A publication fails, or a flush goes on without the epoch.
Abandoned(p) ==
    /\ OtherTasks(p) /\ water' \in [Process -> Nat \cup {None}]
    /\ epoch' \in [Process -> Nat \cup {Uninit, Invalid}] /\ epoch'[p] = Invalid
    /\ conf' \in [Process -> Nat \cup {Uninit}]
    /\ \A q \in Process \ {p} : epoch'[q] = epoch[q] /\ conf'[q] = conf[q]
    /\ \/ /\ task[p].aim = ByForce /\ task'[p].at = "delete" /\ Aimed(p)
          /\ task'[p].epoch = task[p].epoch
       \/ task[p].aim # ByForce /\ task'[p] = NoTask /\ conf'[p] = Uninit

\* A task that is given up leaves the process without a valid epoch.
LEMMA AbandonEffect ==
    ASSUME TypeOK, NEW p \in Process, Abandon(p)
    PROVE  Abandoned(p)
  <1>1. /\ water' \in [Process -> Nat \cup {None}]
        /\ epoch' \in [Process -> Nat \cup {Uninit, Invalid}] /\ epoch'[p] = Invalid
        /\ conf' \in [Process -> Nat \cup {Uninit}]
        /\ \A q \in Process \ {p} : epoch'[q] = epoch[q] /\ conf'[q] = conf[q]
    BY DEF Abandon, Disable, TypeOK
  <1>2. CASE task[p].aim = ByForce
    <2>1. task' = [task EXCEPT ![p].at = "delete"]
      BY <1>2 DEF Abandon
    <2> QED
      BY <1>1, <1>2, <2>1, PlaceEffect DEF Abandoned
  <1>3. CASE task[p].aim # ByForce
    <2>1. task' = [task EXCEPT ![p] = NoTask] /\ conf' = [conf EXCEPT ![p] = Uninit]
      BY <1>3 DEF Abandon
    <2>2. OtherTasks(p) /\ task'[p] = NoTask
      BY <2>1, TaskUpdate, EntryTypes
    <2>3. conf'[p] = Uninit
      BY <2>1 DEF TypeOK
    <2> QED
      BY <1>1, <1>3, <2>2, <2>3 DEF Abandoned
  <1> QED
    BY <1>2, <1>3

\* The fence stays, or moves to the next epoch.
Moved(p) ==
    /\ Moves(p) /\ fence'.epoch = fence.epoch + 1
    /\ task[p].aim = ByForce => fence'.rev = fence.rev /\ floors'[fence.epoch + 1] = 0
    /\ task[p].aim # ByForce => /\ fence'.rev = task[p].aim
                               /\ floors'[fence.epoch + 1] = task[p].cause
    /\ \A e \in 0 .. fence.epoch : floors'[e] = floors[e]

\* The epoch moves by one, or the configuration is not a newer one.
LEMMA MoveEpochEffect ==
    ASSUME TypeOK, NEW p \in Process, MoveEpoch(p)
    PROVE  /\ task[p].at = "advance" /\ fence'.water = fence.water
           /\ fence' \in [water : Nat, epoch : Nat, rev : Nat]
           /\ floors' \in [0 .. fence'.epoch -> Nat]
           /\ notes' \in [Process -> BOOLEAN]
           /\ Moved(p) \/ (UNCHANGED <<fence, floors>> /\ ~Moves(p))
  <1>1. /\ task[p].cause \in Nat /\ task[p].aim \in Nat \cup {ByForce}
        /\ fence.epoch \in Nat /\ fence.rev \in Nat /\ fence.water \in Nat
    BY DEF TypeOK, Task
  <1>2. CASE Moves(p)
    <2> DEFINE new == IF task[p].aim = ByForce THEN fence.rev ELSE task[p].aim
    <2>1. fence' = [fence EXCEPT !.epoch = @ + 1, !.rev = new]
      BY <1>2 DEF MoveEpoch
    <2>2. new \in Nat
      BY <1>1
    <2>3. /\ fence' \in [water : Nat, epoch : Nat, rev : Nat]
          /\ fence'.epoch = fence.epoch + 1 /\ fence'.rev = new /\ fence'.water = fence.water
      <3> HIDE DEF new
      <3>1. fence \in [water : Nat, epoch : Nat, rev : Nat]
        BY DEF TypeOK
      <3>2. fence' = [water |-> fence.water, epoch |-> fence.epoch + 1, rev |-> new]
        BY <2>1, <3>1
      <3> QED  BY <1>1, <2>2, <3>2
    <2>4. floors' = [e \in 0 .. fence.epoch + 1 |->
                        IF e <= fence.epoch THEN floors[e]
                        ELSE IF task[p].aim = ByForce THEN 0 ELSE task[p].cause]
      BY <1>2 DEF MoveEpoch
    <2>5. /\ floors' \in [0 .. fence.epoch + 1 -> Nat]
          /\ \A e \in 0 .. fence.epoch : floors'[e] = floors[e]
          /\ floors'[fence.epoch + 1] = IF task[p].aim = ByForce THEN 0 ELSE task[p].cause
      BY <1>1, <2>4 DEF TypeOK
    <2>6. notes' \in [Process -> BOOLEAN] /\ task[p].at = "advance"
      BY <1>2 DEF MoveEpoch
    <2> QED
      BY <1>2, <2>3, <2>5, <2>6 DEF Moved
  <1>3. CASE ~Moves(p)
    BY <1>3 DEF MoveEpoch, TypeOK
  <1> QED
    BY <1>2, <1>3

\* advance_cache_epoch answers with the epoch of now.
LEMMA AdvanceEpochEffect ==
    ASSUME TypeOK, NEW p \in Process, AdvanceEpoch(p)
    PROVE  /\ MoveEpoch(p) /\ OtherTasks(p) /\ Aimed(p)
           /\ task'[p].at = "advanced" /\ task'[p].epoch = fence'.epoch
           /\ UNCHANGED <<account, denied, l1, l2, generation, water, epoch, conf, home, pc,
                          job, committed, flushed, durable, database>>
  <1> DEFINE t == [task[p] EXCEPT !.at = "advanced", !.epoch = fence'.epoch]
  <1>1. MoveEpoch(p)
    BY DEF AdvanceEpoch
  <1>2. fence'.epoch \in Nat /\ task[p] \in Task
    BY <1>1, MoveEpochEffect DEF TypeOK
  <1>3. /\ t \in Task /\ t.at = "advanced" /\ t.epoch = fence'.epoch
        /\ t.aim = task[p].aim /\ t.cause = task[p].cause
    BY <1>2 DEF Task
  <1>4. task' = [task EXCEPT ![p] = t]
    BY DEF AdvanceEpoch, TypeOK
  <1>5. OtherTasks(p) /\ task'[p] = t
    <2> HIDE DEF t
    <2> QED  BY <1>3, <1>4, TaskUpdate
  <1> HIDE DEF t
  <1> QED
    BY <1>1, <1>3, <1>5 DEF AdvanceEpoch, outside, localVars, requestVars, Aimed

\* A call that fails may have moved the epoch.
LEMMA AdvanceFailsEffect ==
    ASSUME TypeOK, NEW p \in Process, AdvanceFails(p)
    PROVE  /\ MoveEpoch(p) \/ UNCHANGED <<fence, floors, notes>>
           /\ Abandoned(p) /\ task[p].at = "advance"
           /\ UNCHANGED <<account, denied, l1, l2, generation, home, pc, job, committed,
                          flushed, durable, database>>
  BY AbandonEffect DEF AdvanceFails, outside, localVars, requestVars

\* The process takes up the epoch it was answered.
LEMMA StoreEpochEffect ==
    ASSUME TypeOK, NEW p \in Process, StoreEpoch(p)
    PROVE  /\ OtherTasks(p) /\ Aimed(p) /\ task[p].at = "advanced"
           /\ task'[p].at = IF task[p].aim = ByForce THEN "delete" ELSE "confirm"
           /\ task'[p].epoch = task[p].epoch
           /\ epoch' \in [Process -> Nat \cup {Uninit, Invalid}]
           /\ epoch'[p] = task[p].epoch /\ task[p].epoch \in Nat
           /\ \A q \in Process \ {p} : epoch'[q] = epoch[q]
           /\ UNCHANGED <<account, denied, fence, l1, l2, generation, water, conf, home, pc,
                          job, committed, floors, flushed, durable, database>>
  <1> DEFINE at == IF task[p].aim = ByForce THEN "delete" ELSE "confirm"
  <1>1. task[p].epoch \in Nat
    BY DEF TypeOK, Task
  <1>2. task' = [task EXCEPT ![p].at = at]
    BY DEF StoreEpoch
  <1>3. OtherTasks(p) /\ Aimed(p) /\ task'[p].at = at /\ task'[p].epoch = task[p].epoch
    <2>1. at \in {"idle", "advance", "advanced", "confirm", "delete"}
      OBVIOUS
    <2> HIDE DEF at
    <2> QED  BY <1>2, <2>1, PlaceEffect
  <1>4. /\ epoch' \in [Process -> Nat \cup {Uninit, Invalid}]
        /\ epoch'[p] = task[p].epoch
        /\ \A q \in Process \ {p} : epoch'[q] = epoch[q]
    BY <1>1 DEF StoreEpoch, TypeOK
  <1> QED
    BY <1>1, <1>3, <1>4 DEF StoreEpoch, outside, localVars, requestVars, historyVars

\* Redis still has the epoch and the configuration, or the task is given up.
LEMMA ConfirmEffect ==
    ASSUME TypeOK, NEW p \in Process, Confirm(p)
    PROVE  /\ task[p].at = "confirm"
           /\ \/ /\ OtherTasks(p) /\ Aimed(p) /\ task'[p].at = "delete"
                 /\ task'[p].epoch = task[p].epoch /\ epoch[p] = fence.epoch
                 /\ task[p].aim = fence.rev
                 /\ conf' = [conf EXCEPT ![p] = fence.rev] /\ UNCHANGED <<water, epoch>>
              \/ Abandoned(p)
           /\ UNCHANGED <<account, denied, fence, l1, l2, generation, home, pc, job,
                          committed, floors, flushed, durable, database>>
  <1>1. CASE Abandon(p)
    BY <1>1, AbandonEffect
    DEF Confirm, outside, localVars, requestVars, historyVars
  <1>2. CASE /\ fence.rev = task[p].aim /\ fence.epoch = epoch[p]
             /\ conf' = [conf EXCEPT ![p] = task[p].aim]
             /\ task' = [task EXCEPT ![p].at = "delete"]
             /\ UNCHANGED <<water, epoch, faults>>
    BY <1>2, PlaceEffect
    DEF Confirm, outside, localVars, requestVars, historyVars
  <1> QED
    BY <1>1, <1>2 DEF Confirm

\* The entry of the second level is deleted.
LEMMA DeleteL2Effect ==
    ASSUME TypeOK, NEW p \in Process, DeleteL2(p)
    PROVE  /\ task[p].at = "delete" /\ OtherTasks(p) /\ task'[p] = NoTask
           /\ l2' = l2 \/ l2' = NoEntry
           /\ flushed' = IF /\ task[p].aim = ByForce /\ task[p].epoch # 0
                            /\ task[p].cause > flushed
                         THEN task[p].cause ELSE flushed
           /\ UNCHANGED <<account, denied, fence, l1, generation, water, epoch, conf, home,
                          pc, job, committed, floors, durable, database>>
  BY TaskUpdate, EntryTypes DEF DeleteL2, outside, localVars, requestVars

\* invalidate_local: a new generation, and an empty first level.
LEMMA ListenEffect ==
    ASSUME TypeOK, NEW p \in Process, Listen(p)
    PROVE  /\ generation' \in [Process -> Nat] /\ generation'[p] = generation[p] + 1
           /\ \A q \in Process \ {p} : generation'[q] = generation[q] /\ l1'[q] = l1[q]
           /\ l1' \in [Process -> Entry \cup {NoEntry}] /\ l1'[p] = NoEntry
           /\ UNCHANGED <<account, denied, fence, l2, water, epoch, conf, task, home, pc, job,
                          committed, floors, flushed, durable, database>>
  BY DEF Listen, SetL1, outside, requestVars, historyVars, TypeOK

\* A restart forgets the requests, the first level and the task of a process.
LEMMA RestartEffect ==
    ASSUME TypeOK, NEW p \in Process, Restart(p)
    PROVE  /\ OtherTasks(p) /\ task'[p] = NoTask
           /\ generation' \in [Process -> Nat] /\ l1' \in [Process -> Entry \cup {NoEntry}]
           /\ l1'[p] = NoEntry /\ epoch'[p] = Uninit /\ conf'[p] = Uninit
           /\ epoch' \in [Process -> Nat \cup {Uninit, Invalid}]
           /\ conf' \in [Process -> Nat \cup {Uninit}]
           /\ water' \in [Process -> Nat \cup {None}]
           /\ \A q \in Process \ {p} : /\ generation'[q] = generation[q] /\ l1'[q] = l1[q]
                                       /\ epoch'[q] = epoch[q] /\ conf'[q] = conf[q]
           /\ job' \in [Request -> Job] /\ pc' \in [Request -> Awaits]
           /\ \A r \in Request :
                 /\ home[r] = p => job'[r] = NoJob /\ pc'[r] = "idle"
                 /\ home[r] # p => job'[r] = job[r] /\ pc'[r] = pc[r]
           /\ UNCHANGED <<account, denied, fence, l2, home, committed, floors, flushed,
                          durable, database>>
  <1>1. OtherTasks(p) /\ task'[p] = NoTask
    BY TaskUpdate, EntryTypes DEF Restart
  <1>2. /\ generation' \in [Process -> Nat] /\ l1' \in [Process -> Entry \cup {NoEntry}]
        /\ l1'[p] = NoEntry /\ epoch'[p] = Uninit /\ conf'[p] = Uninit
        /\ epoch' \in [Process -> Nat \cup {Uninit, Invalid}]
        /\ conf' \in [Process -> Nat \cup {Uninit}]
        /\ water' \in [Process -> Nat \cup {None}]
        /\ \A q \in Process \ {p} : /\ generation'[q] = generation[q] /\ l1'[q] = l1[q]
                                    /\ epoch'[q] = epoch[q] /\ conf'[q] = conf[q]
    BY DEF Restart, SetL1, Disable, TypeOK
  <1>3. job' \in [Request -> Job] /\ pc' \in [Request -> Awaits]
    BY EntryTypes DEF Restart, TypeOK, Awaits
  <1>4. \A r \in Request : /\ home[r] = p => job'[r] = NoJob /\ pc'[r] = "idle"
                           /\ home[r] # p => job'[r] = job[r] /\ pc'[r] = pc[r]
    BY DEF Restart
  <1> QED
    BY <1>1, <1>2, <1>3, <1>4 DEF Restart, outside, historyVars

\* The steps of a process keep the types.
LEMMA ProcessTypes ==
    ASSUME TypeOK, durable <= MaxRev, NEW p \in Process, ProcessNext(p)
    PROVE  TypeOK'
  <1> USE DEF outside, localVars, requestVars, historyVars
  <1>1. /\ faults' \in Nat /\ flushes' \in Nat /\ flushed' \in Nat
        /\ notes' \in [Process -> BOOLEAN]
    <2>1. task[p].cause \in Nat
      BY DEF TypeOK, Task
    <2>2. notes' \in [Process -> BOOLEAN]
      BY MoveEpochEffect
      DEF ProcessNext, StartPublication, StartFlush, AdvanceEpoch, AdvanceFails, StoreEpoch,
          Confirm, DeleteL2, Listen, Observe, Lapse, Restart, TypeOK
    <2>3. faults' \in Nat
      BY DEF ProcessNext, StartPublication, StartFlush, AdvanceEpoch, AdvanceFails, StoreEpoch,
          Confirm, DeleteL2, Listen, Observe, Lapse, Restart, Fault, TypeOK
    <2>4. flushes' \in Nat
      BY DEF ProcessNext, StartPublication, StartFlush, AdvanceEpoch, AdvanceFails, StoreEpoch,
          Confirm, DeleteL2, Listen, Observe, Lapse, Restart, TypeOK
    <2>5. flushed' \in Nat
      BY <2>1
      DEF ProcessNext, StartPublication, StartFlush, AdvanceEpoch, AdvanceFails, StoreEpoch,
          Confirm, DeleteL2, Listen, Observe, Lapse, Restart, TypeOK
    <2> QED
      BY <2>2, <2>3, <2>4, <2>5
  <1>2. CASE StartPublication(p)
    BY <1>1, <1>2, StartPublicationEffect DEF TypeOK, Started, OtherTasks
  <1>3. CASE StartFlush(p)
    BY <1>1, <1>3, StartFlushEffect DEF TypeOK, Started, OtherTasks
  <1>4. CASE AdvanceEpoch(p)
    BY <1>1, <1>4, AdvanceEpochEffect, MoveEpochEffect DEF TypeOK, OtherTasks
  <1>5. CASE AdvanceFails(p)
    BY <1>1, <1>5, AdvanceFailsEffect, MoveEpochEffect DEF TypeOK, Abandoned, OtherTasks
  <1>6. CASE StoreEpoch(p)
    BY <1>1, <1>6, StoreEpochEffect DEF TypeOK, OtherTasks
  <1>7. CASE Confirm(p)
    BY ZenonT(40), <1>1, <1>7, ConfirmEffect DEF TypeOK, OtherTasks, Abandoned, Confirm, Abandon, Disable
  <1>8. CASE DeleteL2(p)
    BY <1>1, <1>8, DeleteL2Effect DEF TypeOK, OtherTasks
  <1>9. CASE Listen(p)
    BY <1>1, <1>9, ListenEffect DEF TypeOK
  <1>10. CASE Observe(p) \/ Lapse(p)
    BY <1>1, <1>10 DEF TypeOK, Observe, Lapse, Disable
  <1>11. CASE Restart(p)
    BY <1>1, <1>11, RestartEffect DEF TypeOK, OtherTasks
  <1> QED
    BY <1>2, <1>3, <1>4, <1>5, <1>6, <1>7, <1>8, <1>9, <1>10, <1>11 DEF ProcessNext

\* What the surroundings do.
Surroundings == AdvanceFence \/ ChangeAccount \/ Commit

\* An event raises the water mark by one, and denies at most once.
LEMMA AdvanceFenceEffect ==
    ASSUME TypeOK, AdvanceFence
    PROVE  /\ fence' \in [water : Nat, epoch : Nat, rev : Nat]
           /\ fence'.water = fence.water + 1
           /\ fence'.epoch = fence.epoch /\ fence'.rev = fence.rev
           /\ denied' \in {denied, fence.water + 1}
           /\ denied' # denied => denied = 0
           /\ UNCHANGED <<account, l1, l2, generation, water, epoch, conf, task, home, pc, job,
                          committed, floors, flushed, durable, database>>
  <1>1. /\ fence' \in [water : Nat, epoch : Nat, rev : Nat]
        /\ fence'.water = fence.water + 1
        /\ fence'.epoch = fence.epoch /\ fence'.rev = fence.rev
    <2>1. fence' = [fence EXCEPT !.water = fence.water + 1]
      BY DEF AdvanceFence
    <2>2. fence \in [water : Nat, epoch : Nat, rev : Nat]
      BY DEF TypeOK
    <2>3. fence' = [water |-> fence.water + 1, epoch |-> fence.epoch, rev |-> fence.rev]
      BY <2>1, <2>2
    <2> QED
      BY <2>2, <2>3
  <1>2. denied' \in {denied, fence.water + 1} /\ (denied' # denied => denied = 0)
    BY DEF AdvanceFence
  <1>3. UNCHANGED <<account, l1, l2, generation, water, epoch, conf, task, home, pc, job,
                    committed, floors, flushed, durable, database>>
    BY DEF AdvanceFence, processVars, localVars, requestVars, historyVars
  <1> QED
    BY <1>1, <1>2, <1>3

\* The steps around the processes keep the types.
LEMMA SurroundingTypes ==
    ASSUME TypeOK, Surroundings
    PROVE  TypeOK'
  <1>1. CASE AdvanceFence
    BY <1>1, AdvanceFenceEffect DEF AdvanceFence, historyVars, TypeOK
  <1>2. CASE ChangeAccount
    BY <1>2 DEF ChangeAccount, processVars, localVars, requestVars, historyVars, TypeOK
  <1>3. CASE Commit
    <2>1. durable' \in Nat /\ committed' \in [0 .. MaxRev -> Nat]
      <3>1. committed \in [0 .. MaxRev -> Nat] /\ account \in Nat /\ durable \in Nat
        BY DEF TypeOK
      <3>2. /\ durable' = durable + 1
            /\ committed' = [committed EXCEPT ![durable + 1] = account]
        BY <1>3 DEF Commit
      <3> DEFINE C == 0 .. MaxRev
      <3>3. committed \in [C -> Nat] => committed' \in [C -> Nat]
        <4> HIDE DEF C
        <4> QED  BY <3>1, <3>2
      <3> QED
        BY <3>1, <3>2, <3>3
    <2>2. UNCHANGED <<account, denied, database, fence, l2, generation, l1, water, epoch, conf,
                      task, notes, home, pc, job, floors, flushed, flushes, faults>>
      BY <1>3 DEF Commit, processVars, localVars, requestVars, historyVars
    <2> QED
      BY <2>1, <2>2 DEF TypeOK
  <1> QED
    BY <1>1, <1>2, <1>3 DEF Surroundings

\* The steps of a process leave what requests hold, or end them.
LEMMA ProcessInHand ==
    ASSUME TypeOK, durable <= MaxRev, InHand, NEW p \in Process, ProcessNext(p)
    PROVE  InHand'
  <1>1. CASE Restart(p)
    BY <1>1, RestartEffect, EntryTypes DEF InHand, HandOf, Writing
  <1>2. CASE UNCHANGED <<pc, job>>
    BY <1>2 DEF InHand, HandOf
  <1> QED
    BY <1>1, <1>2
    DEF ProcessNext, StartPublication, StartFlush, AdvanceEpoch, AdvanceFails, StoreEpoch,
        Confirm, DeleteL2, Listen, Observe, Lapse, requestVars

\* At first nothing is cached.
LEMMA InitTypes == Init => TypeInv
  <1> SUFFICES ASSUME Init PROVE TypeInv
    OBVIOUS
  <1>1. TypeOK
    BY VersionedAssumption, EntryTypes DEF Init, TypeOK, Awaits
  <1>2. InHand
    BY EntryTypes DEF Init, InHand, HandOf, Writing
  <1>3. durable <= MaxRev
    BY VersionedAssumption DEF Init
  <1> QED
    BY <1>1, <1>2, <1>3 DEF TypeInv

\* Every step keeps the types.
LEMMA NextTypes == TypeInv /\ [Next]_vars => TypeInv'
  <1> SUFFICES ASSUME TypeInv, [Next]_vars PROVE TypeInv'
    OBVIOUS
  <1> USE DEF TypeInv
  <1>1. ASSUME NEW r \in Request, RequestNext(r) PROVE TypeInv'
    <2>1. UNCHANGED durable
      BY <1>1
      DEF RequestNext, Begin, Enter, ReadEpoch, ReadEpochFails, AdoptEpoch, LookupL1, Attest,
          Attested, Load, Loaded, Authenticate, Publish, Published, Leave, Local, Remote, outside
    <2> QED
      BY <1>1, <2>1, RequestTypes, RequestInHand
  <1>2. ASSUME NEW p \in Process, ProcessNext(p) PROVE TypeInv'
    <2>1. UNCHANGED durable
      BY <1>2
      DEF ProcessNext, StartPublication, StartFlush, AdvanceEpoch, AdvanceFails, StoreEpoch,
          Confirm, DeleteL2, Listen, Observe, Lapse, Restart, outside
    <2> QED
      BY <1>2, <2>1, ProcessTypes, ProcessInHand
  <1>3. ASSUME Surroundings PROVE TypeInv'
    <2>1. UNCHANGED <<pc, job>>
      BY <1>3 DEF Surroundings, AdvanceFence, ChangeAccount, Commit, requestVars
    <2>2. InHand'
      BY <2>1 DEF InHand, HandOf
    <2>3. (durable <= MaxRev)'
      BY <1>3, VersionedAssumption
      DEF Surroundings, AdvanceFence, ChangeAccount, Commit, TypeOK
    <2> QED
      BY <1>3, <2>2, <2>3, SurroundingTypes
  <1>4. CASE UNCHANGED vars
    BY <1>4
    DEF vars, outside, processVars, localVars, requestVars, historyVars, TypeOK, InHand, HandOf
  <1> QED
    BY <1>1, <1>2, <1>3, <1>4 DEF Next, Surroundings

\* The variables have their types.
THEOREM VersionedTypes == Spec => []TypeOK
  <1>1. TypeInv => TypeOK
    BY DEF TypeInv
  <1> QED
    BY <1>1, InitTypes, NextTypes, PTL DEF Spec

-----------------------------------------------------------------------------
(* Where identities go, in a step of a request.                            *)

\* Requests change nothing of the fence, the tasks and the account.
LEMMA RequestFrame ==
    ASSUME NEW r \in Request, RequestNext(r)
    PROVE  UNCHANGED <<account, denied, fence, generation, conf, task, home, committed, floors,
                       flushed, durable, database>>
  BY DEF RequestNext, Begin, Enter, ReadEpoch, ReadEpochFails, AdoptEpoch, LookupL1, Attest,
        Attested, Load, Loaded, Authenticate, Publish, Published, Leave,
        Local, Remote, outside, processVars, localVars, historyVars

Carries(entry, identity, e) ==
    entry # NoEntry /\ entry.identity = identity /\ entry.epoch = e

\* The entry r has found, or the one it writes, is what carries identity and e.
Source(r, identity, e) ==
    \/ /\ Found(r) /\ identity = job[r].entry.identity /\ e = job[r].entry.epoch
    \/ /\ job[r].phase = "put" /\ pc[r] \in Writing
       /\ identity = job[r].entry.identity /\ e = job[r].epoch

\* An entry of the first level was there, or is that of the request.
LEMMA RequestL1 ==
    ASSUME TypeInv, NEW r \in Request, RequestNext(r), NEW p \in Process, l1'[p] # NoEntry
    PROVE  l1'[p] = l1[p] \/ Source(r, l1'[p].identity, l1'[p].epoch)
  <1> USE DEF TypeInv
  <1>1. CASE Loaded(r)
    <2> DEFINE copy == [job[r].entry EXCEPT !.generation = job[r].generation]
    <2>1. UNCHANGED l1 \/ /\ l1' = [l1 EXCEPT ![home[r]] = copy]
                          /\ job[r].entry \in Entry /\ job[r].entry # NoEntry
                          /\ pc[r] = "loaded"
      BY <1>1, LoadedEffect DEF EntryCurrent
    <2>2. job[r].entry \in Entry =>
             copy.identity = job[r].entry.identity /\ copy.epoch = job[r].entry.epoch
      BY DEF Entry
    <2>3. pc[r] = "loaded" => job[r].phase # "put"
      BY DEF InHand, HandOf
    <2> HIDE DEF copy
    <2>4. l1'[p] = l1[p] \/ l1'[p] = copy
      BY <2>1 DEF TypeOK
    <2> QED
      BY <2>1, <2>2, <2>3, <2>4 DEF Source, Found
  <1>2. CASE Published(r)
    <2> DEFINE copy == [Own(r) EXCEPT !.generation = job[r].generation]
    <2>1. UNCHANGED l1 \/ l1' = [l1 EXCEPT ![home[r]] = copy]
      BY <1>2, PublishedEffect
    <2>2. pc[r] = "published"
      BY <1>2, PublishedEffect
    <2>3. /\ copy.identity = job[r].entry.identity /\ copy.epoch = job[r].epoch
          /\ job[r].phase = "put"
      BY <2>2, OwnType DEF Writing, InHand, HandOf
    <2> HIDE DEF copy
    <2>4. l1'[p] = l1[p] \/ l1'[p] = copy
      BY <2>1 DEF TypeOK
    <2> QED
      BY <2>2, <2>3, <2>4 DEF Source, Writing
  <1>3. CASE LookupL1(r) \/ Attested(r)
    BY ZenonT(40), <1>3, LookupL1Effect, AttestedEffect DEF TypeOK
  <1>4. CASE UNCHANGED l1
    BY <1>4
  <1> QED
    BY <1>1, <1>2, <1>3, <1>4
    DEF RequestNext, Begin, Enter, ReadEpoch, ReadEpochFails, AdoptEpoch, LookupL1, Attest,
        Attested, Load, Loaded, Authenticate, Publish, Published, Leave, Remote, processVars, localVars

\* The entry in Redis was there, or is that of the request.
LEMMA RequestL2 ==
    ASSUME TypeInv, NEW r \in Request, RequestNext(r), l2' # l2
    PROVE  Source(r, l2'.identity, l2'.epoch)
  <1>1. Publish(r)
    BY DEF RequestNext, Begin, Enter, ReadEpoch, ReadEpochFails, AdoptEpoch, LookupL1, Attest,
        Attested, Load, Loaded, Authenticate, Publish, Published, Leave, Local
  <1>2. pc[r] = "publish" /\ l2' = Own(r)
    BY <1>1, PublishEffect DEF TypeInv
  <1>3. l2'.identity = job[r].entry.identity /\ l2'.epoch = job[r].epoch
    BY <1>2, OwnType DEF TypeInv, Writing
  <1> QED
    BY <1>2, <1>3 DEF Source, Writing, TypeInv, InHand, HandOf

\* What a request has found it had found, or it is in one of the levels.
LEMMA RequestFound ==
    ASSUME TypeInv, NEW r \in Request, RequestNext(r),
           job'[r].phase # "put", job'[r].entry # NoEntry
    PROVE  \/ Found(r) /\ job'[r].entry = job[r].entry
           \/ job'[r].entry \in {l1[home[r]], l2}
  <1> USE DEF TypeInv
  <1>1. CASE Begin(r)
    BY <1>1, BeginEffect, EntryTypes
    DEF Kept, Dropped, Refused, Found
  <1>2. CASE Enter(r)
    BY <1>2, EnterEffect, EntryTypes
    DEF Kept, Dropped, Refused, Found
  <1>3. CASE ReadEpoch(r)
    BY <1>3, ReadEpochEffect, EntryTypes
    DEF Kept, Dropped, Refused, Found
  <1>4. CASE ReadEpochFails(r)
    BY <1>4, ReadEpochFailsEffect, EntryTypes
    DEF Kept, Dropped, Refused, Found
  <1>5. CASE AdoptEpoch(r)
    BY <1>5, AdoptEpochEffect, EntryTypes
    DEF Kept, Dropped, Refused, Found
  <1>6. CASE LookupL1(r)
    BY <1>6, LookupL1Effect, EntryTypes
    DEF Kept, Dropped, Refused, Found
  <1>7. CASE Attest(r)
    BY <1>7, AttestEffect, EntryTypes
    DEF Kept, Dropped, Refused, Found
  <1>8. CASE Attested(r)
    BY <1>8, AttestedEffect, EntryTypes
    DEF Kept, Dropped, Refused, Found
  <1>9. CASE Load(r)
    BY <1>9, LoadEffect, EntryTypes
    DEF Kept, Dropped, Refused, Found
  <1>10. CASE Loaded(r)
    BY <1>10, LoadedEffect, EntryTypes
    DEF Kept, Dropped, Refused, Found, EntryCurrent, InHand, HandOf
  <1>11. CASE Authenticate(r)
    BY <1>11, AuthenticateEffect, EntryTypes
    DEF Kept, Dropped, Refused, Found
  <1>12. CASE Publish(r)
    BY <1>12, PublishEffect, EntryTypes
    DEF Kept, Dropped, Refused, Found
  <1>13. CASE Published(r)
    BY <1>13, PublishedEffect, EntryTypes
    DEF Kept, Dropped, Refused, Found
  <1>14. CASE Leave(r)
    BY <1>14, LeaveEffect, EntryTypes
    DEF Kept, Dropped, Refused, Found
  <1> QED
    BY <1>1, <1>2, <1>3, <1>4, <1>5, <1>6, <1>7, <1>8, <1>9, <1>10, <1>11, <1>12,
       <1>13, <1>14 DEF RequestNext

\* A request that may write could before, or has just taken its process's epoch.
LEMMA RequestWriting ==
    ASSUME TypeInv, NEW r \in Request, RequestNext(r),
           job'[r].phase = "put", pc'[r] \in Writing
    PROVE  /\ job'[r].entry = job[r].entry /\ job[r].phase = "put"
           /\ \/ pc[r] \in Writing /\ job'[r].epoch = job[r].epoch
              \/ /\ pc[r] \in Storing /\ Unmoved(r)
                 /\ job'[r].epoch = epoch'[home[r]] /\ epoch'[home[r]] \in Nat
  <1> USE DEF TypeInv
  <1>1. CASE Begin(r)
    BY <1>1, BeginEffect, EntryTypes
    DEF Kept, Captured, Dropped, Refused, Writing, Storing
  <1>2. CASE Enter(r)
    BY <1>2, EnterEffect, EntryTypes
    DEF Kept, Captured, Dropped, Refused, Writing, Storing
  <1>3. CASE ReadEpoch(r)
    BY <1>3, ReadEpochEffect, EntryTypes
    DEF Kept, Captured, Dropped, Refused, Writing, Storing
  <1>4. CASE ReadEpochFails(r)
    BY <1>4, ReadEpochFailsEffect, EntryTypes
    DEF Kept, Captured, Dropped, Refused, Writing, Storing
  <1>5. CASE AdoptEpoch(r)
    BY <1>5, AdoptEpochEffect, EntryTypes
    DEF Kept, Captured, Dropped, Refused, Writing, Storing
  <1>6. CASE LookupL1(r)
    BY <1>6, LookupL1Effect, EntryTypes
    DEF Kept, Captured, Dropped, Refused, Writing, Storing
  <1>7. CASE Attest(r)
    BY <1>7, AttestEffect, EntryTypes
    DEF Kept, Captured, Dropped, Refused, Writing, Storing
  <1>8. CASE Attested(r)
    BY <1>8, AttestedEffect, EntryTypes
    DEF Kept, Captured, Dropped, Refused, Writing, Storing
  <1>9. CASE Load(r)
    BY <1>9, LoadEffect, EntryTypes
    DEF Kept, Captured, Dropped, Refused, Writing, Storing
  <1>10. CASE Loaded(r)
    BY <1>10, LoadedEffect, EntryTypes
    DEF Kept, Captured, Dropped, Refused, Writing, Storing
  <1>11. CASE Authenticate(r)
    BY <1>11, AuthenticateEffect, EntryTypes
    DEF Kept, Captured, Dropped, Refused, Writing, Storing
  <1>12. CASE Publish(r)
    BY <1>12, PublishEffect, EntryTypes
    DEF Kept, Captured, Dropped, Refused, Writing, Storing
  <1>13. CASE Published(r)
    BY <1>13, PublishedEffect, EntryTypes
    DEF Kept, Captured, Dropped, Refused, Writing, Storing
  <1>14. CASE Leave(r)
    BY <1>14, LeaveEffect, EntryTypes
    DEF Kept, Captured, Dropped, Refused, Writing, Storing
  <1> QED
    BY <1>1, <1>2, <1>3, <1>4, <1>5, <1>6, <1>7, <1>8, <1>9, <1>10, <1>11, <1>12,
       <1>13, <1>14 DEF RequestNext

\* A request that is about to write has verified the session now, or before.
LEMMA RequestStoring ==
    ASSUME TypeInv, NEW r \in Request, RequestNext(r),
           job'[r].phase = "put", pc'[r] \in Storing
    PROVE  /\ job'[r].generation = job[r].generation
           /\ \/ job'[r].entry.identity = account
              \/ /\ job'[r].entry = job[r].entry /\ job[r].phase = "put"
                 /\ pc[r] \in Storing
  <1> USE DEF TypeInv
  <1>1. CASE Begin(r)
    BY <1>1, BeginEffect, EntryTypes
    DEF Kept, Captured, Dropped, Refused, Storing
  <1>2. CASE Enter(r)
    BY <1>2, EnterEffect, EntryTypes
    DEF Kept, Captured, Dropped, Refused, Storing
  <1>3. CASE ReadEpoch(r)
    BY <1>3, ReadEpochEffect, EntryTypes
    DEF Kept, Captured, Dropped, Refused, Storing
  <1>4. CASE ReadEpochFails(r)
    BY <1>4, ReadEpochFailsEffect, EntryTypes
    DEF Kept, Captured, Dropped, Refused, Storing
  <1>5. CASE AdoptEpoch(r)
    BY <1>5, AdoptEpochEffect, EntryTypes
    DEF Kept, Captured, Dropped, Refused, Storing
  <1>6. CASE LookupL1(r)
    BY <1>6, LookupL1Effect, EntryTypes
    DEF Kept, Captured, Dropped, Refused, Storing
  <1>7. CASE Attest(r)
    BY <1>7, AttestEffect, EntryTypes
    DEF Kept, Captured, Dropped, Refused, Storing
  <1>8. CASE Attested(r)
    BY <1>8, AttestedEffect, EntryTypes
    DEF Kept, Captured, Dropped, Refused, Storing
  <1>9. CASE Load(r)
    BY <1>9, LoadEffect, EntryTypes
    DEF Kept, Captured, Dropped, Refused, Storing
  <1>10. CASE Loaded(r)
    BY <1>10, LoadedEffect, EntryTypes
    DEF Kept, Captured, Dropped, Refused, Storing
  <1>11. CASE Authenticate(r)
    BY <1>11, AuthenticateEffect, EntryTypes
    DEF Kept, Captured, Dropped, Refused, Storing
  <1>12. CASE Publish(r)
    BY <1>12, PublishEffect, EntryTypes
    DEF Kept, Captured, Dropped, Refused, Storing
  <1>13. CASE Published(r)
    BY <1>13, PublishedEffect, EntryTypes
    DEF Kept, Captured, Dropped, Refused, Storing
  <1>14. CASE Leave(r)
    BY <1>14, LeaveEffect, EntryTypes
    DEF Kept, Captured, Dropped, Refused, Storing
  <1> QED
    BY <1>1, <1>2, <1>3, <1>4, <1>5, <1>6, <1>7, <1>8, <1>9, <1>10, <1>11, <1>12,
       <1>13, <1>14 DEF RequestNext

\* A process takes up an epoch from a request only if it has none.
LEMMA RequestEpoch ==
    ASSUME TypeInv, NEW r \in Request, RequestNext(r), NEW p \in Process, epoch'[p] # epoch[p]
    PROVE  p = home[r] /\ epoch[p] = Uninit /\ epoch'[p] = job[r].epoch /\ pc[r] = "adopt"
  <1>1. AdoptEpoch(r)
    BY DEF RequestNext, Begin, Enter, ReadEpoch, ReadEpochFails, AdoptEpoch, LookupL1, Attest,
        Attested, Load, Loaded, Authenticate, Publish, Published, Leave, Remote, processVars
  <1> QED
    BY <1>1, AdoptEpochEffect DEF TypeInv

-----------------------------------------------------------------------------
(* Nothing is of an epoch or an account yet to come.                       *)

\* A request's tags are past.
LEMMA RequestTags ==
    ASSUME TypeInv, EpochsArePast, NEW r \in Request, RequestNext(r)
    PROVE  job'[r].epoch <= fence.epoch /\ job'[r].entry.epoch <= fence.epoch
  <1> USE DEF TypeInv
  <1>a. /\ job[r].epoch <= fence.epoch /\ job[r].entry.epoch <= fence.epoch
        /\ epoch[home[r]] <= fence.epoch /\ l2.epoch <= fence.epoch
        /\ l1[home[r]].epoch <= fence.epoch /\ 0 <= fence.epoch
        /\ fence.epoch \in Nat
    BY DEF EpochsArePast, TypeOK
  <1>1. CASE Begin(r)
    BY <1>1, BeginEffect, <1>a, EntryTypes
    DEF Kept, Dropped, Refused
  <1>2. CASE Enter(r)
    BY <1>2, EnterEffect, <1>a, EntryTypes
    DEF Kept, Dropped, Refused
  <1>3. CASE ReadEpoch(r)
    BY <1>3, ReadEpochEffect, <1>a, EntryTypes
    DEF Kept, Dropped, Refused
  <1>4. CASE ReadEpochFails(r)
    BY <1>4, ReadEpochFailsEffect, <1>a, EntryTypes
    DEF Kept, Dropped, Refused
  <1>5. CASE AdoptEpoch(r)
    <2>1. epoch'[home[r]] <= fence.epoch
      BY <1>5, <1>a, AdoptEpochEffect DEF TypeOK
    <2>2. \/ Dropped(r) \/ Refused(r)
          \/ job'[r].epoch = epoch'[home[r]] /\ job'[r].entry = job[r].entry
      BY <1>5, AdoptEpochEffect
    <2> QED
      BY <1>a, <2>1, <2>2, EntryTypes DEF Dropped, Refused
  <1>6. CASE LookupL1(r)
    BY <1>6, LookupL1Effect, <1>a, EntryTypes
    DEF Kept, Dropped, Refused
  <1>7. CASE Attest(r)
    BY <1>7, AttestEffect, <1>a, EntryTypes
    DEF Kept, Dropped, Refused
  <1>8. CASE Attested(r)
    <2>1. \/ Dropped(r) \/ Refused(r)
          \/ job'[r].epoch = 0 /\ job'[r].entry = job[r].entry
      BY <1>8, AttestedEffect
    <2> QED
      BY <1>a, <2>1, EntryTypes DEF Dropped, Refused
  <1>9. CASE Load(r)
    BY <1>9, LoadEffect, <1>a, EntryTypes
    DEF Kept, Dropped, Refused
  <1>10. CASE Loaded(r)
    <2>1. \/ Dropped(r) \/ Refused(r)
          \/ job'[r].epoch = job[r].epoch /\ job'[r].entry = job[r].entry
      BY <1>10, LoadedEffect
    <2> QED
      BY <1>a, <2>1, EntryTypes DEF Dropped, Refused
  <1>11. CASE Authenticate(r)
    BY <1>11, AuthenticateEffect, <1>a, EntryTypes
    DEF Kept, Dropped, Refused
  <1>12. CASE Publish(r)
    BY <1>12, PublishEffect, <1>a, EntryTypes
    DEF Kept, Dropped, Refused
  <1>13. CASE Published(r)
    BY ZenonT(40), <1>13, PublishedEffect, <1>a, EntryTypes
    DEF Kept, Dropped, Refused
  <1>14. CASE Leave(r)
    BY <1>14, LeaveEffect, <1>a, EntryTypes
    DEF Kept, Dropped, Refused
  <1> QED
    BY <1>1, <1>2, <1>3, <1>4, <1>5, <1>6, <1>7, <1>8, <1>9, <1>10, <1>11, <1>12,
       <1>13, <1>14 DEF RequestNext

\* A step of a request keeps the past past.
LEMMA RequestPast ==
    ASSUME TypeInv, PastInv, NEW r \in Request, RequestNext(r)
    PROVE  PastInv'
  <1> USE DEF TypeInv
  <1>1. UNCHANGED <<account, fence, task, committed, floors, flushed>>
    BY RequestFrame
  <1>2. AccountsArePast'
    BY <1>1 DEF PastInv, AccountsArePast
  <1>3. \A identity, e : Source(r, identity, e) => e <= fence.epoch
    BY DEF Source, Found, PastInv, EpochsArePast
  <1>4. l2'.epoch <= fence.epoch
    BY <1>3, RequestL2 DEF PastInv, EpochsArePast
  <1>5. ASSUME NEW p \in Process
        PROVE  l1'[p].epoch <= fence.epoch /\ epoch'[p] <= fence.epoch
    <2>1. ASSUME l1'[p] = NoEntry  PROVE l1'[p].epoch <= fence.epoch
      <3>1. 0 <= fence.epoch
        BY DEF TypeOK
      <3> QED
        BY <2>1, <3>1, EntryTypes
    <2>2. ASSUME l1'[p] # NoEntry  PROVE l1'[p].epoch <= fence.epoch
      <3>1. l1'[p] = l1[p] \/ Source(r, l1'[p].identity, l1'[p].epoch)
        BY <2>2, RequestL1
      <3> QED
        BY <1>3, <3>1 DEF PastInv, EpochsArePast
    <2>3. epoch'[p] <= fence.epoch
      BY RequestEpoch DEF PastInv, EpochsArePast
    <2> QED
      BY <2>1, <2>2, <2>3
  <1>6. job'[r].epoch <= fence.epoch /\ job'[r].entry.epoch <= fence.epoch
    BY RequestTags DEF PastInv
  <1>7. EpochsArePast'
    BY <1>1, <1>4, <1>5, <1>6, RequestEffects DEF Others, PastInv, EpochsArePast
  <1> QED
    BY <1>2, <1>7 DEF PastInv

\* The fence may move, and its epoch is the last.
LEMMA MovePast ==
    ASSUME TypeInv, PastInv, NEW p \in Process, MoveEpoch(p)
    PROVE  /\ fence.epoch <= fence'.epoch
           /\ \A e \in 0 .. fence'.epoch : floors'[e] <= account
  <1>1. /\ fence.epoch \in Nat /\ task[p].cause <= account /\ 0 <= account
        /\ \A e \in 0 .. fence.epoch : floors[e] <= account
    BY DEF TypeInv, TypeOK, PastInv, AccountsArePast
  <1>2. CASE Moved(p)
    <2>1. \A e \in 0 .. fence.epoch + 1 : e \in 0 .. fence.epoch \/ e = fence.epoch + 1
      BY <1>1
    <2> QED
      BY <1>1, <1>2, <2>1 DEF Moved
  <1>3. CASE UNCHANGED <<fence, floors>>
    BY <1>1, <1>3
  <1> QED
    BY <1>2, <1>3, MoveEpochEffect DEF TypeInv

\* Epochs stay past while the fence does not go back.
LEMMA StillPast ==
    ASSUME TypeInv, EpochsArePast, fence'.epoch \in Nat, fence.epoch <= fence'.epoch
    PROVE  /\ l2.epoch <= fence'.epoch
           /\ \A p \in Process :
                 /\ l1[p].epoch <= fence'.epoch
                 /\ epoch[p] <= fence'.epoch /\ task[p].epoch <= fence'.epoch
           /\ \A r \in Request :
                 job[r].epoch <= fence'.epoch /\ job[r].entry.epoch <= fence'.epoch
  <1>1. \A e \in Int : e <= fence.epoch => e <= fence'.epoch
    BY DEF TypeInv, TypeOK
  <1>2. NoEntry.epoch \in Int /\ \A entry \in Entry : entry.epoch \in Int
    BY EntryTypes DEF Entry
  <1>3. l2.epoch \in Int
    BY <1>2 DEF TypeInv, TypeOK
  <1>4. ASSUME NEW p \in Process
        PROVE  l1[p].epoch \in Int /\ epoch[p] \in Int /\ task[p].epoch \in Int
    <2>1. /\ l1[p] \in Entry \cup {NoEntry} /\ task[p] \in Task
          /\ epoch[p] \in Nat \cup {Uninit, Invalid}
      BY DEF TypeInv, TypeOK
    <2>4. epoch[p] \in Int
      BY <2>1 DEF Uninit, Invalid
    <2>2. l1[p].epoch \in Int
      BY <1>2, <2>1
    <2>3. task[p].epoch \in Int
      BY <2>1 DEF Task
    <2> QED
      BY <2>2, <2>3, <2>4
  <1>5. ASSUME NEW r \in Request
        PROVE  job[r].epoch \in Int /\ job[r].entry.epoch \in Int
    BY <1>2 DEF TypeInv, TypeOK, Job
  <1> QED
    BY <1>1, <1>3, <1>4, <1>5 DEF EpochsArePast

\* The epoch a task would tell, and those entries and processes have, are past.
LEMMA ProcessPast ==
    ASSUME TypeInv, PastInv, NEW p \in Process, ProcessNext(p)
    PROVE  PastInv'
  <1> USE DEF TypeInv
  <1>0. /\ 0 <= fence.epoch /\ 0 <= account /\ account <= account
        /\ fence.epoch <= fence.epoch /\ fence.epoch \in Nat
    BY DEF TypeOK
  <1>1. CASE StartPublication(p)
    <2>1. committed[durable] <= account
      BY DEF TypeOK, PastInv, AccountsArePast
    <2> QED
      BY <1>0, <1>1, <2>1, StartPublicationEffect, EntryTypes
      DEF PastInv, EpochsArePast, AccountsArePast, Started, OtherTasks
  <1>2. CASE StartFlush(p)
    BY <1>0, <1>2, StartFlushEffect, EntryTypes
    DEF PastInv, EpochsArePast, AccountsArePast, Started, OtherTasks
  <1>3. ASSUME MoveEpoch(p)
        PROVE  fence'.epoch \in Nat /\ fence'.epoch <= fence'.epoch /\ 0 <= fence'.epoch
    BY <1>3, MoveEpochEffect
  <1>4. CASE AdvanceEpoch(p)
    <2>1. MoveEpoch(p)
      BY <1>4, AdvanceEpochEffect
    <2>2. EpochsArePast'
      BY <1>3, <1>4, <2>1, AdvanceEpochEffect, MovePast, StillPast
      DEF PastInv, EpochsArePast, OtherTasks
    <2>3. AccountsArePast'
      BY <1>4, <2>1, AdvanceEpochEffect, MovePast
      DEF PastInv, AccountsArePast, OtherTasks, Aimed
    <2> QED
      BY <2>2, <2>3 DEF PastInv
  <1>5. CASE AdvanceFails(p)
    <2>1. MoveEpoch(p) \/ UNCHANGED <<fence, floors>>
      BY <1>5, AdvanceFailsEffect
    <2>2. /\ fence'.epoch \in Nat /\ fence.epoch <= fence'.epoch /\ 0 <= fence'.epoch
          /\ Invalid <= fence'.epoch
          /\ \A e \in 0 .. fence'.epoch : floors'[e] <= account
      BY <1>0, <1>3, <2>1, MovePast DEF PastInv, AccountsArePast, Invalid
    <2>3. EpochsArePast'
      BY <1>5, <2>2, AdvanceFailsEffect, StillPast, EntryTypes
      DEF PastInv, EpochsArePast, OtherTasks, Abandoned
    <2>4. AccountsArePast'
      BY <1>0, <1>5, <2>2, AdvanceFailsEffect, EntryTypes
      DEF PastInv, AccountsArePast, OtherTasks, Abandoned, Aimed
    <2> QED
      BY <2>3, <2>4 DEF PastInv
  <1>6. CASE StoreEpoch(p)
    BY <1>6, StoreEpochEffect DEF PastInv, EpochsArePast, AccountsArePast, OtherTasks, Aimed
  <1>7. CASE Confirm(p)
    <2>1. Invalid <= fence.epoch
      BY <1>0 DEF Invalid
    <2>2. OtherTasks(p)
      BY <1>7, ConfirmEffect DEF Abandoned
    <2>3. /\ task'[p].epoch <= fence.epoch /\ task'[p].cause <= account
          /\ \A q \in Process : epoch'[q] <= fence.epoch
      BY <1>0, <1>7, <2>1, ConfirmEffect, EntryTypes
      DEF Abandoned, Aimed, PastInv, EpochsArePast, AccountsArePast
    <2> QED
      BY <1>7, <2>2, <2>3, ConfirmEffect
      DEF PastInv, EpochsArePast, AccountsArePast, OtherTasks
  <1>8. CASE DeleteL2(p)
    <2>1. flushed' <= account
      BY <1>8, DeleteL2Effect DEF PastInv, AccountsArePast
    <2> QED
      BY <1>0, <1>8, <2>1, DeleteL2Effect, EntryTypes
      DEF PastInv, EpochsArePast, AccountsArePast, OtherTasks
  <1>9. CASE Listen(p)
    BY <1>0, <1>9, ListenEffect, EntryTypes DEF PastInv, EpochsArePast, AccountsArePast
  <1>10. CASE Observe(p) \/ Lapse(p)
    BY <1>10
    DEF Observe, Lapse, outside, localVars, requestVars, historyVars,
        PastInv, EpochsArePast, AccountsArePast
  <1>11. CASE Restart(p)
    <2>1. Uninit <= fence.epoch
      BY <1>0 DEF Uninit
    <2> QED
      BY <1>0, <1>11, <2>1, RestartEffect, EntryTypes
      DEF PastInv, EpochsArePast, AccountsArePast, OtherTasks
  <1> QED
    BY <1>1, <1>2, <1>4, <1>5, <1>6, <1>7, <1>8, <1>9, <1>10, <1>11 DEF ProcessNext

\* The account moves on; everything else stays.
LEMMA ChangeAccountEffect ==
    ASSUME TypeOK, ChangeAccount
    PROVE  /\ account' = account + 1
           /\ UNCHANGED <<denied, fence, l1, l2, generation, water, epoch, conf, task, home,
                          pc, job, committed, floors, flushed, durable, database>>
  BY DEF ChangeAccount, processVars, localVars, requestVars, historyVars

\* A configuration commits at the account of now.
LEMMA CommitEffect ==
    ASSUME TypeOK, Commit
    PROVE  /\ database /\ ~Locked
           /\ \A c \in 0 .. MaxRev : committed'[c] \in {committed[c], account}
           /\ UNCHANGED <<account, denied, fence, l1, l2, generation, water, epoch, conf, task,
                          home, pc, job, floors, flushed, database>>
  BY DEF Commit, processVars, localVars, requestVars, historyVars, TypeOK

\* The surroundings keep the past past.
LEMMA SurroundingsPast ==
    ASSUME TypeInv, PastInv, Surroundings
    PROVE  PastInv'
  <1> USE DEF TypeInv
  <1>1. CASE AdvanceFence
    BY <1>1, AdvanceFenceEffect DEF PastInv, EpochsArePast, AccountsArePast
  <1>2. CASE ChangeAccount
    <2>1. EpochsArePast'
      BY <1>2, ChangeAccountEffect DEF PastInv, EpochsArePast
    <2>2. /\ \A c \in 0 .. MaxRev : committed[c] \in Nat
          /\ \A e \in 0 .. fence.epoch : floors[e] \in Nat
          /\ flushed \in Nat /\ account \in Nat
      BY DEF TypeOK
    <2>3. \A p \in Process : task[p].cause \in Nat
      BY DEF TypeOK, Task
    <2>4. \A n \in Nat : n <= account => n <= account + 1
      BY <2>2
    <2>5. AccountsArePast'
      BY <1>2, <2>2, <2>3, <2>4, ChangeAccountEffect DEF PastInv, AccountsArePast
    <2> QED
      BY <2>1, <2>5 DEF PastInv
  <1>3. CASE Commit
    <2>1. account <= account
      BY DEF TypeOK
    <2> QED
      BY <1>3, <2>1, CommitEffect DEF PastInv, EpochsArePast, AccountsArePast
  <1> QED
    BY <1>1, <1>2, <1>3 DEF Surroundings

-----------------------------------------------------------------------------
(* Denied sessions are not served.                                         *)

\* Tasks leave the requests and the high water alone, but for a restart.
LEMMA ProcessFrame ==
    ASSUME TypeInv, NEW p \in Process, ProcessNext(p)
    PROVE  /\ fence'.water = fence.water
           /\ UNCHANGED <<account, denied, home, committed, durable, database>>
           /\ Restart(p) \/ UNCHANGED <<pc, job>>
  <1>1. UNCHANGED <<account, denied, database, durable, committed, home>>
    BY DEF ProcessNext, StartPublication, StartFlush, AdvanceEpoch, AdvanceFails, StoreEpoch,
        Confirm, DeleteL2, Listen, Observe, Lapse, Restart, outside, requestVars
  <1>2. Restart(p) \/ UNCHANGED <<pc, job>>
    BY DEF ProcessNext, StartPublication, StartFlush, AdvanceEpoch, AdvanceFails, StoreEpoch,
        Confirm, DeleteL2, Listen, Observe, Lapse, Restart, requestVars
  <1>3. UNCHANGED fence \/ MoveEpoch(p)
    BY DEF ProcessNext, StartPublication, StartFlush, AdvanceEpoch, AdvanceFails, StoreEpoch,
        Confirm, DeleteL2, Listen, Observe, Lapse, Restart
  <1> QED
    BY <1>1, <1>2, <1>3, MoveEpochEffect DEF TypeInv


\* A request is served what Redis confirmed at the fence of its high water, unless the
\* session is denied by then.
LEMMA RequestDenied ==
    ASSUME TypeInv, DeniedInv, NEW r \in Request, RequestNext(r)
    PROVE  DeniedOf(r)'
  <1> USE DEF TypeInv
  <1>a. /\ DeniedOf(r) /\ UNCHANGED <<fence, denied>> /\ NoJob.known <= fence.water
        /\ fence.water <= fence.water
    BY RequestFrame, EntryTypes DEF DeniedInv, TypeOK
  <1>1. CASE Begin(r)
    BY <1>1, BeginEffect, <1>a, EntryTypes
    DEF Kept, Captured, Dropped, Refused, DeniedOf
  <1>2. CASE Enter(r)
    BY <1>2, EnterEffect, <1>a, EntryTypes
    DEF Kept, Captured, Dropped, Refused, DeniedOf
  <1>3. CASE ReadEpoch(r)
    BY <1>3, ReadEpochEffect, <1>a, EntryTypes
    DEF Kept, Captured, Dropped, Refused, DeniedOf
  <1>4. CASE ReadEpochFails(r)
    BY <1>4, ReadEpochFailsEffect, <1>a, EntryTypes
    DEF Kept, Captured, Dropped, Refused, DeniedOf
  <1>5. CASE AdoptEpoch(r)
    BY <1>5, AdoptEpochEffect, <1>a, EntryTypes
    DEF Kept, Captured, Dropped, Refused, DeniedOf
  <1>6. CASE LookupL1(r)
    BY <1>6, LookupL1Effect, <1>a, EntryTypes
    DEF Kept, Captured, Dropped, Refused, DeniedOf
  <1>7. CASE Attest(r)
    BY <1>7, <1>a, AttestEffect DEF Captured, FenceMatches, DeniedOf
  <1>8. CASE Attested(r)
    <2>1. CASE Dropped(r) \/ Refused(r)
      BY <1>a, <2>1 DEF Captured, Dropped, Refused, DeniedOf
    <2>2. CASE /\ pc'[r] = "served" /\ job'[r].known = job[r].known
               /\ job[r].reply /\ Permits(r)
      <3>1. /\ denied \in Nat /\ job[r].known \in Nat /\ job[r].expected \in Nat
        BY DEF TypeOK, Job
      <3>2. job[r].known <= job[r].expected /\ ~(denied # 0 /\ denied <= job[r].expected)
        BY <1>8, <1>a, <2>2, AttestedEffect DEF DeniedOf, Permits, ExpectedIsCurrent
      <3> QED
        BY <1>a, <2>2, <3>1, <3>2 DEF DeniedOf
    <2> QED
      BY <1>8, <2>1, <2>2, AttestedEffect
  <1>9. CASE Load(r)
    BY <1>9, LoadEffect, <1>a, EntryTypes
    DEF Kept, Captured, Dropped, Refused, DeniedOf
  <1>10. CASE Loaded(r)
    BY <1>10, LoadedEffect, <1>a, EntryTypes
    DEF Kept, Captured, Dropped, Refused, DeniedOf
  <1>11. CASE Authenticate(r)
    BY <1>11, AuthenticateEffect, <1>a, EntryTypes
    DEF Kept, Captured, Dropped, Refused, DeniedOf
  <1>12. CASE Publish(r)
    BY <1>12, PublishEffect, <1>a, EntryTypes
    DEF Kept, Captured, Dropped, Refused, DeniedOf
  <1>13. CASE Published(r)
    BY <1>13, PublishedEffect, <1>a, EntryTypes
    DEF Kept, Captured, Dropped, Refused, DeniedOf
  <1>14. CASE Leave(r)
    BY <1>14, LeaveEffect, <1>a, EntryTypes
    DEF Kept, Captured, Dropped, Refused, DeniedOf
  <1> QED
    BY <1>1, <1>2, <1>3, <1>4, <1>5, <1>6, <1>7, <1>8, <1>9, <1>10, <1>11, <1>12,
       <1>13, <1>14 DEF RequestNext

\* Denied sessions are not served, whoever takes a step.
LEMMA NextDenied == TypeInv /\ DeniedInv /\ [Next]_vars => DeniedInv'
  <1> SUFFICES ASSUME TypeInv, DeniedInv, [Next]_vars PROVE DeniedInv'
    OBVIOUS
  <1>1. ASSUME NEW r \in Request, RequestNext(r) PROVE DeniedInv'
    <2>1. \A q \in Request \ {r} : DeniedOf(q)'
      BY <1>1, RequestEffects, RequestFrame DEF Others, DeniedInv, DeniedOf, TypeInv
    <2> QED
      BY <1>1, <2>1, RequestDenied DEF DeniedInv
  <1>2. ASSUME NEW p \in Process, ProcessNext(p) PROVE DeniedInv'
    <2>1. 0 <= fence.water
      BY DEF TypeInv, TypeOK
    <2>2. ASSUME NEW r \in Request
          PROVE  \/ job'[r] = job[r] /\ pc'[r] = pc[r]
                 \/ job'[r] = NoJob /\ pc'[r] = "idle"
      <3>1. CASE Restart(p)
        <4>1. CASE home[r] = p
          BY <3>1, <4>1, RestartEffect DEF TypeInv
        <4>2. CASE home[r] # p
          BY <3>1, <4>2, RestartEffect DEF TypeInv
        <4> QED
          BY <4>1, <4>2
      <3>2. CASE UNCHANGED <<pc, job>>
        BY <3>2
      <3> QED
        BY <1>2, <3>1, <3>2, ProcessFrame
    <2> QED
      BY <1>2, <2>1, <2>2, ProcessFrame, EntryTypes DEF DeniedInv, DeniedOf
  <1>3. CASE AdvanceFence
    <2>1. SUFFICES ASSUME NEW r \in Request PROVE DeniedOf(r)'
      BY DEF DeniedInv
    <2>2. /\ job[r].known \in Nat /\ job[r].expected \in Nat /\ fence.water \in Nat
          /\ DeniedOf(r)
      BY DEF TypeInv, TypeOK, Job, DeniedInv
    <2>3. /\ UNCHANGED <<job, pc>> /\ fence'.water = fence.water + 1
          /\ denied' \in {denied, fence.water + 1}
      BY <1>3, AdvanceFenceEffect DEF TypeInv
    <2> QED
      BY <2>2, <2>3 DEF DeniedOf
  <1>4. CASE ChangeAccount \/ Commit
    BY <1>4, ChangeAccountEffect, CommitEffect DEF DeniedInv, DeniedOf, TypeInv
  <1>5. CASE UNCHANGED vars
    BY <1>5 DEF vars, outside, requestVars, DeniedInv, DeniedOf
  <1> QED
    BY <1>1, <1>2, <1>3, <1>4, <1>5 DEF Next

\* A session denied at the fence before a request began is not served to it from the
\* cache: Redis answers a request only at the high water it expects, and the process looks
\* its denials up at that high water after the last await.
THEOREM VersionedDenials == Spec => []DeniedIsNotServed
  <1>1. Init => DeniedInv
    BY EntryTypes DEF Init, DeniedInv, DeniedOf
  <1>2. DeniedInv => DeniedIsNotServed
    BY DEF DeniedInv, DeniedOf, DeniedIsNotServed
  <1> QED
    BY <1>1, <1>2, InitTypes, NextTypes, NextDenied, PTL DEF Spec

-----------------------------------------------------------------------------
(* Identities and the epochs they are served under: the steps of requests. *)

\* Without a database no configuration has moved the fence.
LEMMA QuietFloors ==
    ASSUME TypeInv, Publications, ~database, NEW identity \in Nat, NEW e \in 0 .. fence.epoch
    PROVE  May(identity, e)
  BY DEF May, Publications, TypeInv, TypeOK

\* The account of now may carry any epoch.
LEMMA AccountMay ==
    ASSUME TypeInv, AccountsArePast, NEW e \in 0 .. fence.epoch
    PROVE  May(account, e)
  BY DEF May, AccountsArePast, TypeInv, TypeOK


\* A request at work was at work before, or begins.
LEMMA RequestBegins ==
    ASSUME TypeInv, NEW r \in Request, RequestNext(r), pc'[r] # "idle"
    PROVE  \/ pc[r] # "idle" /\ job'[r].generation \in {job[r].generation, 0}
           \/ /\ job'[r].generation = generation[home[r]]
              /\ database => conf[home[r]] # Uninit
  <1> USE DEF TypeInv
  <1>1. CASE Begin(r)
    BY <1>1, BeginEffect
    DEF Kept, Captured, Dropped, Refused
  <1>2. CASE Enter(r)
    BY <1>2, EnterEffect
    DEF Kept, Captured, Dropped, Refused
  <1>3. CASE ReadEpoch(r)
    BY <1>3, ReadEpochEffect
    DEF Kept, Captured, Dropped, Refused
  <1>4. CASE ReadEpochFails(r)
    BY <1>4, ReadEpochFailsEffect
    DEF Kept, Captured, Dropped, Refused
  <1>5. CASE AdoptEpoch(r)
    BY <1>5, AdoptEpochEffect
    DEF Kept, Captured, Dropped, Refused
  <1>6. CASE LookupL1(r)
    BY <1>6, LookupL1Effect
    DEF Kept, Captured, Dropped, Refused
  <1>7. CASE Attest(r)
    BY <1>7, AttestEffect
    DEF Kept, Captured, Dropped, Refused
  <1>8. CASE Attested(r)
    BY <1>8, AttestedEffect
    DEF Kept, Captured, Dropped, Refused
  <1>9. CASE Load(r)
    BY <1>9, LoadEffect
    DEF Kept, Captured, Dropped, Refused
  <1>10. CASE Loaded(r)
    BY <1>10, LoadedEffect
    DEF Kept, Captured, Dropped, Refused
  <1>11. CASE Authenticate(r)
    BY <1>11, AuthenticateEffect
    DEF Kept, Captured, Dropped, Refused
  <1>12. CASE Publish(r)
    BY <1>12, PublishEffect
    DEF Kept, Captured, Dropped, Refused
  <1>13. CASE Published(r)
    BY <1>13, PublishedEffect
    DEF Kept, Captured, Dropped, Refused
  <1>14. CASE Leave(r)
    BY <1>14, LeaveEffect
    DEF Kept, Captured, Dropped, Refused
  <1> QED
    BY <1>1, <1>2, <1>3, <1>4, <1>5, <1>6, <1>7, <1>8, <1>9, <1>10, <1>11, <1>12,
       <1>13, <1>14 DEF RequestNext

\* What a process may take up from a request, any identity may carry.
LEMMA TakenUp ==
    ASSUME TypeInv, PastInv, EpochInv, NEW r \in Request, RequestNext(r),
           NEW p \in Process, epoch'[p] # epoch[p]
    PROVE  /\ ~database /\ epoch[p] = Uninit /\ epoch'[p] \in 0 .. fence.epoch
           /\ \A identity \in Nat : May(identity, epoch'[p])
  <1>1. /\ p = home[r] /\ epoch[p] = Uninit /\ epoch'[p] = job[r].epoch /\ pc[r] = "adopt"
    BY RequestEpoch
  <1>2. ~database
    BY <1>1 DEF EpochInv, EpochIsKnown
  <1>3. job[r].epoch \in Nat /\ job[r].epoch <= fence.epoch /\ fence.epoch \in Nat
    BY DEF TypeInv, TypeOK, Job, PastInv, EpochsArePast
  <1>4. epoch'[p] \in 0 .. fence.epoch
    BY <1>1, <1>3
  <1> QED
    BY <1>1, <1>2, <1>4, QuietFloors DEF EpochInv

\* What a request finds or writes is sound.
LEMMA RequestSources ==
    ASSUME TypeInv, EpochInv, NEW r \in Request, NEW identity, NEW e, Source(r, identity, e)
    PROVE  May(identity, e)
  BY DEF Source, Found, EpochInv, EntriesAreSound, RequestSound, EntrySound

\* What a request stores has the source it verified or found, which was sound.
LEMMA RequestKeepsSound ==
    ASSUME TypeInv, PastInv, EpochInv, NEW r \in Request, RequestNext(r)
    PROVE  EntriesAreSound'
  <1>1. UNCHANGED floors
    BY RequestFrame
  <1>2. \A identity, e : May(identity, e)' <=> May(identity, e)
    BY <1>1 DEF May
  <1>3. EntrySound(l2)'
    <2>1. CASE l2' = l2
      BY <1>1, <2>1 DEF EpochInv, EntriesAreSound, EntrySound, May
    <2>2. CASE l2' # l2
      BY <1>1, <2>2, RequestL2, RequestSources DEF EntrySound, May
    <2> QED
      BY <2>1, <2>2
  <1>4. ASSUME NEW p \in Process PROVE EntrySound(l1[p])'
    <2>1. CASE l1'[p] = l1[p] \/ l1'[p] = NoEntry
      BY <1>1, <2>1 DEF EpochInv, EntriesAreSound, EntrySound, May
    <2>2. CASE Source(r, l1'[p].identity, l1'[p].epoch)
      BY <1>1, <2>2, RequestSources DEF EntrySound, May
    <2> QED
      BY <2>1, <2>2, RequestL1
  <1>5. ASSUME NEW q \in Request \ {r} PROVE RequestSound(q)'
    <2>1. job'[q] = job[q] /\ pc'[q] = pc[q]
      BY RequestEffects DEF Others, TypeInv
    <2> QED
      BY <1>1, <2>1 DEF EpochInv, EntriesAreSound, RequestSound, EntrySound, May
  <1>6. ASSUME job'[r].phase # "put", job'[r].entry # NoEntry
        PROVE  May(job'[r].entry.identity, job'[r].entry.epoch)
    <2>1. home[r] \in Process
      BY DEF TypeInv, TypeOK
    <2> QED
      BY <1>6, <2>1, RequestFound
      DEF Found, EpochInv, EntriesAreSound, RequestSound, EntrySound
  <1>7. ASSUME job'[r].phase = "put", pc'[r] \in Writing
        PROVE  May(job'[r].entry.identity, job'[r].epoch)
    <2>1. /\ job'[r].entry = job[r].entry /\ job[r].phase = "put"
          /\ \/ pc[r] \in Writing /\ job'[r].epoch = job[r].epoch
             \/ /\ pc[r] \in Storing /\ Unmoved(r)
                /\ job'[r].epoch = epoch'[home[r]] /\ epoch'[home[r]] \in Nat
      BY <1>7, RequestWriting
    <2>2. home[r] \in Process /\ job[r].entry.identity \in Nat
      BY <2>1 DEF TypeInv, TypeOK, InHand, HandOf
    <2>3. CASE pc[r] \in Writing /\ job'[r].epoch = job[r].epoch
      BY <2>1, <2>3 DEF EpochInv, EntriesAreSound, RequestSound
    <2>4. CASE epoch'[home[r]] # epoch[home[r]] /\ job'[r].epoch = epoch'[home[r]]
      BY <2>1, <2>2, <2>4, TakenUp
    <2>5. CASE /\ epoch'[home[r]] = epoch[home[r]] /\ pc[r] \in Storing /\ Unmoved(r)
               /\ job'[r].epoch = epoch'[home[r]] /\ epoch'[home[r]] \in Nat
      BY <2>1, <2>5 DEF EpochInv, VerifiedMayAdopt, MayAdopt, MayTakeUp
    <2> QED
      BY <2>1, <2>3, <2>4, <2>5
  <1>8. RequestSound(r)'
    BY <1>1, <1>6, <1>7 DEF RequestSound, EntrySound, May
  <1> QED
    BY <1>3, <1>4, <1>5, <1>8 DEF EntriesAreSound

\* What a request may adopt of the epoch stays so as requests go on.
LEMMA RequestKeepsMay ==
    ASSUME TypeInv, PastInv, EpochInv, NEW r \in Request, RequestNext(r)
    PROVE  VerifiedMayAdopt'
  <1>1. UNCHANGED <<account, fence, generation, task, home, floors>>
    BY RequestFrame
  <1>2. ASSUME NEW q \in Request, NEW identity \in Nat,
               epoch[home[q]] \in Nat => May(identity, epoch[home[q]]),
               epoch'[home[q]] \in Nat
        PROVE  May(identity, epoch'[home[q]])
    <2>1. home[q] \in Process
      BY DEF TypeInv, TypeOK
    <2> QED
      BY <1>2, <2>1, TakenUp
  <1>3. ASSUME NEW q \in Request \ {r} PROVE MayAdopt(q)'
    <2>1. job'[q] = job[q] /\ pc'[q] = pc[q]
      BY RequestEffects DEF Others, TypeInv
    <2>2. job[q].phase = "put" => job[q].entry.identity \in Nat
      BY DEF TypeInv, InHand, HandOf
    <2>3. MayAdopt(q)
      BY DEF EpochInv, VerifiedMayAdopt
    <2> QED
      BY <1>1, <1>2, <2>1, <2>2, <2>3 DEF MayAdopt, MayTakeUp, Unmoved, May
  <1>4. MayAdopt(r)'
    <2>1. SUFFICES ASSUME job'[r].phase = "put", pc'[r] \in Storing, Unmoved(r)'
                   PROVE  LET p == home[r]
                              identity == job'[r].entry.identity
                          IN  /\ epoch'[p] \in Nat => May(identity, epoch'[p])
                              /\ task[p].at = "advanced" => May(identity, task[p].epoch)
                              /\ task[p].at = "advance" /\ task[p].aim # ByForce =>
                                    /\ identity >= task[p].cause
                                    /\ task[p].aim <= fence.rev =>
                                          May(identity, fence.epoch)
      BY <1>1 DEF MayAdopt, MayTakeUp, May
    <2>2. /\ job'[r].generation = job[r].generation
          /\ \/ job'[r].entry.identity = account
             \/ /\ job'[r].entry = job[r].entry /\ job[r].phase = "put"
                /\ pc[r] \in Storing
      BY <2>1, RequestStoring
    <2>3. Unmoved(r) /\ home[r] \in Process
      BY <1>1, <2>1, <2>2 DEF Unmoved, TypeInv, TypeOK
    <2>4. CASE /\ job'[r].entry = job[r].entry /\ job[r].phase = "put" /\ pc[r] \in Storing
      <3>1. job[r].entry.identity \in Nat
        BY <2>4 DEF TypeInv, InHand, HandOf
      <3>2. MayAdopt(r)
        BY DEF EpochInv, VerifiedMayAdopt
      <3> QED
        BY <1>2, <2>3, <2>4, <3>1, <3>2 DEF MayAdopt, MayTakeUp
    <2>5. CASE job'[r].entry.identity = account
      <3>1. /\ fence.epoch \in Nat /\ task[home[r]].epoch \in Nat /\ account \in Nat
            /\ task[home[r]].cause \in Nat
        BY <2>3 DEF TypeInv, TypeOK, Task
      <3>2. /\ epoch[home[r]] <= fence.epoch /\ task[home[r]].epoch <= fence.epoch
            /\ task[home[r]].cause <= account
        BY <2>3 DEF PastInv, EpochsArePast, AccountsArePast
      <3>3. \A e \in Nat : e <= fence.epoch => May(account, e)
        BY <3>1, AccountMay DEF PastInv
      <3>4. epoch'[home[r]] \in Nat => May(account, epoch'[home[r]])
        BY <1>2, <3>1, <3>2, <3>3
      <3>5. May(account, fence.epoch) /\ May(account, task[home[r]].epoch)
        BY <3>1, <3>2, <3>3
      <3>6. account >= task[home[r]].cause
        BY <3>1, <3>2
      <3> QED
        BY <2>5, <3>4, <3>5, <3>6
    <2> QED
      BY <2>2, <2>4, <2>5
  <1> QED
    BY <1>3, <1>4 DEF VerifiedMayAdopt

\* A step of a request keeps identities sound.
LEMMA RequestKeepsEpochs ==
    ASSUME TypeInv, PastInv, EpochInv, NEW r \in Request, RequestNext(r)
    PROVE  EpochInv'
  <1>1. UNCHANGED <<fence, generation, conf, task, home, floors, database>>
    BY RequestFrame
  <1>2. Others(r)
    BY RequestEffects DEF TypeInv
  <1>3. Publications'
    BY <1>1 DEF EpochInv, Publications, Publishing
  <1>4. \A p \in Process : epoch[p] # Uninit => epoch'[p] = epoch[p]
    BY TakenUp
  <1>5. EpochIsKnown'
    <2>1. \A q \in Request : home[q] \in Process
      BY DEF TypeInv, TypeOK
    <2>2. database /\ pc'[r] # "idle" => epoch[home[r]] # Uninit
      BY <2>1, RequestBegins DEF EpochInv, EpochIsKnown
    <2> QED
      BY <1>1, <1>2, <1>4, <2>1, <2>2 DEF EpochInv, EpochIsKnown, Others
  <1>6. GenerationsArePast'
    <2>1. ASSUME NEW q \in Request \ {r} PROVE GenerationIsPast(q)'
      BY <1>1, <1>2 DEF Others, EpochInv, GenerationsArePast, GenerationIsPast
    <2>2. GenerationIsPast(r)'
      <3>1. generation[home[r]] \in Nat
        BY DEF TypeInv, TypeOK
      <3> QED
        BY <1>1, <3>1, RequestBegins DEF EpochInv, GenerationsArePast, GenerationIsPast
    <2> QED
      BY <2>1, <2>2 DEF GenerationsArePast
  <1> QED
    BY <1>3, <1>5, <1>6, RequestKeepsSound, RequestKeepsMay DEF EpochInv

-----------------------------------------------------------------------------
(* Identities and the epochs they are served under: the steps of processes. *)

\* Tasks only remove entries, and floors stay when an epoch is added.
ProcessStores ==
    /\ l2' \in {l2, NoEntry}
    /\ \A q \in Process : l1'[q] \in {l1[q], NoEntry}
    /\ \A r \in Request : \/ job'[r] = job[r] /\ pc'[r] = pc[r]
                          \/ job'[r] = NoJob /\ pc'[r] = "idle"
    /\ fence.epoch <= fence'.epoch /\ fence'.epoch \in Nat
    /\ \A e \in 0 .. fence.epoch : floors'[e] = floors[e]

\* A process empties places and drops requests, and adds nothing to either.
LEMMA ProcessLeaves ==
    ASSUME TypeInv, PastInv, NEW p \in Process, ProcessNext(p)
    PROVE  ProcessStores
  <1>1. /\ l2' \in {l2, NoEntry} /\ \A q \in Process : l1'[q] \in {l1[q], NoEntry}
    <2>1. l2' \in {l2, NoEntry}
      BY DEF ProcessNext, StartPublication, StartFlush, AdvanceEpoch, AdvanceFails, StoreEpoch,
        Confirm, DeleteL2, Listen, Observe, Lapse, Restart, outside
    <2>2. \A q \in Process : l1'[q] \in {l1[q], NoEntry}
      BY DEF ProcessNext, StartPublication, StartFlush, AdvanceEpoch, AdvanceFails, StoreEpoch,
        Confirm, DeleteL2, Listen, Observe, Lapse, Restart, Start, SetL1, localVars, TypeInv, TypeOK
    <2> QED
      BY <2>1, <2>2
  <1>2. ASSUME NEW r \in Request
        PROVE  \/ job'[r] = job[r] /\ pc'[r] = pc[r]
               \/ job'[r] = NoJob /\ pc'[r] = "idle"
    <2>1. CASE Restart(p)
      <3>1. CASE home[r] = p
        BY <2>1, <3>1, RestartEffect DEF TypeInv
      <3>2. CASE home[r] # p
        BY <2>1, <3>2, RestartEffect DEF TypeInv
      <3> QED
        BY <3>1, <3>2
    <2>2. CASE UNCHANGED <<pc, job>>
      BY <2>2
    <2> QED
      BY <2>1, <2>2, ProcessFrame
  <1>3. /\ fence.epoch <= fence'.epoch /\ fence'.epoch \in Nat
        /\ \A e \in 0 .. fence.epoch : floors'[e] = floors[e]
    <2>1. UNCHANGED <<fence, floors>> \/ MoveEpoch(p)
      BY DEF ProcessNext, StartPublication, StartFlush, AdvanceEpoch, AdvanceFails, StoreEpoch,
        Confirm, DeleteL2, Listen, Observe, Lapse, Restart, historyVars
    <2>2. fence.epoch \in Nat
      BY DEF TypeInv, TypeOK
    <2>3. CASE UNCHANGED <<fence, floors>>
      BY <2>2, <2>3
    <2>4. CASE MoveEpoch(p)
      BY <2>4, MoveEpochEffect, MovePast DEF Moved, TypeInv
    <2> QED
      BY <2>1, <2>3, <2>4
  <1> QED
    BY <1>1, <1>2, <1>3 DEF ProcessStores

\* Entries stay sound while the floors of their epochs stay.
LEMMA StoresKeepSound ==
    ASSUME TypeInv, PastInv, EntriesAreSound, ProcessStores
    PROVE  EntriesAreSound'
  <1> USE DEF ProcessStores
  <1>1. \A identity, e : e \in 0 .. fence.epoch /\ May(identity, e) => May(identity, e)'
    BY DEF May
  <1>2. ASSUME NEW entry, entry \in Entry \cup {NoEntry}, entry.epoch <= fence.epoch,
               EntrySound(entry), NEW new \in {entry, NoEntry}
        PROVE  new # NoEntry => new.identity >= floors'[new.epoch]
    <2>1. new # NoEntry => new.epoch \in 0 .. fence.epoch
      BY <1>2 DEF Entry, TypeInv, TypeOK
    <2> QED
      BY <1>2, <2>1 DEF EntrySound, May
  <1>3. EntrySound(l2)'
    BY <1>2 DEF PastInv, EpochsArePast, TypeInv, TypeOK, EntriesAreSound, EntrySound, May
  <1>4. ASSUME NEW p \in Process PROVE EntrySound(l1[p])'
    BY <1>2 DEF PastInv, EpochsArePast, TypeInv, TypeOK, EntriesAreSound, EntrySound, May
  <1>5. ASSUME NEW r \in Request PROVE RequestSound(r)'
    <2>1. CASE job'[r] = job[r] /\ pc'[r] = pc[r]
      <3>1. /\ job[r].entry \in Entry \cup {NoEntry} /\ job[r].entry.epoch <= fence.epoch
            /\ job[r].epoch \in 0 .. fence.epoch
        BY DEF PastInv, EpochsArePast, TypeInv, TypeOK, Job
      <3>2. RequestSound(r)
        BY DEF EntriesAreSound
      <3>3. job[r].phase # "put" => EntrySound(job[r].entry)'
        BY <1>2, <2>1, <3>1, <3>2 DEF RequestSound, EntrySound, May
      <3>4. job[r].phase = "put" /\ pc[r] \in Writing =>
               job[r].entry.identity >= floors'[job[r].epoch]
        BY <3>1, <3>2 DEF RequestSound, May
      <3> QED
        BY <2>1, <3>3, <3>4 DEF RequestSound, EntrySound, May
    <2>2. CASE job'[r] = NoJob /\ pc'[r] = "idle"
      BY <2>2, EntryTypes DEF RequestSound, EntrySound
    <2> QED
      BY <2>1, <2>2
  <1> QED
    BY <1>3, <1>4, <1>5 DEF EntriesAreSound

\* Publications still exclude each other.
LEMMA ProcessPublications ==
    ASSUME TypeInv, Publications, NEW p \in Process, ProcessNext(p)
    PROVE  Publications'
  <1>1. OtherTasks(p) \/ UNCHANGED task
    BY StartPublicationEffect, StartFlushEffect, AdvanceEpochEffect, AdvanceFailsEffect,
       StoreEpochEffect, ConfirmEffect, DeleteL2Effect, RestartEffect
    DEF ProcessNext, Listen, Observe, Lapse, Started, Abandoned, TypeInv
  <1>2. \A q \in Process \ {p} : Publishing(q)' <=> Publishing(q)
    BY <1>1 DEF OtherTasks, Publishing
  <1>3. CASE StartPublication(p)
    <2>1. database /\ \A q \in Process : ~Publishing(q)
      BY <1>3, StartPublicationEffect DEF Locked, Publishing, TypeInv
    <2>2. UNCHANGED database
      BY ProcessFrame
    <2> QED
      BY <1>2, <2>1, <2>2 DEF Publications
  <1>4. CASE ~StartPublication(p)
    <2>1. Publishing(p)' => Publishing(p)
      <3>1. CASE StartFlush(p)
        BY <3>1, StartFlushEffect DEF Publishing, TypeInv
      <3>2. CASE AdvanceEpoch(p)
        <4>1. task[p].at = "advance" /\ Aimed(p)
          BY <3>2, AdvanceEpochEffect, MoveEpochEffect DEF TypeInv
        <4> QED
          BY <4>1 DEF Publishing, Aimed
      <3>3. CASE AdvanceFails(p)
        BY <3>3, AdvanceFailsEffect, EntryTypes DEF Publishing, Abandoned, Aimed, TypeInv
      <3>4. CASE StoreEpoch(p)
        BY <3>4, StoreEpochEffect DEF Publishing, Aimed, TypeInv
      <3>5. CASE Confirm(p)
        BY <3>5, ConfirmEffect, EntryTypes DEF Publishing, Abandoned, Aimed, TypeInv
      <3>6. CASE DeleteL2(p) \/ Restart(p)
        BY <3>6, DeleteL2Effect, RestartEffect, EntryTypes DEF Publishing, TypeInv
      <3>7. CASE Listen(p) \/ Observe(p) \/ Lapse(p)
        BY <3>7 DEF Listen, Observe, Lapse, Publishing
      <3> QED
        BY <1>4, <3>1, <3>2, <3>3, <3>4, <3>5, <3>6, <3>7 DEF ProcessNext
    <2>2. UNCHANGED <<fence, floors>> \/ MoveEpoch(p)
      BY DEF ProcessNext, StartPublication, StartFlush, AdvanceEpoch, AdvanceFails, StoreEpoch,
        Confirm, DeleteL2, Listen, Observe, Lapse, Restart, historyVars
    <2>3. UNCHANGED database
      BY ProcessFrame
    <2>4. ~database => \A e \in 0 .. fence'.epoch : floors'[e] = 0
      <3>1. SUFFICES ASSUME ~database PROVE \A e \in 0 .. fence'.epoch : floors'[e] = 0
        OBVIOUS
      <3>2. ~Publishing(p) /\ \A e \in 0 .. fence.epoch : floors[e] = 0
        BY <3>1 DEF Publications
      <3>3. CASE MoveEpoch(p)
        <4>1. task[p].aim = ByForce /\ fence.epoch \in Nat
          BY <3>2, <3>3, MoveEpochEffect DEF Publishing, TypeInv, TypeOK
        <4>2. CASE Moved(p)
          <5>1. /\ fence'.epoch = fence.epoch + 1 /\ floors'[fence.epoch + 1] = 0
                /\ \A e \in 0 .. fence.epoch : floors'[e] = floors[e]
            BY <4>1, <4>2 DEF Moved
          <5>2. \A e \in 0 .. fence.epoch + 1 : e \in 0 .. fence.epoch \/ e = fence.epoch + 1
            BY <4>1
          <5> QED
            BY <3>2, <5>1, <5>2
        <4>3. CASE UNCHANGED <<fence, floors>>
          BY <3>2, <4>3
        <4> QED
          BY <3>3, <4>2, <4>3, MoveEpochEffect DEF TypeInv
      <3>4. CASE UNCHANGED <<fence, floors>>
        BY <3>2, <3>4
      <3> QED
        BY <2>2, <3>3, <3>4
    <2> QED
      BY <1>2, <2>1, <2>3, <2>4 DEF Publications
  <1> QED
    BY <1>3, <1>4

\* A process that serves has an epoch.
LEMMA ProcessKnowsEpoch ==
    ASSUME TypeInv, EpochIsKnown, NEW p \in Process, ProcessNext(p)
    PROVE  EpochIsKnown'
  <1>1. UNCHANGED <<database, home>>
    BY ProcessFrame
  <1>0. \A r \in Request : home[r] \in Process
    BY DEF TypeInv, TypeOK
  <1>2. CASE Restart(p)
    <2>1. /\ epoch'[p] = Uninit /\ conf'[p] = Uninit
          /\ \A q \in Process \ {p} : epoch'[q] = epoch[q] /\ conf'[q] = conf[q]
      BY <1>2, RestartEffect DEF TypeInv
    <2>2. ASSUME NEW r \in Request, pc'[r] # "idle" PROVE home[r] # p /\ pc[r] # "idle"
      BY <1>2, <2>2, RestartEffect DEF TypeInv
    <2> QED
      BY <1>0, <1>1, <2>1, <2>2 DEF EpochIsKnown
  <1>3. CASE UNCHANGED <<epoch, conf>> /\ ~Restart(p)
    BY <1>1, <1>3, ProcessFrame DEF EpochIsKnown
  <1>4. CASE AdvanceFails(p) \/ StoreEpoch(p) \/ Confirm(p)
    <2>1. \A q \in Process \ {p} : epoch'[q] = epoch[q] /\ conf'[q] = conf[q]
      <3>1. CASE AdvanceFails(p)
        BY <3>1, AdvanceFailsEffect DEF Abandoned, TypeInv
      <3>2. CASE StoreEpoch(p)
        BY <3>2, StoreEpochEffect DEF TypeInv
      <3>3. CASE Confirm(p)
        <4>1. (conf' = [conf EXCEPT ![p] = fence.rev] /\ UNCHANGED epoch) \/ Abandoned(p)
          BY <3>3, ConfirmEffect DEF TypeInv
        <4> QED
          BY <4>1 DEF Abandoned, TypeInv, TypeOK
      <3> QED
        BY <1>4, <3>1, <3>2, <3>3
    <2>2. epoch'[p] # Uninit
      <3>1. fence.epoch \in Nat
        BY DEF TypeInv, TypeOK
      <3>2. epoch'[p] = Invalid \/ epoch'[p] \in Nat
        BY <1>4, <3>1, AdvanceFailsEffect, StoreEpochEffect, ConfirmEffect
        DEF Abandoned, TypeInv
      <3> QED
        BY <3>2 DEF Invalid, Uninit
    <2>3. UNCHANGED <<pc, job>>
      BY <1>4, AdvanceFailsEffect, StoreEpochEffect, ConfirmEffect DEF TypeInv
    <2> QED
      BY <1>0, <1>1, <2>1, <2>2, <2>3 DEF EpochIsKnown
  <1> QED
    BY <1>2, <1>3, <1>4
    DEF ProcessNext, StartPublication, StartFlush, AdvanceEpoch, DeleteL2, Listen, Observe,
        Lapse

\* Counts of invalidations only grow.
LEMMA ProcessGenerations ==
    ASSUME TypeInv, GenerationsArePast, NEW p \in Process, ProcessNext(p)
    PROVE  GenerationsArePast'
  <1>1. SUFFICES ASSUME NEW r \in Request PROVE GenerationIsPast(r)'
    BY DEF GenerationsArePast
  <1>2. /\ GenerationIsPast(r) /\ UNCHANGED home
        /\ home[r] \in Process /\ generation[home[r]] \in Nat
        /\ job[r].generation \in Nat
    BY ProcessFrame DEF GenerationsArePast, TypeInv, TypeOK, Job
  <1>3. CASE Restart(p)
    <2>1. CASE home[r] = p
      BY <1>2, <1>3, <2>1, RestartEffect DEF GenerationIsPast, TypeInv
    <2>2. CASE home[r] # p
      BY <1>2, <1>3, <2>2, RestartEffect DEF GenerationIsPast, TypeInv
    <2> QED
      BY <2>1, <2>2
  <1>4. CASE StartPublication(p) \/ StartFlush(p) \/ Listen(p)
    <2>1. /\ generation'[home[r]] = generation[home[r]]
                \/ generation'[home[r]] = generation[home[r]] + 1
          /\ UNCHANGED <<pc, job>>
      BY <1>2, <1>4, StartPublicationEffect, StartFlushEffect, ListenEffect
      DEF Started, TypeInv
    <2> QED
      BY <1>2, <2>1 DEF GenerationIsPast
  <1>5. CASE UNCHANGED <<generation, pc, job>>
    BY <1>2, <1>5 DEF GenerationIsPast
  <1> QED
    BY <1>3, <1>4, <1>5
    DEF ProcessNext, StartPublication, StartFlush, AdvanceEpoch, AdvanceFails, StoreEpoch,
        Confirm, DeleteL2, Listen, Observe, Lapse, Restart, localVars, requestVars

\* What an identity may carry at a process that no step invalidates, it may carry after
\* the step.
LEMMA ProcessTakesUp ==
    ASSUME TypeInv, PastInv, Publications, NEW p \in Process, ProcessNext(p),
           NEW q \in Process, NEW identity \in Nat, MayTakeUp(q, identity),
           q # p \/ ~(StartPublication(p) \/ StartFlush(p) \/ Listen(p) \/ Restart(p))
    PROVE  MayTakeUp(q, identity)'
  <1>1. /\ fence.epoch \in Nat /\ task[q].epoch \in Nat
        /\ epoch[q] <= fence.epoch /\ task[q].epoch <= fence.epoch
    BY DEF PastInv, EpochsArePast, TypeInv, TypeOK, Task
  <1>11. \A e \in 0 .. fence.epoch : May(identity, e) => identity >= floors'[e]
    BY ProcessLeaves DEF ProcessStores, May
  <1>12. /\ epoch[q] \in Nat => identity >= floors'[epoch[q]]
         /\ task[q].at = "advanced" => identity >= floors'[task[q].epoch]
    <2>1. epoch[q] \in Nat => epoch[q] \in 0 .. fence.epoch
      BY <1>1
    <2>2. task[q].epoch \in 0 .. fence.epoch
      BY <1>1
    <2> QED
      BY <1>11, <2>1, <2>2 DEF MayTakeUp
  <1>13. task[q].at = "advance" /\ task[q].aim # ByForce =>
            /\ identity >= task[q].cause
            /\ task[q].aim <= fence.rev => identity >= floors'[fence.epoch]
    <2>1. fence.epoch \in 0 .. fence.epoch
      BY <1>1
    <2> QED
      BY <1>11, <2>1 DEF MayTakeUp
  <1>14. ASSUME MoveEpoch(p), task[p].aim = ByForce, Moves(p)
         PROVE  identity >= floors'[fence'.epoch] /\ fence'.rev = fence.rev
    <2>1. Moved(p)
      BY <1>14, MoveEpochEffect DEF TypeInv, Moved
    <2>2. fence'.epoch = fence.epoch + 1 /\ floors'[fence.epoch + 1] = 0
      BY <1>14, <2>1 DEF Moved
    <2> QED
      BY <1>14, <2>1, <2>2 DEF Moved
  <1> SUFFICES /\ epoch'[q] \in Nat => identity >= floors'[epoch'[q]]
               /\ task'[q].at = "advanced" => identity >= floors'[task'[q].epoch]
               /\ task'[q].at = "advance" /\ task'[q].aim # ByForce =>
                     /\ identity >= task'[q].cause
                     /\ task'[q].aim <= fence'.rev => identity >= floors'[fence'.epoch]
    BY DEF MayTakeUp, May
  <1>15. CASE q # p
    <2>1. task'[q] = task[q] /\ epoch'[q] = epoch[q]
      <3>1. OtherTasks(p) \/ UNCHANGED task
        BY StartPublicationEffect, StartFlushEffect, AdvanceEpochEffect, AdvanceFailsEffect,
           StoreEpochEffect, ConfirmEffect, DeleteL2Effect, RestartEffect
        DEF ProcessNext, Listen, Observe, Lapse, Started, Abandoned, TypeInv
      <3>2. epoch'[q] = epoch[q]
        BY <1>15, AdvanceFailsEffect, StoreEpochEffect, ConfirmEffect, RestartEffect
        DEF ProcessNext, StartPublication, StartFlush, AdvanceEpoch, DeleteL2, Listen,
            Observe, Lapse, Abandoned, TypeInv
      <3> QED
        BY <1>15, <3>1, <3>2 DEF OtherTasks
    <2>2. CASE UNCHANGED <<fence, floors>>
      BY <1>12, <1>13, <2>1, <2>2
    <2>3. CASE MoveEpoch(p) /\ ~UNCHANGED <<fence, floors>>
      <3>1. Moves(p) /\ task[p].at = "advance"
        BY <2>3, MoveEpochEffect DEF Moved, TypeInv
      <3>2. CASE task[p].aim = ByForce
        BY <1>12, <1>13, <1>14, <2>1, <2>3, <3>1, <3>2
      <3>3. CASE task[p].aim # ByForce
        <4>1. ~Publishing(q)
          BY <1>15, <3>1, <3>3 DEF Publications, Publishing
        <4> QED
          BY <1>12, <2>1, <4>1 DEF Publishing
      <3> QED
        BY <3>2, <3>3
    <2> QED
      BY <2>2, <2>3
      DEF ProcessNext, StartPublication, StartFlush, AdvanceEpoch, AdvanceFails, StoreEpoch,
        Confirm, DeleteL2, Listen, Observe, Lapse, Restart, historyVars
  <1>16. CASE q = p
    <2>1. CASE AdvanceEpoch(p)
      <3>1. /\ MoveEpoch(p) /\ UNCHANGED epoch
            /\ task'[q].at = "advanced" /\ task'[q].epoch = fence'.epoch
            /\ task[q].at = "advance"
        BY <1>16, <2>1, AdvanceEpochEffect, MoveEpochEffect DEF TypeInv
      <3>2. identity >= floors'[fence'.epoch]
        <4>1. CASE task[p].aim = ByForce
          BY <1>14, <3>1, <4>1 DEF Moves
        <4>2. CASE task[p].aim # ByForce /\ Moves(p)
          <5>1. Moved(p)
            BY <3>1, <4>2, MoveEpochEffect DEF TypeInv
          <5>2. fence'.epoch = fence.epoch + 1 /\ floors'[fence.epoch + 1] = task[p].cause
            BY <4>2, <5>1 DEF Moved
          <5> QED
            BY <1>13, <1>16, <3>1, <4>2, <5>2 DEF May
        <4>3. CASE task[p].aim # ByForce /\ ~Moves(p)
          <5>1. task[p].aim \in Nat /\ fence.rev \in Nat
            BY <4>3 DEF TypeInv, TypeOK, Task
          <5>2. task[p].aim <= fence.rev
            BY <4>3, <5>1 DEF Moves
          <5>3. UNCHANGED fence
            BY <3>1, <4>3 DEF MoveEpoch
          <5> QED
            BY <1>13, <1>16, <3>1, <4>3, <5>2, <5>3
        <4> QED
          BY <4>1, <4>2, <4>3
      <3> QED
        BY <1>12, <3>1, <3>2
    <2>2. CASE AdvanceFails(p)
      BY <1>16, <2>2, AdvanceFailsEffect, EntryTypes DEF Abandoned, TypeInv, Invalid
    <2>3. CASE StoreEpoch(p)
      <3>1. /\ epoch'[q] = task[q].epoch /\ task[q].at = "advanced"
            /\ task'[q].at \in {"delete", "confirm"}
        BY <1>16, <2>3, StoreEpochEffect DEF TypeInv
      <3> QED
        BY <1>12, <3>1
    <2>4. CASE Confirm(p)
      <3>1. /\ task'[q].at \in {"delete", "idle"}
            /\ UNCHANGED epoch \/ epoch'[q] = Invalid
        BY <1>16, <2>4, ConfirmEffect, EntryTypes DEF Abandoned, TypeInv
      <3> QED
        BY <1>12, <3>1 DEF Invalid
    <2>5. CASE DeleteL2(p)
      BY <1>12, <1>16, <2>5, DeleteL2Effect, EntryTypes DEF TypeInv
    <2>6. CASE Observe(p) \/ Lapse(p)
      BY <1>12, <1>13, <2>6 DEF Observe, Lapse, historyVars
    <2> QED
      BY <1>16, <2>1, <2>2, <2>3, <2>4, <2>5, <2>6 DEF ProcessNext
  <1> QED
    BY <1>15, <1>16

\* A request that has verified its session, and is not invalidated by a step, was there
\* before the step.
LEMMA StillUnmoved ==
    ASSUME TypeInv, PastInv, GenerationsArePast, NEW p \in Process, ProcessNext(p),
           NEW r \in Request, job'[r].phase = "put", pc'[r] \in Storing, Unmoved(r)'
    PROVE  /\ job'[r] = job[r] /\ pc'[r] = pc[r] /\ UNCHANGED home /\ Unmoved(r)
           /\ home[r] \in Process /\ job[r].entry.identity \in Nat
           /\ \/ home[r] # p
              \/ ~(StartPublication(p) \/ StartFlush(p) \/ Listen(p) \/ Restart(p))
  <1>2. job'[r] = job[r] /\ pc'[r] = pc[r]
    BY ProcessLeaves, EntryTypes DEF ProcessStores
  <1>3. /\ home[r] \in Process /\ job[r].phase = "put" /\ pc[r] \in Storing
        /\ job[r].entry.identity \in Nat /\ UNCHANGED home
    BY <1>2, ProcessFrame DEF TypeInv, TypeOK, InHand, HandOf
  <1>4. ~Restart(home[r])
    BY <1>2, <1>3, RestartEffect, EntryTypes DEF TypeInv
  <1>5. /\ generation'[home[r]] = job[r].generation
        /\ job[r].generation <= generation[home[r]]
        /\ generation[home[r]] \in Nat
    BY <1>2, <1>3
    DEF Unmoved, GenerationsArePast, GenerationIsPast, Storing, TypeInv, TypeOK
  <1>6. generation'[home[r]] # generation[home[r]] + 1
    BY <1>5
  <1>7. home[r] # p \/ ~(StartPublication(p) \/ StartFlush(p) \/ Listen(p) \/ Restart(p))
    BY <1>4, <1>6, StartPublicationEffect, StartFlushEffect, ListenEffect
    DEF Started, TypeInv
  <1>8. Unmoved(r)
    <2>1. generation'[home[r]] = generation[home[r]]
      BY <1>3, <1>7, StartPublicationEffect, StartFlushEffect, ListenEffect, RestartEffect
      DEF ProcessNext, StartPublication, StartFlush, AdvanceEpoch, AdvanceFails, StoreEpoch,
        Confirm, DeleteL2, Listen, Observe, Lapse, Restart, Started, localVars, TypeInv
    <2> QED
      BY <1>5, <2>1 DEF Unmoved
  <1> QED
    BY <1>2, <1>3, <1>7, <1>8

\* A verified identity not invalidated by a step may carry the epoch its process has
\* afterwards, and the one its task will give it.
LEMMA ProcessKeepsMay ==
    ASSUME TypeInv, PastInv, EpochInv, NEW p \in Process, ProcessNext(p)
    PROVE  VerifiedMayAdopt'
  <1>1. SUFFICES ASSUME NEW r \in Request, job'[r].phase = "put", pc'[r] \in Storing,
                        Unmoved(r)'
                 PROVE  MayTakeUp(home[r], job[r].entry.identity)'
    BY DEF VerifiedMayAdopt, MayAdopt
  <1>2. /\ job'[r] = job[r] /\ pc'[r] = pc[r] /\ UNCHANGED home /\ Unmoved(r)
        /\ home[r] \in Process /\ job[r].entry.identity \in Nat
        /\ \/ home[r] # p
           \/ ~(StartPublication(p) \/ StartFlush(p) \/ Listen(p) \/ Restart(p))
    BY <1>1, StillUnmoved DEF EpochInv
  <1>3. MayTakeUp(home[r], job[r].entry.identity)
    BY <1>1, <1>2 DEF EpochInv, VerifiedMayAdopt, MayAdopt
  <1>4. \A q \in Process, identity \in Nat :
           q = home[r] /\ MayTakeUp(q, identity) => MayTakeUp(q, identity)'
    BY <1>2, ProcessTakesUp DEF EpochInv
  <1> QED
    BY <1>2, <1>3, <1>4 DEF MayTakeUp, May

\* The steps of a process keep what entries say of epochs.
LEMMA ProcessKeepsEpochs ==
    ASSUME TypeInv, PastInv, EpochInv, NEW p \in Process, ProcessNext(p)
    PROVE  EpochInv'
  BY ProcessLeaves, StoresKeepSound, ProcessKeepsMay, ProcessPublications,
     ProcessKnowsEpoch, ProcessGenerations
  DEF EpochInv

\* The surroundings touch no identity, floor or task.
LEMMA SurroundingsKeepEpochs ==
    ASSUME TypeInv, EpochInv, Surroundings
    PROVE  EpochInv'
  <1>1. /\ UNCHANGED <<l1, l2, generation, epoch, conf, task, home, pc, job, floors, database>>
        /\ fence'.epoch = fence.epoch /\ fence'.rev = fence.rev
    BY AdvanceFenceEffect, ChangeAccountEffect, CommitEffect DEF Surroundings, TypeInv
  <1>2. EntriesAreSound'
    BY <1>1 DEF EpochInv, EntriesAreSound, RequestSound, EntrySound, May
  <1>3. VerifiedMayAdopt'
    BY <1>1 DEF EpochInv, VerifiedMayAdopt, MayAdopt, MayTakeUp, Unmoved, May
  <1>4. Publications' /\ EpochIsKnown' /\ GenerationsArePast'
    BY <1>1
    DEF EpochInv, Publications, Publishing, EpochIsKnown, GenerationsArePast, GenerationIsPast
  <1> QED
    BY <1>2, <1>3, <1>4 DEF EpochInv

\* Nothing is of an epoch or an account yet to come, and identities are sound.
VersionedInv == TypeInv /\ PastInv /\ EpochInv

\* At first all epochs are those of the start.
LEMMA InitEpochs == Init => PastInv /\ EpochInv
  <1> SUFFICES ASSUME Init PROVE PastInv /\ EpochInv
    OBVIOUS
  <1>1. PastInv
    BY EntryTypes
    DEF Init, PastInv, EpochsArePast, AccountsArePast, Uninit
  <1>2. EntriesAreSound /\ VerifiedMayAdopt
    BY EntryTypes
    DEF Init, EntriesAreSound, RequestSound, EntrySound, VerifiedMayAdopt, MayAdopt
  <1>3. Publications /\ EpochIsKnown /\ GenerationsArePast
    BY EntryTypes
    DEF Init, Publications, Publishing, EpochIsKnown, GenerationsArePast, GenerationIsPast
  <1> QED
    BY <1>1, <1>2, <1>3 DEF EpochInv

\* The invariant behind EpochFencesIdentities is inductive.
LEMMA NextEpochs == VersionedInv /\ [Next]_vars => VersionedInv'
  <1> SUFFICES ASSUME TypeInv, PastInv, EpochInv, [Next]_vars PROVE VersionedInv'
    BY DEF VersionedInv
  <1>1. TypeInv'
    BY NextTypes
  <1>2. ASSUME NEW r \in Request, RequestNext(r) PROVE PastInv' /\ EpochInv'
    BY <1>2, RequestPast, RequestKeepsEpochs
  <1>3. ASSUME NEW p \in Process, ProcessNext(p) PROVE PastInv' /\ EpochInv'
    BY <1>3, ProcessPast, ProcessKeepsEpochs
  <1>4. ASSUME Surroundings PROVE PastInv' /\ EpochInv'
    BY <1>4, SurroundingsPast, SurroundingsKeepEpochs
  <1>5. ASSUME UNCHANGED vars PROVE PastInv' /\ EpochInv'
    <2>1. UNCHANGED <<account, database, fence, l1, l2, generation, epoch, conf, task, home,
                      pc, job, committed, floors, flushed>>
      BY <1>5 DEF vars, outside, processVars, localVars, requestVars, historyVars
    <2>2. PastInv'
      BY <2>1 DEF PastInv, EpochsArePast, AccountsArePast
    <2>3. EntriesAreSound' /\ VerifiedMayAdopt'
      BY <2>1
      DEF EpochInv, EntriesAreSound, RequestSound, EntrySound, May, VerifiedMayAdopt,
          MayAdopt, MayTakeUp, Unmoved
    <2>4. Publications' /\ EpochIsKnown' /\ GenerationsArePast'
      BY <2>1
      DEF EpochInv, Publications, Publishing, EpochIsKnown, GenerationsArePast,
          GenerationIsPast
    <2> QED
      BY <2>2, <2>3, <2>4 DEF EpochInv
  <1> QED
    BY <1>1, <1>2, <1>3, <1>4, <1>5 DEF Next, Surroundings, VersionedInv

\* An identity is not served under an epoch to which a configuration moved the fence after
\* the identity was verified: of any number of processes and requests, whatever flushes
\* move the epoch in between.
THEOREM VersionedEpochs == Spec => []EpochFencesIdentities
  <1>1. Init => VersionedInv
    BY InitTypes, InitEpochs DEF VersionedInv
  <1>2. VersionedInv => EpochFencesIdentities
    <2> SUFFICES ASSUME VersionedInv, NEW r \in Request, pc[r] = "served"
                 PROVE  job[r].entry.identity >= floors[job[r].entry.epoch]
      BY DEF EpochFencesIdentities
    <2>1. job[r].phase # "put" /\ job[r].entry # NoEntry
      BY DEF VersionedInv, TypeInv, InHand, HandOf
    <2> QED
      BY <2>1 DEF VersionedInv, EpochInv, EntriesAreSound, RequestSound, EntrySound, May
  <1> QED
    BY <1>1, <1>2, NextEpochs, PTL DEF Spec

-----------------------------------------------------------------------------
(* Flushes.                                                                *)

\* A request stores in the epoch of now only what was verified after the last flush.
LEMMA RequestKeepsEntriesYoung ==
    ASSUME TypeInv, FlushInv, NEW r \in Request, RequestNext(r)
    PROVE  EntriesAreYoung'
  <1>1. UNCHANGED <<fence, flushed, task>>
    BY RequestFrame
  <1>2. \A identity : Above(identity)' <=> Above(identity)
    BY <1>1 DEF Above
  <1>3. ASSUME NEW identity, NEW e, Source(r, identity, e), e = fence.epoch
        PROVE  Above(identity)
    BY <1>3 DEF Source, Found, FlushInv, EntriesAreYoung, RequestYoung, EntryYoung
  <1>4. EntryYoung(l2)'
    <2>1. CASE l2' = l2
      BY <1>1, <2>1 DEF FlushInv, EntriesAreYoung, EntryYoung, Above
    <2>2. CASE l2' # l2
      BY <1>1, <1>3, <2>2, RequestL2 DEF EntryYoung, Above
    <2> QED
      BY <2>1, <2>2
  <1>5. ASSUME NEW p \in Process PROVE EntryYoung(l1[p])'
    <2>1. CASE l1'[p] = l1[p] \/ l1'[p] = NoEntry
      BY <1>1, <2>1 DEF FlushInv, EntriesAreYoung, EntryYoung, Above
    <2>2. CASE Source(r, l1'[p].identity, l1'[p].epoch)
      BY <1>1, <1>3, <2>2 DEF EntryYoung, Above
    <2> QED
      BY <2>1, <2>2, RequestL1
  <1>6. ASSUME NEW q \in Request \ {r} PROVE RequestYoung(q)'
    <2>1. job'[q] = job[q] /\ pc'[q] = pc[q]
      BY RequestEffects DEF Others, TypeInv
    <2> QED
      BY <1>1, <2>1 DEF FlushInv, EntriesAreYoung, RequestYoung, EntryYoung, Above
  <1>7. ASSUME job'[r].phase # "put", job'[r].entry # NoEntry,
               job'[r].entry.epoch = fence.epoch
        PROVE  Above(job'[r].entry.identity)
    <2>1. home[r] \in Process
      BY DEF TypeInv, TypeOK
    <2> QED
      BY <1>7, <2>1, RequestFound
      DEF Found, FlushInv, EntriesAreYoung, RequestYoung, EntryYoung
  <1>8. ASSUME job'[r].phase = "put", pc'[r] \in Writing, job'[r].epoch = fence.epoch
        PROVE  Above(job'[r].entry.identity)
    <2>1. /\ job'[r].entry = job[r].entry /\ job[r].phase = "put"
          /\ \/ pc[r] \in Writing /\ job'[r].epoch = job[r].epoch
             \/ pc[r] \in Storing /\ Unmoved(r)
      BY <1>8, RequestWriting
    <2>2. CASE pc[r] \in Writing /\ job'[r].epoch = job[r].epoch
      BY <1>8, <2>1, <2>2 DEF FlushInv, EntriesAreYoung, RequestYoung
    <2>3. CASE pc[r] \in Storing /\ Unmoved(r)
      BY <2>1, <2>3 DEF FlushInv, VerifiedIsYoung, IdleTasks, Recent, Above
    <2> QED
      BY <2>1, <2>2, <2>3
  <1>9. RequestYoung(r)'
    BY <1>1, <1>7, <1>8 DEF RequestYoung, EntryYoung, Above
  <1> QED
    BY <1>4, <1>5, <1>6, <1>9 DEF EntriesAreYoung


\* A request is served what was confirmed, and confirmed what is of the epoch of now.
LEMMA RequestAnswers ==
    ASSUME TypeInv, FlushInv, NEW r \in Request, RequestNext(r)
    PROVE  AnswerIsYoung(r)'
  <1> USE DEF TypeInv
  <1>a. /\ AnswerIsYoung(r) /\ UNCHANGED flushed
        /\ 0 <= flushed /\ flushed <= flushed
    BY RequestFrame DEF FlushInv, AnswersAreYoung, TypeOK
  <1>1. CASE Begin(r)
    BY <1>1, BeginEffect, <1>a, EntryTypes
    DEF Kept, Captured, Dropped, Refused, AnswerIsYoung
  <1>2. CASE Enter(r)
    BY ZenonT(40), <1>2, EnterEffect, <1>a, EntryTypes
    DEF Kept, Captured, Dropped, Refused, AnswerIsYoung
  <1>3. CASE ReadEpoch(r)
    BY <1>3, ReadEpochEffect, <1>a, EntryTypes
    DEF Kept, Captured, Dropped, Refused, AnswerIsYoung
  <1>4. CASE ReadEpochFails(r)
    BY <1>4, ReadEpochFailsEffect, <1>a, EntryTypes
    DEF Kept, Captured, Dropped, Refused, AnswerIsYoung
  <1>5. CASE AdoptEpoch(r)
    <2>1. Dropped(r) \/ Refused(r) \/ (Captured(r) /\ pc'[r] \in {"publish", "local"})
      BY <1>5, AdoptEpochEffect
    <2> QED
      BY <1>a, <2>1, EntryTypes DEF Captured, Dropped, Refused, AnswerIsYoung
  <1>6. CASE LookupL1(r)
    BY <1>6, LookupL1Effect, <1>a, EntryTypes
    DEF Kept, Captured, Dropped, Refused, AnswerIsYoung
  <1>7. CASE Attest(r)
    <2>1. /\ pc[r] = "attest" /\ Captured(r) /\ pc'[r] = "attested"
          /\ job'[r].entry = job[r].entry /\ job'[r].phase = job[r].phase
          /\ job'[r].reply => FenceMatches(r)
      BY <1>7, AttestEffect
    <2>2. ASSUME job'[r].reply, job[r].phase # "put"
          PROVE  job[r].entry.identity >= job[r].flushed
      <3>1. job[r].entry # NoEntry /\ job[r].entry.epoch = fence.epoch
        BY <2>1, <2>2 DEF InHand, HandOf, FenceMatches
      <3>2. job[r].entry.identity >= flushed
        BY <2>2, <3>1 DEF FlushInv, EntriesAreYoung, RequestYoung, EntryYoung, Above
      <3>3. /\ job[r].entry.identity \in Nat /\ flushed \in Nat /\ job[r].flushed \in Nat
            /\ job[r].flushed <= flushed
        BY <1>a, <3>1 DEF TypeOK, Job, Entry, AnswerIsYoung
      <3> QED
        BY <3>2, <3>3
    <2> QED
      BY <1>a, <2>1, <2>2 DEF Captured, AnswerIsYoung
  <1>8. CASE Attested(r)
    <2>1. \/ Dropped(r) \/ Refused(r)
          \/ /\ pc'[r] = "served" /\ job'[r].entry = job[r].entry
             /\ job'[r].flushed = job[r].flushed
             /\ pc[r] = "attested" /\ job[r].phase # "put" /\ job[r].reply
      BY <1>8, AttestedEffect
    <2> QED
      BY <1>a, <2>1, EntryTypes DEF Captured, Dropped, Refused, AnswerIsYoung
  <1>9. CASE Load(r)
    BY <1>9, LoadEffect, <1>a, EntryTypes
    DEF Kept, Captured, Dropped, Refused, AnswerIsYoung
  <1>10. CASE Loaded(r)
    <2>1. Dropped(r) \/ Refused(r) \/ (Captured(r) /\ pc'[r] = "attest")
      BY <1>10, LoadedEffect
    <2> QED
      BY <1>a, <2>1, EntryTypes DEF Captured, Dropped, Refused, AnswerIsYoung
  <1>11. CASE Authenticate(r)
    BY <1>11, AuthenticateEffect, <1>a, EntryTypes
    DEF Kept, Captured, Dropped, Refused, AnswerIsYoung
  <1>12. CASE Publish(r)
    BY <1>12, PublishEffect, <1>a, EntryTypes
    DEF Kept, Captured, Dropped, Refused, AnswerIsYoung
  <1>13. CASE Published(r)
    BY <1>13, PublishedEffect, <1>a, EntryTypes
    DEF Kept, Captured, Dropped, Refused, AnswerIsYoung
  <1>14. CASE Leave(r)
    BY <1>14, LeaveEffect, <1>a, EntryTypes
    DEF Kept, Captured, Dropped, Refused, AnswerIsYoung
  <1> QED
    BY <1>1, <1>2, <1>3, <1>4, <1>5, <1>6, <1>7, <1>8, <1>9, <1>10, <1>11, <1>12,
       <1>13, <1>14 DEF RequestNext

\* A step of a request keeps cached identities young.
LEMMA RequestKeepsYoung ==
    ASSUME TypeInv, PastInv, FlushInv, NEW r \in Request, RequestNext(r)
    PROVE  FlushInv'
  <1>1. UNCHANGED <<account, fence, generation, task, home, flushed>>
    BY RequestFrame
  <1>2. Others(r)
    BY RequestEffects DEF TypeInv
  <1>3. VerifiedIsYoung'
    <2>1. SUFFICES ASSUME NEW q \in Request, job'[q].phase = "put", pc'[q] \in Storing,
                          Unmoved(q)'
                   PROVE  Recent(job'[q].entry.identity)
      BY <1>1 DEF VerifiedIsYoung, Recent
    <2>2. CASE q # r
      BY <1>1, <1>2, <2>1, <2>2 DEF Others, FlushInv, VerifiedIsYoung, Unmoved
    <2>3. CASE q = r
      <3>1. /\ job'[r].generation = job[r].generation
            /\ \/ job'[r].entry.identity = account
               \/ /\ job'[r].entry = job[r].entry /\ job[r].phase = "put"
                  /\ pc[r] \in Storing
        BY <2>1, <2>3, RequestStoring
      <3>2. Unmoved(r)
        BY <1>1, <2>1, <2>3, <3>1 DEF Unmoved
      <3>3. Recent(account)
        <4>1. flushed <= account /\ flushed \in Nat /\ account \in Nat
          BY DEF PastInv, AccountsArePast, TypeInv, TypeOK
        <4>2. \A p \in Process : task[p].cause <= account /\ task[p].cause \in Nat
          BY DEF PastInv, AccountsArePast, TypeInv, TypeOK, Task
        <4> QED
          BY <4>1, <4>2 DEF Recent
      <3> QED
        BY <2>3, <3>1, <3>2, <3>3 DEF FlushInv, VerifiedIsYoung
    <2> QED
      BY <2>2, <2>3
  <1>4. AnswersAreYoung'
    <2>1. ASSUME NEW q \in Request \ {r} PROVE AnswerIsYoung(q)'
      BY <1>1, <1>2 DEF Others, FlushInv, AnswersAreYoung, AnswerIsYoung
    <2> QED
      BY <2>1, RequestAnswers DEF AnswersAreYoung
  <1>5. IdleTasks'
    BY <1>1 DEF FlushInv, IdleTasks
  <1> QED
    BY <1>3, <1>4, <1>5, RequestKeepsEntriesYoung DEF FlushInv

\* The others' tasks stay, whatever the step.
LEMMA ProcessTasks ==
    ASSUME TypeInv, NEW p \in Process, ProcessNext(p)
    PROVE  \A q \in Process \ {p} : task'[q] = task[q]
  <1>1. OtherTasks(p) \/ UNCHANGED task
    BY StartPublicationEffect, StartFlushEffect, AdvanceEpochEffect, AdvanceFailsEffect,
       StoreEpochEffect, ConfirmEffect, DeleteL2Effect, RestartEffect
    DEF ProcessNext, Listen, Observe, Lapse, Started, Abandoned, TypeInv
  <1> QED
    BY <1>1 DEF OtherTasks

\* What a step does to the task of its process, and to the last flush.
LEMMA OwnTask ==
    ASSUME TypeInv, NEW p \in Process, ProcessNext(p)
    PROVE  \/ /\ StartPublication(p) \/ StartFlush(p)
              /\ task'[p].at = "advance" /\ task'[p].epoch = 0 /\ flushed' = flushed
           \/ /\ AdvanceEpoch(p) /\ Aimed(p) /\ flushed' = flushed
              /\ task[p].at = "advance" /\ task'[p].at = "advanced"
           \/ /\ Aimed(p) /\ task'[p].epoch = task[p].epoch /\ task'[p].at # "advance"
              /\ task[p].at # "idle" /\ task'[p].at # "idle" /\ flushed' = flushed
           \/ task'[p] = task[p] /\ flushed' = flushed
           \/ task'[p] = NoTask /\ flushed' = flushed
           \/ DeleteL2(p) /\ task'[p] = NoTask
  <1> USE DEF TypeInv
  <1>1. CASE StartPublication(p)
    BY <1>1, StartPublicationEffect DEF Started
  <1>2. CASE StartFlush(p)
    BY <1>2, StartFlushEffect DEF Started
  <1>3. CASE AdvanceEpoch(p)
    BY <1>3, AdvanceEpochEffect, MoveEpochEffect
  <1>4. CASE AdvanceFails(p)
    BY <1>4, AdvanceFailsEffect DEF Abandoned
  <1>5. CASE StoreEpoch(p)
    BY <1>5, StoreEpochEffect
  <1>6. CASE Confirm(p)
    BY <1>6, ConfirmEffect DEF Abandoned
  <1>7. CASE DeleteL2(p)
    BY <1>7, DeleteL2Effect
  <1>8. CASE Restart(p)
    BY <1>8, RestartEffect
  <1>9. CASE Listen(p) \/ Observe(p) \/ Lapse(p)
    BY <1>9 DEF Listen, Observe, Lapse, historyVars
  <1> QED
    BY <1>1, <1>2, <1>3, <1>4, <1>5, <1>6, <1>7, <1>8, <1>9 DEF ProcessNext

\* What is above every flush remains so, unless the fence moves.
LEMMA AboveStays ==
    ASSUME TypeInv, FlushInv, NEW p \in Process, ProcessNext(p), fence'.epoch = fence.epoch,
           NEW identity \in Nat, Above(identity)
    PROVE  Above(identity)'
  <1>1. \A q \in Process : task[q].aim = ByForce /\ task[q].epoch # 0 =>
           identity >= task[q].cause
    BY DEF Above
  <1>2. identity >= flushed
    BY DEF Above
  <1>3. ASSUME task'[p].aim = ByForce, task'[p].epoch # 0
        PROVE  identity >= task'[p].cause
    <2>1. ~(AdvanceEpoch(p) /\ Aimed(p))
      <3>1. SUFFICES ASSUME AdvanceEpoch(p), Aimed(p) PROVE FALSE
        OBVIOUS
      <3>2. task[p].aim = ByForce /\ MoveEpoch(p)
        BY <1>3, <3>1, AdvanceEpochEffect DEF Aimed, TypeInv
      <3>3. Moved(p)
        BY <3>2, MoveEpochEffect DEF Moves, TypeInv
      <3>4. fence'.epoch = fence.epoch + 1 /\ fence.epoch \in Nat
        BY <3>3 DEF Moved, TypeInv, TypeOK
      <3> QED
        BY <3>4
    <2> QED
      BY <1>1, <1>3, <2>1, OwnTask, EntryTypes DEF Aimed
  <1>4. identity >= flushed'
    <2>1. CASE DeleteL2(p)
      BY <1>1, <1>2, <2>1, DeleteL2Effect DEF TypeInv
    <2>2. CASE ~DeleteL2(p)
      BY <1>2, <2>2, OwnTask
    <2> QED
      BY <2>1, <2>2
  <1> QED
    BY <1>1, <1>3, <1>4, ProcessTasks DEF Above

\* No entry is of the epoch a process moves to.
LEMMA ProcessEntriesYoung ==
    ASSUME TypeInv, PastInv, FlushInv, NEW p \in Process, ProcessNext(p)
    PROVE  EntriesAreYoung'
  <1>1. ProcessStores
    BY ProcessLeaves
  <1>2. CASE fence'.epoch = fence.epoch
    <2>1. ASSUME NEW entry \in Entry \cup {NoEntry}, EntryYoung(entry),
                 NEW new \in {entry, NoEntry}, new # NoEntry, new.epoch = fence'.epoch
          PROVE  Above(new.identity)'
      <3>1. new.identity \in Nat /\ Above(new.identity) /\ new = entry
        BY <1>2, <2>1 DEF Entry, EntryYoung
      <3>2. \A identity \in Nat : Above(identity) => Above(identity)'
        BY <1>2, AboveStays
      <3> QED
        BY <3>1, <3>2
    <2>2. EntryYoung(l2)'
      BY <1>1, <2>1 DEF ProcessStores, TypeInv, TypeOK, FlushInv, EntriesAreYoung, EntryYoung
    <2>3. ASSUME NEW q \in Process PROVE EntryYoung(l1[q])'
      <3>1. l1[q] \in Entry \cup {NoEntry} /\ EntryYoung(l1[q]) /\ l1'[q] \in {l1[q], NoEntry}
        BY <1>1 DEF ProcessStores, TypeInv, TypeOK, FlushInv, EntriesAreYoung
      <3> QED
        BY <2>1, <3>1 DEF EntryYoung, Above
    <2>4. ASSUME NEW r \in Request PROVE RequestYoung(r)'
      <3>1. CASE job'[r] = job[r] /\ pc'[r] = pc[r]
        <4>1. job[r].entry \in Entry \cup {NoEntry} /\ RequestYoung(r)
          BY DEF TypeInv, TypeOK, Job, FlushInv, EntriesAreYoung
        <4>2. job[r].phase # "put" => EntryYoung(job[r].entry)'
          BY <2>1, <3>1, <4>1 DEF RequestYoung, EntryYoung, Above
        <4>3. ASSUME job[r].phase = "put", pc[r] \in Writing, job[r].epoch = fence'.epoch
              PROVE  Above(job[r].entry.identity)'
          <5>1. job[r].entry.identity \in Nat /\ Above(job[r].entry.identity)
            BY <1>2, <4>1, <4>3 DEF TypeInv, InHand, HandOf, RequestYoung
          <5>2. \A identity \in Nat : Above(identity) => Above(identity)'
            BY <1>2, AboveStays
          <5> QED
            BY <3>1, <5>1, <5>2 DEF Above
        <4> QED
          BY <3>1, <4>2, <4>3 DEF RequestYoung, EntryYoung, Above
      <3>2. CASE job'[r] = NoJob /\ pc'[r] = "idle"
        BY <3>2, EntryTypes DEF RequestYoung, EntryYoung
      <3> QED
        BY <1>1, <3>1, <3>2 DEF ProcessStores
    <2> QED
      BY <2>2, <2>3, <2>4 DEF EntriesAreYoung
  <1>3. CASE fence'.epoch # fence.epoch
    <2>1. fence.epoch \in Nat /\ fence'.epoch \in Nat /\ fence.epoch < fence'.epoch
      BY <1>1, <1>3 DEF ProcessStores, TypeInv, TypeOK
    <2>2. l2.epoch # fence'.epoch /\ \A q \in Process : l1[q].epoch # fence'.epoch
      <3>1. \A entry \in Entry \cup {NoEntry} :
               entry.epoch <= fence.epoch => entry.epoch # fence'.epoch
        BY <2>1, EntryTypes DEF Entry
      <3> QED
        BY <3>1 DEF PastInv, EpochsArePast, TypeInv, TypeOK
    <2>3. ASSUME NEW r \in Request
          PROVE  job[r].epoch # fence'.epoch /\ job[r].entry.epoch # fence'.epoch
      <3>1. \A entry \in Entry \cup {NoEntry} :
               entry.epoch <= fence.epoch => entry.epoch # fence'.epoch
        BY <2>1, EntryTypes DEF Entry
      <3>2. job[r].epoch \in Nat /\ job[r].entry \in Entry \cup {NoEntry}
        BY DEF TypeInv, TypeOK, Job
      <3>3. job[r].epoch <= fence.epoch /\ job[r].entry.epoch <= fence.epoch
        BY DEF PastInv, EpochsArePast
      <3> QED
        BY <2>1, <3>1, <3>2, <3>3
    <2>4. NoJob.epoch # fence'.epoch /\ NoJob.entry = NoEntry /\ NoJob.phase # "put"
      BY <2>1, EntryTypes
    <2>5. ASSUME NEW r \in Request PROVE RequestYoung(r)'
      BY <1>1, <2>3, <2>4 DEF ProcessStores, RequestYoung, EntryYoung
    <2> QED
      BY <1>1, <2>2, <2>5 DEF ProcessStores, EntriesAreYoung, EntryYoung
  <1> QED
    BY <1>2, <1>3

\* A flush at home invalidates every request that verifies.
LEMMA ProcessKeepsYoung ==
    ASSUME FlushesAtHome, VersionedInv, FlushInv, NEW p \in Process, ProcessNext(p)
    PROVE  FlushInv'
  <1> USE DEF VersionedInv
  <1>1. flushed' \in Nat /\ flushed <= flushed' /\ flushed \in Nat
    <2>1. flushed \in Nat /\ task[p].cause \in Nat
      BY DEF TypeInv, TypeOK, Task
    <2>2. CASE DeleteL2(p)
      BY <2>1, <2>2, DeleteL2Effect DEF TypeInv
    <2>3. CASE ~DeleteL2(p)
      BY <2>1, <2>3, OwnTask
    <2> QED
      BY <2>1, <2>2, <2>3
  <1>2. VerifiedIsYoung'
    <2>1. SUFFICES ASSUME NEW r \in Request, job'[r].phase = "put", pc'[r] \in Storing,
                          Unmoved(r)'
                   PROVE  Recent(job[r].entry.identity)'
      BY DEF VerifiedIsYoung
    <2>2. /\ job'[r] = job[r] /\ pc'[r] = pc[r] /\ Unmoved(r)
          /\ job[r].entry.identity \in Nat
          /\ ~StartFlush(p)
      BY <2>1, StillUnmoved DEF EpochInv, FlushesAtHome
    <2>3. Recent(job[r].entry.identity)
      BY <2>1, <2>2 DEF FlushInv, VerifiedIsYoung
    <2>4. ASSUME task'[p].at # "idle", task'[p].aim = ByForce
          PROVE  job[r].entry.identity >= task'[p].cause
      <3>1. ~StartPublication(p)
        BY <2>4, StartPublicationEffect DEF TypeInv, TypeOK, ByForce
      <3> QED
        BY <2>2, <2>3, <2>4, <3>1, OwnTask, EntryTypes DEF Recent, Aimed
    <2>5. job[r].entry.identity >= flushed'
      <3>1. CASE DeleteL2(p)
        BY <2>3, <3>1, DeleteL2Effect DEF Recent, TypeInv
      <3>2. CASE ~DeleteL2(p)
        BY <2>2, <2>3, <3>2, OwnTask DEF Recent
      <3> QED
        BY <3>1, <3>2
    <2> QED
      BY <2>2, <2>3, <2>4, <2>5, ProcessTasks DEF Recent
  <1>3. AnswersAreYoung'
    <2>1. SUFFICES ASSUME NEW r \in Request PROVE AnswerIsYoung(r)'
      BY DEF AnswersAreYoung
    <2>2. CASE job'[r] = job[r] /\ pc'[r] = pc[r]
      <3>1. job[r].flushed \in Nat /\ AnswerIsYoung(r)
        BY DEF TypeInv, TypeOK, Job, FlushInv, AnswersAreYoung
      <3> QED
        BY <1>1, <2>2, <3>1 DEF AnswerIsYoung
    <2>3. CASE job'[r] = NoJob /\ pc'[r] = "idle"
      BY <1>1, <2>3, EntryTypes DEF AnswerIsYoung
    <2> QED
      BY <2>2, <2>3, ProcessLeaves DEF ProcessStores
  <1>4. IdleTasks'
    <2>1. task'[p].at \in {"idle", "advance"} => task'[p].epoch = 0
      BY OwnTask, EntryTypes DEF FlushInv, IdleTasks
    <2> QED
      BY <2>1, ProcessTasks DEF FlushInv, IdleTasks
  <1> QED
    BY <1>2, <1>3, <1>4, ProcessEntriesYoung DEF FlushInv

\* The authority and the configuration change neither entries nor flushes.
LEMMA SurroundingsKeepYoung ==
    ASSUME TypeInv, FlushInv, Surroundings
    PROVE  FlushInv'
  <1>1. /\ UNCHANGED <<l1, l2, generation, task, home, pc, job, flushed>>
        /\ fence'.epoch = fence.epoch
    BY AdvanceFenceEffect, ChangeAccountEffect, CommitEffect DEF Surroundings, TypeInv
  <1>2. EntriesAreYoung'
    BY <1>1 DEF FlushInv, EntriesAreYoung, RequestYoung, EntryYoung, Above
  <1>3. VerifiedIsYoung' /\ AnswersAreYoung' /\ IdleTasks'
    BY <1>1
    DEF FlushInv, VerifiedIsYoung, Unmoved, Recent, AnswersAreYoung, AnswerIsYoung, IdleTasks
  <1> QED
    BY <1>2, <1>3 DEF FlushInv

\* At first nothing was flushed.
LEMMA InitYoung == Init => FlushInv
  <1> SUFFICES ASSUME Init PROVE FlushInv
    OBVIOUS
  <1>1. EntriesAreYoung
    BY EntryTypes DEF Init, EntriesAreYoung, RequestYoung, EntryYoung
  <1>2. VerifiedIsYoung /\ AnswersAreYoung /\ IdleTasks
    BY EntryTypes DEF Init, VerifiedIsYoung, AnswersAreYoung, AnswerIsYoung, IdleTasks
  <1> QED
    BY <1>1, <1>2 DEF FlushInv

\* The invariant behind FlushesAllCaches is inductive.
LEMMA NextYoung ==
    VersionedInv /\ FlushInv /\ [Next]_vars /\ [FlushesAtHome]_vars => FlushInv'
  <1> SUFFICES ASSUME VersionedInv, FlushInv, [Next]_vars, [FlushesAtHome]_vars
               PROVE  FlushInv'
    OBVIOUS
  <1>1. CASE UNCHANGED vars
    <2>1. UNCHANGED <<fence, l1, l2, generation, task, home, pc, job, flushed>>
      BY <1>1 DEF vars, outside, processVars, localVars, requestVars, historyVars
    <2>2. EntriesAreYoung'
      BY <2>1 DEF FlushInv, EntriesAreYoung, RequestYoung, EntryYoung, Above
    <2>3. VerifiedIsYoung' /\ AnswersAreYoung' /\ IdleTasks'
      BY <2>1
      DEF FlushInv, VerifiedIsYoung, Unmoved, Recent, AnswersAreYoung, AnswerIsYoung,
          IdleTasks
    <2> QED
      BY <2>2, <2>3 DEF FlushInv
  <1> QED
    BY <1>1, RequestKeepsYoung, ProcessKeepsYoung, SurroundingsKeepYoung
    DEF Next, Surroundings, VersionedInv

\* A flush that moved the epoch and was answered "invalidated" leaves no identity verified
\* before it to be served, of either level, whatever requests were awaiting Redis or the
\* provider meanwhile, if those are in the process that is flushed: the others may publish
\* configurations, adopt epochs, fail and restart.
THEOREM VersionedFlushes == Spec /\ [][FlushesAtHome]_vars => []FlushesAllCaches
  <1>1. Init => VersionedInv /\ FlushInv
    BY InitTypes, InitEpochs, InitYoung DEF VersionedInv
  <1>2. VersionedInv /\ FlushInv /\ [Next]_vars /\ [FlushesAtHome]_vars
           => (VersionedInv /\ FlushInv)'
    BY NextEpochs, NextYoung
  <1>3. FlushInv => FlushesAllCaches
    BY DEF FlushInv, AnswersAreYoung, AnswerIsYoung, FlushesAllCaches
  <1> QED
    BY <1>1, <1>2, <1>3, PTL DEF Spec

-----------------------------------------------------------------------------
(* Exchanged tokens.                                                       *)

ExchangeInv == Exchange!TypeOK /\ Exchange!ShrinkInv

\* What is refused or answered waits no more; the rest of its state has its type.
LEMMA RefuseExchange ==
    ASSUME Exchange!TypeOK, NEW r \in Exchanger, Exchange!Refuse(r)
    PROVE  /\ await' \in [Exchanger -> Exchange!Await]
           /\ form' \in [Exchanger -> Exchange!Form \cup {NoOne}]
           /\ client' \in [Exchanger -> [name : Client, scopes : SUBSET Scope] \cup {NoOne}]
           /\ await'[r] = "idle"
           /\ \A q \in Exchanger \ {r} : await'[q] = await[q] /\ form'[q] = form[q]
  BY DEF Exchange!Refuse, Exchange!TypeOK, Exchange!Await

\* Waiting is with a form.
LEMMA WaitExchange ==
    ASSUME Exchange!TypeOK, NEW r \in Exchanger, NEW a \in Exchange!Await,
           NEW f \in Exchange!Form, Exchange!Wait(r, a, f)
    PROVE  /\ await' \in [Exchanger -> Exchange!Await]
           /\ form' \in [Exchanger -> Exchange!Form \cup {NoOne}]
           /\ await'[r] = a /\ form'[r] = f
           /\ \A q \in Exchanger \ {r} : await'[q] = await[q] /\ form'[q] = form[q]
  BY DEF Exchange!Wait, Exchange!TypeOK

\* Requests that a step leaves alone wait with what they waited with: tokens are only added.
LEMMA OthersWait ==
    ASSUME NEW q, Exchange!WaitsWith(q), await'[q] = await[q], form'[q] = form[q],
           UNCHANGED policy, tokens \subseteq tokens'
    PROVE  Exchange!WaitsWith(q)'
  BY DEF Exchange!WaitsWith, Exchange!Complete

\* A token issued for as long as it may be, with no more scopes than its root, is added.
LEMMA IssueKeeps ==
    ASSUME ExchangeInv, NEW r \in Exchanger, NEW act \in Client \cup {"subject"},
           NEW scopes \in SUBSET Scope, NEW ttl \in Nat, NEW root \in Exchange!Root,
           Exchange!Issue(r, act, scopes, ttl, root),
           scopes \subseteq root.scopes, now + ttl <= root.ends,
           root.ends = MaxTime + Ttl \/ act \in policy.public,
           UNCHANGED <<now, policy, registered>>
    PROVE  ExchangeInv'
  <1> DEFINE t == [act |-> act, scopes |-> scopes, exp |-> now + ttl, root |-> root]
  <1>1. Exchange!Refuse(r) /\ tokens' = tokens \cup {t}
    BY DEF Exchange!Issue
  <1>2. now \in Nat /\ policy \in {p \in Exchange!Policy : Exchange!ValidPolicy(p)}
    BY ExchangeAssumption DEF ExchangeInv, Exchange!TypeOK
  <1>3. t \in Exchange!Token
    BY <1>2 DEF Exchange!Token
  <1>4. /\ t.scopes \subseteq t.root.scopes /\ t.exp <= t.root.ends
        /\ t.root.ends = MaxTime + Ttl \/ t.act \in policy.public
    OBVIOUS
  <1> HIDE DEF t
  <1>5. Exchange!TypeOK'
    BY <1>1, <1>3, RefuseExchange DEF ExchangeInv, Exchange!TypeOK
  <1>6. ASSUME NEW u \in tokens' PROVE Exchange!TokenShrinks(u)'
    <2>1. CASE u \in tokens
      BY <2>1 DEF ExchangeInv, Exchange!ShrinkInv, Exchange!TokenShrinks, Exchange!Terminal
    <2>2. CASE u = t
      BY <1>4, <2>2 DEF Exchange!TokenShrinks, Exchange!Terminal
    <2> QED
      BY <1>1, <1>6, <2>1, <2>2
  <1>7. ASSUME NEW q \in Exchanger PROVE Exchange!WaitsWith(q)'
    <2>1. CASE q = r
      BY <1>1, <2>1, RefuseExchange DEF ExchangeInv, Exchange!WaitsWith
    <2>2. CASE q # r
      BY <1>1, <2>2, RefuseExchange, OthersWait DEF ExchangeInv, Exchange!ShrinkInv
    <2> QED
      BY <2>1, <2>2
  <1> QED
    BY <1>5, <1>6, <1>7 DEF ExchangeInv, Exchange!ShrinkInv

\* A step that lets a request wait on, and issues nothing.
LEMMA WaitKeeps ==
    ASSUME ExchangeInv, NEW r \in Exchanger, NEW a \in Exchange!Await,
           NEW f \in Exchange!Form, Exchange!Wait(r, a, f),
           UNCHANGED <<now, policy, registered, tokens>>,
           client' \in [Exchanger -> [name : Client, scopes : SUBSET Scope] \cup {NoOne}],
           a # "idle", Exchange!Complete(f),
           f.token \in tokens \cup Exchange!Foreign \cup {NoOne},
           a = "client" => f.caller \in Client,
           a = "provider" => f.grant = "exchange" /\ f.subject = "token",
           a \in {"kratos", "session"} => f.caller \in policy.public
    PROVE  ExchangeInv'
  <1>1. Exchange!TypeOK'
    BY WaitExchange DEF ExchangeInv, Exchange!TypeOK
  <1>2. ASSUME NEW q \in Exchanger PROVE Exchange!WaitsWith(q)'
    <2>1. CASE q = r
      BY <2>1, WaitExchange DEF ExchangeInv, Exchange!WaitsWith, Exchange!Complete
    <2>2. CASE q # r
      BY <2>2, WaitExchange, OthersWait DEF ExchangeInv, Exchange!ShrinkInv
    <2> QED
      BY <2>1, <2>2
  <1>3. \A t \in tokens' : Exchange!TokenShrinks(t)'
    BY DEF ExchangeInv, Exchange!ShrinkInv, Exchange!TokenShrinks, Exchange!Terminal
  <1> QED
    BY <1>1, <1>2, <1>3 DEF ExchangeInv, Exchange!ShrinkInv

\* A request is refused, and nothing is issued.
LEMMA RefuseKeeps ==
    ASSUME ExchangeInv, NEW r \in Exchanger, Exchange!Refuse(r),
           UNCHANGED <<now, policy, registered, tokens>>
    PROVE  ExchangeInv'
  <1>1. Exchange!TypeOK'
    BY RefuseExchange DEF ExchangeInv, Exchange!TypeOK
  <1>2. ASSUME NEW q \in Exchanger PROVE Exchange!WaitsWith(q)'
    <2>1. CASE q = r
      BY <2>1, RefuseExchange DEF ExchangeInv, Exchange!WaitsWith
    <2>2. CASE q # r
      BY <2>2, RefuseExchange, OthersWait DEF ExchangeInv, Exchange!ShrinkInv
    <2> QED
      BY <2>1, <2>2
  <1>3. \A t \in tokens' : Exchange!TokenShrinks(t)'
    BY DEF ExchangeInv, Exchange!ShrinkInv, Exchange!TokenShrinks, Exchange!Terminal
  <1> QED
    BY <1>1, <1>2, <1>3 DEF ExchangeInv, Exchange!ShrinkInv

\* What may be submitted.
LEMMA FormsType ==
    ASSUME Exchange!TypeOK, NEW f \in Exchange!Forms
    PROVE  /\ f \in Exchange!Form /\ Exchange!Complete(f)
           /\ f.token \in tokens \cup Exchange!Foreign \cup {NoOne}
           /\ f.secret => f.caller \in Client
  <1>1. 1 \in 1 .. Ttl /\ Ttl \in 1 .. Ttl
    BY ExchangeAssumption
  <1>2. tokens \subseteq Exchange!Token
    BY DEF Exchange!TypeOK
  <1>3. /\ f \in [caller : Client \cup {NoOne}, secret : BOOLEAN,
                  grant : {"exchange", "client"}, subject : {"token", "session", "person"},
                  token : tokens \cup Exchange!Foreign \cup {NoOne},
                  scopes : {NoOne, {}, Scope}, ttl : {1, Ttl}]
        /\ Exchange!Credentials(f) /\ Exchange!Complete(f)
    BY DEF Exchange!Forms
  <1>4. f \in Exchange!Form
    <2>1. tokens \cup Exchange!Foreign \cup {NoOne}
             \subseteq Exchange!Token \cup Exchange!Foreign \cup {NoOne}
      BY <1>2
    <2>2. {NoOne, {}, Scope} \subseteq (SUBSET Scope) \cup {NoOne} /\ {1, Ttl} \subseteq 1 .. Ttl
      BY <1>1
    <2> HIDE DEF Exchange!Token, Exchange!Foreign
    <2> QED
      BY <1>3, <2>1, <2>2 DEF Exchange!Form
  <1>5. f.secret => f.caller \in Client
    BY <1>3 DEF Exchange!Credentials
  <1> QED
    BY <1>3, <1>4, <1>5

\* A request waits with a form it may have submitted.
LEMMA SubmitKeeps ==
    ASSUME ExchangeInv, NEW r \in Exchanger, Exchange!Submit(r)
    PROVE  ExchangeInv'
  <1>1. PICK f \in Exchange!Forms :
           \/ f.grant = "exchange" /\ Exchange!Exchange(r, f)
           \/ /\ f.grant = "client" /\ f.caller \notin policy.public
              /\ Exchange!Wait(r, "client", f)
    BY DEF Exchange!Submit
  <1>2. /\ f \in Exchange!Form /\ Exchange!Complete(f)
        /\ f.token \in tokens \cup Exchange!Foreign \cup {NoOne}
        /\ f.secret => f.caller \in Client
    BY FormsType DEF ExchangeInv
  <1>3. /\ UNCHANGED <<now, policy, registered, tokens>>
        /\ client' \in [Exchanger -> [name : Client, scopes : SUBSET Scope] \cup {NoOne}]
    BY DEF Exchange!Submit, ExchangeInv, Exchange!TypeOK
  <1>4. PICK a \in {"kratos", "hydra", "client", "provider"} :
           /\ Exchange!Wait(r, a, f)
           /\ a = "client" => f.caller \in Client
           /\ a = "provider" => f.grant = "exchange" /\ f.subject = "token"
           /\ a = "kratos" => f.caller \in policy.public
    <2>1. CASE f.grant = "client" /\ Exchange!Wait(r, "client", f)
      BY <1>2, <2>1 DEF Exchange!Complete
    <2>2. CASE f.grant = "exchange" /\ Exchange!Exchange(r, f)
      BY <1>2, <2>2 DEF Exchange!Exchange, Exchange!ValidSession, Exchange!NamesPublic
    <2> QED
      BY <1>1, <2>1, <2>2
  <1>5. a \in Exchange!Await /\ a # "idle"
    BY DEF Exchange!Await
  <1> QED
    BY <1>2, <1>3, <1>4, <1>5, WaitKeeps

\* A token of no more than the scopes named, for no more than Ttl.
LEMMA ByScopesRoot ==
    ASSUME NEW scopes \in SUBSET Scope
    PROVE  /\ Exchange!ByScopes(scopes) \in Exchange!Root
           /\ Exchange!ByScopes(scopes).scopes = scopes
           /\ Exchange!ByScopes(scopes).ends = MaxTime + Ttl
  BY ExchangeAssumption DEF Exchange!ByScopes, Exchange!Root

\* What a verified client is issued descends from its own scopes.
LEMMA ClientKeeps ==
    ASSUME ExchangeInv, NEW r \in Exchanger, Exchange!ClientVerified(r)
    PROVE  ExchangeInv'
  <1> DEFINE f == form[r]
             c == [name |-> f.caller, scopes |-> registered[f.caller]]
  <1>1. /\ await[r] = "client" /\ UNCHANGED <<now, policy, registered>>
        /\ registered[f.caller] # NoOne
    BY DEF Exchange!ClientVerified
  <1>2. /\ f \in Exchange!Form /\ Exchange!Complete(f) /\ f.caller \in Client
        /\ f.token \in tokens \cup Exchange!Foreign \cup {NoOne}
    BY <1>1 DEF ExchangeInv, Exchange!ShrinkInv, Exchange!WaitsWith
  <1>3. registered[f.caller] \in SUBSET Scope
    <2> HIDE DEF f
    <2>1. registered \in [Client -> (SUBSET Scope) \cup {NoOne}]
      BY DEF ExchangeInv, Exchange!TypeOK
    <2> QED
      BY <1>1, <1>2, <2>1
  <1>4. c.name = f.caller /\ c.scopes = registered[f.caller]
    OBVIOUS
  <1>5. c \in [name : Client, scopes : SUBSET Scope]
    BY <1>2, <1>3
  <1>6. f.ttl \in 1 .. Ttl
    BY <1>2 DEF Exchange!Form
  <1>7. /\ Ttl \in Nat /\ Exchange!Least(f.ttl, Ttl) \in Nat
        /\ now + Ttl <= MaxTime + Ttl /\ now + Exchange!Least(f.ttl, Ttl) <= MaxTime + Ttl
    <2>1. now \in Nat /\ now <= MaxTime
      BY ExchangeAssumption DEF ExchangeInv, Exchange!TypeOK
    <2> QED
      BY <1>6, <2>1, ExchangeAssumption DEF Exchange!Least
  <1>8. \/ Exchange!ClientGranted(r, f, c) \/ Exchange!ActsFor(r, f, c)
        \/ Exchange!AsksForSubject(r, f, c)
    BY DEF Exchange!ClientVerified
  <1> HIDE DEF c, f
  <1>9. Exchange!Allowed(f, c.scopes) =>
           Exchange!Granted(f, c.scopes) \in SUBSET Scope
           /\ Exchange!Granted(f, c.scopes) \subseteq c.scopes
    BY <1>3, <1>4 DEF Exchange!Allowed
  <1>10. /\ Exchange!ByScopes(c.scopes) \in Exchange!Root
         /\ Exchange!ByScopes(c.scopes).scopes = c.scopes
         /\ Exchange!ByScopes(c.scopes).ends = MaxTime + Ttl
    BY <1>3, <1>4, ByScopesRoot
  <1>11. CASE Exchange!ClientGranted(r, f, c)
    <2>1. /\ Exchange!Allowed(f, c.scopes)
          /\ Exchange!Issue(r, "subject", Exchange!Granted(f, c.scopes), Ttl,
                            Exchange!ByScopes(c.scopes))
      BY <1>11 DEF Exchange!ClientGranted
    <2> QED
      BY <1>1, <1>7, <1>9, <1>10, <2>1, IssueKeeps
  <1>12. CASE Exchange!ActsFor(r, f, c)
    <2>1. /\ Exchange!Allowed(f, c.scopes)
          /\ Exchange!Issue(r, c.name, Exchange!Granted(f, c.scopes),
                            Exchange!Least(f.ttl, Ttl), Exchange!ByScopes(c.scopes))
      BY <1>12 DEF Exchange!ActsFor, Exchange!MayActFor
    <2> QED
      BY <1>1, <1>2, <1>4, <1>7, <1>9, <1>10, <2>1, IssueKeeps
  <1>13. CASE Exchange!AsksForSubject(r, f, c)
    <2>1. /\ f.grant = "exchange" /\ f.subject = "token" /\ Exchange!Wait(r, "provider", f)
          /\ client' = [client EXCEPT ![r] = c] /\ UNCHANGED tokens
      BY <1>13 DEF Exchange!AsksForSubject
    <2>2. client' \in [Exchanger -> [name : Client, scopes : SUBSET Scope] \cup {NoOne}]
      BY <1>5, <2>1 DEF ExchangeInv, Exchange!TypeOK
    <2>3. "provider" \in Exchange!Await
      BY DEF Exchange!Await
    <2> QED
      BY <1>1, <1>2, <2>1, <2>2, <2>3, WaitKeeps
  <1> QED
    BY <1>8, <1>11, <1>12, <1>13

\* A token that is exchanged does not come from a session, so the new one may live on.
LEMMA SubjectKeeps ==
    ASSUME ExchangeInv, NEW r \in Exchanger, Exchange!SubjectVerified(r)
    PROVE  ExchangeInv'
  <1> DEFINE f == form[r]
             t == f.token
             act == IF client[r] = NoOne THEN "subject" ELSE client[r].name
             root == IF t.root = NoOne THEN Exchange!ByScopes(t.scopes) ELSE t.root
  <1>1. /\ await[r] = "provider" /\ UNCHANGED <<now, policy, registered>>
        /\ ~ Exchange!Terminal(t) /\ Exchange!Allowed(f, t.scopes)
        /\ Exchange!Issue(r, act, Exchange!Granted(f, t.scopes),
                          Exchange!Least(f.ttl, Ttl), root)
    BY DEF Exchange!SubjectVerified, Exchange!ScopesOf
  <1>2. /\ f \in Exchange!Form /\ t \in tokens \cup Exchange!Foreign
    BY <1>1 DEF ExchangeInv, Exchange!ShrinkInv, Exchange!WaitsWith, Exchange!Complete
  <1>3. act \in Client \cup {"subject"}
    BY DEF ExchangeInv, Exchange!TypeOK
  <1>4. t.scopes \in SUBSET Scope
    BY <1>2
    DEF ExchangeInv, Exchange!TypeOK, Exchange!Token, Exchange!Foreign
  <1>5. /\ root \in Exchange!Root /\ t.scopes \subseteq root.scopes
        /\ root.ends = MaxTime + Ttl
    <2>1. CASE t.root = NoOne
      BY <1>4, <2>1, ByScopesRoot
    <2>2. CASE t.root # NoOne
      <3>1. t \in tokens
        BY <1>2, <2>2 DEF Exchange!Foreign
      <3>2. t.root \in Exchange!Root
        BY <3>1 DEF ExchangeInv, Exchange!TypeOK, Exchange!Token
      <3>3. Exchange!TokenShrinks(t)
        BY <3>1 DEF ExchangeInv, Exchange!ShrinkInv
      <3> QED
        BY <1>1, <2>2, <3>2, <3>3 DEF Exchange!TokenShrinks
    <2> QED
      BY <2>1, <2>2
  <1>6. f.ttl \in 1 .. Ttl
    BY <1>2 DEF Exchange!Form
  <1>7. /\ Exchange!Least(f.ttl, Ttl) \in Nat
        /\ now + Exchange!Least(f.ttl, Ttl) <= MaxTime + Ttl
    <2>1. now \in Nat /\ now <= MaxTime
      BY ExchangeAssumption DEF ExchangeInv, Exchange!TypeOK
    <2> QED
      BY <1>6, <2>1, ExchangeAssumption DEF Exchange!Least
  <1>8. /\ Exchange!Granted(f, t.scopes) \in SUBSET Scope
        /\ Exchange!Granted(f, t.scopes) \subseteq root.scopes
    BY <1>1, <1>4, <1>5 DEF Exchange!Allowed
  <1> HIDE DEF f, t, act, root
  <1> QED
    BY <1>1, <1>3, <1>5, <1>7, <1>8, IssueKeeps

\* A token for a session ends with it, and is a public client's.
LEMMA SessionKeeps ==
    ASSUME ExchangeInv, NEW r \in Exchanger, Exchange!SessionExchanged(r)
    PROVE  ExchangeInv'
  <1> DEFINE f == form[r]
             ttl == Exchange!Least(Exchange!Least(f.ttl, Ttl), Exchange!Remaining)
             root == [scopes |-> {}, ends |-> Until]
  <1>1. /\ await[r] = "session" /\ UNCHANGED <<now, policy, registered>>
        /\ ttl > 0 /\ Exchange!Issue(r, f.caller, {}, ttl, root)
    BY DEF Exchange!SessionExchanged
  <1>2. /\ f \in Exchange!Form /\ f.caller \in policy.public
    BY <1>1 DEF ExchangeInv, Exchange!ShrinkInv, Exchange!WaitsWith
  <1>3. f.caller \in Client
    <2>1. policy.public \subseteq Client
      BY DEF ExchangeInv, Exchange!TypeOK, Exchange!Policy
    <2> QED
      BY <1>2, <2>1
  <1>4. root \in Exchange!Root /\ root.scopes = {} /\ root.ends = Until
    BY ExchangeAssumption DEF Exchange!Root
  <1>5. f.ttl \in 1 .. Ttl /\ now \in Nat
    BY <1>2, ExchangeAssumption DEF Exchange!Form, ExchangeInv, Exchange!TypeOK
  <1>6. ttl \in Nat /\ now + ttl <= Until
    BY <1>1, <1>5, ExchangeAssumption DEF Exchange!Least, Exchange!Remaining
  <1> HIDE DEF f, ttl, root
  <1> QED
    BY <1>1, <1>2, <1>3, <1>4, <1>6, IssueKeeps

\* Every step of the token endpoint keeps the invariant.
LEMMA ExchangeNext == ExchangeInv /\ Exchange!Next => ExchangeInv'
  <1> SUFFICES ASSUME ExchangeInv, Exchange!Next PROVE ExchangeInv'
    OBVIOUS
  <1>1. ASSUME NEW r \in Exchanger, Exchange!SessionVerified(r) PROVE ExchangeInv'
    <2>1. /\ await[r] = "kratos" /\ Exchange!Wait(r, "session", form[r])
          /\ UNCHANGED <<now, policy, registered, tokens, client>>
      BY <1>1 DEF Exchange!SessionVerified
    <2>2. /\ form[r] \in Exchange!Form /\ Exchange!Complete(form[r])
          /\ form[r].token \in tokens \cup Exchange!Foreign \cup {NoOne}
          /\ form[r].caller \in policy.public
      BY <2>1 DEF ExchangeInv, Exchange!ShrinkInv, Exchange!WaitsWith
    <2>3. "session" \in Exchange!Await
      BY DEF Exchange!Await
    <2>4. client' \in [Exchanger -> [name : Client, scopes : SUBSET Scope] \cup {NoOne}]
      BY <2>1 DEF ExchangeInv, Exchange!TypeOK
    <2> QED
      BY <2>1, <2>2, <2>3, <2>4, WaitKeeps
  <1>2. ASSUME NEW r \in Exchanger, Exchange!HydraAnswers(r) \/ Exchange!Deny(r)
        PROVE  ExchangeInv'
    BY <1>2, RefuseKeeps DEF Exchange!HydraAnswers, Exchange!Deny
  <1>3. ASSUME NEW c \in Client, Exchange!Register(c) PROVE ExchangeInv'
    <2>1. /\ UNCHANGED <<now, policy, tokens, await, form, client>>
          /\ registered' =
                [registered EXCEPT ![c] = IF @ = NoOne THEN Scope ELSE NoOne]
      BY <1>3 DEF Exchange!Register, Exchange!requestVars
    <2>2. registered' \in [Client -> (SUBSET Scope) \cup {NoOne}]
      <3>1. registered \in [Client -> (SUBSET Scope) \cup {NoOne}]
        BY DEF ExchangeInv, Exchange!TypeOK
      <3>2. Scope \in (SUBSET Scope) \cup {NoOne} /\ NoOne \in (SUBSET Scope) \cup {NoOne}
        OBVIOUS
      <3> QED
        BY <2>1, <3>1, <3>2
    <2> QED
      BY <2>1, <2>2
      DEF ExchangeInv, Exchange!TypeOK, Exchange!ShrinkInv, Exchange!TokenShrinks,
          Exchange!Terminal, Exchange!WaitsWith, Exchange!Complete
  <1>4. CASE Exchange!Tick
    <2>1. /\ UNCHANGED <<policy, registered, tokens, await, form, client>>
          /\ now' \in 0 .. MaxTime
      BY <1>4, ExchangeAssumption
      DEF Exchange!Tick, Exchange!requestVars, ExchangeInv, Exchange!TypeOK
    <2> QED
      BY <2>1
      DEF ExchangeInv, Exchange!TypeOK, Exchange!ShrinkInv, Exchange!TokenShrinks,
          Exchange!Terminal, Exchange!WaitsWith, Exchange!Complete
  <1> QED
    BY <1>1, <1>2, <1>3, <1>4, SubmitKeeps, ClientKeeps, SubjectKeeps, SessionKeeps
    DEF Exchange!Next

\* At first nothing is issued and nobody waits.
LEMMA ExchangeInit == Exchange!Init => ExchangeInv
  <1> SUFFICES ASSUME Exchange!Init PROVE ExchangeInv
    OBVIOUS
  <1>1. registered \in [Client -> (SUBSET Scope) \cup {NoOne}]
    <2>1. {NoOne, Scope} \subseteq (SUBSET Scope) \cup {NoOne}
      OBVIOUS
    <2> QED
      BY <2>1 DEF Exchange!Init
  <1>2. /\ await \in [Exchanger -> Exchange!Await]
        /\ \A r \in Exchanger : await[r] = "idle"
    BY DEF Exchange!Init, Exchange!Await
  <1>3. /\ form \in [Exchanger -> Exchange!Form \cup {NoOne}]
        /\ client \in [Exchanger -> [name : Client, scopes : SUBSET Scope] \cup {NoOne}]
    BY DEF Exchange!Init
  <1>4. /\ now \in 0 .. MaxTime
        /\ policy \in {p \in Exchange!Policy : Exchange!ValidPolicy(p)}
        /\ tokens = {}
    BY ExchangeAssumption DEF Exchange!Init
  <1> QED
    BY <1>1, <1>2, <1>3, <1>4
    DEF ExchangeInv, Exchange!TypeOK, Exchange!ShrinkInv, Exchange!WaitsWith

\* Nor do the steps of the other models change it.
LEMMA ExchangeStays == ExchangeInv /\ UNCHANGED exchangeVars => ExchangeInv'
  BY DEF exchangeVars, ExchangeInv, Exchange!TypeOK, Exchange!ShrinkInv,
     Exchange!TokenShrinks, Exchange!Terminal, Exchange!WaitsWith, Exchange!Complete

\* However often and by whichever clients a token is exchanged, while clients come and go
\* and requests wait as long as they like: it has no scope its first credential did not
\* have, and what comes from a session has ended when the session has.
THEOREM ExchangesShrink == MCSpec => []AuthorityShrinks
  <1>1. MCInit => ExchangeInv
    BY ExchangeInit DEF MCInit
  <1>2. ExchangeInv /\ [MCNext]_<<part, vars, exchangeVars>> => ExchangeInv'
    BY ExchangeNext, ExchangeStays DEF MCNext
  <1>3. ExchangeInv => AuthorityShrinks
    BY DEF ExchangeInv, Exchange!ShrinkInv, Exchange!TokenShrinks, AuthorityShrinks,
       Exchange!AuthorityShrinks
  <1> QED
    BY <1>1, <1>2, <1>3, PTL DEF MCSpec

\* The variables of the token endpoint have their types.
THEOREM ExchangeTypes == MCSpec => []Exchange!TypeOK
  <1>1. MCInit => ExchangeInv
    BY ExchangeInit DEF MCInit
  <1>2. ExchangeInv /\ [MCNext]_<<part, vars, exchangeVars>> => ExchangeInv'
    BY ExchangeNext, ExchangeStays DEF MCNext
  <1>3. ExchangeInv => Exchange!TypeOK
    BY DEF ExchangeInv
  <1> QED
    BY <1>1, <1>2, <1>3, PTL DEF MCSpec

-----------------------------------------------------------------------------
(* The same of MCSpec, whose behaviours are behaviours of Spec.            *)

\* The parts do no more than the session cache does.
LEMMA PartsOfSpec == MCSpec => Spec
  <1>1. MCInit => Init
    BY DEF MCInit
  <1>2. [MCNext]_<<part, vars, exchangeVars>> => [Next]_vars
    BY DEF MCNext
  <1> QED
    BY <1>1, <1>2, PTL DEF MCSpec, Spec

\* A request stays where it is.
LEMMA HomeStays == [Next]_vars => UNCHANGED home
  <1>1. ASSUME NEW p \in Process, ProcessNext(p) PROVE UNCHANGED home
    BY <1>1
    DEF ProcessNext, StartPublication, StartFlush, AdvanceEpoch, AdvanceFails, StoreEpoch,
        Confirm, DeleteL2, Listen, Observe, Lapse, Restart, requestVars
  <1>2. Surroundings => UNCHANGED home
    BY DEF Surroundings, AdvanceFence, ChangeAccount, Commit, requestVars
  <1>3. UNCHANGED vars => UNCHANGED home
    BY DEF vars, requestVars
  <1> QED
    BY <1>1, <1>2, <1>3, RequestFrame DEF Next, Surroundings

\* The process that lives has the requests.
HomeIsPart == part \in Process => \A r \in Request : home[r] = part

\* Nobody but the process that lives is flushed.
LEMMA PartsFlushAtHome ==
    TypeOK /\ HomeIsPart /\ [MCNext]_<<part, vars, exchangeVars>> => [FlushesAtHome]_vars
  <1> SUFFICES ASSUME TypeOK, HomeIsPart, MCNext, NEW p \in Process, StartFlush(p)
               PROVE  \A r \in Request : home[r] = p
    BY DEF FlushesAtHome
  <1>1. flushes' # flushes
    BY DEF StartFlush, TypeOK
  <1>2. generation'[p] # generation[p]
    BY StartFlushEffect DEF Started, TypeOK
  <1>3. part \in Process /\ \A q \in Process \ {part} : Stays(q)
    BY <1>1 DEF MCNext, vars, historyVars
  <1>4. p = part
    BY <1>2, <1>3 DEF Stays
  <1> QED
    BY <1>3, <1>4 DEF HomeIsPart

\* The variables of the session cache and of the token endpoint have their types.
THEOREM TypesAreRight == MCSpec => []TypesOK
  <1>1. TypeOK /\ Exchange!TypeOK => TypesOK
    BY DEF TypesOK
  <1> QED
    BY <1>1, PartsOfSpec, VersionedTypes, ExchangeTypes, PTL

\* One process with its flushes, or a fleet with none: an answered flush leaves nothing
\* older than itself to be served.
THEOREM FlushesClearCaches == MCSpec => []FlushesAllCaches
  <1>1. MCInit => HomeIsPart
    BY DEF MCInit, HomeIsPart
  <1>2. HomeIsPart /\ [MCNext]_<<part, vars, exchangeVars>> => HomeIsPart'
    BY HomeStays DEF MCNext, HomeIsPart
  <1>3. MCSpec => [][FlushesAtHome]_vars
    BY <1>1, <1>2, PartsFlushAtHome, PartsOfSpec, VersionedTypes, PTL DEF MCSpec
  <1> QED
    BY <1>3, PartsOfSpec, VersionedFlushes, PTL

=============================================================================
