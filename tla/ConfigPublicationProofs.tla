----------------------- MODULE ConfigPublicationProofs -----------------------
(***************************************************************************)
(* Proofs, for any number of processes and admin requests, with a fence or *)
(* without, of the safety properties of ConfigPublication: of LossySpec,   *)
(* where Redis may lose its data, and, of what needs that data, of Spec    *)
(* and of the deployment of MCConfigPublication that keeps it.             *)
(***************************************************************************)
EXTENDS MCConfigPublication, TLAPS

\* A step keeps what holds anyway, and what only holds while Redis has its data.
Keeps == Core' /\ (EpochInv => EpochInv')

-----------------------------------------------------------------------------
(* Pieces of a step.                                                       *)

\* The script answers a state that is not behind the one it found.
LEMMA AdvancedType ==
    ASSUME TypeOK, NEW r \in Nat
    PROVE  /\ Advanced(r) \in [present : BOOLEAN, rev : Nat, epoch : Nat]
           /\ shared.rev <= Advanced(r).rev
  <1>1. shared \in [present : BOOLEAN, rev : Nat, epoch : Nat]
    BY DEF TypeOK
  <1>2. CASE r <= shared.rev
    BY <1>1, <1>2 DEF Advanced
  <1>3. CASE ~(r <= shared.rev)
    <2>1. shared.rev \in Nat /\ shared.epoch \in Nat /\ shared.rev <= r
      BY <1>1, <1>3
    <2>2. Advanced(r) = [present |-> shared.present, rev |-> r, epoch |-> shared.epoch + 1]
      BY <1>1, <1>3 DEF Advanced
    <2> QED  BY <1>1, <2>1, <2>2
  <1> QED  BY <1>2, <1>3

\* A reconciliation that fails outside the guard.
LEMMA RefuseInv ==
    ASSUME Core, NEW t \in Task, Refuse(t),
           pc[t] \notin Guarded \cup {"install"}, faults' \in Nat
    PROVE  Keeps
  <1>1. TypeOK'
    BY PublicationAssumption
    DEF Core, TypeOK, Refuse, Disable, Return, listenVars, Task, Uninit,
        Invalid, Awaits, Job, NoJob, EndTransaction, None
  <1>2. LocksAreHeld'
    BY PublicationAssumption
    DEF Core, LocksAreHeld, TypeOK, Refuse, Disable, Return, listenVars, Task,
        Locked, Guarded, Uninit, Invalid, Awaits, Job, NoJob, EndTransaction,
        None
  <1>3. LockPinsRevision'
    BY PublicationAssumption
    DEF Core, LockPinsRevision, TypeOK, LocksAreHeld, Refuse, Disable, Return,
        listenVars, Task, Confirmed, Uninit, Invalid, Awaits, Job, Locked,
        Guarded, NoJob, EndTransaction, None
  <1>4. CandidatesAreOneRevision'
    BY PublicationAssumption
    DEF Core, CandidatesAreOneRevision, TypeOK, Refuse, Disable, Return,
        listenVars, Task, Preparing, Prepared, Uninit, Invalid, Awaits, Job,
        NoJob, EndTransaction, Confirmed, None
  <1>5. PairInv'
    BY PublicationAssumption
    DEF Core, PairInv, TypeOK, LocksAreHeld, LockPinsRevision,
        CandidatesAreOneRevision, Refuse, Disable, Return, listenVars, Uninit,
        Swapping, Task, Invalid, Awaits, Job, Locked, Guarded, Confirmed,
        Preparing, Prepared, NoJob, EndTransaction, None
  <1>6. EpochInv => EpochInv'
    BY PublicationAssumption
    DEF Core, EpochInv, TypeOK, CandidatesAreOneRevision, Refuse, Disable,
        Return, listenVars, Task, Uninit, Invalid, Awaits, Job, Preparing,
        Prepared, NoJob, EndTransaction, None, Confirmed
  <1>7. ReplyInv'
    BY PublicationAssumption
    DEF Core, ReplyInv, TypeOK, LocksAreHeld, Refuse, Disable, Return,
        listenVars, Task, Preparing, Prepared, Uninit, Invalid, Awaits, Job,
        Locked, Guarded, NoJob, EndTransaction, Confirmed, None
  <1> QED
    BY <1>1, <1>2, <1>3, <1>4, <1>5, <1>6, <1>7 DEF Core, Keeps

\* A reconciliation that succeeds, of a process that runs what was changed.
LEMMA AnswerInv ==
    ASSUME Core, NEW t \in Task, Return(t, TRUE),
           pc[t] \notin Guarded, t \in Admin => change[t] <= installed[home[t]],
           UNCHANGED <<durable, shared, router, policies, applied, epoch, guard,
                       installed, listenVars, faults>>
    PROVE  Keeps
  <1>1. TypeOK'
    BY PublicationAssumption
    DEF Core, TypeOK, Return, listenVars, NoJob, EndTransaction, Task, Uninit,
        Invalid, Awaits, Job, None
  <1>2. LocksAreHeld'
    BY PublicationAssumption
    DEF Core, LocksAreHeld, TypeOK, Return, listenVars, NoJob, EndTransaction,
        Task, Locked, Guarded, Uninit, Invalid, Awaits, Job, None
  <1>3. LockPinsRevision'
    BY PublicationAssumption
    DEF Core, LockPinsRevision, TypeOK, LocksAreHeld, Return, listenVars, NoJob,
        EndTransaction, Task, Confirmed, Uninit, Invalid, Awaits, Job, Locked,
        Guarded, None
  <1>4. CandidatesAreOneRevision'
    BY PublicationAssumption
    DEF Core, CandidatesAreOneRevision, TypeOK, Return, listenVars, NoJob,
        EndTransaction, Task, Preparing, Prepared, Uninit, Invalid, Awaits,
        Job, None, Confirmed
  <1>5. PairInv'
    BY PublicationAssumption
    DEF Core, PairInv, TypeOK, LocksAreHeld, LockPinsRevision,
        CandidatesAreOneRevision, Return, listenVars, NoJob, EndTransaction,
        Uninit, Swapping, Task, Invalid, Awaits, Job, Locked, Guarded,
        Confirmed, Preparing, Prepared, None
  <1>6. EpochInv => EpochInv'
    BY PublicationAssumption
    DEF Core, EpochInv, TypeOK, CandidatesAreOneRevision, Return, listenVars,
        NoJob, EndTransaction, Task, Uninit, Invalid, Awaits, Job, Preparing,
        Prepared, None, Confirmed
  <1>7. ReplyInv'
    BY PublicationAssumption
    DEF Core, ReplyInv, TypeOK, LocksAreHeld, Return, listenVars, NoJob,
        EndTransaction, Task, Preparing, Prepared, Uninit, Invalid, Awaits,
        Job, Locked, Guarded, None, Confirmed
  <1> QED
    BY <1>1, <1>2, <1>3, <1>4, <1>5, <1>6, <1>7 DEF Core, Keeps

-----------------------------------------------------------------------------
(* Changes, and the starts of a reconciliation.                            *)

\* A change of a route.
LEMMA ChangeRouteInv ==
    ASSUME Core, ChangeRoute
    PROVE  Keeps
  <1>1. TypeOK'
    BY PublicationAssumption
    DEF Core, TypeOK, ChangeRoute, Record, processVars, taskVars, Task, Uninit,
        Invalid, Awaits, Job, None
  <1>2. LocksAreHeld'
    BY PublicationAssumption
    DEF Core, LocksAreHeld, TypeOK, ChangeRoute, Record, processVars, taskVars,
        Task, Locked, Guarded, Uninit, Invalid, Awaits, Job, None
  <1>3. LockPinsRevision'
    BY PublicationAssumption
    DEF Core, LockPinsRevision, TypeOK, LocksAreHeld, ChangeRoute, Record,
        processVars, taskVars, Task, Confirmed, Uninit, Invalid, Awaits, Job,
        Locked, Guarded, None
  <1>4. CandidatesAreOneRevision'
    BY PublicationAssumption
    DEF Core, CandidatesAreOneRevision, TypeOK, ChangeRoute, Record,
        processVars, taskVars, Task, Preparing, Prepared, Uninit, Invalid,
        Awaits, Job, Confirmed, None
  <1>5. PairInv'
    BY PublicationAssumption
    DEF Core, PairInv, TypeOK, LocksAreHeld, LockPinsRevision,
        CandidatesAreOneRevision, ChangeRoute, Record, processVars, taskVars,
        Uninit, Swapping, Task, Invalid, Awaits, Job, Locked, Guarded,
        Confirmed, Preparing, Prepared, None
  <1>6. EpochInv => EpochInv'
    BY PublicationAssumption
    DEF Core, EpochInv, TypeOK, CandidatesAreOneRevision, ChangeRoute, Record,
        processVars, taskVars, Task, Uninit, Invalid, Awaits, Job, Preparing,
        Prepared, None, Confirmed
  <1>7. ReplyInv'
    BY PublicationAssumption
    DEF Core, ReplyInv, TypeOK, LocksAreHeld, ChangeRoute, Record, processVars,
        taskVars, Task, Preparing, Prepared, Uninit, Invalid, Awaits, Job,
        Locked, Guarded, Confirmed, None
  <1> QED
    BY <1>1, <1>2, <1>3, <1>4, <1>5, <1>6, <1>7 DEF Core, Keeps

\* A change of a policy, by an admin request.
LEMMA ChangePolicyInv ==
    ASSUME Core, NEW a \in Admin, NEW p \in Process, ChangePolicy(a, p)
    PROVE  Keeps
  <1>1. TypeOK'
    BY PublicationAssumption
    DEF Core, TypeOK, ChangePolicy, Record, Start, None, processVars, Task,
        Uninit, Invalid, Awaits, Job, NoJob
  <1>2. LocksAreHeld'
    BY PublicationAssumption
    DEF Core, LocksAreHeld, TypeOK, ChangePolicy, Record, Start, None,
        processVars, Task, Locked, Guarded, Uninit, Invalid, Awaits, Job, NoJob
  <1>3. LockPinsRevision'
    BY PublicationAssumption
    DEF Core, LockPinsRevision, TypeOK, LocksAreHeld, ChangePolicy, Record,
        Start, None, processVars, Task, Confirmed, Uninit, Invalid, Awaits,
        Job, Locked, Guarded, NoJob
  <1>4. CandidatesAreOneRevision'
    BY PublicationAssumption
    DEF Core, CandidatesAreOneRevision, TypeOK, ChangePolicy, Record, Start,
        None, processVars, Task, Preparing, Prepared, Uninit, Invalid, Awaits,
        Job, NoJob, Confirmed
  <1>5. PairInv'
    BY PublicationAssumption
    DEF Core, PairInv, TypeOK, LocksAreHeld, LockPinsRevision,
        CandidatesAreOneRevision, ChangePolicy, Record, Start, None,
        processVars, Uninit, Swapping, Task, Invalid, Awaits, Job, Locked,
        Guarded, Confirmed, Preparing, Prepared, NoJob
  <1>6. EpochInv => EpochInv'
    BY PublicationAssumption
    DEF Core, EpochInv, TypeOK, CandidatesAreOneRevision, ChangePolicy, Record,
        Start, None, processVars, Task, Uninit, Invalid, Awaits, Job,
        Preparing, Prepared, NoJob, Confirmed
  <1>7. ReplyInv'
    BY PublicationAssumption
    DEF Core, ReplyInv, TypeOK, LocksAreHeld, ChangePolicy, Record, Start, None,
        processVars, Task, Preparing, Prepared, Uninit, Invalid, Awaits, Job,
        Locked, Guarded, NoJob, Confirmed
  <1> QED
    BY <1>1, <1>2, <1>3, <1>4, <1>5, <1>6, <1>7 DEF Core, Keeps

\* The first reconciliation of a process.
LEMMA InitializeInv ==
    ASSUME Core, NEW p \in Process, Initialize(p)
    PROVE  Keeps
  <1>1. TypeOK'
    BY PublicationAssumption
    DEF Core, TypeOK, Initialize, Start, None, processVars, listenVars, Task,
        Uninit, Invalid, Awaits, Job, NoJob
  <1>2. LocksAreHeld'
    BY PublicationAssumption
    DEF Core, LocksAreHeld, TypeOK, Initialize, Start, None, processVars,
        listenVars, Task, Locked, Guarded, Uninit, Invalid, Awaits, Job, NoJob
  <1>3. LockPinsRevision'
    BY PublicationAssumption
    DEF Core, LockPinsRevision, TypeOK, LocksAreHeld, Initialize, Start, None,
        processVars, listenVars, Task, Confirmed, Uninit, Invalid, Awaits, Job,
        Locked, Guarded, NoJob
  <1>4. CandidatesAreOneRevision'
    BY PublicationAssumption
    DEF Core, CandidatesAreOneRevision, TypeOK, Initialize, Start, None,
        processVars, listenVars, Task, Preparing, Prepared, Uninit, Invalid,
        Awaits, Job, NoJob, Confirmed
  <1>5. PairInv'
    BY PublicationAssumption
    DEF Core, PairInv, TypeOK, LocksAreHeld, LockPinsRevision,
        CandidatesAreOneRevision, Initialize, Start, None, processVars,
        listenVars, Uninit, Swapping, Task, Invalid, Awaits, Job, Locked,
        Guarded, Confirmed, Preparing, Prepared, NoJob
  <1>6. EpochInv => EpochInv'
    BY PublicationAssumption
    DEF Core, EpochInv, TypeOK, CandidatesAreOneRevision, Initialize, Start,
        None, processVars, listenVars, Task, Uninit, Invalid, Awaits, Job,
        Preparing, Prepared, NoJob, Confirmed
  <1>7. ReplyInv'
    BY PublicationAssumption
    DEF Core, ReplyInv, TypeOK, LocksAreHeld, Initialize, Start, None,
        processVars, listenVars, Task, Preparing, Prepared, Uninit, Invalid,
        Awaits, Job, Locked, Guarded, NoJob, Confirmed
  <1> QED
    BY <1>1, <1>2, <1>3, <1>4, <1>5, <1>6, <1>7 DEF Core, Keeps

\* A listener that connects.
LEMMA ConnectInv ==
    ASSUME Core, NEW p \in Process, Connect(p)
    PROVE  Keeps
  <1>1. TypeOK'
    BY PublicationAssumption
    DEF Core, TypeOK, Connect, Start, None, processVars, Task, Uninit, Invalid,
        Awaits, Job, NoJob
  <1>2. LocksAreHeld'
    BY PublicationAssumption
    DEF Core, LocksAreHeld, TypeOK, Connect, Start, None, processVars, Task,
        Locked, Guarded, Uninit, Invalid, Awaits, Job, NoJob
  <1>3. LockPinsRevision'
    BY PublicationAssumption
    DEF Core, LockPinsRevision, TypeOK, LocksAreHeld, Connect, Start, None,
        processVars, Task, Confirmed, Uninit, Invalid, Awaits, Job, Locked,
        Guarded, NoJob
  <1>4. CandidatesAreOneRevision'
    BY PublicationAssumption
    DEF Core, CandidatesAreOneRevision, TypeOK, Connect, Start, None,
        processVars, Task, Preparing, Prepared, Uninit, Invalid, Awaits, Job,
        NoJob, Confirmed
  <1>5. PairInv'
    BY PublicationAssumption
    DEF Core, PairInv, TypeOK, LocksAreHeld, LockPinsRevision,
        CandidatesAreOneRevision, Connect, Start, None, processVars, Uninit,
        Swapping, Task, Invalid, Awaits, Job, Locked, Guarded, Confirmed,
        Preparing, Prepared, NoJob
  <1>6. EpochInv => EpochInv'
    BY PublicationAssumption
    DEF Core, EpochInv, TypeOK, CandidatesAreOneRevision, Connect, Start, None,
        processVars, Task, Uninit, Invalid, Awaits, Job, Preparing, Prepared,
        NoJob, Confirmed
  <1>7. ReplyInv'
    BY PublicationAssumption
    DEF Core, ReplyInv, TypeOK, LocksAreHeld, Connect, Start, None, processVars,
        Task, Preparing, Prepared, Uninit, Invalid, Awaits, Job, Locked,
        Guarded, NoJob, Confirmed
  <1> QED
    BY <1>1, <1>2, <1>3, <1>4, <1>5, <1>6, <1>7 DEF Core, Keeps

\* A notification.
LEMMA NotifiedInv ==
    ASSUME Core, NEW p \in Process, Notified(p)
    PROVE  Keeps
  <1>1. TypeOK'
    BY SMTT(60), PublicationAssumption
    DEF Core, TypeOK, Notified, Start, processVars, Task, Uninit, Invalid,
        Awaits, Job, NoJob, None
  <1>2. LocksAreHeld'
    BY PublicationAssumption
    DEF Core, LocksAreHeld, TypeOK, Notified, Start, processVars, Task, Locked,
        Guarded, Uninit, Invalid, Awaits, Job, NoJob, None
  <1>3. LockPinsRevision'
    BY PublicationAssumption
    DEF Core, LockPinsRevision, TypeOK, LocksAreHeld, Notified, Start,
        processVars, Task, Confirmed, Uninit, Invalid, Awaits, Job, Locked,
        Guarded, NoJob, None
  <1>4. CandidatesAreOneRevision'
    BY PublicationAssumption
    DEF Core, CandidatesAreOneRevision, TypeOK, Notified, Start, processVars,
        Task, Preparing, Prepared, Uninit, Invalid, Awaits, Job, NoJob,
        Confirmed, None
  <1>5. PairInv'
    BY PublicationAssumption
    DEF Core, PairInv, TypeOK, LocksAreHeld, LockPinsRevision,
        CandidatesAreOneRevision, Notified, Start, processVars, Uninit,
        Swapping, Task, Invalid, Awaits, Job, Locked, Guarded, Confirmed,
        Preparing, Prepared, NoJob, None
  <1>6. EpochInv => EpochInv'
    BY PublicationAssumption
    DEF Core, EpochInv, TypeOK, CandidatesAreOneRevision, Notified, Start,
        processVars, Task, Uninit, Invalid, Awaits, Job, Preparing, Prepared,
        NoJob, None, Confirmed
  <1>7. ReplyInv'
    BY PublicationAssumption
    DEF Core, ReplyInv, TypeOK, LocksAreHeld, Notified, Start, processVars,
        Task, Preparing, Prepared, Uninit, Invalid, Awaits, Job, Locked,
        Guarded, NoJob, Confirmed, None
  <1> QED
    BY <1>1, <1>2, <1>3, <1>4, <1>5, <1>6, <1>7 DEF Core, Keeps

\* The timer of a listener.
LEMMA RetryInv ==
    ASSUME Core, NEW p \in Process, Retry(p)
    PROVE  Keeps
  <1>1. TypeOK'
    BY PublicationAssumption
    DEF Core, TypeOK, Retry, Start, None, processVars, listenVars, Task, Uninit,
        Invalid, Awaits, Job, NoJob
  <1>2. LocksAreHeld'
    BY PublicationAssumption
    DEF Core, LocksAreHeld, TypeOK, Retry, Start, None, processVars, listenVars,
        Task, Locked, Guarded, Uninit, Invalid, Awaits, Job, NoJob
  <1>3. LockPinsRevision'
    BY PublicationAssumption
    DEF Core, LockPinsRevision, TypeOK, LocksAreHeld, Retry, Start, None,
        processVars, listenVars, Task, Confirmed, Uninit, Invalid, Awaits, Job,
        Locked, Guarded, NoJob
  <1>4. CandidatesAreOneRevision'
    BY PublicationAssumption
    DEF Core, CandidatesAreOneRevision, TypeOK, Retry, Start, None, processVars,
        listenVars, Task, Preparing, Prepared, Uninit, Invalid, Awaits, Job,
        NoJob, Confirmed
  <1>5. PairInv'
    BY PublicationAssumption
    DEF Core, PairInv, TypeOK, LocksAreHeld, LockPinsRevision,
        CandidatesAreOneRevision, Retry, Start, None, processVars, listenVars,
        Uninit, Swapping, Task, Invalid, Awaits, Job, Locked, Guarded,
        Confirmed, Preparing, Prepared, NoJob
  <1>6. EpochInv => EpochInv'
    BY PublicationAssumption
    DEF Core, EpochInv, TypeOK, CandidatesAreOneRevision, Retry, Start, None,
        processVars, listenVars, Task, Uninit, Invalid, Awaits, Job, Preparing,
        Prepared, NoJob, Confirmed
  <1>7. ReplyInv'
    BY PublicationAssumption
    DEF Core, ReplyInv, TypeOK, LocksAreHeld, Retry, Start, None, processVars,
        listenVars, Task, Preparing, Prepared, Uninit, Invalid, Awaits, Job,
        Locked, Guarded, NoJob, Confirmed
  <1> QED
    BY <1>1, <1>2, <1>3, <1>4, <1>5, <1>6, <1>7 DEF Core, Keeps

-----------------------------------------------------------------------------
(* prepare_configuration.                                                  *)

\* A revision is read, and is not current.
LEMMA BeginInv ==
    ASSUME Core, NEW t \in Task, NEW await \in {"fence", "routes"},
           pc[t] = "read", Local(t, await),
           job' = [job EXCEPT ![t].rev = durable, ![t].seen = applied[home[t]]]
    PROVE  Keeps
  <1>1. TypeOK'
    <2>0. /\ job[t] \in Job /\ durable \in Nat
          /\ applied[home[t]] \in Nat \cup {Uninit}
      BY DEF Core, TypeOK
    <2>1. [job[t] EXCEPT !.rev = durable, !.seen = applied[home[t]]] \in Job
      BY <2>0 DEF Job
    <2>2. job' \in [Task -> Job]
      BY <2>1 DEF Core, TypeOK
    <2> QED
      BY <2>2 DEF Core, TypeOK, Local, Goto, Awaits, processVars, listenVars
  <1>2. LocksAreHeld'
    BY PublicationAssumption
    DEF Core, LocksAreHeld, TypeOK, Local, Goto, processVars, listenVars, Task,
        Locked, Guarded, Uninit, Invalid, Awaits, Job, None
  <1>3. LockPinsRevision'
    BY PublicationAssumption
    DEF Core, LockPinsRevision, TypeOK, LocksAreHeld, Local, Goto, processVars,
        listenVars, Task, Confirmed, Uninit, Invalid, Awaits, Job, Locked,
        Guarded, None
  <1>4. CandidatesAreOneRevision'
    BY PublicationAssumption
    DEF Core, CandidatesAreOneRevision, TypeOK, Local, Goto, processVars,
        listenVars, Task, Preparing, Prepared, Uninit, Invalid, Awaits, Job,
        Confirmed, None
  <1>5. PairInv'
    BY PublicationAssumption
    DEF Core, PairInv, TypeOK, LocksAreHeld, LockPinsRevision,
        CandidatesAreOneRevision, Local, Goto, processVars, listenVars, Uninit,
        Swapping, Task, Invalid, Awaits, Job, Locked, Guarded, Confirmed,
        Preparing, Prepared, None
  <1>6. EpochInv => EpochInv'
    BY PublicationAssumption
    DEF Core, EpochInv, TypeOK, CandidatesAreOneRevision, Local, Goto,
        processVars, listenVars, Task, Uninit, Invalid, Awaits, Job, Preparing,
        Prepared, None, Confirmed
  <1>7. ReplyInv'
    <2>1. /\ \A u \in Task : u # t => job'[u] = job[u] /\ pc'[u] = pc[u]
          /\ job'[t].rev = durable /\ job'[t].seen = applied[home[t]]
          /\ UNCHANGED <<durable, change, reply, installed, home>>
          /\ pc'[t] \in {"fence", "routes"}
      BY DEF Core, TypeOK, Local, Goto, processVars, Job
    <2>2. \A u \in Task : pc'[u] = "fence" => job'[u].seen <= installed'[home'[u]]
      <3>1. \A u \in Task : u # t /\ pc'[u] = "fence" => job'[u].seen <= installed'[home'[u]]
        BY <2>1 DEF Core, ReplyInv
      <3>2. home[t] \in Process /\ applied[home[t]] <= installed[home[t]]
        BY DEF Core, PairInv, TypeOK, Uninit
      <3> QED
        BY <2>1, <3>1, <3>2
    <2>3. \A a \in Admin :
             /\ change'[a] <= durable'
             /\ pc'[a] \in Preparing \cup Prepared => change'[a] <= job'[a].rev
             /\ pc'[a] = "commit" => change'[a] <= installed'[home'[a]]
             /\ reply'[a] = "reloaded" => change'[a] <= installed'[home'[a]]
             /\ pc'[a] # "idle" => reply'[a] = "none"
      BY <2>1 DEF Core, ReplyInv, Task, Preparing, Prepared
    <2> QED
      BY <2>2, <2>3 DEF ReplyInv
  <1> QED
    BY <1>1, <1>2, <1>3, <1>4, <1>5, <1>6, <1>7 DEF Core, Keeps

\* The fence is not current.
LEMMA NotCurrentInv ==
    ASSUME Core, NEW t \in Task, pc[t] = "fence", pc' = [pc EXCEPT ![t] = "routes"],
           UNCHANGED <<durable, lock, shared, processVars, listenVars, home, job,
                       change, reply, faults>>
    PROVE  Keeps
  <1>1. TypeOK'
    BY PublicationAssumption
    DEF Core, TypeOK, processVars, listenVars, Task, Uninit, Invalid, Awaits,
        Job, None
  <1>2. LocksAreHeld'
    BY PublicationAssumption
    DEF Core, LocksAreHeld, TypeOK, processVars, listenVars, Task, Locked,
        Guarded, Uninit, Invalid, Awaits, Job, None
  <1>3. LockPinsRevision'
    BY PublicationAssumption
    DEF Core, LockPinsRevision, TypeOK, LocksAreHeld, processVars, listenVars,
        Task, Confirmed, Uninit, Invalid, Awaits, Job, Locked, Guarded, None
  <1>4. CandidatesAreOneRevision'
    BY PublicationAssumption
    DEF Core, CandidatesAreOneRevision, TypeOK, processVars, listenVars, Task,
        Preparing, Prepared, Uninit, Invalid, Awaits, Job, Confirmed, None
  <1>5. PairInv'
    BY PublicationAssumption
    DEF Core, PairInv, TypeOK, LocksAreHeld, LockPinsRevision,
        CandidatesAreOneRevision, processVars, listenVars, Uninit, Swapping,
        Task, Invalid, Awaits, Job, Locked, Guarded, Confirmed, Preparing,
        Prepared, None
  <1>6. EpochInv => EpochInv'
    BY PublicationAssumption
    DEF Core, EpochInv, TypeOK, CandidatesAreOneRevision, processVars,
        listenVars, Task, Uninit, Invalid, Awaits, Job, Preparing, Prepared,
        None, Confirmed
  <1>7. ReplyInv'
    BY PublicationAssumption
    DEF Core, ReplyInv, TypeOK, LocksAreHeld, processVars, listenVars, Task,
        Preparing, Prepared, Uninit, Invalid, Awaits, Job, Locked, Guarded,
        Confirmed, None
  <1> QED
    BY <1>1, <1>2, <1>3, <1>4, <1>5, <1>6, <1>7 DEF Core, Keeps

\* The first load.
LEMMA RoutesLoadedInv ==
    ASSUME Core, NEW t \in Task, pc[t] = "routes", Local(t, "policies"),
           job' = [job EXCEPT ![t].routes = durable]
    PROVE  Keeps
  <1>1. TypeOK'
    <2>1. [job[t] EXCEPT !.routes = durable] \in Job
      BY ZenonT(60) DEF Core, TypeOK, Job
    <2>2. job' \in [Task -> Job]
      BY <2>1 DEF Core, TypeOK
    <2> QED
      BY <2>2 DEF Core, TypeOK, Local, Goto, Awaits, processVars, listenVars
  <1>2. LocksAreHeld'
    BY PublicationAssumption
    DEF Core, LocksAreHeld, TypeOK, Local, Goto, processVars, listenVars, Task,
        Locked, Guarded, Uninit, Invalid, Awaits, Job, None
  <1>3. LockPinsRevision'
    BY PublicationAssumption
    DEF Core, LockPinsRevision, TypeOK, LocksAreHeld, Local, Goto, processVars,
        listenVars, Task, Confirmed, Uninit, Invalid, Awaits, Job, Locked,
        Guarded, None
  <1>4. CandidatesAreOneRevision'
    BY PublicationAssumption
    DEF Core, CandidatesAreOneRevision, TypeOK, Local, Goto, processVars,
        listenVars, Task, Preparing, Prepared, Uninit, Invalid, Awaits, Job,
        Confirmed, None
  <1>5. PairInv'
    BY PublicationAssumption
    DEF Core, PairInv, TypeOK, LocksAreHeld, LockPinsRevision,
        CandidatesAreOneRevision, Local, Goto, processVars, listenVars, Uninit,
        Swapping, Task, Invalid, Awaits, Job, Locked, Guarded, Confirmed,
        Preparing, Prepared, None
  <1>6. EpochInv => EpochInv'
    BY PublicationAssumption
    DEF Core, EpochInv, TypeOK, CandidatesAreOneRevision, Local, Goto,
        processVars, listenVars, Task, Uninit, Invalid, Awaits, Job, Preparing,
        Prepared, None, Confirmed
  <1>7. ReplyInv'
    BY PublicationAssumption
    DEF Core, ReplyInv, TypeOK, LocksAreHeld, Local, Goto, processVars,
        listenVars, Task, Preparing, Prepared, Uninit, Invalid, Awaits, Job,
        Locked, Guarded, Confirmed, None
  <1> QED
    BY <1>1, <1>2, <1>3, <1>4, <1>5, <1>6, <1>7 DEF Core, Keeps

\* A fence without configuration state.
LEMMA MissFenceInv ==
    ASSUME Core, NEW t \in Task, MissFence(t)
    PROVE  Keeps
  <1>1. TypeOK'
    BY PublicationAssumption
    DEF Core, TypeOK, MissFence, Local, Task, Uninit, Invalid, Awaits, Job,
        Goto, processVars, listenVars, None
  <1>2. LocksAreHeld'
    BY PublicationAssumption
    DEF Core, LocksAreHeld, TypeOK, MissFence, Local, Task, Locked, Guarded,
        Uninit, Invalid, Awaits, Job, Goto, processVars, listenVars, None
  <1>3. LockPinsRevision'
    BY PublicationAssumption
    DEF Core, LockPinsRevision, TypeOK, LocksAreHeld, MissFence, Local, Task,
        Confirmed, Uninit, Invalid, Awaits, Job, Locked, Guarded, Goto,
        processVars, listenVars, None
  <1>4. CandidatesAreOneRevision'
    BY PublicationAssumption
    DEF Core, CandidatesAreOneRevision, TypeOK, MissFence, Local, Task,
        Preparing, Prepared, Uninit, Invalid, Awaits, Job, Goto, processVars,
        listenVars, Confirmed, None
  <1>5. PairInv'
    BY PublicationAssumption
    DEF Core, PairInv, TypeOK, LocksAreHeld, LockPinsRevision,
        CandidatesAreOneRevision, MissFence, Local, Uninit, Swapping, Task,
        Invalid, Awaits, Job, Locked, Guarded, Confirmed, Preparing, Prepared,
        Goto, processVars, listenVars, None
  <1>6. EpochInv => EpochInv'
    BY PublicationAssumption
    DEF Core, EpochInv, TypeOK, CandidatesAreOneRevision, MissFence, Local,
        Task, Uninit, Invalid, Awaits, Job, Preparing, Prepared, Goto,
        processVars, listenVars, None, Confirmed
  <1>7. ReplyInv'
    BY PublicationAssumption
    DEF Core, ReplyInv, TypeOK, LocksAreHeld, MissFence, Local, Task, Preparing,
        Prepared, Uninit, Invalid, Awaits, Job, Locked, Guarded, Goto,
        processVars, listenVars, Confirmed, None
  <1> QED
    BY <1>1, <1>2, <1>3, <1>4, <1>5, <1>6, <1>7 DEF Core, Keeps

\* The second load.
LEMMA LoadPoliciesInv ==
    ASSUME Core, NEW t \in Task, LoadPolicies(t)
    PROVE  Keeps
  <1>1. TypeOK'
    <2>1. [job[t] EXCEPT !.policies = durable] \in Job
      BY ZenonT(60) DEF Core, TypeOK, Job
    <2>2. job' \in [Task -> Job]
      BY <2>1 DEF Core, TypeOK, LoadPolicies
    <2> QED
      BY <2>2 DEF Core, TypeOK, LoadPolicies, Local, Goto, Awaits, processVars,
                  listenVars
  <1>2. LocksAreHeld'
    BY PublicationAssumption
    DEF Core, LocksAreHeld, TypeOK, LoadPolicies, Local, Task, Locked, Guarded,
        Uninit, Invalid, Awaits, Job, Goto, processVars, listenVars, None
  <1>3. LockPinsRevision'
    BY PublicationAssumption
    DEF Core, LockPinsRevision, TypeOK, LocksAreHeld, LoadPolicies, Local, Task,
        Confirmed, Uninit, Invalid, Awaits, Job, Locked, Guarded, Goto,
        processVars, listenVars, None
  <1>4. CandidatesAreOneRevision'
    BY PublicationAssumption
    DEF Core, CandidatesAreOneRevision, TypeOK, LoadPolicies, Local, Task,
        Preparing, Prepared, Uninit, Invalid, Awaits, Job, Goto, processVars,
        listenVars, Confirmed, None
  <1>5. PairInv'
    BY PublicationAssumption
    DEF Core, PairInv, TypeOK, LocksAreHeld, LockPinsRevision,
        CandidatesAreOneRevision, LoadPolicies, Local, Uninit, Swapping, Task,
        Invalid, Awaits, Job, Locked, Guarded, Confirmed, Preparing, Prepared,
        Goto, processVars, listenVars, None
  <1>6. EpochInv => EpochInv'
    BY PublicationAssumption
    DEF Core, EpochInv, TypeOK, CandidatesAreOneRevision, LoadPolicies, Local,
        Task, Uninit, Invalid, Awaits, Job, Preparing, Prepared, Goto,
        processVars, listenVars, None, Confirmed
  <1>7. ReplyInv'
    BY PublicationAssumption
    DEF Core, ReplyInv, TypeOK, LocksAreHeld, LoadPolicies, Local, Task,
        Preparing, Prepared, Uninit, Invalid, Awaits, Job, Locked, Guarded,
        Goto, processVars, listenVars, Confirmed, None
  <1> QED
    BY <1>1, <1>2, <1>3, <1>4, <1>5, <1>6, <1>7 DEF Core, Keeps

-----------------------------------------------------------------------------
(* Publication.                                                            *)

\* The revision is confirmed, by a reading that equals the first.
LEMMA ConfirmedInv ==
    ASSUME Core, NEW t \in Task, durable = job[t].rev, UNCHANGED job,
           \/ pc[t] = "confirm" /\ Local(t, "lock")
           \/ pc[t] = "under_lock" /\ Local(t, "guard")
    PROVE  Keeps
  <1>0. pc[t] = "confirm" =>
            job[t].routes = job[t].rev /\ job[t].policies = job[t].rev
    <2>1. /\ job[t].rev \in Nat /\ job[t].routes \in Nat
          /\ job[t].policies \in Nat
      BY DEF Core, TypeOK, Job
    <2>2. pc[t] = "confirm" =>
              /\ job[t].rev <= job[t].routes
              /\ job[t].routes <= job[t].policies
              /\ job[t].policies <= durable
      BY DEF Core, CandidatesAreOneRevision
    <2> QED  BY <2>1, <2>2
  <1>a. /\ \/ pc[t] = "confirm" /\ pc' = [pc EXCEPT ![t] = "lock"]
           \/ pc[t] = "under_lock" /\ pc' = [pc EXCEPT ![t] = "guard"]
        /\ UNCHANGED <<durable, router, policies, applied, installed, home, job,
                       change, reply>>
    BY DEF Local, Goto, processVars
  <1>1. TypeOK'
    BY PublicationAssumption
    DEF Core, TypeOK, Local, Goto, processVars, listenVars, Task, Uninit,
        Invalid, Awaits, Job, None
  <1>2. LocksAreHeld'
    BY PublicationAssumption
    DEF Core, LocksAreHeld, TypeOK, Local, Goto, processVars, listenVars, Task,
        Locked, Guarded, Uninit, Invalid, Awaits, Job, None
  <1>3. LockPinsRevision'
    BY PublicationAssumption
    DEF Core, LockPinsRevision, TypeOK, LocksAreHeld, Local, Goto, processVars,
        listenVars, Task, Confirmed, Uninit, Invalid, Awaits, Job, Locked,
        Guarded, None
  <1>4. CandidatesAreOneRevision'
    BY <1>0, <1>a
    DEF Core, TypeOK, CandidatesAreOneRevision, Preparing, Prepared, Confirmed
  <1>5. PairInv'
    BY <1>a DEF Core, TypeOK, PairInv, Swapping
  <1>6. EpochInv => EpochInv'
    BY PublicationAssumption
    DEF Core, EpochInv, TypeOK, CandidatesAreOneRevision, Local, Goto,
        processVars, listenVars, Task, Uninit, Invalid, Awaits, Job, Preparing,
        Prepared, None, Confirmed
  <1>7. ReplyInv'
    BY <1>a
    DEF Core, TypeOK, ReplyInv, Preparing, Prepared, Confirmed, Task
  <1> QED
    BY <1>1, <1>2, <1>3, <1>4, <1>5, <1>6, <1>7 DEF Core, Keeps

\* The fence is read back.
LEMMA ConfirmPublishedInv ==
    ASSUME Core, NEW t \in Task, ConfirmPublished(t)
    PROVE  Keeps
  <1>0. /\ pc[t] = "published"
        /\ \/ pc' = [pc EXCEPT ![t] = "router"]
           \/ pc' = [pc EXCEPT ![t] = "disable"]
        /\ UNCHANGED <<durable, router, policies, applied, installed, home, job,
                       change, reply>>
    BY DEF ConfirmPublished, Local, Goto, processVars
  <1>1. TypeOK'
    BY ZenonT(60), PublicationAssumption
    DEF Core, TypeOK, ConfirmPublished, Local, DropGuard, Goto, listenVars,
        Task, Uninit, Invalid, Awaits, Job, processVars, None
  <1>2. LocksAreHeld'
    BY PublicationAssumption
    DEF Core, LocksAreHeld, TypeOK, ConfirmPublished, Local, DropGuard, Goto,
        listenVars, Task, Locked, Guarded, Uninit, Invalid, Awaits, Job,
        processVars, None
  <1>3. LockPinsRevision'
    BY PublicationAssumption
    DEF Core, LockPinsRevision, TypeOK, LocksAreHeld, ConfirmPublished, Local,
        DropGuard, Goto, listenVars, Task, Confirmed, Uninit, Invalid, Awaits,
        Job, Locked, Guarded, processVars, None
  <1>4. CandidatesAreOneRevision'
    BY PublicationAssumption
    DEF Core, CandidatesAreOneRevision, TypeOK, ConfirmPublished, Local,
        DropGuard, Goto, listenVars, Task, Preparing, Prepared, Uninit,
        Invalid, Awaits, Job, processVars, Confirmed, None
  <1>5. PairInv'
    BY <1>0 DEF Core, TypeOK, PairInv, Swapping
  <1>6. EpochInv => EpochInv'
    BY PublicationAssumption
    DEF Core, EpochInv, TypeOK, CandidatesAreOneRevision, ConfirmPublished,
        Local, DropGuard, Goto, listenVars, Task, Uninit, Invalid, Awaits, Job,
        Preparing, Prepared, processVars, None, Confirmed
  <1>7. ReplyInv'
    BY <1>0
    DEF Core, TypeOK, ReplyInv, Preparing, Prepared, Confirmed, Task
  <1> QED
    BY <1>1, <1>2, <1>3, <1>4, <1>5, <1>6, <1>7 DEF Core, Keeps

\* The advisory lock is taken.
LEMMA TakeLockInv ==
    ASSUME Core, NEW t \in Task, TakeLock(t)
    PROVE  Keeps
  <1>1. TypeOK'
    BY PublicationAssumption
    DEF Core, TypeOK, TakeLock, Goto, processVars, listenVars, Task, Uninit,
        Invalid, Awaits, Job, None
  <1>2. LocksAreHeld'
    BY PublicationAssumption
    DEF Core, LocksAreHeld, TypeOK, TakeLock, Goto, processVars, listenVars,
        Task, Locked, Guarded, Uninit, Invalid, Awaits, Job, None
  <1>3. LockPinsRevision'
    BY PublicationAssumption
    DEF Core, LockPinsRevision, TypeOK, LocksAreHeld, TakeLock, Goto,
        processVars, listenVars, Task, Confirmed, Uninit, Invalid, Awaits, Job,
        Locked, Guarded, None
  <1>4. CandidatesAreOneRevision'
    BY PublicationAssumption
    DEF Core, CandidatesAreOneRevision, TypeOK, TakeLock, Goto, processVars,
        listenVars, Task, Preparing, Prepared, Uninit, Invalid, Awaits, Job,
        Confirmed, None
  <1>5. PairInv'
    BY PublicationAssumption
    DEF Core, PairInv, TypeOK, LocksAreHeld, LockPinsRevision,
        CandidatesAreOneRevision, TakeLock, Goto, processVars, listenVars,
        Uninit, Swapping, Task, Invalid, Awaits, Job, Locked, Guarded,
        Confirmed, Preparing, Prepared, None
  <1>6. EpochInv => EpochInv'
    BY PublicationAssumption
    DEF Core, EpochInv, TypeOK, CandidatesAreOneRevision, TakeLock, Goto,
        processVars, listenVars, Task, Uninit, Invalid, Awaits, Job, Preparing,
        Prepared, None, Confirmed
  <1>7. ReplyInv'
    BY PublicationAssumption
    DEF Core, ReplyInv, TypeOK, LocksAreHeld, TakeLock, Goto, processVars,
        listenVars, Task, Preparing, Prepared, Uninit, Invalid, Awaits, Job,
        Locked, Guarded, Confirmed, None
  <1> QED
    BY <1>1, <1>2, <1>3, <1>4, <1>5, <1>6, <1>7 DEF Core, Keeps

\* The guard is taken.
LEMMA TakeGuardInv ==
    ASSUME Core, NEW t \in Task, TakeGuard(t)
    PROVE  Keeps
  <1>1. TypeOK'
    BY PublicationAssumption
    DEF Core, TypeOK, TakeGuard, Goto, listenVars, Task, Uninit, Invalid,
        Awaits, Job, None
  <1>2. LocksAreHeld'
    BY PublicationAssumption
    DEF Core, LocksAreHeld, TypeOK, TakeGuard, Goto, listenVars, Task, Locked,
        Guarded, Uninit, Invalid, Awaits, Job, None
  <1>3. LockPinsRevision'
    BY PublicationAssumption
    DEF Core, LockPinsRevision, TypeOK, LocksAreHeld, TakeGuard, Goto,
        listenVars, Task, Confirmed, Uninit, Invalid, Awaits, Job, Locked,
        Guarded, None
  <1>4. CandidatesAreOneRevision'
    BY PublicationAssumption
    DEF Core, CandidatesAreOneRevision, TypeOK, TakeGuard, Goto, listenVars,
        Task, Preparing, Prepared, Uninit, Invalid, Awaits, Job, Confirmed,
        None
  <1>5. PairInv'
    BY PublicationAssumption
    DEF Core, PairInv, TypeOK, LocksAreHeld, LockPinsRevision,
        CandidatesAreOneRevision, TakeGuard, Goto, listenVars, Uninit,
        Swapping, Task, Invalid, Awaits, Job, Locked, Guarded, Confirmed,
        Preparing, Prepared, None
  <1>6. EpochInv => EpochInv'
    BY PublicationAssumption
    DEF Core, EpochInv, TypeOK, CandidatesAreOneRevision, TakeGuard, Goto,
        listenVars, Task, Uninit, Invalid, Awaits, Job, Preparing, Prepared,
        None, Confirmed
  <1>7. ReplyInv'
    BY PublicationAssumption
    DEF Core, ReplyInv, TypeOK, LocksAreHeld, TakeGuard, Goto, listenVars, Task,
        Preparing, Prepared, Uninit, Invalid, Awaits, Job, Locked, Guarded,
        Confirmed, None
  <1> QED
    BY <1>1, <1>2, <1>3, <1>4, <1>5, <1>6, <1>7 DEF Core, Keeps

\* The shared epoch moves, and that of the process with it.
LEMMA AdvanceEpochInv ==
    ASSUME Core, NEW t \in Task, AdvanceEpoch(t)
    PROVE  Keeps
  <1>0. /\ Fenced => shared' = Advanced(job[t].rev)
        /\ shared' \in [present : BOOLEAN, rev : Nat, epoch : Nat]
        /\ shared.rev <= shared'.rev
    <2>1. job[t].rev \in Nat
      BY DEF Core, TypeOK, Job
    <2> QED
      BY <2>1, AdvancedType DEF Core, TypeOK, AdvanceEpoch
  <1>1. TypeOK'
    <2>1. epoch' \in [Process -> Nat \cup {Uninit, Invalid}]
      BY <1>0 DEF Core, TypeOK, AdvanceEpoch
    <2> QED
      BY <1>0, <2>1 DEF Core, TypeOK, AdvanceEpoch, Goto, Awaits, listenVars
  <1>2. LocksAreHeld'
    BY PublicationAssumption
    DEF Core, LocksAreHeld, TypeOK, AdvanceEpoch, AdvanceAccepts, Advanced,
        Goto, listenVars, Task, Locked, Guarded, Uninit, Invalid, Awaits, Job,
        None
  <1>3. LockPinsRevision'
    BY PublicationAssumption
    DEF Core, LockPinsRevision, TypeOK, LocksAreHeld, AdvanceEpoch,
        AdvanceAccepts, Advanced, Goto, listenVars, Task, Confirmed, Uninit,
        Invalid, Awaits, Job, Locked, Guarded, None
  <1>4. CandidatesAreOneRevision'
    BY PublicationAssumption
    DEF Core, CandidatesAreOneRevision, TypeOK, AdvanceEpoch, AdvanceAccepts,
        Advanced, Goto, listenVars, Task, Preparing, Prepared, Uninit, Invalid,
        Awaits, Job, Confirmed, None
  <1>5. PairInv'
    BY PublicationAssumption
    DEF Core, PairInv, TypeOK, LocksAreHeld, LockPinsRevision,
        CandidatesAreOneRevision, AdvanceEpoch, AdvanceAccepts, Advanced, Goto,
        listenVars, Uninit, Swapping, Task, Invalid, Awaits, Job, Locked,
        Guarded, Confirmed, Preparing, Prepared, None
  <1>6. EpochInv => EpochInv'
    BY <1>0
    DEF Core, EpochInv, TypeOK, AdvanceEpoch, Goto, Job
  <1>7. ReplyInv'
    BY PublicationAssumption
    DEF Core, ReplyInv, TypeOK, LocksAreHeld, AdvanceEpoch, AdvanceAccepts,
        Advanced, Goto, listenVars, Task, Preparing, Prepared, Uninit, Invalid,
        Awaits, Job, Locked, Guarded, Confirmed, None
  <1> QED
    BY <1>1, <1>2, <1>3, <1>4, <1>5, <1>6, <1>7 DEF Core, Keeps

\* The script refuses.
LEMMA AdvanceRefusedInv ==
    ASSUME Core, NEW t \in Task, AdvanceRefused(t)
    PROVE  Keeps
  <1>1. TypeOK'
    BY PublicationAssumption
    DEF Core, TypeOK, AdvanceRefused, AdvanceAccepts, Invalid, DropGuard, Goto,
        listenVars, Task, Uninit, Awaits, Job, Advanced, None
  <1>2. LocksAreHeld'
    BY PublicationAssumption
    DEF Core, LocksAreHeld, TypeOK, AdvanceRefused, AdvanceAccepts, Invalid,
        DropGuard, Goto, listenVars, Task, Locked, Guarded, Uninit, Awaits,
        Job, Advanced, None
  <1>3. LockPinsRevision'
    BY PublicationAssumption
    DEF Core, LockPinsRevision, TypeOK, LocksAreHeld, AdvanceRefused,
        AdvanceAccepts, Invalid, DropGuard, Goto, listenVars, Task, Confirmed,
        Uninit, Awaits, Job, Locked, Guarded, Advanced, None
  <1>4. CandidatesAreOneRevision'
    BY PublicationAssumption
    DEF Core, CandidatesAreOneRevision, TypeOK, AdvanceRefused, AdvanceAccepts,
        Invalid, DropGuard, Goto, listenVars, Task, Preparing, Prepared,
        Uninit, Awaits, Job, Advanced, Confirmed, None
  <1>5. PairInv'
    BY PublicationAssumption
    DEF Core, PairInv, TypeOK, LocksAreHeld, LockPinsRevision,
        CandidatesAreOneRevision, AdvanceRefused, AdvanceAccepts, Invalid,
        DropGuard, Goto, listenVars, Uninit, Swapping, Task, Awaits, Job,
        Locked, Guarded, Confirmed, Preparing, Prepared, Advanced, None
  <1>6. EpochInv => EpochInv'
    BY PublicationAssumption
    DEF Core, EpochInv, TypeOK, CandidatesAreOneRevision, AdvanceRefused,
        AdvanceAccepts, Invalid, DropGuard, Goto, listenVars, Task, Uninit,
        Awaits, Job, Preparing, Prepared, Advanced, None, Confirmed
  <1>7. ReplyInv'
    BY PublicationAssumption
    DEF Core, ReplyInv, TypeOK, LocksAreHeld, AdvanceRefused, AdvanceAccepts,
        Invalid, DropGuard, Goto, listenVars, Task, Preparing, Prepared,
        Uninit, Awaits, Job, Locked, Guarded, Advanced, Confirmed, None
  <1> QED
    BY <1>1, <1>2, <1>3, <1>4, <1>5, <1>6, <1>7 DEF Core, Keeps

\* The router is swapped.
LEMMA SwapRouterInv ==
    ASSUME Core, NEW t \in Task, SwapRouter(t)
    PROVE  Keeps
  <1>1. TypeOK'
    BY PublicationAssumption
    DEF Core, TypeOK, SwapRouter, Goto, listenVars, Task, Uninit, Invalid,
        Awaits, Job, None
  <1>2. LocksAreHeld'
    BY PublicationAssumption
    DEF Core, LocksAreHeld, TypeOK, SwapRouter, Goto, listenVars, Task, Locked,
        Guarded, Uninit, Invalid, Awaits, Job, None
  <1>3. LockPinsRevision'
    BY PublicationAssumption
    DEF Core, LockPinsRevision, TypeOK, LocksAreHeld, SwapRouter, Goto,
        listenVars, Task, Confirmed, Uninit, Invalid, Awaits, Job, Locked,
        Guarded, None
  <1>4. CandidatesAreOneRevision'
    BY PublicationAssumption
    DEF Core, CandidatesAreOneRevision, TypeOK, SwapRouter, Goto, listenVars,
        Task, Preparing, Prepared, Uninit, Invalid, Awaits, Job, Confirmed,
        None
  <1>5. PairInv'
    BY PublicationAssumption
    DEF Core, PairInv, TypeOK, LocksAreHeld, LockPinsRevision,
        CandidatesAreOneRevision, SwapRouter, Goto, listenVars, Uninit,
        Swapping, Task, Invalid, Awaits, Job, Locked, Guarded, Confirmed,
        Preparing, Prepared, None
  <1>6. EpochInv => EpochInv'
    BY PublicationAssumption
    DEF Core, EpochInv, TypeOK, CandidatesAreOneRevision, SwapRouter, Goto,
        listenVars, Task, Uninit, Invalid, Awaits, Job, Preparing, Prepared,
        None, Confirmed
  <1>7. ReplyInv'
    BY PublicationAssumption
    DEF Core, ReplyInv, TypeOK, LocksAreHeld, SwapRouter, Goto, listenVars,
        Task, Preparing, Prepared, Uninit, Invalid, Awaits, Job, Locked,
        Guarded, Confirmed, None
  <1> QED
    BY <1>1, <1>2, <1>3, <1>4, <1>5, <1>6, <1>7 DEF Core, Keeps

\* The policies are installed.
LEMMA InstallPoliciesInv ==
    ASSUME Core, NEW t \in Task, InstallPolicies(t)
    PROVE  Keeps
  <1>1. TypeOK'
    BY PublicationAssumption
    DEF Core, TypeOK, InstallPolicies, DropGuard, Goto, listenVars, Task,
        Uninit, Invalid, Awaits, Job, None
  <1>2. LocksAreHeld'
    BY PublicationAssumption
    DEF Core, LocksAreHeld, TypeOK, InstallPolicies, DropGuard, Goto,
        listenVars, Task, Locked, Guarded, Uninit, Invalid, Awaits, Job, None
  <1>3. LockPinsRevision'
    BY PublicationAssumption
    DEF Core, LockPinsRevision, TypeOK, LocksAreHeld, InstallPolicies,
        DropGuard, Goto, listenVars, Task, Confirmed, Uninit, Invalid, Awaits,
        Job, Locked, Guarded, None
  <1>4. CandidatesAreOneRevision'
    BY PublicationAssumption
    DEF Core, CandidatesAreOneRevision, TypeOK, InstallPolicies, DropGuard,
        Goto, listenVars, Task, Preparing, Prepared, Uninit, Invalid, Awaits,
        Job, Confirmed, None
  <1>5. PairInv'
    BY PublicationAssumption
    DEF Core, PairInv, TypeOK, LocksAreHeld, LockPinsRevision,
        CandidatesAreOneRevision, InstallPolicies, DropGuard, Goto, listenVars,
        Uninit, Swapping, Task, Invalid, Awaits, Job, Locked, Guarded,
        Confirmed, Preparing, Prepared, None
  <1>6. EpochInv => EpochInv'
    BY PublicationAssumption
    DEF Core, EpochInv, TypeOK, CandidatesAreOneRevision, InstallPolicies,
        DropGuard, Goto, listenVars, Task, Uninit, Invalid, Awaits, Job,
        Preparing, Prepared, None, Confirmed
  <1>7. ReplyInv'
    <2>1. installed[home[t]] <= job[t].rev
      BY DEF Core, TypeOK, LockPinsRevision, PairInv, Confirmed, InstallPolicies
    <2>2. /\ installed \in [Process -> Nat] /\ home \in [Task -> Process]
          /\ change \in [Admin -> Nat] /\ job[t].rev \in Nat
      BY DEF Core, TypeOK, Job
    <2>3. \A p \in Process : installed[p] <= installed'[p] /\ installed'[p] \in Nat
      BY <2>1, <2>2 DEF InstallPolicies
    <2>4. /\ job' = job /\ home' = home /\ change' = change /\ reply' = reply
          /\ durable' = durable
          /\ \A u \in Task : pc'[u] = IF u = t THEN "commit" ELSE pc[u]
          /\ installed'[home[t]] = job[t].rev
      BY <2>2 DEF InstallPolicies, Goto, Core, TypeOK
    <2>5. ASSUME NEW u \in Task, pc'[u] = "fence"
          PROVE  job'[u].seen <= installed'[home'[u]]
      <3>1. job[u].seen <= installed[home[u]]
        BY <2>4, <2>5 DEF Core, ReplyInv
      <3>2. job[u].seen \in Int
        BY DEF Core, TypeOK, Job, Uninit
      <3> QED  BY <2>2, <2>3, <2>4, <3>1, <3>2
    <2>6. ASSUME NEW a \in Admin
          PROVE  /\ change'[a] <= durable'
                 /\ pc'[a] \in Preparing \cup Prepared => change'[a] <= job'[a].rev
                 /\ pc'[a] = "commit" => change'[a] <= installed'[home'[a]]
                 /\ reply'[a] = "reloaded" => change'[a] <= installed'[home'[a]]
                 /\ pc'[a] # "idle" => reply'[a] = "none"
      <3>1. a \in Task  BY DEF Task
      <3>2. CASE a = t
        BY <2>4, <3>1, <3>2
           DEF Core, ReplyInv, InstallPolicies, Preparing, Prepared, Confirmed
      <3>3. CASE a # t
        BY <2>2, <2>3, <2>4, <3>1, <3>3 DEF Core, ReplyInv
      <3> QED  BY <3>2, <3>3
    <2> QED  BY <2>5, <2>6 DEF ReplyInv
  <1> QED
    BY <1>1, <1>2, <1>3, <1>4, <1>5, <1>6, <1>7 DEF Core, Keeps

-----------------------------------------------------------------------------
(* Flushes by hand, and faults.                                            *)

\* A flush is asked for.
LEMMA RequestFlushInv ==
    ASSUME Core, NEW a \in Admin, NEW p \in Process, RequestFlush(a, p)
    PROVE  Keeps
  <1>1. TypeOK'
    BY PublicationAssumption
    DEF Core, TypeOK, RequestFlush, Goto, processVars, listenVars, Task, Uninit,
        Invalid, Awaits, Job, None
  <1>2. LocksAreHeld'
    BY PublicationAssumption
    DEF Core, LocksAreHeld, TypeOK, RequestFlush, Goto, processVars, listenVars,
        Task, Locked, Guarded, Uninit, Invalid, Awaits, Job, None
  <1>3. LockPinsRevision'
    BY PublicationAssumption
    DEF Core, LockPinsRevision, TypeOK, LocksAreHeld, RequestFlush, Goto,
        processVars, listenVars, Task, Confirmed, Uninit, Invalid, Awaits, Job,
        Locked, Guarded, None
  <1>4. CandidatesAreOneRevision'
    BY PublicationAssumption
    DEF Core, CandidatesAreOneRevision, TypeOK, RequestFlush, Goto, processVars,
        listenVars, Task, Preparing, Prepared, Uninit, Invalid, Awaits, Job,
        Confirmed, None
  <1>5. PairInv'
    BY PublicationAssumption
    DEF Core, PairInv, TypeOK, LocksAreHeld, LockPinsRevision,
        CandidatesAreOneRevision, RequestFlush, Goto, processVars, listenVars,
        Uninit, Swapping, Task, Invalid, Awaits, Job, Locked, Guarded,
        Confirmed, Preparing, Prepared, None
  <1>6. EpochInv => EpochInv'
    BY PublicationAssumption
    DEF Core, EpochInv, TypeOK, CandidatesAreOneRevision, RequestFlush, Goto,
        processVars, listenVars, Task, Uninit, Invalid, Awaits, Job, Preparing,
        Prepared, None, Confirmed
  <1>7. ReplyInv'
    BY PublicationAssumption
    DEF Core, ReplyInv, TypeOK, LocksAreHeld, RequestFlush, Goto, processVars,
        listenVars, Task, Preparing, Prepared, Uninit, Invalid, Awaits, Job,
        Locked, Guarded, Confirmed, None
  <1> QED
    BY <1>1, <1>2, <1>3, <1>4, <1>5, <1>6, <1>7 DEF Core, Keeps

\* It takes the guard.
LEMMA TakeFlushGuardInv ==
    ASSUME Core, NEW a \in Admin, TakeFlushGuard(a)
    PROVE  Keeps
  <1>1. TypeOK'
    BY PublicationAssumption
    DEF Core, TypeOK, TakeFlushGuard, Goto, listenVars, Task, Uninit, Invalid,
        Awaits, Job, None
  <1>2. LocksAreHeld'
    BY PublicationAssumption
    DEF Core, LocksAreHeld, TypeOK, TakeFlushGuard, Goto, listenVars, Task,
        Locked, Guarded, Uninit, Invalid, Awaits, Job, None
  <1>3. LockPinsRevision'
    BY PublicationAssumption
    DEF Core, LockPinsRevision, TypeOK, LocksAreHeld, TakeFlushGuard, Goto,
        listenVars, Task, Confirmed, Uninit, Invalid, Awaits, Job, Locked,
        Guarded, None
  <1>4. CandidatesAreOneRevision'
    BY PublicationAssumption
    DEF Core, CandidatesAreOneRevision, TypeOK, TakeFlushGuard, Goto,
        listenVars, Task, Preparing, Prepared, Uninit, Invalid, Awaits, Job,
        Confirmed, None
  <1>5. PairInv'
    BY PublicationAssumption
    DEF Core, PairInv, TypeOK, LocksAreHeld, LockPinsRevision,
        CandidatesAreOneRevision, TakeFlushGuard, Goto, listenVars, Uninit,
        Swapping, Task, Invalid, Awaits, Job, Locked, Guarded, Confirmed,
        Preparing, Prepared, None
  <1>6. EpochInv => EpochInv'
    BY PublicationAssumption
    DEF Core, EpochInv, TypeOK, CandidatesAreOneRevision, TakeFlushGuard, Goto,
        listenVars, Task, Uninit, Invalid, Awaits, Job, Preparing, Prepared,
        None, Confirmed
  <1>7. ReplyInv'
    BY PublicationAssumption
    DEF Core, ReplyInv, TypeOK, LocksAreHeld, TakeFlushGuard, Goto, listenVars,
        Task, Preparing, Prepared, Uninit, Invalid, Awaits, Job, Locked,
        Guarded, Confirmed, None
  <1> QED
    BY <1>1, <1>2, <1>3, <1>4, <1>5, <1>6, <1>7 DEF Core, Keeps

\* It moves the epoch.
LEMMA FlushInv ==
    ASSUME Core, NEW a \in Admin, Flush(a)
    PROVE  Keeps
  <1>1. TypeOK'
    <2>1. a \in Task
      BY DEF Task
    <2>2. shared' \in [present : BOOLEAN, rev : Nat, epoch : Nat]
      BY DEF Core, TypeOK, Flush
    <2>3. epoch' \in [Process -> Nat \cup {Uninit, Invalid}]
      BY <2>2 DEF Core, TypeOK, Flush
    <2> QED
      BY <2>1, <2>2, <2>3
      DEF Core, TypeOK, Flush, DropGuard, Goto, Awaits, listenVars
  <1>2. LocksAreHeld'
    BY PublicationAssumption
    DEF Core, LocksAreHeld, TypeOK, Flush, Invalid, DropGuard, Goto, listenVars,
        Task, Locked, Guarded, Uninit, Awaits, Job, None
  <1>3. LockPinsRevision'
    BY PublicationAssumption
    DEF Core, LockPinsRevision, TypeOK, LocksAreHeld, Flush, Invalid, DropGuard,
        Goto, listenVars, Task, Confirmed, Uninit, Awaits, Job, Locked,
        Guarded, None
  <1>4. CandidatesAreOneRevision'
    BY PublicationAssumption
    DEF Core, CandidatesAreOneRevision, TypeOK, Flush, Invalid, DropGuard, Goto,
        listenVars, Task, Preparing, Prepared, Uninit, Awaits, Job, Confirmed,
        None
  <1>5. PairInv'
    BY PublicationAssumption
    DEF Core, PairInv, TypeOK, LocksAreHeld, LockPinsRevision,
        CandidatesAreOneRevision, Flush, Invalid, DropGuard, Goto, listenVars,
        Uninit, Swapping, Task, Awaits, Job, Locked, Guarded, Confirmed,
        Preparing, Prepared, None
  <1>6. EpochInv => EpochInv'
    BY PublicationAssumption
    DEF Core, EpochInv, TypeOK, CandidatesAreOneRevision, Flush, Invalid,
        DropGuard, Goto, listenVars, Task, Uninit, Awaits, Job, Preparing,
        Prepared, None, Confirmed
  <1>7. ReplyInv'
    BY PublicationAssumption
    DEF Core, ReplyInv, TypeOK, LocksAreHeld, Flush, Invalid, DropGuard, Goto,
        listenVars, Task, Preparing, Prepared, Uninit, Awaits, Job, Locked,
        Guarded, Confirmed, None
  <1> QED
    BY <1>1, <1>2, <1>3, <1>4, <1>5, <1>6, <1>7 DEF Core, Keeps

\* A call to Redis fails, before it took effect or after.
LEMMA FailFenceInv ==
    ASSUME Core, NEW t \in Task, NEW written \in BOOLEAN, FailFence(t, written)
    PROVE  Keeps
  <1> DEFINE p == home[t]
  <1>1. /\ shared' \in [present : BOOLEAN, rev : Nat, epoch : Nat]
        /\ shared.rev <= shared'.rev
    <2>1. job[t].rev \in Nat
      BY DEF Core, TypeOK, Job
    <2> QED
      BY <2>1, AdvancedType DEF Core, TypeOK, FailFence
  <1>2. /\ UNCHANGED <<durable, lock, serving, router, policies, applied, installed,
                       listenVars, home, job, change, reply>>
        /\ faults' \in Nat
    BY DEF Core, TypeOK, FailFence, Fault
  <1>3. \/ /\ pc[t] = "fence" /\ pc' = [pc EXCEPT ![t] = "routes"]
           /\ epoch' = epoch /\ guard' = guard
        \/ /\ pc[t] \in Guarded \ {"install", "router"}
           /\ \/ pc' = [pc EXCEPT ![t] = "disable"]
              \/ pc[t] = "flush" /\ pc' = [pc EXCEPT ![t] = "idle"]
           /\ \/ epoch' = epoch
              \/ epoch' = [epoch EXCEPT ![p] = Invalid]
           /\ guard' = [guard EXCEPT ![p] = NoTask]
    BY DEF FailFence, Goto, DropGuard, Guarded
  <1>4. TypeOK'
    <2>1. epoch' \in [Process -> Nat \cup {Uninit, Invalid}]
      BY <1>3 DEF Core, TypeOK
    <2>2. pc' \in [Task -> Awaits] /\ guard' \in [Process -> Task \cup {NoTask}]
      BY <1>3 DEF Core, TypeOK, Awaits
    <2> QED
      BY <1>1, <1>2, <2>1, <2>2 DEF Core, TypeOK, listenVars
  <1>5. LocksAreHeld'
    BY PublicationAssumption, <1>1, <1>2, <1>3
    DEF Core, LocksAreHeld, TypeOK, listenVars, Guarded, Task, Locked, Uninit,
        Invalid, Awaits, Job, None
  <1>6. LockPinsRevision'
    BY PublicationAssumption, <1>1, <1>2, <1>3
    DEF Core, LockPinsRevision, TypeOK, LocksAreHeld, listenVars, Guarded, Task,
        Confirmed, Uninit, Invalid, Awaits, Job, Locked, None
  <1>7. CandidatesAreOneRevision'
    BY PublicationAssumption, <1>1, <1>2, <1>3
    DEF Core, CandidatesAreOneRevision, TypeOK, listenVars, Guarded, Task,
        Preparing, Prepared, Uninit, Invalid, Awaits, Job, Confirmed, None
  <1>8. PairInv'
    BY PublicationAssumption, <1>1, <1>2, <1>3
    DEF Core, PairInv, TypeOK, LocksAreHeld, LockPinsRevision,
        CandidatesAreOneRevision, listenVars, Guarded, Uninit, Swapping, Task,
        Invalid, Awaits, Job, Locked, Confirmed, Preparing, Prepared, None
  <1>9. EpochInv => EpochInv'
    BY SMTT(60), PublicationAssumption, <1>1, <1>2, <1>3
    DEF Core, EpochInv, TypeOK, CandidatesAreOneRevision, listenVars, Guarded,
        Task, Uninit, Invalid, Awaits, Job, Preparing, Prepared, None,
        Confirmed
  <1>10. ReplyInv'
    BY PublicationAssumption, <1>1, <1>2, <1>3
    DEF Core, ReplyInv, TypeOK, LocksAreHeld, listenVars, Guarded, Task,
        Preparing, Prepared, Uninit, Invalid, Awaits, Job, Locked, Confirmed,
        None
  <1> QED
    BY <1>4, <1>5, <1>6, <1>7, <1>8, <1>9, <1>10 DEF Core, Keeps

\* An admin request is dropped.
LEMMA CancelInv ==
    ASSUME Core, NEW a \in Admin, Cancel(a)
    PROVE  Keeps
  <1>1. TypeOK'
    BY PublicationAssumption
    DEF Core, TypeOK, Cancel, Fault, NoJob, EndTransaction, listenVars, Task,
        Uninit, Invalid, Awaits, Job, None
  <1>2. LocksAreHeld'
    BY PublicationAssumption
    DEF Core, LocksAreHeld, TypeOK, Cancel, Fault, NoJob, EndTransaction,
        listenVars, Task, Locked, Guarded, Uninit, Invalid, Awaits, Job, None
  <1>3. LockPinsRevision'
    BY PublicationAssumption
    DEF Core, LockPinsRevision, TypeOK, LocksAreHeld, Cancel, Fault, NoJob,
        EndTransaction, listenVars, Task, Confirmed, Uninit, Invalid, Awaits,
        Job, Locked, Guarded, None
  <1>4. CandidatesAreOneRevision'
    BY PublicationAssumption
    DEF Core, CandidatesAreOneRevision, TypeOK, Cancel, Fault, NoJob,
        EndTransaction, listenVars, Task, Preparing, Prepared, Uninit, Invalid,
        Awaits, Job, None, Confirmed
  <1>5. PairInv'
    BY PublicationAssumption
    DEF Core, PairInv, TypeOK, LocksAreHeld, LockPinsRevision,
        CandidatesAreOneRevision, Cancel, Fault, NoJob, EndTransaction,
        listenVars, Uninit, Swapping, Task, Invalid, Awaits, Job, Locked,
        Guarded, Confirmed, Preparing, Prepared, None
  <1>6. EpochInv => EpochInv'
    BY PublicationAssumption
    DEF Core, EpochInv, TypeOK, CandidatesAreOneRevision, Cancel, Fault, NoJob,
        EndTransaction, listenVars, Task, Uninit, Invalid, Awaits, Job,
        Preparing, Prepared, None, Confirmed
  <1>7. ReplyInv'
    BY PublicationAssumption
    DEF Core, ReplyInv, TypeOK, LocksAreHeld, Cancel, Fault, NoJob,
        EndTransaction, listenVars, Task, Preparing, Prepared, Uninit, Invalid,
        Awaits, Job, Locked, Guarded, None, Confirmed
  <1> QED
    BY <1>1, <1>2, <1>3, <1>4, <1>5, <1>6, <1>7 DEF Core, Keeps

\* Notifications are lost.
LEMMA LoseNotificationsInv ==
    ASSUME Core, NEW p \in Process, LoseNotifications(p)
    PROVE  Keeps
  <1>1. TypeOK'
    BY PublicationAssumption
    DEF Core, TypeOK, LoseNotifications, Fault, processVars, taskVars, Task,
        Uninit, Invalid, Awaits, Job, None
  <1>2. LocksAreHeld'
    BY PublicationAssumption
    DEF Core, LocksAreHeld, TypeOK, LoseNotifications, Fault, processVars,
        taskVars, Task, Locked, Guarded, Uninit, Invalid, Awaits, Job, None
  <1>3. LockPinsRevision'
    BY PublicationAssumption
    DEF Core, LockPinsRevision, TypeOK, LocksAreHeld, LoseNotifications, Fault,
        processVars, taskVars, Task, Confirmed, Uninit, Invalid, Awaits, Job,
        Locked, Guarded, None
  <1>4. CandidatesAreOneRevision'
    BY PublicationAssumption
    DEF Core, CandidatesAreOneRevision, TypeOK, LoseNotifications, Fault,
        processVars, taskVars, Task, Preparing, Prepared, Uninit, Invalid,
        Awaits, Job, Confirmed, None
  <1>5. PairInv'
    BY PublicationAssumption
    DEF Core, PairInv, TypeOK, LocksAreHeld, LockPinsRevision,
        CandidatesAreOneRevision, LoseNotifications, Fault, processVars,
        taskVars, Uninit, Swapping, Task, Invalid, Awaits, Job, Locked,
        Guarded, Confirmed, Preparing, Prepared, None
  <1>6. EpochInv => EpochInv'
    BY PublicationAssumption
    DEF Core, EpochInv, TypeOK, CandidatesAreOneRevision, LoseNotifications,
        Fault, processVars, taskVars, Task, Uninit, Invalid, Awaits, Job,
        Preparing, Prepared, None, Confirmed
  <1>7. ReplyInv'
    BY PublicationAssumption
    DEF Core, ReplyInv, TypeOK, LocksAreHeld, LoseNotifications, Fault,
        processVars, taskVars, Task, Preparing, Prepared, Uninit, Invalid,
        Awaits, Job, Locked, Guarded, Confirmed, None
  <1> QED
    BY <1>1, <1>2, <1>3, <1>4, <1>5, <1>6, <1>7 DEF Core, Keeps

\* A listener is lost.
LEMMA LoseListenerInv ==
    ASSUME Core, NEW p \in Process, LoseListener(p)
    PROVE  Keeps
  <1>1. TypeOK'
    BY PublicationAssumption
    DEF Core, TypeOK, LoseListener, Fault, Disable, taskVars, Task, Uninit,
        Invalid, Awaits, Job, None
  <1>2. LocksAreHeld'
    BY PublicationAssumption
    DEF Core, LocksAreHeld, TypeOK, LoseListener, Fault, Disable, taskVars,
        Task, Locked, Guarded, Uninit, Invalid, Awaits, Job, None
  <1>3. LockPinsRevision'
    BY PublicationAssumption
    DEF Core, LockPinsRevision, TypeOK, LocksAreHeld, LoseListener, Fault,
        Disable, taskVars, Task, Confirmed, Uninit, Invalid, Awaits, Job,
        Locked, Guarded, None
  <1>4. CandidatesAreOneRevision'
    BY PublicationAssumption
    DEF Core, CandidatesAreOneRevision, TypeOK, LoseListener, Fault, Disable,
        taskVars, Task, Preparing, Prepared, Uninit, Invalid, Awaits, Job,
        Confirmed, None
  <1>5. PairInv'
    BY PublicationAssumption
    DEF Core, PairInv, TypeOK, LocksAreHeld, LockPinsRevision,
        CandidatesAreOneRevision, LoseListener, Fault, Disable, taskVars,
        Uninit, Swapping, Task, Invalid, Awaits, Job, Locked, Guarded,
        Confirmed, Preparing, Prepared, None
  <1>6. EpochInv => EpochInv'
    BY PublicationAssumption
    DEF Core, EpochInv, TypeOK, CandidatesAreOneRevision, LoseListener, Fault,
        Disable, taskVars, Task, Uninit, Invalid, Awaits, Job, Preparing,
        Prepared, None, Confirmed
  <1>7. ReplyInv'
    BY PublicationAssumption
    DEF Core, ReplyInv, TypeOK, LocksAreHeld, LoseListener, Fault, Disable,
        taskVars, Task, Preparing, Prepared, Uninit, Invalid, Awaits, Job,
        Locked, Guarded, Confirmed, None
  <1> QED
    BY <1>1, <1>2, <1>3, <1>4, <1>5, <1>6, <1>7 DEF Core, Keeps

\* A process restarts.
LEMMA RestartInv ==
    ASSUME Core, NEW p \in Process, Restart(p)
    PROVE  Keeps
  <1>1. TypeOK'
    BY PublicationAssumption
    DEF Core, TypeOK, Restart, Task, Fault, Uninit, NoJob, Invalid, Awaits, Job,
        None
  <1>2. LocksAreHeld'
    BY PublicationAssumption
    DEF Core, LocksAreHeld, TypeOK, Restart, Task, Fault, Uninit, NoJob, Locked,
        Guarded, Invalid, Awaits, Job, None
  <1>3. LockPinsRevision'
    BY PublicationAssumption
    DEF Core, LockPinsRevision, TypeOK, LocksAreHeld, Restart, Task, Fault,
        Uninit, NoJob, Confirmed, Invalid, Awaits, Job, Locked, Guarded, None
  <1>4. CandidatesAreOneRevision'
    BY PublicationAssumption
    DEF Core, CandidatesAreOneRevision, TypeOK, Restart, Task, Fault, Uninit,
        NoJob, Preparing, Prepared, Invalid, Awaits, Job, None, Confirmed
  <1>5. PairInv'
    BY PublicationAssumption
    DEF Core, PairInv, TypeOK, LocksAreHeld, LockPinsRevision,
        CandidatesAreOneRevision, Restart, Task, Fault, Uninit, NoJob,
        Swapping, Invalid, Awaits, Job, Locked, Guarded, Confirmed, Preparing,
        Prepared, None
  <1>6. EpochInv => EpochInv'
    BY PublicationAssumption
    DEF Core, EpochInv, TypeOK, CandidatesAreOneRevision, Restart, Task, Fault,
        Uninit, NoJob, Invalid, Awaits, Job, Preparing, Prepared, None,
        Confirmed
  <1>7. ReplyInv'
    BY PublicationAssumption
    DEF Core, ReplyInv, TypeOK, LocksAreHeld, Restart, Task, Fault, Uninit,
        NoJob, Preparing, Prepared, Invalid, Awaits, Job, Locked, Guarded,
        None, Confirmed
  <1> QED
    BY <1>1, <1>2, <1>3, <1>4, <1>5, <1>6, <1>7 DEF Core, Keeps

-----------------------------------------------------------------------------
(* The invariant.                                                          *)

\* The initial states, with every task idle.
LEMMA InitInv == Init => Inv
  <1> SUFFICES ASSUME Init PROVE Inv
    OBVIOUS
  <1>1. TypeOK
    BY DEF Init, TypeOK, NoJob, Job, Awaits, None, Uninit, Task
  <1>2. \A t \in Task : pc[t] = "idle"
    BY DEF Init
  <1>3. LocksAreHeld /\ LockPinsRevision /\ CandidatesAreOneRevision
    BY <1>2 DEF LocksAreHeld, LockPinsRevision, CandidatesAreOneRevision, Locked,
                Confirmed, Guarded, Prepared, Preparing
  <1>4. PairInv /\ EpochInv
    BY <1>2 DEF Init, PairInv, EpochInv, Swapping
  <1>5. ReplyInv
    BY <1>2 DEF Init, ReplyInv, Task, Preparing, Prepared, Confirmed
  <1> QED  BY <1>1, <1>3, <1>4, <1>5 DEF Core, Inv

\* A task that is refused where it may be.
LEMMA RefusedInv ==
    ASSUME Core, NEW t \in Task, Refuse(t), faults' \in {faults, faults + 1},
           pc[t] \in {"read", "fence", "routes", "policies", "confirm", "lock",
                      "under_lock", "commit", "disable"}
    PROVE  Keeps
  BY RefuseInv DEF Core, TypeOK, Guarded

\* The steps of prepare_configuration.
LEMMA PrepareInv == ASSUME Core, NEW t \in Task, Prepare(t) PROVE Keeps
  <1>1. CASE ReadRevision(t)
    <2>1. CASE Refuse(t) /\ UNCHANGED faults
      BY <1>1, <2>1, RefusedInv DEF ReadRevision
    <2>2. CASE /\ applied[home[t]] = durable
               /\ Return(t, TRUE)
               /\ UNCHANGED <<durable, shared, router, policies, applied, epoch,
                              guard, installed, listenVars, faults>>
      <3>1. t \in Admin => change[t] <= installed[home[t]]
        BY <2>2 DEF Core, TypeOK, PairInv, ReplyInv, Uninit
      <3> QED  BY <1>1, <2>2, <3>1, AnswerInv DEF ReadRevision, Guarded
    <2>3. CASE /\ job' = [job EXCEPT ![t].rev = durable, ![t].seen = applied[home[t]]]
               /\ Local(t, IF Fenced THEN "fence" ELSE "routes")
      BY <1>1, <2>3, BeginInv DEF ReadRevision
    <2> QED  BY <1>1, <2>1, <2>2, <2>3 DEF ReadRevision
  <1>2. CASE ReadFence(t)
    <2>1. CASE Refuse(t)
      BY <1>2, <2>1, RefusedInv DEF ReadFence
    <2>2. CASE /\ job[t].seen = job[t].rev
               /\ Return(t, TRUE)
               /\ UNCHANGED <<durable, shared, router, policies, applied, epoch,
                              guard, installed, listenVars, faults>>
      <3>1. t \in Admin => change[t] <= job[t].rev
        BY <1>2 DEF ReadFence, Core, ReplyInv, Preparing
      <3>2. job[t].seen <= installed[home[t]]
        BY <1>2 DEF ReadFence, Core, ReplyInv
      <3>3. /\ installed[home[t]] \in Nat /\ job[t].rev \in Nat
            /\ t \in Admin => change[t] \in Nat
        BY DEF Core, TypeOK, Job
      <3>4. t \in Admin => change[t] <= installed[home[t]]
        BY <2>2, <3>1, <3>2, <3>3
      <3> QED  BY <1>2, <2>2, <3>4, AnswerInv DEF ReadFence, Guarded
    <2>3. CASE /\ Goto(t, "routes")
               /\ UNCHANGED <<durable, lock, shared, processVars, listenVars, home,
                              job, change, reply, faults>>
      BY <1>2, <2>3, NotCurrentInv DEF ReadFence, Goto
    <2> QED  BY <1>2, <2>1, <2>2, <2>3 DEF ReadFence, IsCurrent
  <1>3. CASE MissFence(t)
    BY <1>3, MissFenceInv
  <1>4. CASE LoadRoutes(t)
    <2>1. CASE Refuse(t) /\ UNCHANGED faults
      BY <1>4, <2>1, RefusedInv DEF LoadRoutes
    <2>2. CASE job' = [job EXCEPT ![t].routes = durable] /\ Local(t, "policies")
      BY <1>4, <2>2, RoutesLoadedInv DEF LoadRoutes
    <2> QED  BY <1>4, <2>1, <2>2 DEF LoadRoutes
  <1>5. CASE LoadPolicies(t)
    BY <1>5, LoadPoliciesInv
  <1>6. CASE ConfirmRevision(t)
    <2>1. CASE Refuse(t) /\ UNCHANGED faults
      BY <1>6, <2>1, RefusedInv DEF ConfirmRevision
    <2>2. CASE durable = job[t].rev /\ Local(t, "lock") /\ UNCHANGED job
      BY <1>6, <2>2, ConfirmedInv DEF ConfirmRevision
    <2> QED  BY <1>6, <2>1, <2>2 DEF ConfirmRevision
  <1> QED
    BY <1>1, <1>2, <1>3, <1>4, <1>5, <1>6 DEF Prepare

\* The steps of a publication.
LEMMA PublishInv == ASSUME Core, NEW t \in Task, Publish(t) PROVE Keeps
  <1>1. CASE ConfirmUnderLock(t)
    <2>1. CASE Refuse(t) /\ UNCHANGED faults
      BY <1>1, <2>1, RefusedInv DEF ConfirmUnderLock
    <2>2. CASE durable = job[t].rev /\ Local(t, "guard") /\ UNCHANGED job
      BY <1>1, <2>2, ConfirmedInv DEF ConfirmUnderLock
    <2> QED  BY <1>1, <2>1, <2>2 DEF ConfirmUnderLock
  <1>2. CASE Commit(t)
    <2>1. CASE Refuse(t)
      BY <1>2, <2>1, RefusedInv DEF Commit
    <2>2. CASE /\ Return(t, TRUE)
               /\ UNCHANGED <<durable, shared, router, policies, applied, epoch,
                              guard, installed, listenVars, faults>>
      <3>1. t \in Admin => change[t] <= installed[home[t]]
        BY <1>2 DEF Commit, Core, ReplyInv
      <3> QED  BY <1>2, <2>2, <3>1, AnswerInv DEF Commit, Guarded
    <2> QED  BY <1>2, <2>1, <2>2 DEF Commit
  <1>3. CASE DisableAfterFailure(t)
    BY <1>3, RefusedInv DEF DisableAfterFailure
  <1>4. CASE \/ TakeLock(t) \/ TakeGuard(t) \/ AdvanceEpoch(t) \/ AdvanceRefused(t)
             \/ ConfirmPublished(t) \/ SwapRouter(t) \/ InstallPolicies(t)
    BY <1>4, TakeLockInv, TakeGuardInv, AdvanceEpochInv, AdvanceRefusedInv,
       ConfirmPublishedInv, SwapRouterInv, InstallPoliciesInv
  <1> QED  BY <1>1, <1>2, <1>3, <1>4 DEF Publish

\* Failures.
LEMMA FaultInv == ASSUME Core, FaultStep PROVE Keeps
  <1>1. ASSUME NEW t \in Task, FailQuery(t) PROVE Keeps
    BY <1>1, RefusedInv DEF FailQuery, Fault
  <1> QED
    BY <1>1, FailFenceInv, CancelInv, LoseNotificationsInv, LoseListenerInv,
       RestartInv DEF FaultStep

\* Core is inductive, and so is Inv while Redis keeps its data.
LEMMA StepKeeps == Core /\ [Next]_vars => Keeps
  <1> SUFFICES ASSUME Core, [Next]_vars PROVE Keeps
    OBVIOUS
  <1>1. CASE Next
    <2>1. ASSUME NEW p \in Process, Listen(p) PROVE Keeps
      BY <2>1, InitializeInv, ConnectInv, NotifiedInv, RetryInv DEF Listen
    <2>2. ASSUME NEW a \in Admin, Request(a) PROVE Keeps
      BY <2>2, ChangePolicyInv, RequestFlushInv, TakeFlushGuardInv, FlushInv
         DEF Request
    <2>3. ASSUME NEW t \in Task, Work(t) PROVE Keeps
      BY <2>3, PrepareInv, PublishInv DEF Work
    <2> QED
      BY <1>1, <2>1, <2>2, <2>3, ChangeRouteInv, FaultInv DEF Next
  <1>2. CASE UNCHANGED vars
    BY <1>2
    DEF vars, processVars, listenVars, taskVars, Core, TypeOK, LocksAreHeld,
        LockPinsRevision, CandidatesAreOneRevision, PairInv, Swapping, EpochInv,
        ReplyInv, Keeps
  <1> QED  BY <1>1, <1>2

\* A loss of Redis' data, and its bootstrap: no more than the type speaks of it.
LEMMA RedisCore == Core /\ (LoseRedis \/ BootstrapFence) => Core'
  <1> SUFFICES ASSUME Core, LoseRedis \/ BootstrapFence PROVE Core'
    OBVIOUS
  <1>1. /\ UNCHANGED <<durable, lock, processVars, listenVars, taskVars>>
        /\ shared' \in [present : BOOLEAN, rev : Nat, epoch : Nat]
        /\ faults' \in Nat
    <2>1. faults \in Nat
      BY DEF Core, TypeOK
    <2>2. /\ UNCHANGED <<durable, lock, processVars, listenVars, taskVars>>
          /\ \E b \in BOOLEAN : shared' = [present |-> b, rev |-> 0, epoch |-> 0]
          /\ faults' = faults \/ faults' = faults + 1
      BY DEF LoseRedis, BootstrapFence, Fault
    <2> QED  BY <2>1, <2>2
  <1> QED
    BY <1>1
    DEF processVars, listenVars, taskVars, Core, TypeOK, LocksAreHeld,
        LockPinsRevision, CandidatesAreOneRevision, PairInv, Swapping, ReplyInv

LEMMA CoreStep == Core /\ [LossyNext]_vars => Core'
  BY StepKeeps, RedisCore DEF LossyNext, Keeps

LEMMA CoreInvariance == LossySpec => []Core
  <1>1. Init => Core
    BY InitInv DEF Inv
  <1> QED  BY <1>1, CoreStep, PTL DEF LossySpec

LEMMA StepInv == Inv /\ [Next]_vars => Inv'
  BY StepKeeps DEF Inv, Keeps

LEMMA Invariance == Spec => []Inv
  <1> QED  BY InitInv, StepInv, PTL DEF Spec

-----------------------------------------------------------------------------
(* Theorems.                                                               *)

\* Every state of the processes, their tasks and the shared stores is well
\* typed, whatever Redis loses (cache/mod.rs).
THEOREM PublicationTypes == LossySpec => []TypeOK
  <1>1. Core => TypeOK  BY DEF Core
  <1> QED  BY <1>1, CoreInvariance, PTL

\* A request that captures the router and the policies under the snapshot lock
\* captures one durable revision, whatever Redis loses (cache/mod.rs,
\* publish_prepared_configuration).
THEOREM SnapshotIsOneRevision == LossySpec => []PairIsOneRevision
  <1>1. Core => PairIsOneRevision
    <2> SUFFICES ASSUME Core, NEW p \in Process, guard[p] = NoTask
                 PROVE  router[p] = policies[p] /\ router[p] = installed[p]
      BY DEF PairIsOneRevision
    <2>1. \A t \in Task : t # NoTask
      BY PublicationAssumption DEF Task
    <2>2. ~Swapping(p)
      BY <2>1 DEF Core, LocksAreHeld, Guarded, Swapping
    <2> QED  BY <2>2 DEF Core, PairInv
  <1> QED  BY <1>1, CoreInvariance, PTL

\* No process runs a configuration that has not moved the shared epoch
\* (cache/mod.rs, publish_prepared_configuration).
THEOREM ConfigurationIsWithinEpoch == Spec => []NotAheadOfEpoch
  <1>1. Inv => NotAheadOfEpoch
    BY DEF Inv, EpochInv, NotAheadOfEpoch
  <1> QED  BY <1>1, Invariance, PTL

\* The deployment of MCConfigPublication whose Redis keeps its data is one of
\* those; the other one may be ahead of a fence that lost it.
THEOREM WithinEpochWhileKept == MCFairSpec => []NotAheadWhileKept
  <1> DEFINE I == part = "tasks" => Inv
  <1>1. MCInit => I
    BY InitInv DEF MCInit
  <1>2. I /\ [MCNext]_<<vars, part>> => I'
    <2> SUFFICES ASSUME I, [MCNext]_<<vars, part>>, part' = "tasks" PROVE Inv'
      OBVIOUS
    <2>1. part = "tasks" /\ [Next]_vars
      BY DEF MCNext
    <2> QED  BY <2>1, StepInv
  <1>3. I => NotAheadWhileKept
    BY DEF Inv, EpochInv, NotAheadOfEpoch, NotAheadWhileKept
  <1> QED  BY <1>1, <1>2, <1>3, PTL DEF MCFairSpec

\* An answer "reloaded" is true, whatever Redis loses (admin/mod.rs,
\* publish_policy_configuration).
THEOREM ReloadedIsTrue == LossySpec => []ReloadedIsServed
  <1>1. Core => ReloadedIsServed
    BY DEF Core, ReplyInv, ReloadedIsServed
  <1> QED  BY <1>1, CoreInvariance, PTL

\* A process that runs never replaces a configuration by an older one: the
\* advisory lock alone orders its publications, with a fence, without one, or
\* with one that loses its data (cache/mod.rs, reconcile_and_publish_configuration).
THEOREM ConfigurationOnlyAdvances == LossySpec => NeverOlder
  <1> DEFINE Step == \A p \in Process :
                         installed'[p] >= installed[p] \/ ~serving'[p]
  <1>1. Core /\ [LossyNext]_vars => [Step]_vars
    <2> SUFFICES ASSUME Core, LossyNext PROVE Step
      BY DEF vars, processVars
    <2>0. installed \in [Process -> Nat] /\ home \in [Task -> Process]
      BY DEF Core, TypeOK
    <2>1. CASE UNCHANGED installed
      BY <2>0, <2>1
    <2>2. ASSUME NEW p \in Process, Restart(p) PROVE Step
      BY <2>0, <2>2 DEF Restart, Core, TypeOK
    <2>3. ASSUME NEW t \in Task, InstallPolicies(t) PROVE Step
      <3>1. job[t].rev = durable /\ installed[home[t]] <= durable
        BY <2>0, <2>3
        DEF InstallPolicies, Core, LockPinsRevision, PairInv, Confirmed
      <3>2. durable \in Nat
        BY DEF Core, TypeOK
      <3> QED  BY <2>0, <2>3, <3>1, <3>2 DEF InstallPolicies
    <2>4. \/ UNCHANGED installed
          \/ \E p \in Process : Restart(p)
          \/ \E t \in Task : InstallPolicies(t)
      <3>1. ASSUME NEW t \in Task, Prepare(t) PROVE UNCHANGED installed
        BY <3>1 DEF Prepare, ReadRevision, ReadFence, MissFence, LoadRoutes,
                    LoadPolicies, ConfirmRevision, Refuse, Local, processVars
      <3>2. ASSUME NEW t \in Task, Publish(t), ~InstallPolicies(t)
            PROVE  UNCHANGED installed
        BY <3>2 DEF Publish, TakeLock, ConfirmUnderLock, TakeGuard, AdvanceEpoch,
                    AdvanceRefused, ConfirmPublished, SwapRouter, Commit,
                    DisableAfterFailure, Refuse, Local, processVars
      <3>3. ASSUME NEW p \in Process, Listen(p) PROVE UNCHANGED installed
        BY <3>3 DEF Listen, Initialize, Connect, Notified, Retry, processVars
      <3>4. ASSUME NEW a \in Admin, Request(a) PROVE UNCHANGED installed
        BY <3>4 DEF Request, ChangePolicy, RequestFlush, TakeFlushGuard, Flush,
                    processVars
      <3>5. ASSUME FaultStep
            PROVE  UNCHANGED installed \/ \E p \in Process : Restart(p)
        BY <3>5 DEF FaultStep, FailQuery, FailFence, Cancel, LoseNotifications,
                    LoseListener, Refuse, processVars
      <3>6. ChangeRoute => UNCHANGED installed
        BY DEF ChangeRoute, processVars
      <3>7. LoseRedis \/ BootstrapFence => UNCHANGED installed
        BY DEF LoseRedis, BootstrapFence, processVars
      <3> QED
        BY <3>1, <3>2, <3>3, <3>4, <3>5, <3>6, <3>7 DEF LossyNext, Next, Work
    <2> QED  BY <2>1, <2>2, <2>3, <2>4
  <1> QED  BY <1>1, CoreInvariance, PTL DEF LossySpec, NeverOlder

-----------------------------------------------------------------------------
(* Waiting.                                                                *)

\* A task moves, and at most gives its locks back.
LEMMA ReleaseInUse ==
    ASSUME TypeOK, LocksAreInUse, NEW t \in Task, NEW await,
           pc' = [pc EXCEPT ![t] = await], UNCHANGED home,
           lock' \in {lock, NoTask},
           lock' = t => await \in Locked \cup {"disable"},
           \A p \in Process : guard'[p] \in {guard[p], NoTask},
           guard'[home[t]] = t => await \in Guarded
    PROVE  LocksAreInUse'
  <1>1. NoTask \notin Task
    BY PublicationAssumption DEF Task
  <1>2. \A u \in Task : pc'[u] = IF u = t THEN await ELSE pc[u]
    BY DEF TypeOK
  <1>3. ASSUME NEW u \in Task, lock' = u PROVE pc'[u] \in Locked \cup {"disable"}
    BY <1>1, <1>2, <1>3 DEF LocksAreInUse
  <1>4. ASSUME NEW p \in Process, NEW u \in Task, guard'[p] = u
        PROVE  home'[u] = p /\ pc'[u] \in Guarded
    BY <1>1, <1>2, <1>4 DEF LocksAreInUse
  <1> QED
    BY <1>3, <1>4 DEF LocksAreInUse

\* A task that moves where no lock is held, and holds none.
LEMMA RefuseInUse ==
    ASSUME TypeOK, LocksAreInUse, NEW t \in Task, pc[t] \notin Guarded,
           pc' = [pc EXCEPT ![t] = "idle"], EndTransaction(t), UNCHANGED <<home, guard>>
    PROVE  LocksAreInUse'
  <1>1. NoTask \notin Task /\ home[t] \in Process
    BY PublicationAssumption DEF Task, TypeOK
  <1>2. lock' \in {lock, NoTask} /\ lock' # t
    BY <1>1 DEF EndTransaction
  <1>3. guard'[home[t]] # t
    BY <1>1 DEF LocksAreInUse
  <1> QED
    BY <1>2, <1>3, ReleaseInUse

\* Preparing takes no lock, and a refusal gives back what there is.
LEMMA PrepareInUse ==
    ASSUME TypeOK, LocksAreInUse, NEW t \in Task, Prepare(t)
    PROVE  LocksAreInUse'
  <1>1. /\ pc[t] \in {"read", "fence", "routes", "policies", "confirm"}
        /\ UNCHANGED <<home, guard>>
        /\ \/ pc' = [pc EXCEPT ![t] = "idle"] /\ EndTransaction(t)
           \/ UNCHANGED lock /\ \E await \in {"fence", "routes", "policies", "confirm", "lock"} :
                                    pc' = [pc EXCEPT ![t] = await]
    BY DEF Prepare, ReadRevision, ReadFence, MissFence, LoadRoutes, LoadPolicies,
           ConfirmRevision, Refuse, Return, Local, Goto, processVars
  <1>2. pc[t] \notin Guarded \cup Locked \cup {"disable"} /\ home[t] \in Process
    BY <1>1 DEF Guarded, Locked, TypeOK
  <1>3. lock # t /\ guard[home[t]] # t
    BY <1>2 DEF LocksAreInUse
  <1> QED
    BY <1>1, <1>2, <1>3, RefuseInUse, ReleaseInUse

\* Publishing takes the advisory lock, then the guard, and gives them back.
LEMMA PublishInUse ==
    ASSUME TypeOK, LocksAreInUse, NEW t \in Task, Publish(t)
    PROVE  LocksAreInUse'
  <1> USE DEF Locked, Guarded
  <1>0. /\ NoTask \notin Task /\ home[t] \in Process
        /\ \A u \in Task : pc[u] \in Awaits
        /\ lock = t => pc[t] \in Locked \cup {"disable"}
        /\ \A p \in Process : guard[p] = t => home[t] = p /\ pc[t] \in Guarded
    BY PublicationAssumption DEF Task, TypeOK, LocksAreInUse
  <1>1. CASE TakeLock(t)
    BY <1>0, <1>1 DEF TakeLock, Goto, processVars, TypeOK, LocksAreInUse
  <1>2. CASE TakeGuard(t)
    <2>1. /\ \A u \in Task : pc'[u] = IF u = t THEN "advance" ELSE pc[u]
          /\ \A p \in Process : guard'[p] = IF p = home[t] THEN t ELSE guard[p]
          /\ UNCHANGED <<home, lock>> /\ pc[t] = "guard"
      BY <1>2 DEF TakeGuard, Goto, TypeOK
    <2> QED
      BY <1>0, <2>1 DEF LocksAreInUse
  <1>3. CASE ConfirmUnderLock(t)
    <2>1. CASE Refuse(t)
      BY <1>3, <2>1, RefuseInUse DEF ConfirmUnderLock, Refuse, Return
    <2>2. CASE Local(t, "guard")
      BY <1>0, <1>3, <2>2, ReleaseInUse DEF ConfirmUnderLock, Local, Goto, processVars
    <2> QED
      BY <1>3, <2>1, <2>2 DEF ConfirmUnderLock
  <1>4. CASE Commit(t) \/ DisableAfterFailure(t)
    BY <1>4, RefuseInUse DEF Commit, DisableAfterFailure, Refuse, Return
  <1>5. CASE AdvanceEpoch(t) \/ SwapRouter(t)
    <2>1. \E await \in {"published", "router", "install"} : pc' = [pc EXCEPT ![t] = await]
      BY <1>5 DEF AdvanceEpoch, SwapRouter, Goto
    <2>2. UNCHANGED <<home, lock, guard>>
      BY <1>5 DEF AdvanceEpoch, SwapRouter
    <2> QED
      BY <2>1, <2>2, ReleaseInUse
  <1>6. CASE AdvanceRefused(t) \/ ConfirmPublished(t) \/ InstallPolicies(t)
    <2>1. UNCHANGED <<home, lock>>
      BY <1>6 DEF AdvanceRefused, ConfirmPublished, InstallPolicies, Local
    <2>2. CASE pc' = [pc EXCEPT ![t] = "router"] /\ UNCHANGED guard
      BY <2>1, <2>2, ReleaseInUse
    <2>3. CASE DropGuard(t) /\ \E await \in {"disable", "commit"} : pc' = [pc EXCEPT ![t] = await]
      <3>1. /\ guard'[home[t]] = NoTask
            /\ \A p \in Process : guard'[p] \in {guard[p], NoTask}
        BY <1>0, <2>3 DEF DropGuard, TypeOK
      <3> QED
        BY <1>0, <2>1, <2>3, <3>1, ReleaseInUse
    <2> QED
      BY <1>6, <2>2, <2>3
      DEF AdvanceRefused, ConfirmPublished, InstallPolicies, Local, Goto, processVars
  <1> QED
    BY <1>1, <1>2, <1>3, <1>4, <1>5, <1>6 DEF Publish

\* A task that starts, or that an admin request starts elsewhere, holds nothing.
LEMMA StartInUse ==
    ASSUME TypeOK, LocksAreInUse, NEW t \in Task, pc[t] = "idle", NEW await,
           pc' = [pc EXCEPT ![t] = await], UNCHANGED <<lock, guard>>,
           \A u \in Task : u # t => home'[u] = home[u]
    PROVE  LocksAreInUse'
  <1>1. lock # t /\ \A p \in Process : guard[p] # t
    BY DEF LocksAreInUse, Locked, Guarded
  <1>2. \A u \in Task : u # t => pc'[u] = pc[u]
    BY DEF TypeOK
  <1> QED
    BY <1>1, <1>2 DEF LocksAreInUse

\* A flush has the guard of its process while it lasts.
LEMMA RequestInUse ==
    ASSUME TypeOK, LocksAreInUse, NEW a \in Admin, Request(a)
    PROVE  LocksAreInUse'
  <1>0. /\ a \in Task /\ NoTask \notin Task /\ home[a] \in Process
        /\ lock = a => pc[a] \in Locked \cup {"disable"}
        /\ \A p \in Process : guard[p] = a => home[a] = p /\ pc[a] \in Guarded
    BY PublicationAssumption DEF Task, TypeOK, LocksAreInUse
  <1>1. ASSUME NEW p \in Process, ChangePolicy(a, p) \/ RequestFlush(a, p)
        PROVE  LocksAreInUse'
    <2>1. /\ pc[a] = "idle" /\ UNCHANGED <<lock, guard>>
          /\ \E await \in {"read", "flush_guard"} : pc' = [pc EXCEPT ![a] = await]
          /\ home' = [home EXCEPT ![a] = p]
      BY <1>1 DEF ChangePolicy, RequestFlush, Start, Goto, processVars
    <2>2. \A u \in Task : u # a => home'[u] = home[u]
      BY <2>1 DEF TypeOK
    <2> QED
      BY <1>0, <2>1, <2>2, StartInUse
  <1>2. CASE TakeFlushGuard(a)
    <2>1. /\ \A u \in Task : pc'[u] = IF u = a THEN "flush" ELSE pc[u]
          /\ \A p \in Process : guard'[p] = IF p = home[a] THEN a ELSE guard[p]
          /\ UNCHANGED <<home, lock>> /\ pc[a] = "flush_guard"
      BY <1>0, <1>2 DEF TakeFlushGuard, Goto, TypeOK
    <2> QED
      BY <1>0, <2>1 DEF LocksAreInUse, Locked, Guarded
  <1>3. CASE Flush(a)
    <2>1. /\ pc[a] = "flush" /\ pc' = [pc EXCEPT ![a] = "idle"] /\ UNCHANGED <<home, lock>>
          /\ guard' = [guard EXCEPT ![home[a]] = NoTask]
      BY <1>3 DEF Flush, DropGuard, Goto
    <2>2. /\ guard'[home[a]] = NoTask
          /\ \A p \in Process : guard'[p] \in {guard[p], NoTask}
      BY <1>0, <2>1 DEF TypeOK
    <2>3. lock # a
      BY <1>0, <2>1 DEF Locked
    <2> QED
      BY <1>0, <2>1, <2>2, <2>3, ReleaseInUse
  <1> QED
    BY <1>1, <1>2, <1>3 DEF Request

\* A task that fails, a request that is dropped and a process that stops leave no lock.
LEMMA FaultInUse ==
    ASSUME TypeOK, LocksAreInUse, FaultStep
    PROVE  LocksAreInUse'
  <1>0. NoTask \notin Task /\ \A t \in Task : home[t] \in Process
    BY PublicationAssumption DEF Task, TypeOK
  <1>1. ASSUME NEW t \in Task, FailQuery(t) PROVE LocksAreInUse'
    <2>1. pc[t] \notin Guarded
      BY <1>1 DEF FailQuery, Guarded
    <2> QED
      BY <1>1, <2>1, RefuseInUse DEF FailQuery, Refuse, Return
  <1>2. ASSUME NEW t \in Task, NEW written \in BOOLEAN, FailFence(t, written)
        PROVE  LocksAreInUse'
    <2>1. UNCHANGED <<home, lock>>
      BY <1>2 DEF FailFence
    <2>2. CASE pc[t] = "fence"
      <3>1. pc' = [pc EXCEPT ![t] = "routes"] /\ UNCHANGED guard
        BY <1>2, <2>2 DEF FailFence, Goto
      <3>2. lock # t /\ guard[home[t]] # t
        BY <1>0, <2>2 DEF LocksAreInUse, Locked, Guarded
      <3> QED
        BY <2>1, <3>1, <3>2, ReleaseInUse
    <2>3. CASE pc[t] # "fence"
      <3>1. /\ pc[t] \in {"advance", "published", "flush"} /\ DropGuard(t)
            /\ pc' = [pc EXCEPT ![t] = IF pc[t] = "flush" THEN "idle" ELSE "disable"]
        BY <1>2, <2>3 DEF FailFence, Goto
      <3>2. /\ guard'[home[t]] = NoTask
            /\ \A p \in Process : guard'[p] \in {guard[p], NoTask}
        BY <1>0, <3>1 DEF DropGuard, TypeOK
      <3>3. lock = t => pc[t] # "flush"
        BY DEF LocksAreInUse, Locked
      <3> QED
        BY <1>0, <2>1, <3>1, <3>2, <3>3, ReleaseInUse
    <2> QED
      BY <2>2, <2>3
  <1>3. ASSUME NEW a \in Admin, Cancel(a) PROVE LocksAreInUse'
    <2>1. /\ a \in Task /\ pc' = [pc EXCEPT ![a] = "idle"] /\ UNCHANGED home
          /\ \A p \in Process : guard'[p] = IF guard[p] = a THEN NoTask ELSE guard[p]
          /\ lock' = IF lock = a THEN NoTask ELSE lock
      BY <1>3 DEF Cancel, EndTransaction, Task
    <2> QED
      BY <1>0, <2>1, ReleaseInUse
  <1>4. ASSUME NEW p \in Process, LoseNotifications(p) \/ LoseListener(p) PROVE LocksAreInUse'
    BY <1>4 DEF LoseNotifications, LoseListener, processVars, taskVars, LocksAreInUse
  <1>5. ASSUME NEW p \in Process, Restart(p) PROVE LocksAreInUse'
    <2>1. /\ UNCHANGED home
          /\ \A q \in Process : guard'[q] = IF q = p THEN NoTask ELSE guard[q]
          /\ \A t \in Task : pc'[t] = IF home[t] = p THEN "idle" ELSE pc[t]
          /\ \A t \in Task : lock' = t => lock = t /\ home[t] # p
      BY <1>0, <1>5 DEF Restart, TypeOK
    <2> QED
      BY <1>0, <2>1 DEF LocksAreInUse
  <1> QED
    BY <1>1, <1>2, <1>3, <1>4, <1>5 DEF FaultStep

\* Locks are in use, whatever the step.
LEMMA LocksStep == TypeOK /\ LocksAreInUse /\ [LossyNext]_vars => LocksAreInUse'
  <1> SUFFICES ASSUME TypeOK, LocksAreInUse, [LossyNext]_vars PROVE LocksAreInUse'
    OBVIOUS
  <1>1. ASSUME NEW p \in Process, Listen(p) PROVE LocksAreInUse'
    <2>1. /\ p \in Task /\ pc[p] = "idle" /\ pc' = [pc EXCEPT ![p] = "read"]
          /\ UNCHANGED <<home, lock, guard>>
      BY <1>1 DEF Listen, Initialize, Connect, Notified, Retry, Start, processVars, Task
    <2> QED
      BY <2>1, StartInUse
  <1>2. CASE ChangeRoute \/ LoseRedis \/ BootstrapFence \/ UNCHANGED vars
    BY <1>2 DEF ChangeRoute, LoseRedis, BootstrapFence, vars, processVars, taskVars,
                LocksAreInUse
  <1> QED
    BY <1>1, <1>2, PrepareInUse, PublishInUse, RequestInUse, FaultInUse
    DEF LossyNext, Next, Work

\* No task keeps a lock that it does not come to release, and nobody waits in a circle:
\* over any number of processes and requests, whatever fails, is dropped or restarts
\* (cache/mod.rs, reconcile_and_publish_configuration; admin/mod.rs,
\* cache_invalidate_handler).
THEOREM NobodyWaitsInACircle == LossySpec => []WaitingEnds
  <1>1. Init => LocksAreInUse
    <2>1. NoTask \notin Task
      BY PublicationAssumption DEF Task
    <2> QED
      BY <2>1 DEF Init, LocksAreInUse
  <1>2. TypeOK /\ LocksAreInUse => WaitingEnds
    <2> SUFFICES ASSUME TypeOK, LocksAreInUse, NEW t \in Task, NEW u \in Task, WaitsFor(t, u)
                 PROVE  /\ pc[u] \in Locked \cup Guarded \cup {"disable"}
                        /\ \A v \in Task : WaitsFor(u, v) => \A w \in Task : ~WaitsFor(v, w)
      BY DEF WaitingEnds
    <2>1. ASSUME NEW x \in Task, NEW y \in Task, WaitsFor(x, y)
          PROVE  \/ lock = y /\ pc[y] \in Locked \cup {"disable"}
                 \/ pc[y] \in Guarded
      BY <2>1 DEF WaitsFor, LocksAreInUse, TypeOK
    <2>2. ASSUME NEW v \in Task, WaitsFor(u, v) PROVE pc[v] \in Guarded
      <3>1. pc[u] # "lock"
        BY <2>1 DEF Locked, Guarded
      <3> QED
        BY <2>2, <3>1 DEF WaitsFor, LocksAreInUse, TypeOK
    <2>3. ASSUME NEW v \in Task, pc[v] \in Guarded, NEW w \in Task PROVE ~WaitsFor(v, w)
      BY <2>3 DEF WaitsFor, Guarded
    <2> QED
      BY <2>1, <2>2, <2>3
  <1> QED
    BY <1>1, <1>2, LocksStep, PublicationTypes, PTL DEF LossySpec

=============================================================================
