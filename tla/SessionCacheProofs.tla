-------------------------- MODULE SessionCacheProofs --------------------------
(***************************************************************************)
(* Proof that a cached session is not older than the last invalidation, if *)
(* there is no Redis, or as long as the processes that have requests keep  *)
(* their generations and agree on what they stand for; and type            *)
(* correctness, of any number of processes.                                *)
(***************************************************************************)
EXTENDS MCSessionCache, TLAPS

-----------------------------------------------------------------------------
(* Every step keeps the invariant.                                         *)

\* The entry a request holds is replaced by an entry.
LEMMA StoredType ==
    ASSUME TypeOK, NEW r \in Request, NEW entry \in Entry \cup {NoEntry}
    PROVE  [job EXCEPT ![r].entry = entry] \in [Request -> Job]
  <1>1. [job[r] EXCEPT !.entry = entry] \in Job
    BY DEF TypeOK, Job
  <1> QED  BY <1>1 DEF TypeOK

\* A request comes in.
LEMMA BeginInv ==
    ASSUME TagsAgree, Inv, NEW r \in Request, Begin(r)
    PROVE  Inv'
  <1>1. TypeOK'
    BY SessionAssumption
    DEF Inv, TypeOK, Begin, Capture, Entry, NoEntry, Awaits, Job,
        Goto, processVars, NoIdentity
  <1>2. PastOnly'
    BY SessionAssumption
    DEF Inv, PastOnly, TypeOK, Begin, Capture, Entry, NoEntry, Awaits,
        Job, Goto, processVars, NoIdentity
  <1>3. EntriesAreTagged'
    BY SessionAssumption
    DEF Inv, EntriesAreTagged, TypeOK, PastOnly, Begin, Capture,
        Tagged, Entry, NoEntry, Awaits, Job, Goto, processVars,
        NoIdentity
  <1>4. AnswersAreYoung'
    BY SessionAssumption
    DEF Inv, AnswersAreYoung, TypeOK, PastOnly, EntriesAreTagged,
        Begin, Capture, NoEntry, Entry, Awaits, Job, Tagged, Goto,
        processVars, NoIdentity
  <1>5. NothingShared'
    BY SessionAssumption
    DEF Inv, NothingShared, TypeOK, Begin, Capture, NoEntry, Entry,
        Awaits, Job, Goto, processVars, NoIdentity
  <1> QED  BY <1>1, <1>2, <1>3, <1>4, <1>5 DEF Inv

\* A watchdog looks up.
LEMMA TickInv ==
    ASSUME TagsAgree, Inv, NEW r \in Request, Tick(r)
    PROVE  Inv'
  <1>1. TypeOK'
    BY SessionAssumption
    DEF Inv, TypeOK, Tick, Capture, Entry, NoEntry, Awaits, Job, Goto,
        processVars, NoIdentity
  <1>2. PastOnly'
    BY SessionAssumption
    DEF Inv, PastOnly, TypeOK, Tick, Capture, Entry, NoEntry, Awaits,
        Job, Goto, processVars, NoIdentity
  <1>3. EntriesAreTagged'
    BY SessionAssumption
    DEF Inv, EntriesAreTagged, TypeOK, PastOnly, Tick, Capture,
        Tagged, Entry, NoEntry, Awaits, Job, Goto, processVars,
        NoIdentity
  <1>4. AnswersAreYoung'
    BY SessionAssumption
    DEF Inv, AnswersAreYoung, TypeOK, PastOnly, EntriesAreTagged,
        Tick, Capture, NoEntry, Entry, Awaits, Job, Tagged, Goto,
        processVars, NoIdentity
  <1>5. NothingShared'
    BY SessionAssumption
    DEF Inv, NothingShared, TypeOK, Tick, Capture, NoEntry, Entry,
        Awaits, Job, Goto, processVars, NoIdentity
  <1> QED  BY <1>1, <1>2, <1>3, <1>4, <1>5 DEF Inv

\* The first level.
LEMMA LookupL1Inv ==
    ASSUME TagsAgree, Inv, NEW r \in Request, LookupL1(r)
    PROVE  Inv'
  <1>1. TypeOK'
    <2>1. job' \in [Request -> Job]
      BY StoredType DEF Inv, TypeOK, LookupL1, Serve
    <2>2. l1' \in [Process -> Entry \cup {NoEntry}]
      BY DEF Inv, TypeOK, LookupL1, SetL1
    <2>3. pc' \in [Request -> Awaits]
      BY DEF Inv, TypeOK, LookupL1, Serve, Miss, Goto, Awaits
    <2> QED
      BY <2>1, <2>2, <2>3 DEF Inv, TypeOK, LookupL1
  <1>2. PastOnly'
    BY SessionAssumption
    DEF Inv, PastOnly, TypeOK, LookupL1, Unmoved, Miss, Current,
        Serve, NoEntry, SetL1, Goto, Entry, Awaits, Job, NoIdentity
  <1>3. EntriesAreTagged'
    <2>1. /\ UNCHANGED <<l2, generation, floor, home>>
          /\ l1' = l1 \/ l1' = [l1 EXCEPT ![home[r]] = NoEntry]
          /\ job' = job \/ job' = [job EXCEPT ![r].entry = l1[home[r]]]
      BY DEF LookupL1, SetL1, Serve
    <2>2. (\A p \in Process : Tagged(p, l1[p]))'
      BY <2>1 DEF Inv, EntriesAreTagged, TypeOK, Tagged
    <2>3. ASSUME NEW q \in Request
          PROVE  (Tagged(home[q], l2) /\ Tagged(home[q], job[q].entry))'
      <3>1. job'[q].entry = job[q].entry \/ job'[q].entry = l1[home[q]]
        BY <2>1 DEF Inv, TypeOK, Job
      <3> QED
        BY <3>1, <2>1 DEF Inv, EntriesAreTagged, TypeOK, Tagged
    <2> QED
      BY <2>1, <2>2, <2>3 DEF EntriesAreTagged
  <1>4. AnswersAreYoung'
    <2>1. CASE Unmoved(r) /\ Current(r, l1[home[r]]) /\ Serve(r, l1[home[r]])
      <3>1. /\ l1[home[r]] # NoEntry
            /\ l1[home[r]].generation = generation[home[r]]
        BY <2>1 DEF Current, Unmoved
      <3>2. l1[home[r]].identity >= floor[home[r]] /\ floor[home[r]] >= job[r].floor
        BY <3>1 DEF Inv, TypeOK, EntriesAreTagged, PastOnly, Tagged
      <3>3. l1[home[r]] \in Entry /\ floor[home[r]] \in Nat /\ job[r].floor \in Nat
        BY <3>1 DEF Inv, TypeOK, Job
      <3>4. l1[home[r]].identity >= job[r].floor
        BY <3>2, <3>3 DEF Entry
      <3> QED
        BY <2>1, <3>1, <3>4 DEF Inv, TypeOK, AnswersAreYoung, Serve, Goto, Job
    <2>2. CASE UNCHANGED job /\ pc' \in {[pc EXCEPT ![r] = a] :
                  a \in {"cut", "authenticate", "drop_l1", "l2"}}
      BY <2>2 DEF Inv, TypeOK, AnswersAreYoung
    <2> QED
      BY <2>1, <2>2 DEF LookupL1, Miss, Goto
  <1>5. NothingShared'
    BY SessionAssumption
    DEF Inv, NothingShared, TypeOK, LookupL1, Unmoved, Miss, Current,
        Serve, NoEntry, SetL1, Goto, Entry, Awaits, Job, NoIdentity
  <1> QED  BY <1>1, <1>2, <1>3, <1>4, <1>5 DEF Inv

\* A stale entry goes.
LEMMA DropStaleInv ==
    ASSUME TagsAgree, Inv, NEW r \in Request, DropStale(r)
    PROVE  Inv'
  <1>1. TypeOK'
    <2>1. l2' \in Entry \cup {NoEntry} /\ faults' \in Nat
      BY DEF Inv, TypeOK, DropStale, Redis, RedisFails
    <2>2. pc' \in [Request -> Awaits]
      BY DEF Inv, TypeOK, DropStale, Miss, Goto, Awaits
    <2> QED
      BY <2>1, <2>2 DEF Inv, TypeOK, DropStale, processVars
  <1>2. PastOnly'
    BY SessionAssumption
    DEF Inv, PastOnly, TypeOK, DropStale, Redis, NoEntry, RedisFails,
        Goto, Miss, processVars, Entry, Awaits, Job, NoIdentity
  <1>3. EntriesAreTagged'
    BY SessionAssumption
    DEF Inv, EntriesAreTagged, TypeOK, PastOnly, DropStale, Redis,
        NoEntry, RedisFails, Goto, Miss, processVars, Tagged, Entry,
        Awaits, Job, NoIdentity
  <1>4. AnswersAreYoung'
    BY SessionAssumption
    DEF Inv, AnswersAreYoung, TypeOK, PastOnly, EntriesAreTagged,
        DropStale, Redis, NoEntry, RedisFails, Goto, Miss,
        processVars, Entry, Awaits, Job, Tagged, NoIdentity
  <1>5. NothingShared'
    BY SessionAssumption
    DEF Inv, NothingShared, TypeOK, DropStale, Redis, NoEntry,
        RedisFails, Goto, Miss, processVars, Entry, Awaits, Job,
        NoIdentity
  <1> QED  BY <1>1, <1>2, <1>3, <1>4, <1>5 DEF Inv

\* The second level answers.
LEMMA GetL2Inv ==
    ASSUME TagsAgree, Inv, NEW r \in Request, GetL2(r)
    PROVE  Inv'
  <1>1. TypeOK'
    <2>1. /\ l2' = l2 /\ faults' \in {faults, faults + 1}
          /\ job' = job \/ job' = [job EXCEPT ![r].entry = l2]
      BY DEF GetL2, Redis, RedisFails
    <2>2. l2 \in Entry \cup {NoEntry} /\ job \in [Request -> Job] /\ faults \in Nat
      BY DEF Inv, TypeOK
    <2>3. [job EXCEPT ![r].entry = l2] \in [Request -> Job]
      BY <2>2, StoredType DEF Inv
    <2>4. job' \in [Request -> Job] /\ faults' \in Nat /\ l2' = l2
      BY <2>1, <2>2, <2>3
    <2>5. pc' \in [Request -> Awaits]
      BY DEF Inv, TypeOK, GetL2, Miss, Goto, Awaits
    <2> QED
      BY <2>4, <2>5 DEF Inv, TypeOK, GetL2, processVars
  <1>2. PastOnly'
    BY SessionAssumption
    DEF Inv, PastOnly, TypeOK, GetL2, Redis, NoEntry, Miss,
        Goto, RedisFails, processVars, Entry, Awaits, Job, NoIdentity
  <1>3. EntriesAreTagged'
    BY SMTT(60), SessionAssumption
    DEF Inv, EntriesAreTagged, TypeOK, PastOnly, GetL2, Redis,
        NoEntry, Miss, Goto, RedisFails, processVars, Tagged, Entry,
        Awaits, Job, NoIdentity
  <1>4. AnswersAreYoung'
    BY SessionAssumption
    DEF Inv, AnswersAreYoung, TypeOK, PastOnly, EntriesAreTagged,
        GetL2, Redis, NoEntry, Miss, Goto, RedisFails,
        processVars, Entry, Awaits, Job, Tagged, NoIdentity
  <1>5. NothingShared'
    BY SessionAssumption
    DEF Inv, NothingShared, TypeOK, GetL2, Redis, NoEntry,
        Miss, Goto, RedisFails, processVars, Entry, Awaits, Job,
        NoIdentity
  <1> QED  BY <1>1, <1>2, <1>3, <1>4, <1>5 DEF Inv

\* What it answered is looked at.
LEMMA CheckL2Inv ==
    ASSUME TagsAgree, Inv, NEW r \in Request, CheckL2(r)
    PROVE  Inv'
  <1>1. TypeOK'
    BY SessionAssumption
    DEF Inv, TypeOK, CheckL2, Current, Goto, SetL1, NoEntry,
        Entry, Awaits, Job, Unmoved, NoIdentity
  <1>2. PastOnly'
    BY SessionAssumption
    DEF Inv, PastOnly, TypeOK, CheckL2, Current, Goto, SetL1,
        NoEntry, Entry, Awaits, Job, Unmoved, NoIdentity
  <1>3. EntriesAreTagged'
    BY SessionAssumption
    DEF Inv, EntriesAreTagged, TypeOK, PastOnly, CheckL2,
        Current, Goto, SetL1, NoEntry, Tagged, Entry, Awaits, Job,
        Unmoved, NoIdentity
  <1>4. AnswersAreYoung'
    BY SessionAssumption
    DEF Inv, AnswersAreYoung, TypeOK, PastOnly, EntriesAreTagged,
        CheckL2, Current, Goto, SetL1, NoEntry, Entry, Awaits,
        Job, Tagged, Unmoved, NoIdentity
  <1>5. NothingShared'
    BY SessionAssumption
    DEF Inv, NothingShared, TypeOK, CheckL2, Current, Goto,
        SetL1, NoEntry, Entry, Awaits, Job, Unmoved, NoIdentity
  <1> QED  BY <1>1, <1>2, <1>3, <1>4, <1>5 DEF Inv

\* It is copied.
LEMMA CopyToL1Inv ==
    ASSUME TagsAgree, Inv, NEW r \in Request, CopyToL1(r)
    PROVE  Inv'
  <1>1. TypeOK'
    BY SessionAssumption
    DEF Inv, TypeOK, CopyToL1, SetL1, Goto, Entry, NoEntry, Awaits,
        Job, NoIdentity
  <1>2. PastOnly'
    BY SessionAssumption
    DEF Inv, PastOnly, TypeOK, CopyToL1, SetL1, Goto, Entry, NoEntry,
        Awaits, Job, NoIdentity
  <1>3. EntriesAreTagged'
    BY SessionAssumption
    DEF Inv, EntriesAreTagged, TypeOK, PastOnly, CopyToL1, SetL1,
        Goto, Tagged, Entry, NoEntry, Awaits, Job, NoIdentity
  <1>4. AnswersAreYoung'
    BY SessionAssumption
    DEF Inv, AnswersAreYoung, TypeOK, PastOnly, EntriesAreTagged,
        CopyToL1, SetL1, Goto, NoEntry, Entry, Awaits, Job, Tagged,
        NoIdentity
  <1>5. NothingShared'
    BY SessionAssumption
    DEF Inv, NothingShared, TypeOK, CopyToL1, SetL1, Goto, NoEntry,
        Entry, Awaits, Job, NoIdentity
  <1> QED  BY <1>1, <1>2, <1>3, <1>4, <1>5 DEF Inv

\* It is served.
LEMMA AfterCopyInv ==
    ASSUME TagsAgree, Inv, NEW r \in Request, AfterCopy(r)
    PROVE  Inv'
  <1>1. TypeOK'
    <2>1. UNCHANGED <<account, l2, generation, l1, flush, floor, home, faults>>
      BY DEF AfterCopy, Serve, Miss, Goto, processVars
    <2>2. job' = job \/ job' = [job EXCEPT ![r].entry = job[r].entry]
      BY DEF AfterCopy, Serve, Miss, Goto
    <2>3. job' \in [Request -> Job]
      BY <2>2 DEF Inv, TypeOK, Job
    <2>4. pc' \in [Request -> Awaits]
      BY DEF Inv, TypeOK, AfterCopy, Serve, Miss, Goto, Awaits
    <2> QED
      BY <2>1, <2>3, <2>4 DEF Inv, TypeOK
  <1>2. PastOnly'
    BY SessionAssumption
    DEF Inv, PastOnly, TypeOK, AfterCopy, Unmoved, Serve, Miss,
        processVars, Entry, NoEntry, Awaits, Job, Goto, NoIdentity
  <1>3. EntriesAreTagged'
    BY SessionAssumption
    DEF Inv, EntriesAreTagged, TypeOK, PastOnly, AfterCopy, Unmoved,
        Serve, Miss, processVars, Tagged, Entry, NoEntry, Awaits, Job,
        Goto, NoIdentity
  <1>4. AnswersAreYoung'
    BY SessionAssumption
    DEF Inv, AnswersAreYoung, TypeOK, PastOnly, EntriesAreTagged,
        AfterCopy, Unmoved, Serve, Miss, processVars, NoEntry, Entry,
        Awaits, Job, Tagged, Goto, NoIdentity
  <1>5. NothingShared'
    BY SessionAssumption
    DEF Inv, NothingShared, TypeOK, AfterCopy, Unmoved, Serve, Miss,
        processVars, NoEntry, Entry, Awaits, Job, Goto, NoIdentity
  <1> QED  BY <1>1, <1>2, <1>3, <1>4, <1>5 DEF Inv

\* The provider answers: what it says is of now.
LEMMA AuthenticateInv ==
    ASSUME TagsAgree, Inv, NEW r \in Request, Authenticate(r)
    PROVE  Inv'
  <1>1. TypeOK'
    <2>1. [generation |-> job[r].generation, identity |-> account.revision] \in Entry
      BY DEF Inv, TypeOK, Job, Entry
    <2>2. NoJob \in Job
      BY DEF NoJob, Job
    <2>3. job' \in [Request -> Job]
      BY <2>1, <2>2, StoredType DEF Inv, TypeOK, Authenticate
    <2> QED
      BY <2>3 DEF Inv, TypeOK, Authenticate, Goto, Awaits, processVars
  <1>2. PastOnly'
    BY SMTT(60), SessionAssumption
    DEF Inv, PastOnly, TypeOK, Authenticate, Goto, NoJob,
        processVars, Entry, NoEntry, Awaits, Job, NoIdentity
  <1>3. EntriesAreTagged'
    BY SMTT(60), SessionAssumption
    DEF Inv, EntriesAreTagged, TypeOK, PastOnly, Authenticate,
        Goto, NoJob, processVars, Tagged, Entry, NoEntry, Awaits, Job,
        NoIdentity
  <1>4. AnswersAreYoung'
    BY SMTT(60), SessionAssumption
    DEF Inv, AnswersAreYoung, TypeOK, PastOnly, EntriesAreTagged,
        Authenticate, Goto, NoJob, processVars, NoEntry, Entry,
        Awaits, Job, Tagged, NoIdentity
  <1>5. NothingShared'
    BY SessionAssumption
    DEF Inv, NothingShared, TypeOK, Authenticate, Goto, NoJob,
        processVars, NoEntry, Entry, Awaits, Job, NoIdentity
  <1> QED  BY <1>1, <1>2, <1>3, <1>4, <1>5 DEF Inv

\* The answer is to be stored.
LEMMA PutInv ==
    ASSUME TagsAgree, Inv, NEW r \in Request, Put(r)
    PROVE  Inv'
  <1>1. TypeOK'
    BY SessionAssumption
    DEF Inv, TypeOK, Put, Goto, Unmoved, processVars, Entry, NoEntry,
        Awaits, Job, NoIdentity
  <1>2. PastOnly'
    BY SessionAssumption
    DEF Inv, PastOnly, TypeOK, Put, Goto, Unmoved, processVars, Entry,
        NoEntry, Awaits, Job, NoIdentity
  <1>3. EntriesAreTagged'
    BY SessionAssumption
    DEF Inv, EntriesAreTagged, TypeOK, PastOnly, Put, Goto, Unmoved,
        processVars, Tagged, Entry, NoEntry, Awaits, Job, NoIdentity
  <1>4. AnswersAreYoung'
    BY SessionAssumption
    DEF Inv, AnswersAreYoung, TypeOK, PastOnly, EntriesAreTagged, Put,
        Goto, Unmoved, processVars, NoEntry, Entry, Awaits, Job,
        Tagged, NoIdentity
  <1>5. NothingShared'
    BY SessionAssumption
    DEF Inv, NothingShared, TypeOK, Put, Goto, Unmoved, processVars,
        NoEntry, Entry, Awaits, Job, NoIdentity
  <1> QED  BY <1>1, <1>2, <1>3, <1>4, <1>5 DEF Inv

\* It is stored in Redis.
LEMMA SetL2Inv ==
    ASSUME TagsAgree, Inv, NEW r \in Request, SetL2(r)
    PROVE  Inv'
  <1>1. TypeOK'
    BY SessionAssumption
    DEF Inv, TypeOK, SetL2, Redis, RedisFails, Goto,
        processVars, Entry, NoEntry, Awaits, Job, NoIdentity
  <1>2. PastOnly'
    BY SessionAssumption
    DEF Inv, PastOnly, TypeOK, SetL2, Redis, RedisFails, Goto,
        processVars, Entry, NoEntry, Awaits, Job, NoIdentity
  <1>3. EntriesAreTagged'
    <2>1. /\ UNCHANGED <<generation, floor, l1, home, job>>
          /\ l2' = job[r].entry \/ l2' = l2
      BY DEF SetL2, Redis, RedisFails, processVars
    <2>2. \A q \in Request : /\ generation[home[q]] = generation[home[r]]
                            /\ floor[home[q]] = floor[home[r]]
      BY DEF Inv, NothingShared, SetL2, TagsAgree
    <2>3. \A q \in Request : Tagged(home[q], job[r].entry)
      BY <2>2 DEF Inv, EntriesAreTagged, Tagged
    <2> QED
      BY <2>1, <2>3 DEF Inv, EntriesAreTagged, Tagged
  <1>4. AnswersAreYoung'
    BY SessionAssumption
    DEF Inv, AnswersAreYoung, TypeOK, PastOnly, EntriesAreTagged,
        SetL2, Redis, RedisFails, Goto, processVars, NoEntry,
        Entry, Awaits, Job, Tagged, NoIdentity
  <1>5. NothingShared'
    BY SessionAssumption
    DEF Inv, NothingShared, TypeOK, SetL2, Redis, RedisFails,
        Goto, processVars, NoEntry, Entry, Awaits, Job, NoIdentity
  <1> QED  BY <1>1, <1>2, <1>3, <1>4, <1>5 DEF Inv

\* The generation is compared.
LEMMA AfterSetInv ==
    ASSUME TagsAgree, Inv, NEW r \in Request, AfterSet(r)
    PROVE  Inv'
  <1>1. TypeOK'
    BY SessionAssumption
    DEF Inv, TypeOK, AfterSet, Goto, Unmoved, processVars, Entry,
        NoEntry, Awaits, Job, NoIdentity
  <1>2. PastOnly'
    BY SessionAssumption
    DEF Inv, PastOnly, TypeOK, AfterSet, Goto, Unmoved, processVars,
        Entry, NoEntry, Awaits, Job, NoIdentity
  <1>3. EntriesAreTagged'
    BY SessionAssumption
    DEF Inv, EntriesAreTagged, TypeOK, PastOnly, AfterSet, Goto,
        Unmoved, processVars, Tagged, Entry, NoEntry, Awaits, Job,
        NoIdentity
  <1>4. AnswersAreYoung'
    BY SessionAssumption
    DEF Inv, AnswersAreYoung, TypeOK, PastOnly, EntriesAreTagged,
        AfterSet, Goto, Unmoved, processVars, NoEntry, Entry, Awaits,
        Job, Tagged, NoIdentity
  <1>5. NothingShared'
    BY SessionAssumption
    DEF Inv, NothingShared, TypeOK, AfterSet, Goto, Unmoved,
        processVars, NoEntry, Entry, Awaits, Job, NoIdentity
  <1> QED  BY <1>1, <1>2, <1>3, <1>4, <1>5 DEF Inv

\* It is stored in memory.
LEMMA StoreL1Inv ==
    ASSUME TagsAgree, Inv, NEW r \in Request, StoreL1(r)
    PROVE  Inv'
  <1>1. TypeOK'
    BY SessionAssumption
    DEF Inv, TypeOK, StoreL1, Unmoved, SetL1, Goto, Entry, NoEntry,
        Awaits, Job, NoIdentity
  <1>2. PastOnly'
    BY SessionAssumption
    DEF Inv, PastOnly, TypeOK, StoreL1, Unmoved, SetL1, Goto, Entry,
        NoEntry, Awaits, Job, NoIdentity
  <1>3. EntriesAreTagged'
    BY SessionAssumption
    DEF Inv, EntriesAreTagged, TypeOK, PastOnly, StoreL1, Unmoved,
        SetL1, Goto, Tagged, Entry, NoEntry, Awaits, Job, NoIdentity
  <1>4. AnswersAreYoung'
    BY SessionAssumption
    DEF Inv, AnswersAreYoung, TypeOK, PastOnly, EntriesAreTagged,
        StoreL1, Unmoved, SetL1, Goto, NoEntry, Entry, Awaits, Job,
        Tagged, NoIdentity
  <1>5. NothingShared'
    BY SessionAssumption
    DEF Inv, NothingShared, TypeOK, StoreL1, Unmoved, SetL1, Goto,
        NoEntry, Entry, Awaits, Job, NoIdentity
  <1> QED  BY <1>1, <1>2, <1>3, <1>4, <1>5 DEF Inv

\* The generation is compared again.
LEMMA AfterStoreInv ==
    ASSUME TagsAgree, Inv, NEW r \in Request, AfterStore(r)
    PROVE  Inv'
  <1>1. TypeOK'
    BY SessionAssumption
    DEF Inv, TypeOK, AfterStore, Unmoved, Goto, SetL1, NoEntry, Entry,
        Awaits, Job, NoIdentity
  <1>2. PastOnly'
    BY SessionAssumption
    DEF Inv, PastOnly, TypeOK, AfterStore, Unmoved, Goto, SetL1,
        NoEntry, Entry, Awaits, Job, NoIdentity
  <1>3. EntriesAreTagged'
    BY SessionAssumption
    DEF Inv, EntriesAreTagged, TypeOK, PastOnly, AfterStore, Unmoved,
        Goto, SetL1, NoEntry, Tagged, Entry, Awaits, Job, NoIdentity
  <1>4. AnswersAreYoung'
    BY SessionAssumption
    DEF Inv, AnswersAreYoung, TypeOK, PastOnly, EntriesAreTagged,
        AfterStore, Unmoved, Goto, SetL1, NoEntry, Entry, Awaits, Job,
        Tagged, NoIdentity
  <1>5. NothingShared'
    BY SessionAssumption
    DEF Inv, NothingShared, TypeOK, AfterStore, Unmoved, Goto, SetL1,
        NoEntry, Entry, Awaits, Job, NoIdentity
  <1> QED  BY <1>1, <1>2, <1>3, <1>4, <1>5 DEF Inv

\* The answer is removed.
LEMMA UndoInv ==
    ASSUME TagsAgree, Inv, NEW r \in Request, Undo(r)
    PROVE  Inv'
  <1>1. TypeOK'
    BY SessionAssumption
    DEF Inv, TypeOK, Undo, Redis, NoEntry, RedisFails, Goto,
        processVars, Entry, Awaits, Job, NoIdentity
  <1>2. PastOnly'
    BY SessionAssumption
    DEF Inv, PastOnly, TypeOK, Undo, Redis, NoEntry, RedisFails, Goto,
        processVars, Entry, Awaits, Job, NoIdentity
  <1>3. EntriesAreTagged'
    BY SessionAssumption
    DEF Inv, EntriesAreTagged, TypeOK, PastOnly, Undo, Redis, NoEntry,
        RedisFails, Goto, processVars, Tagged, Entry, Awaits, Job,
        NoIdentity
  <1>4. AnswersAreYoung'
    BY SessionAssumption
    DEF Inv, AnswersAreYoung, TypeOK, PastOnly, EntriesAreTagged,
        Undo, Redis, NoEntry, RedisFails, Goto, processVars, Entry,
        Awaits, Job, Tagged, NoIdentity
  <1>5. NothingShared'
    BY SessionAssumption
    DEF Inv, NothingShared, TypeOK, Undo, Redis, NoEntry, RedisFails,
        Goto, processVars, Entry, Awaits, Job, NoIdentity
  <1> QED  BY <1>1, <1>2, <1>3, <1>4, <1>5 DEF Inv

\* A request ends, or becomes a stream.
LEMMA RespondInv ==
    ASSUME TagsAgree, Inv, NEW r \in Request, Respond(r)
    PROVE  Inv'
  <1>1. TypeOK'
    <2>1. NoJob \in Job
      BY DEF NoJob, Job
    <2> QED
      BY <2>1 DEF Inv, TypeOK, Respond, Goto, Awaits, processVars
  <1>2. PastOnly'
    BY SessionAssumption
    DEF Inv, PastOnly, TypeOK, Respond, Goto, NoJob, processVars,
        Entry, NoEntry, Awaits, Job, NoIdentity
  <1>3. EntriesAreTagged'
    <2>1. /\ UNCHANGED <<l1, l2, generation, floor, home>>
          /\ job' = job \/ job' = [job EXCEPT ![r] = NoJob]
      BY DEF Respond, processVars
    <2>2. \A q \in Request : job'[q].entry = job[q].entry \/ job'[q].entry = NoEntry
      BY <2>1 DEF Inv, TypeOK, NoJob
    <2> QED
      BY <2>1, <2>2 DEF Inv, EntriesAreTagged, TypeOK, Tagged
  <1>4. AnswersAreYoung'
    BY SessionAssumption
    DEF Inv, AnswersAreYoung, TypeOK, PastOnly, EntriesAreTagged,
        Respond, Goto, NoJob, processVars, NoEntry, Entry, Awaits,
        Job, Tagged, NoIdentity
  <1>5. NothingShared'
    BY SessionAssumption
    DEF Inv, NothingShared, TypeOK, Respond, Goto, NoJob, processVars,
        NoEntry, Entry, Awaits, Job, NoIdentity
  <1> QED  BY <1>1, <1>2, <1>3, <1>4, <1>5 DEF Inv

\* A stream goes on.
LEMMA GoOnInv ==
    ASSUME TagsAgree, Inv, NEW r \in Request, GoOn(r)
    PROVE  Inv'
  <1>1. TypeOK'
    BY SessionAssumption
    DEF Inv, TypeOK, GoOn, Goto, processVars, Entry, NoEntry, Awaits,
        Job, NoIdentity
  <1>2. PastOnly'
    BY SessionAssumption
    DEF Inv, PastOnly, TypeOK, GoOn, Goto, processVars, Entry,
        NoEntry, Awaits, Job, NoIdentity
  <1>3. EntriesAreTagged'
    BY SessionAssumption
    DEF Inv, EntriesAreTagged, TypeOK, PastOnly, GoOn, Goto,
        processVars, Tagged, Entry, NoEntry, Awaits, Job, NoIdentity
  <1>4. AnswersAreYoung'
    BY SessionAssumption
    DEF Inv, AnswersAreYoung, TypeOK, PastOnly, EntriesAreTagged,
        GoOn, Goto, processVars, NoEntry, Entry, Awaits, Job, Tagged,
        NoIdentity
  <1>5. NothingShared'
    BY SessionAssumption
    DEF Inv, NothingShared, TypeOK, GoOn, Goto, processVars, NoEntry,
        Entry, Awaits, Job, NoIdentity
  <1> QED  BY <1>1, <1>2, <1>3, <1>4, <1>5 DEF Inv

\* A client leaves.
LEMMA LeaveInv ==
    ASSUME TagsAgree, Inv, NEW r \in Request, Leave(r)
    PROVE  Inv'
  <1>1. TypeOK'
    BY SessionAssumption
    DEF Inv, TypeOK, Leave, Goto, NoJob, processVars, Entry, NoEntry,
        Awaits, Job, NoIdentity
  <1>2. PastOnly'
    BY SessionAssumption
    DEF Inv, PastOnly, TypeOK, Leave, Goto, NoJob, processVars, Entry,
        NoEntry, Awaits, Job, NoIdentity
  <1>3. EntriesAreTagged'
    BY SessionAssumption
    DEF Inv, EntriesAreTagged, TypeOK, PastOnly, Leave, Goto, NoJob,
        processVars, Tagged, Entry, NoEntry, Awaits, Job, NoIdentity
  <1>4. AnswersAreYoung'
    BY SessionAssumption
    DEF Inv, AnswersAreYoung, TypeOK, PastOnly, EntriesAreTagged,
        Leave, Goto, NoJob, processVars, NoEntry, Entry, Awaits, Job,
        Tagged, NoIdentity
  <1>5. NothingShared'
    BY SessionAssumption
    DEF Inv, NothingShared, TypeOK, Leave, Goto, NoJob, processVars,
        NoEntry, Entry, Awaits, Job, NoIdentity
  <1> QED  BY <1>1, <1>2, <1>3, <1>4, <1>5 DEF Inv

\* An invalidation: nothing is tagged with the new generation yet.
LEMMA AdvanceGenerationInv ==
    ASSUME TagsAgree, Inv, NEW p \in Process, AdvanceGeneration(p)
    PROVE  Inv'
  <1>1. TypeOK'
    BY SessionAssumption
    DEF Inv, TypeOK, AdvanceGeneration, requestVars, Entry,
        NoEntry, Awaits, Job, NoIdentity
  <1>2. PastOnly'
    BY SessionAssumption
    DEF Inv, PastOnly, TypeOK, AdvanceGeneration, requestVars,
        Entry, NoEntry, Awaits, Job, NoIdentity
  <1>3. EntriesAreTagged'
    BY SessionAssumption
    DEF Inv, EntriesAreTagged, TypeOK, PastOnly, AdvanceGeneration,
        requestVars, Tagged, Entry, NoEntry, Awaits, Job,
        NoIdentity
  <1>4. AnswersAreYoung'
    BY SessionAssumption
    DEF Inv, AnswersAreYoung, TypeOK, PastOnly, EntriesAreTagged,
        AdvanceGeneration, requestVars, NoEntry, Entry, Awaits,
        Job, Tagged, NoIdentity
  <1>5. NothingShared'
    BY SessionAssumption
    DEF Inv, NothingShared, TypeOK, AdvanceGeneration,
        requestVars, NoEntry, Entry, Awaits, Job, NoIdentity
  <1> QED  BY <1>1, <1>2, <1>3, <1>4, <1>5 DEF Inv

\* The first level is cleared.
LEMMA ClearL1Inv ==
    ASSUME TagsAgree, Inv, NEW p \in Process, ClearL1(p)
    PROVE  Inv'
  <1>1. TypeOK'
    BY SessionAssumption
    DEF Inv, TypeOK, ClearL1, SetL1, NoEntry, requestVars, Entry,
        Awaits, Job, NoIdentity
  <1>2. PastOnly'
    BY SessionAssumption
    DEF Inv, PastOnly, TypeOK, ClearL1, SetL1, NoEntry, requestVars,
        Entry, Awaits, Job, NoIdentity
  <1>3. EntriesAreTagged'
    BY SessionAssumption
    DEF Inv, EntriesAreTagged, TypeOK, PastOnly, ClearL1, SetL1,
        NoEntry, requestVars, Tagged, Entry, Awaits, Job, NoIdentity
  <1>4. AnswersAreYoung'
    BY SessionAssumption
    DEF Inv, AnswersAreYoung, TypeOK, PastOnly, EntriesAreTagged,
        ClearL1, SetL1, NoEntry, requestVars, Entry, Awaits, Job,
        Tagged, NoIdentity
  <1>5. NothingShared'
    BY SessionAssumption
    DEF Inv, NothingShared, TypeOK, ClearL1, SetL1, NoEntry,
        requestVars, Entry, Awaits, Job, NoIdentity
  <1> QED  BY <1>1, <1>2, <1>3, <1>4, <1>5 DEF Inv

\* The second level is.
LEMMA DeleteL2Inv ==
    ASSUME TagsAgree, Inv, NEW p \in Process, DeleteL2(p)
    PROVE  Inv'
  <1>1. TypeOK'
    BY SessionAssumption
    DEF Inv, TypeOK, DeleteL2, Redis, NoEntry, RedisFails,
        requestVars, Entry, Awaits, Job, NoIdentity
  <1>2. PastOnly'
    BY SessionAssumption
    DEF Inv, PastOnly, TypeOK, DeleteL2, Redis, NoEntry, RedisFails,
        requestVars, Entry, Awaits, Job, NoIdentity
  <1>3. EntriesAreTagged'
    BY SessionAssumption
    DEF Inv, EntriesAreTagged, TypeOK, PastOnly, DeleteL2, Redis,
        NoEntry, RedisFails, requestVars, Tagged, Entry, Awaits, Job,
        NoIdentity
  <1>4. AnswersAreYoung'
    BY SessionAssumption
    DEF Inv, AnswersAreYoung, TypeOK, PastOnly, EntriesAreTagged,
        DeleteL2, Redis, NoEntry, RedisFails, requestVars, Entry,
        Awaits, Job, Tagged, NoIdentity
  <1>5. NothingShared'
    BY SessionAssumption
    DEF Inv, NothingShared, TypeOK, DeleteL2, Redis, NoEntry,
        RedisFails, requestVars, Entry, Awaits, Job, NoIdentity
  <1> QED  BY <1>1, <1>2, <1>3, <1>4, <1>5 DEF Inv

\* An entry of the first level goes.
LEMMA EvictL1Inv ==
    ASSUME TagsAgree, Inv, NEW p \in Process, EvictL1(p)
    PROVE  Inv'
  <1>1. TypeOK'
    BY SessionAssumption
    DEF Inv, TypeOK, EvictL1, NoEntry, SetL1, requestVars, Entry,
        Awaits, Job, NoIdentity
  <1>2. PastOnly'
    BY SessionAssumption
    DEF Inv, PastOnly, TypeOK, EvictL1, NoEntry, SetL1, requestVars,
        Entry, Awaits, Job, NoIdentity
  <1>3. EntriesAreTagged'
    BY SessionAssumption
    DEF Inv, EntriesAreTagged, TypeOK, PastOnly, EvictL1, NoEntry,
        SetL1, requestVars, Tagged, Entry, Awaits, Job, NoIdentity
  <1>4. AnswersAreYoung'
    BY SessionAssumption
    DEF Inv, AnswersAreYoung, TypeOK, PastOnly, EntriesAreTagged,
        EvictL1, NoEntry, SetL1, requestVars, Entry, Awaits, Job,
        Tagged, NoIdentity
  <1>5. NothingShared'
    BY SessionAssumption
    DEF Inv, NothingShared, TypeOK, EvictL1, NoEntry, SetL1,
        requestVars, Entry, Awaits, Job, NoIdentity
  <1> QED  BY <1>1, <1>2, <1>3, <1>4, <1>5 DEF Inv

\* A process restarts: where it shares nothing, has no requests, or loses nothing.
LEMMA RestartInv ==
    ASSUME TagsAgree, Inv, NEW p \in Process, Restart(p)
    PROVE  Inv'
  <1>1. TypeOK'
    BY SessionAssumption
    DEF Inv, TypeOK, Restart, SetL1, NoEntry, NoJob, Entry,
        Awaits, Job, NoIdentity
  <1>2. PastOnly'
    BY SessionAssumption
    DEF Inv, PastOnly, TypeOK, Restart, SetL1, NoEntry, NoJob,
        Entry, Awaits, Job, NoIdentity
  <1>3. EntriesAreTagged'
    <2>1. ASSUME NEW r \in Request
          PROVE  Tagged(home[r], l2)'
      <3>1. CASE ~ Shared
        BY <3>1 DEF Inv, NothingShared, Restart, Tagged
      <3>2. CASE Shared
        <4>1. generation'[home[r]] = generation[home[r]]
          BY <3>2 DEF Restart, TagsAgree, Inv, TypeOK
        <4> QED
          BY <4>1 DEF Restart, Inv, EntriesAreTagged, Tagged
      <3> QED
        BY <3>1, <3>2
    <2>2. ASSUME NEW r \in Request
          PROVE  Tagged(home[r], job[r].entry)'
      <3>1. CASE home[r] = p
        BY <3>1 DEF Restart, Tagged, NoJob
      <3>2. CASE home[r] # p
        BY <3>2 DEF Restart, Inv, EntriesAreTagged, TypeOK, Tagged
      <3> QED
        BY <3>1, <3>2
    <2>3. ASSUME NEW q \in Process
          PROVE  Tagged(q, l1[q])'
      <3>1. CASE q = p
        BY <3>1 DEF Restart, SetL1, Inv, TypeOK, Tagged
      <3>2. CASE q # p
        BY <3>2 DEF Restart, SetL1, Inv, EntriesAreTagged, TypeOK, Tagged
      <3> QED
        BY <3>1, <3>2
    <2> QED
      BY <2>1, <2>2, <2>3 DEF EntriesAreTagged
  <1>4. AnswersAreYoung'
    BY SessionAssumption
    DEF Inv, AnswersAreYoung, TypeOK, PastOnly, EntriesAreTagged,
        Restart, SetL1, NoEntry, NoJob, Entry, Awaits, Job,
        Tagged, NoIdentity
  <1>5. NothingShared'
    BY SessionAssumption
    DEF Inv, NothingShared, TypeOK, Restart, SetL1, NoEntry,
        NoJob, Entry, Awaits, Job, NoIdentity
  <1> QED  BY <1>1, <1>2, <1>3, <1>4, <1>5 DEF Inv

\* The account changes.
LEMMA ChangeAccountInv ==
    ASSUME TagsAgree, Inv, ChangeAccount
    PROVE  Inv'
  <1>1. TypeOK'
    BY SessionAssumption
    DEF Inv, TypeOK, ChangeAccount, processVars, requestVars, Entry,
        NoEntry, Awaits, Job, NoIdentity
  <1>2. PastOnly'
    BY SessionAssumption
    DEF Inv, PastOnly, TypeOK, ChangeAccount, processVars,
        requestVars, Entry, NoEntry, Awaits, Job, NoIdentity
  <1>3. EntriesAreTagged'
    BY SessionAssumption
    DEF Inv, EntriesAreTagged, TypeOK, PastOnly, ChangeAccount,
        processVars, requestVars, Tagged, Entry, NoEntry, Awaits, Job,
        NoIdentity
  <1>4. AnswersAreYoung'
    BY SessionAssumption
    DEF Inv, AnswersAreYoung, TypeOK, PastOnly, EntriesAreTagged,
        ChangeAccount, processVars, requestVars, NoEntry, Entry,
        Awaits, Job, Tagged, NoIdentity
  <1>5. NothingShared'
    BY SessionAssumption
    DEF Inv, NothingShared, TypeOK, ChangeAccount, processVars,
        requestVars, NoEntry, Entry, Awaits, Job, NoIdentity
  <1> QED  BY <1>1, <1>2, <1>3, <1>4, <1>5 DEF Inv

\* An entry of the second level goes.
LEMMA EvictL2Inv ==
    ASSUME TagsAgree, Inv, EvictL2
    PROVE  Inv'
  <1>1. TypeOK'
    BY SessionAssumption
    DEF Inv, TypeOK, EvictL2, NoEntry, processVars, requestVars,
        Entry, Awaits, Job, NoIdentity
  <1>2. PastOnly'
    BY SessionAssumption
    DEF Inv, PastOnly, TypeOK, EvictL2, NoEntry, processVars,
        requestVars, Entry, Awaits, Job, NoIdentity
  <1>3. EntriesAreTagged'
    BY SessionAssumption
    DEF Inv, EntriesAreTagged, TypeOK, PastOnly, EvictL2, NoEntry,
        processVars, requestVars, Tagged, Entry, Awaits, Job,
        NoIdentity
  <1>4. AnswersAreYoung'
    BY SessionAssumption
    DEF Inv, AnswersAreYoung, TypeOK, PastOnly, EntriesAreTagged,
        EvictL2, NoEntry, processVars, requestVars, Entry, Awaits,
        Job, Tagged, NoIdentity
  <1>5. NothingShared'
    BY SessionAssumption
    DEF Inv, NothingShared, TypeOK, EvictL2, NoEntry, processVars,
        requestVars, Entry, Awaits, Job, NoIdentity
  <1> QED  BY <1>1, <1>2, <1>3, <1>4, <1>5 DEF Inv

-----------------------------------------------------------------------------
(* The theorem.                                                            *)

LEMMA InitInv == Init => Inv
  BY SessionAssumption
  DEF Init, Inv, TypeOK, PastOnly, EntriesAreTagged, AnswersAreYoung, NothingShared,
      Tagged, Awaits, Job, NoJob, Entry, NoEntry, NoIdentity

LEMMA StutterInv == Inv /\ UNCHANGED vars => Inv'
  BY DEF Inv, TypeOK, PastOnly, EntriesAreTagged, AnswersAreYoung, NothingShared,
         Tagged, Awaits, Job, NoJob, Entry, NoEntry, NoIdentity, vars, processVars,
         requestVars

LEMMA StepInv ==
    ASSUME TagsAgree, Inv, [Next]_vars
    PROVE  Inv'
  <1>1. CASE UNCHANGED vars
    BY <1>1, StutterInv
  <1>2. ASSUME NEW r \in Request, RequestNext(r)
        PROVE  Inv'
    BY <1>2, BeginInv, TickInv, LookupL1Inv, DropStaleInv, GetL2Inv,
        CheckL2Inv, CopyToL1Inv, AfterCopyInv, AuthenticateInv,
        PutInv, SetL2Inv, AfterSetInv, StoreL1Inv, AfterStoreInv,
        UndoInv, RespondInv, GoOnInv, LeaveInv
    DEF RequestNext, Step
  <1>3. ASSUME NEW p \in Process, ProcessNext(p)
        PROVE  Inv'
    BY <1>3, AdvanceGenerationInv, ClearL1Inv, DeleteL2Inv, EvictL1Inv,
        RestartInv
    DEF ProcessNext
  <1> QED  BY <1>1, <1>2, <1>3, ChangeAccountInv, EvictL2Inv DEF Next

\* Any number of processes without Redis, or with it and with tags that stand for
\* the same: after an invalidation no request is served what was verified before
\* it (session.rs, the stale-refill fence).
THEOREM RefillsAreFenced ==
    Spec /\ [][TagsAgree]_vars => []ServedSinceInvalidation
  <1>1. Inv => ServedSinceInvalidation
    BY DEF Inv, AnswersAreYoung, ServedSinceInvalidation
  <1>2. Inv /\ [Next]_vars /\ [TagsAgree]_vars => Inv'
    <2>1. CASE UNCHANGED vars
      BY <2>1, StutterInv
    <2>2. CASE TagsAgree
      BY <2>2, StepInv
    <2> QED
      BY <2>1, <2>2
  <1> QED
    BY <1>1, <1>2, InitInv, PTL DEF Spec

-----------------------------------------------------------------------------
(* Both deployments of MCSessionCache are of that kind.                    *)

\* All requests are in the first process, or nobody has invalidated anything.
Deployed ==
    /\ TypeOK
    /\ part \in {"alone", "streams"}
    /\ part = "alone" => \A r \in Request : home[r] = First
    /\ part = "streams" => \A p \in Process : generation[p] = 0 /\ floor[p] = 0

\* A process that does not restart keeps its generation.
LEMMA GenerationsStay ==
    ASSUME TypeOK, [Next]_vars, \A p \in Process : ~ Restart(p), NEW q \in Process
    PROVE  generation'[q] >= generation[q]
  <1>1. CASE \E p \in Process : AdvanceGeneration(p)
    BY <1>1 DEF TypeOK, AdvanceGeneration
  <1>2. CASE UNCHANGED generation
    BY <1>2 DEF TypeOK
  <1>3. UNCHANGED generation \/ \E p \in Process : AdvanceGeneration(p)
    BY DEF Next, RequestNext, Step, ProcessNext, Begin, Tick, Capture, LookupL1, DropStale,
           GetL2, CheckL2, CopyToL1, AfterCopy, Authenticate, Put, SetL2, AfterSet,
           StoreL1, AfterStore, Undo, Respond, GoOn, Leave, ClearL1, DeleteL2, EvictL1,
           ChangeAccount, EvictL2, vars, processVars
  <1> QED
    BY <1>1, <1>2, <1>3

\* Without invalidations, generations and floors are where they began.
LEMMA NobodyInvalidates ==
    ASSUME [Next]_vars, \A p \in Process : ~ AdvanceGeneration(p), TypeOK,
           \A p \in Process : generation[p] = 0 /\ floor[p] = 0
    PROVE  \A p \in Process : generation'[p] = 0 /\ floor'[p] = 0
  <1>1. CASE \E p \in Process : Restart(p)
    BY <1>1 DEF Restart, TypeOK
  <1>2. CASE UNCHANGED <<generation, floor>>
    BY <1>2
  <1>3. UNCHANGED <<generation, floor>> \/ \E p \in Process : Restart(p)
    BY DEF Next, RequestNext, Step, ProcessNext, Begin, Tick, Capture, LookupL1, DropStale,
           GetL2, CheckL2, CopyToL1, AfterCopy, Authenticate, Put, SetL2, AfterSet,
           StoreL1, AfterStore, Undo, Respond, GoOn, Leave, ClearL1, DeleteL2, EvictL1,
           ChangeAccount, EvictL2, vars, processVars
  <1> QED
    BY <1>1, <1>2, <1>3

LEMMA DeployedStep ==
    ASSUME Deployed, TypeOK', [MCNext]_<<vars, part>>
    PROVE  Deployed' /\ [TagsAgree]_vars
  <1>1. CASE UNCHANGED <<vars, part>>
    BY <1>1 DEF Deployed, vars, processVars, requestVars
  <1>2. CASE MCNext /\ part = "alone"
    <2>1. UNCHANGED <<home, part>> /\ Next /\ \A p \in Process : ~ Restart(p)
      BY <1>2 DEF MCNext
    <2>2. \A q \in Process : generation'[q] >= generation[q]
      BY <2>1, GenerationsStay DEF Deployed
    <2>3. \A r \in Request : home[r] = First /\ home[r] \in Process
      BY <1>2 DEF Deployed, TypeOK
    <2>4. TagsAgree
      BY <2>2, <2>3 DEF TagsAgree
    <2> QED
      BY <1>2, <2>1, <2>3, <2>4 DEF Deployed
  <1>3. CASE MCNext /\ part = "streams"
    <2>1. UNCHANGED part /\ Next
      BY <1>3 DEF MCNext
    <2>2. \A p \in Process : ~ AdvanceGeneration(p)
      BY <1>3 DEF MCNext
    <2>3. \A p \in Process : generation'[p] = 0 /\ floor'[p] = 0
      BY <1>3, <2>1, <2>2, NobodyInvalidates DEF Deployed
    <2>4. TagsAgree
      BY <1>3, <2>3 DEF TagsAgree, Deployed, TypeOK
    <2> QED
      BY <1>3, <2>1, <2>3, <2>4 DEF Deployed
  <1> QED
    BY <1>1, <1>2, <1>3 DEF Deployed

-----------------------------------------------------------------------------
(* Types need no such condition.                                           *)

LEMMA SecondLevelType ==
    ASSUME TypeOK
    PROVE  /\ Redis(l2' = NoEntry) \/ RedisFails =>
                  l2' \in Entry \cup {NoEntry} /\ faults' \in Nat
           /\ NoJob \in Job
  BY DEF TypeOK, Redis, RedisFails, NoJob, Job, NoEntry

LEMMA RequestTypes ==
    ASSUME TypeOK, NEW r \in Request, RequestNext(r)
    PROVE  TypeOK'
  <1> USE DEF TypeOK
  <1>1. NoJob \in Job /\ job[r] \in Job /\ job[r].entry \in Entry \cup {NoEntry}
    BY SecondLevelType DEF Job
  <1>2. CASE Begin(r) \/ Tick(r)
    <2>1. PICK watching \in BOOLEAN : Capture(r, watching)
      BY <1>2 DEF Begin, Tick
    <2>2. [generation |-> generation[home[r]], entry |-> NoEntry,
           watching |-> watching, floor |-> floor[home[r]]] \in Job
      BY DEF Job
    <2>3. job' \in [Request -> Job]
      BY <2>1, <2>2 DEF Capture
    <2>4. pc' \in [Request -> Awaits]
      BY <2>1 DEF Capture, Goto, Awaits
    <2> QED
      BY <2>1, <2>3, <2>4 DEF Capture, processVars
  <1>3. CASE LookupL1(r)
    <2>1. job' \in [Request -> Job]
      BY <1>3, StoredType DEF LookupL1, Serve
    <2>2. l1' \in [Process -> Entry \cup {NoEntry}]
      BY <1>3 DEF LookupL1, SetL1
    <2>3. pc' \in [Request -> Awaits]
      BY <1>3 DEF LookupL1, Serve, Miss, Goto, Awaits
    <2> QED
      BY <1>3, <2>1, <2>2, <2>3 DEF LookupL1
  <1>4. CASE DropStale(r)
    BY <1>4, SecondLevelType DEF DropStale, Miss, Goto, Awaits, processVars
  <1>5. CASE GetL2(r)
    BY <1>5, StoredType DEF GetL2, Redis, RedisFails, Miss, Goto, Awaits, processVars
  <1>6. CASE CheckL2(r) \/ CopyToL1(r)
    <2>1. l1' \in [Process -> Entry \cup {NoEntry}]
      BY <1>1, <1>6 DEF CheckL2, CopyToL1, SetL1
    <2>2. pc' \in [Request -> Awaits]
      BY <1>6 DEF CheckL2, CopyToL1, Goto, Awaits
    <2> QED
      BY <1>6, <2>1, <2>2 DEF CheckL2, CopyToL1
  <1>7. CASE AfterCopy(r)
    <2>0. [job EXCEPT ![r].entry = job[r].entry] \in [Request -> Job]
      BY <1>1, StoredType
    <2>1. job' \in [Request -> Job]
      BY <1>7, <2>0 DEF AfterCopy, Serve
    <2>2. pc' \in [Request -> Awaits]
      BY <1>7 DEF AfterCopy, Serve, Miss, Goto, Awaits
    <2> QED
      BY <1>7, <2>1, <2>2 DEF AfterCopy, processVars
  <1>8. CASE Authenticate(r)
    <2>1. [generation |-> job[r].generation, identity |-> account.revision] \in Entry
      BY <1>1 DEF Job, Entry
    <2> QED
      BY <1>1, <1>8, <2>1, StoredType DEF Authenticate, Goto, Awaits, processVars
  <1>9. CASE Put(r) \/ AfterSet(r) \/ GoOn(r)
    BY <1>9 DEF Put, AfterSet, GoOn, Goto, Awaits, processVars
  <1>10. CASE SetL2(r)
    BY <1>1, <1>10 DEF SetL2, Redis, RedisFails, Goto, Awaits, processVars
  <1>11. CASE StoreL1(r) \/ AfterStore(r)
    BY <1>1, <1>11 DEF StoreL1, AfterStore, SetL1, Goto, Awaits
  <1>12. CASE Undo(r)
    BY <1>12, SecondLevelType DEF Undo, Goto, Awaits, processVars
  <1>13. CASE Respond(r) \/ Leave(r)
    BY <1>1, <1>13 DEF Respond, Leave, Goto, Awaits, processVars
  <1> QED
    BY <1>2, <1>3, <1>4, <1>5, <1>6, <1>7, <1>8, <1>9, <1>10, <1>11, <1>12, <1>13
    DEF RequestNext, Step

LEMMA ProcessTypes ==
    ASSUME TypeOK, NEW p \in Process, ProcessNext(p)
    PROVE  TypeOK'
  <1> USE DEF TypeOK
  <1>1. CASE AdvanceGeneration(p)
    BY <1>1 DEF AdvanceGeneration, requestVars
  <1>2. CASE ClearL1(p) \/ EvictL1(p)
    BY <1>2 DEF ClearL1, EvictL1, SetL1, requestVars
  <1>3. CASE DeleteL2(p)
    BY <1>3, SecondLevelType DEF DeleteL2, requestVars
  <1>4. CASE Restart(p)
    BY <1>4, SecondLevelType DEF Restart, SetL1, Awaits
  <1> QED
    BY <1>1, <1>2, <1>3, <1>4 DEF ProcessNext

\* Any number of processes on one Redis, restarting at will: what either level
\* holds, and what requests carry between awaits, are entries.
THEOREM TypeCorrect == Spec => []TypeOK
  <1>1. Init => TypeOK
    BY DEF Init, TypeOK, Entry, NoEntry, NoJob, Job, Awaits
  <1>2. TypeOK /\ [Next]_vars => TypeOK'
    <2> SUFFICES ASSUME TypeOK, [Next]_vars PROVE TypeOK'
      OBVIOUS
    <2>1. CASE \E r \in Request : RequestNext(r)
      BY <2>1, RequestTypes
    <2>2. CASE \E p \in Process : ProcessNext(p)
      BY <2>2, ProcessTypes
    <2>3. CASE ChangeAccount \/ EvictL2
      BY <2>3, SessionAssumption
      DEF ChangeAccount, EvictL2, TypeOK, NoEntry, processVars, requestVars
    <2>4. CASE UNCHANGED vars
      BY <2>4 DEF vars, processVars, requestVars, TypeOK
    <2> QED
      BY <2>1, <2>2, <2>3, <2>4 DEF Next
  <1> QED
    BY <1>1, <1>2, PTL DEF Spec

\* The two deployments of MCSessionCache: one process that invalidates and does not
\* restart, and any number that restart and copy each other's entries.
THEOREM DeploymentsAreFenced == MCFairSpec => []ServedSinceInvalidation
  <1>1. MCInit /\ [][MCNext]_<<vars, part>> => Spec
    <2>1. MCInit => Init
      BY DEF MCInit
    <2>2. [MCNext]_<<vars, part>> => [Next]_vars
      BY DEF MCNext
    <2> QED
      BY <2>1, <2>2, PTL DEF Spec
  <1>2. MCInit /\ TypeOK => Deployed
    BY DEF MCInit, Init, Deployed
  <1>3. Deployed /\ TypeOK' /\ [MCNext]_<<vars, part>> => Deployed' /\ [TagsAgree]_vars
    BY DeployedStep
  <1>4. MCInit /\ [][MCNext]_<<vars, part>> => [][TagsAgree]_vars
    BY <1>1, <1>2, <1>3, TypeCorrect, PTL
  <1> QED
    BY <1>1, <1>4, RefillsAreFenced, PTL DEF MCFairSpec

=============================================================================
