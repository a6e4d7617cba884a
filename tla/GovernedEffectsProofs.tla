------------------------ MODULE GovernedEffectsProofs ------------------------
(***************************************************************************)
(* What GovernedEffects promises, for any number of processes, calls,      *)
(* effects, owners and policy sets, any time to live, and failures and     *)
(* restarts at will: its types, PermitsAreApproved, ToldIsStored, and that *)
(* it implements ChallengeRegister.  And what a waiter may rely on in the  *)
(* approval stores, which are a part of MCGovernedEffects.                 *)
(***************************************************************************)
EXTENDS MCGovernedEffects, TLAPS, WellFoundedInduction

LEMMA StoreIsPlace ==
    ASSUME NEW p \in Process PROVE StoreOf(p) \in Place
  BY DEF StoreOf, Place

LEMMA IdIsBinding ==
    ASSUME NEW b \in Binding PROVE ChallengeId(b) = b
  BY DEF ChallengeId, Binding

\* One record of one store is written.
LEMMA WriteOne ==
    ASSUME challenges \in [Place -> [Binding -> Record \cup {None}]],
           NEW place \in Place, NEW id \in Binding, NEW record \in Record,
           challenges' = [challenges EXCEPT ![place][id] = record]
    PROVE  /\ challenges' \in [Place -> [Binding -> Record \cup {None}]]
           /\ challenges'[place][id] = record
           /\ \A q \in Place, i \in Binding :
                  q # place \/ i # id => challenges'[q][i] = challenges[q][i]
  <1> DEFINE row == [challenges[place] EXCEPT ![id] = record]
  <1>1. row \in [Binding -> Record \cup {None}]
    OBVIOUS
  <1>2. challenges' = [challenges EXCEPT ![place] = row]
    OBVIOUS
  <1>3. /\ row[id] = record
        /\ \A i \in Binding : i # id => row[i] = challenges[place][i]
    OBVIOUS
  <1> HIDE DEF row
  <1>4. /\ challenges'[place] = row
        /\ \A q \in Place : q # place => challenges'[q] = challenges[q]
    BY <1>2
  <1>5. challenges' \in [Place -> [Binding -> Record \cup {None}]]
    BY <1>1, <1>2
  <1> QED
    BY <1>3, <1>4, <1>5

\* A call that is under way has a job.
LEMMA JobOf ==
    ASSUME TypeOK, NEW c \in Call, pc[c] # "idle"
    PROVE  /\ job[c] \in Job
           /\ StoreOf(job[c].process) \in Place
           /\ job[c].id \in Binding /\ job[c].binding \in Binding
           /\ Stored(c) \in Record \cup {None}
  <1>1. job[c] \in Job
    BY DEF TypeOK
  <1>2. job[c].process \in Process /\ job[c].id \in Binding /\ job[c].binding \in Binding
    BY <1>1 DEF Job
  <1>3. StoreOf(job[c].process) \in Place
    BY <1>2, StoreIsPlace
  <1> QED
    BY <1>1, <1>2, <1>3 DEF TypeOK, Stored

\* What the end of a call leaves.
LEMMA EndStep ==
    ASSUME TypeOK, NEW c \in Call, End(c)
    PROVE  /\ pc' \in [Call -> {"idle", "register", "compare", "load", "check"}]
           /\ job' \in [Call -> Job \cup {None}]
           /\ pc'[c] = "idle"
           /\ \A d \in Call : d # c => pc'[d] = pc[d] /\ job'[d] = job[d]
           /\ \A d \in Call : pc'[d] # "idle" => job'[d] # None
  BY DEF TypeOK, End, Go

\* Steps of calls that leave the stores and the history alone: those that are
\* under way afterwards carry what they carried, or have just begun.
LEMMA QuietInv ==
    ASSUME EffectsInv,
           UNCHANGED <<backend, challenges, decisions, permits, told>>,
           now' \in Nat, now' >= now,
           policy' \in [Process -> Policy], faults' \in 0 .. MaxFaults,
           pc' \in [Call -> {"idle", "register", "compare", "load", "check"}],
           job' \in [Call -> Job \cup {None}],
           \A c \in Call : pc'[c] # "idle" => job'[c] # None,
           \A c \in Call :
               \/ pc'[c] = "idle"
               \/ pc'[c] = pc[c] /\ job'[c] = job[c]
               \/ pc'[c] \in {"register", "compare"} /\ job'[c].id = ChallengeId(job'[c].binding)
               \/ pc'[c] = "load"
    PROVE  EffectsInv'
  <1> USE DEF EffectsInv
  <1>1. TypeOK'
    BY DEF TypeOK
  <1>2. StoredUnderId'
    BY DEF StoredUnderId
  <1>3. CallsCarryIds'
    BY DEF CallsCarryIds
  <1>4. ApprovedIsDecided'
    <2> SUFFICES ASSUME NEW place \in Place, NEW id \in Binding,
                        challenges[place][id] # None,
                        challenges[place][id].decision = "approve"
                 PROVE  \E d \in decisions :
                            /\ d.place = place /\ d.binding = challenges[place][id].binding
                            /\ d.decision = "approve"
                            /\ d.expires = challenges[place][id].expires
                            /\ d.at <= now'
      BY DEF ApprovedIsDecided
    <2>1. PICK d \in decisions :
              /\ d.place = place /\ d.binding = challenges[place][id].binding
              /\ d.decision = "approve"
              /\ d.expires = challenges[place][id].expires
              /\ d.at <= now
      BY DEF ApprovedIsDecided
    <2>2. d.at \in Nat /\ now \in Nat
      BY DEF TypeOK
    <2> QED
      BY <2>1, <2>2
  <1>5. LoadedIsStored'
    BY DEF LoadedIsStored, Stored, StoreOf
  <1>6. PermitsAreApproved' /\ ToldIsStored'
    BY DEF PermitsAreApproved, ToldIsStored
  <1> QED
    BY <1>1, <1>2, <1>3, <1>4, <1>5, <1>6

-----------------------------------------------------------------------------

LEMMA InitInv == Init => EffectsInv
  <1> SUFFICES ASSUME Init PROVE EffectsInv
    OBVIOUS
  <1>1. TypeOK
    BY EffectsAssumption DEF Init, TypeOK
  <1>2. StoredUnderId /\ CallsCarryIds /\ ApprovedIsDecided /\ LoadedIsStored
    BY DEF Init, StoredUnderId, CallsCarryIds, ApprovedIsDecided, LoadedIsStored
  <1>3. PermitsAreApproved /\ ToldIsStored
    BY DEF Init, PermitsAreApproved, ToldIsStored
  <1> QED
    BY <1>1, <1>2, <1>3 DEF EffectsInv

LEMMA BeginInv ==
    ASSUME EffectsInv, NEW c \in Call, NEW to \in {"register", "load"},
           NEW p \in Process, NEW b \in Binding, NEW id \in Binding,
           to = "register" => id = ChallengeId(b),
           Begin(c, to, p, b, id)
    PROVE  EffectsInv'
  <1> DEFINE begun == [process |-> p, binding |-> b, id |-> id,
                       expires |-> now + Ttl, record |-> None]
  <1>1. begun \in Job
    BY EffectsAssumption DEF EffectsInv, TypeOK, Job
  <1>2. begun.id = id /\ begun.binding = b /\ begun # None
    BY <1>1, EffectsAssumption
  <1> QED
    BY QuietInv, <1>1, <1>2 DEF Begin, Go, EffectsInv, TypeOK, history

\* A challenge is stored and its id may be told.
LEMMA RegisterInv ==
    ASSUME EffectsInv, NEW c \in Call, Register(c)
    PROVE  EffectsInv'
  <1> DEFINE place == StoreOf(job[c].process)
             id == job[c].id
             record == [binding |-> job[c].binding, expires |-> job[c].expires,
                        decision |-> "none"]
  <1>0. TypeOK /\ pc[c] # "idle"
    BY DEF EffectsInv, Register
  <1>1. /\ job[c] \in Job /\ place \in Place /\ id \in Binding
        /\ job[c].binding \in Binding
    BY <1>0, JobOf
  <1>2. record \in Record
    BY <1>1 DEF Job, Record
  <1>3. challenges' = [challenges EXCEPT ![place][id] = record] /\ challenges[place][id] = None
    BY DEF Register, Stored
  <1> HIDE DEF record
  <1>4. /\ challenges' \in [Place -> [Binding -> Record \cup {None}]]
        /\ challenges'[place][id] = record
        /\ \A q \in Place, i \in Binding :
               q # place \/ i # id => challenges'[q][i] = challenges[q][i]
    BY <1>0, <1>1, <1>2, <1>3, WriteOne DEF TypeOK
  <1>5. /\ record.binding = job[c].binding /\ record.decision = "none"
        /\ ChallengeId(record.binding) = id
    BY DEF record, EffectsInv, CallsCarryIds, Register
  <1>6. /\ told' \subseteq told \cup {id} /\ faults' \in 0 .. MaxFaults /\ End(c)
        /\ UNCHANGED <<backend, now, policy, decisions, permits>>
    BY <1>0, EffectsAssumption DEF Register, AnswerChallenge, TypeOK
  <1>7. TypeOK'
    BY <1>0, <1>1, <1>4, <1>6, EndStep DEF TypeOK
  <1>8. StoredUnderId'
    BY <1>4, <1>5 DEF EffectsInv, StoredUnderId
  <1>9. CallsCarryIds'
    BY <1>0, <1>6, EndStep DEF EffectsInv, CallsCarryIds
  <1>10. ApprovedIsDecided'
    BY <1>4, <1>5, <1>6 DEF EffectsInv, ApprovedIsDecided
  <1>11. LoadedIsStored'
    <2> SUFFICES ASSUME NEW d \in Call, pc'[d] = "check"
                 PROVE  /\ job'[d].record # None /\ Stored(d)' # None
                        /\ Stored(d)'.binding = job'[d].record.binding
                        /\ Stored(d)'.expires = job'[d].record.expires
                        /\ job'[d].record.decision \in {"none", Stored(d)'.decision}
      BY DEF LoadedIsStored
    <2>1. d # c /\ pc[d] = "check" /\ job'[d] = job[d]
      BY <1>0, <1>6, EndStep
    <2>2. /\ StoreOf(job[d].process) \in Place /\ job[d].id \in Binding
      BY <1>0, <2>1, JobOf
    <2>3. Stored(d) # None
      BY <2>1 DEF EffectsInv, LoadedIsStored
    <2>4. Stored(d)' = Stored(d)
      BY <1>3, <1>4, <1>6, <2>1, <2>2, <2>3 DEF Stored, StoreOf
    <2> QED
      BY <2>1, <2>4 DEF EffectsInv, LoadedIsStored
  <1>12. PermitsAreApproved'
    BY <1>6 DEF EffectsInv, PermitsAreApproved
  <1>13. ToldIsStored'
    <2> SUFFICES ASSUME backend = "postgres", NEW i \in told'
                 PROVE  challenges'[Database][i] # None
      BY <1>6 DEF ToldIsStored
    <2>1. place = Database /\ Database \in Place
      BY DEF StoreOf, Place
    <2>2. i \in Binding /\ record # None
      BY <1>2, <1>7, EffectsAssumption DEF TypeOK
    <2>3. CASE i = id
      BY <1>4, <2>1, <2>2, <2>3
    <2>4. CASE i # id
      BY <1>4, <1>6, <2>1, <2>2, <2>4 DEF EffectsInv, ToldIsStored
    <2> QED
      BY <2>3, <2>4
  <1> QED
    BY <1>7, <1>8, <1>9, <1>10, <1>11, <1>12, <1>13 DEF EffectsInv

LEMMA ConflictInv ==
    ASSUME EffectsInv, NEW c \in Call, RegisterConflict(c)
    PROVE  EffectsInv'
  BY QuietInv DEF RegisterConflict, Go, EffectsInv, TypeOK, CallsCarryIds, history

\* A challenge that is already stored is told.
LEMMA CompareInv ==
    ASSUME EffectsInv, NEW c \in Call, Compare(c)
    PROVE  EffectsInv'
  <1>0. TypeOK /\ pc[c] = "compare"
    BY DEF EffectsInv, Compare
  <1>1. End(c) /\ UNCHANGED <<backend, now, policy, challenges, decisions, permits>>
    BY DEF Compare, AnswerChallenge, history
  <1>2. CASE UNCHANGED told
    BY <1>0, <1>1, <1>2, EndStep, QuietInv, EffectsAssumption
    DEF EffectsInv, TypeOK, Compare, AnswerChallenge
  <1>3. CASE told' = told \cup {job[c].id} /\ UNCHANGED faults /\ Stored(c) # None
    <2>1. job[c].id \in Binding
      BY <1>0, JobOf
    <2>2. TypeOK'
      BY <1>0, <1>1, <1>3, <2>1, EndStep DEF TypeOK
    <2>3. StoredUnderId' /\ CallsCarryIds' /\ ApprovedIsDecided' /\ PermitsAreApproved'
      BY <1>0, <1>1, EndStep
      DEF EffectsInv, StoredUnderId, CallsCarryIds, ApprovedIsDecided, PermitsAreApproved
    <2>4. LoadedIsStored'
      BY <1>0, <1>1, EndStep DEF EffectsInv, LoadedIsStored, Stored, StoreOf
    <2>5. ToldIsStored'
      BY <1>1, <1>3 DEF EffectsInv, ToldIsStored, Stored, StoreOf
    <2> QED
      BY <2>2, <2>3, <2>4, <2>5 DEF EffectsInv
  <1> QED
    BY <1>2, <1>3 DEF Compare, AnswerChallenge, history

LEMMA LoadInv ==
    ASSUME EffectsInv, NEW c \in Call, Load(c)
    PROVE  EffectsInv'
  <1>0. TypeOK /\ pc[c] = "load"
    BY DEF EffectsInv, Load
  <1>1. UNCHANGED <<backend, now, policy, challenges, faults, told, decisions, permits>>
    BY DEF Load, history
  <1>2. CASE Stored(c) = None /\ End(c)
    BY <1>0, <1>1, <1>2, EndStep, QuietInv DEF EffectsInv, TypeOK
  <1>3. CASE Stored(c) # None /\ Go(c, "check") /\ job' = [job EXCEPT ![c].record = Stored(c)]
    <2>1. job[c] \in Job /\ Stored(c) \in Record
      BY <1>0, <1>3, JobOf
    <2>2. /\ job'[c] = [job[c] EXCEPT !.record = Stored(c)]
          /\ \A d \in Call : d # c => job'[d] = job[d] /\ pc'[d] = pc[d]
          /\ pc'[c] = "check"
      BY <1>0, <1>3 DEF Go, TypeOK
    <2>3. /\ job'[c] \in Job /\ job'[c].record = Stored(c)
          /\ job'[c].process = job[c].process /\ job'[c].id = job[c].id
      BY <2>1, <2>2 DEF Job
    <2>4. TypeOK'
      <3>1. job' \in [Call -> Job \cup {None}]
        BY <1>0, <1>3, <2>2, <2>3 DEF TypeOK
      <3>2. job'[c] # None
        BY <2>3, EffectsAssumption
      <3> QED
        BY <1>0, <1>1, <1>3, <2>2, <3>1, <3>2 DEF TypeOK, Go
    <2>5. StoredUnderId' /\ CallsCarryIds' /\ ApprovedIsDecided' /\ PermitsAreApproved'
          /\ ToldIsStored'
      BY <1>1, <2>2
      DEF EffectsInv, StoredUnderId, CallsCarryIds, ApprovedIsDecided, PermitsAreApproved,
          ToldIsStored
    <2>6. LoadedIsStored'
      <3>1. Stored(c)' = Stored(c)
        BY <1>1, <2>3 DEF Stored, StoreOf
      <3>2. Stored(c).decision = Stored(c)'.decision
        BY <3>1
      <3>3. \A d \in Call : d # c => Stored(d)' = Stored(d)
        BY <1>1, <2>2 DEF Stored, StoreOf
      <3> QED
        BY <1>3, <2>2, <2>3, <3>1, <3>2, <3>3 DEF EffectsInv, LoadedIsStored
    <2> QED
      BY <2>4, <2>5, <2>6 DEF EffectsInv
  <1> QED
    BY <1>2, <1>3 DEF Load

\* What is permitted has been approved: the record was loaded, is still stored,
\* and an approval is one that was given.
LEMMA CheckInv ==
    ASSUME EffectsInv, NEW c \in Call, Check(c)
    PROVE  EffectsInv'
  <1> DEFINE place == StoreOf(job[c].process)
             permit == [place |-> place, id |-> job[c].id,
                        binding |-> job[c].binding, at |-> now]
  <1>0. TypeOK /\ pc[c] = "check"
    BY DEF EffectsInv, Check
  <1>1. End(c) /\ UNCHANGED <<backend, now, policy, challenges, faults, told, decisions>>
    BY DEF Check
  <1>2. /\ job[c] \in Job /\ place \in Place /\ job[c].id \in Binding
        /\ job[c].binding \in Binding
    BY <1>0, JobOf
  <1>3. permits' \subseteq permits \cup {permit} /\ (permits' = permits \/ Permitted(job[c]))
    BY DEF Check
  <1>4. permit \in [place : Place, id : Binding, binding : Binding, at : Nat]
    BY <1>0, <1>2 DEF TypeOK
  <1>5. TypeOK'
    BY <1>0, <1>1, <1>3, <1>4, EndStep DEF TypeOK
  <1>6. StoredUnderId' /\ CallsCarryIds' /\ ApprovedIsDecided' /\ ToldIsStored'
    BY <1>0, <1>1, EndStep
    DEF EffectsInv, StoredUnderId, CallsCarryIds, ApprovedIsDecided, ToldIsStored
  <1>7. LoadedIsStored'
    BY <1>0, <1>1, EndStep DEF EffectsInv, LoadedIsStored, Stored, StoreOf
  <1>8. ASSUME Permitted(job[c])
        PROVE  \E d \in decisions :
                   /\ d.place = place /\ d.binding = job[c].binding
                   /\ d.decision = "approve" /\ d.at <= now /\ now < d.expires
    <2>1. /\ challenges[place][job[c].id] # None
          /\ challenges[place][job[c].id].decision = "approve"
          /\ challenges[place][job[c].id].binding = job[c].binding
          /\ challenges[place][job[c].id].expires = job[c].record.expires
          /\ now < job[c].record.expires
      BY <1>0, <1>8 DEF EffectsInv, LoadedIsStored, Stored, Permitted
    <2> QED
      BY <1>2, <2>1 DEF EffectsInv, ApprovedIsDecided
  <1>9. PermitsAreApproved'
    <2> SUFFICES ASSUME NEW q \in permits'
                 PROVE  \E d \in decisions :
                            /\ d.place = q.place /\ d.binding = q.binding
                            /\ d.decision = "approve" /\ d.at <= q.at /\ q.at < d.expires
      BY <1>1 DEF PermitsAreApproved
    <2>1. CASE q \in permits
      BY <2>1 DEF EffectsInv, PermitsAreApproved
    <2>2. CASE q \notin permits
      <3>1. q = permit /\ Permitted(job[c])
        BY <1>3, <2>2
      <3>2. q.place = place /\ q.binding = job[c].binding /\ q.at = now
        BY <3>1
      <3> QED
        BY <1>8, <3>1, <3>2
    <2> QED
      BY <2>1, <2>2
  <1> QED
    BY <1>5, <1>6, <1>7, <1>9 DEF EffectsInv

\* One decision is recorded, of a challenge that is open.
LEMMA DecideInv ==
    ASSUME EffectsInv, NEW place \in Place, NEW id \in Binding, Decide(place, id)
    PROVE  EffectsInv'
  <1> DEFINE old == challenges[place][id]
  <1>0. TypeOK /\ old \in Record /\ old.decision = "none" /\ now < old.expires
    BY DEF EffectsInv, TypeOK, Decide, Open
  <1>1. PICK decision \in {"approve", "deny"} :
           /\ challenges' = [challenges EXCEPT ![place][id].decision = decision]
           /\ decisions' = decisions \cup
                  {[place |-> place, binding |-> old.binding,
                    decision |-> decision, at |-> now, expires |-> old.expires]}
    BY DEF Decide
  <1> DEFINE new == [old EXCEPT !.decision = decision]
             taken == [place |-> place, binding |-> old.binding,
                       decision |-> decision, at |-> now, expires |-> old.expires]
  <1>2. /\ new \in Record /\ new.binding = old.binding /\ new.expires = old.expires
        /\ new.decision = decision
    BY <1>0 DEF Record
  <1>3. challenges' = [challenges EXCEPT ![place][id] = new]
    BY <1>1
  <1>4. /\ taken \in [place : Place, binding : Binding, decision : {"approve", "deny"},
                      at : Nat, expires : Nat]
        /\ taken.place = place /\ taken.binding = old.binding /\ taken.decision = decision
        /\ taken.at = now /\ taken.expires = old.expires
    BY <1>0 DEF Record, TypeOK
  <1>5. decisions' = decisions \cup {taken}
    BY <1>1
  <1> HIDE DEF new, taken
  <1>6. /\ challenges' \in [Place -> [Binding -> Record \cup {None}]]
        /\ challenges'[place][id] = new
        /\ \A q \in Place, i \in Binding :
               q # place \/ i # id => challenges'[q][i] = challenges[q][i]
    BY <1>0, <1>2, <1>3, WriteOne DEF TypeOK
  <1>7. UNCHANGED <<backend, now, policy, pc, job, faults, told, permits>>
    BY DEF Decide, callVars
  <1>8. new # None /\ old # None
    BY <1>0, <1>2, EffectsAssumption
  <1>9. TypeOK'
    BY <1>0, <1>4, <1>5, <1>6, <1>7 DEF TypeOK
  <1>10. StoredUnderId' /\ CallsCarryIds'
    BY <1>2, <1>6, <1>7, <1>8 DEF EffectsInv, StoredUnderId, CallsCarryIds
  <1>11. ApprovedIsDecided'
    <2> SUFFICES ASSUME NEW q \in Place, NEW i \in Binding,
                        challenges'[q][i] # None, challenges'[q][i].decision = "approve"
                 PROVE  \E d \in decisions' :
                            /\ d.place = q /\ d.binding = challenges'[q][i].binding
                            /\ d.decision = "approve"
                            /\ d.expires = challenges'[q][i].expires
                            /\ d.at <= now
      BY <1>7 DEF ApprovedIsDecided
    <2>1. CASE q = place /\ i = id
      <3>1. taken \in decisions' /\ taken.at <= now
        BY <1>0, <1>4, <1>5 DEF TypeOK
      <3> QED
        BY <1>2, <1>4, <1>6, <2>1, <3>1
    <2>2. CASE q # place \/ i # id
      BY <1>5, <1>6, <2>2 DEF EffectsInv, ApprovedIsDecided
    <2> QED
      BY <2>1, <2>2
  <1>12. LoadedIsStored'
    <2> SUFFICES ASSUME NEW c \in Call, pc[c] = "check"
                 PROVE  /\ job[c].record # None /\ Stored(c)' # None
                        /\ Stored(c)'.binding = job[c].record.binding
                        /\ Stored(c)'.expires = job[c].record.expires
                        /\ job[c].record.decision \in {"none", Stored(c)'.decision}
      BY <1>7 DEF LoadedIsStored
    <2>1. StoreOf(job[c].process) \in Place /\ job[c].id \in Binding
      BY <1>0, JobOf
    <2>2. Stored(c)' = challenges'[StoreOf(job[c].process)][job[c].id]
      BY <1>7 DEF Stored, StoreOf
    <2>3. /\ job[c].record # None /\ Stored(c) # None
          /\ Stored(c).binding = job[c].record.binding
          /\ Stored(c).expires = job[c].record.expires
          /\ job[c].record.decision \in {"none", Stored(c).decision}
      BY DEF EffectsInv, LoadedIsStored
    <2>4. CASE StoreOf(job[c].process) = place /\ job[c].id = id
      BY <1>0, <1>2, <1>6, <1>8, <2>2, <2>3, <2>4 DEF Stored
    <2>5. CASE StoreOf(job[c].process) # place \/ job[c].id # id
      BY <1>6, <2>1, <2>2, <2>3, <2>5 DEF Stored
    <2> QED
      BY <2>4, <2>5
  <1>13. PermitsAreApproved'
    BY <1>5, <1>7 DEF EffectsInv, PermitsAreApproved
  <1>14. ToldIsStored'
    BY <1>0, <1>6, <1>7, <1>8 DEF EffectsInv, ToldIsStored, TypeOK, Place
  <1> QED
    BY <1>9, <1>10, <1>11, <1>12, <1>13, <1>14 DEF EffectsInv

\* A process that starts again takes its memory and its calls with it; what is
\* in the database, and the calls of others, stay.
LEMMA RestartInv ==
    ASSUME EffectsInv, NEW p \in Process, Restart(p)
    PROVE  EffectsInv'
  <1> DEFINE lost == {c \in Call : pc[c] # "idle" /\ job[c].process = p}
  <1>0. TypeOK /\ p \in Place /\ p # Database
    BY EffectsAssumption DEF EffectsInv, Place
  <1>1. /\ pc' = [c \in Call |-> IF c \in lost THEN "idle" ELSE pc[c]]
        /\ job' = [c \in Call |-> IF c \in lost THEN None ELSE job[c]]
        /\ challenges' = [challenges EXCEPT ![p] = [id \in Binding |-> None]]
        /\ faults' \in 0 .. MaxFaults
        /\ UNCHANGED <<backend, now, policy, told, decisions, permits>>
    BY <1>0, EffectsAssumption DEF Restart, history, TypeOK
  <1>2. \A c \in Call : pc'[c] # "idle" =>
            pc'[c] = pc[c] /\ job'[c] = job[c] /\ job[c].process # p
    BY <1>1
  <1>3. /\ \A id \in Binding : challenges'[p][id] = None
        /\ \A q \in Place : q # p => challenges'[q] = challenges[q]
        /\ challenges' \in [Place -> [Binding -> Record \cup {None}]]
    BY <1>0, <1>1 DEF TypeOK
  <1>4. /\ pc' \in [Call -> {"idle", "register", "compare", "load", "check"}]
        /\ job' \in [Call -> Job \cup {None}]
    BY <1>0, <1>1 DEF TypeOK
  <1>5. TypeOK'
    BY <1>0, <1>1, <1>2, <1>3, <1>4 DEF TypeOK
  <1>6. StoredUnderId' /\ CallsCarryIds'
    BY <1>2, <1>3 DEF EffectsInv, StoredUnderId, CallsCarryIds
  <1>7. ApprovedIsDecided'
    BY <1>1, <1>3 DEF EffectsInv, ApprovedIsDecided
  <1>8. LoadedIsStored'
    <2> SUFFICES ASSUME NEW c \in Call, pc'[c] = "check"
                 PROVE  Stored(c)' = Stored(c) /\ job'[c] = job[c] /\ pc[c] = "check"
      BY DEF EffectsInv, LoadedIsStored
    <2>1. pc[c] = "check" /\ job'[c] = job[c] /\ job[c].process # p
      BY <1>2
    <2>2. StoreOf(job[c].process) \in Place /\ StoreOf(job[c].process) # p
      BY <1>0, <2>1, JobOf DEF StoreOf
    <2> QED
      BY <1>1, <1>3, <2>1, <2>2 DEF Stored, StoreOf
  <1>9. PermitsAreApproved' /\ ToldIsStored'
    BY <1>0, <1>1, <1>3 DEF EffectsInv, PermitsAreApproved, ToldIsStored, Place
  <1> QED
    BY <1>5, <1>6, <1>7, <1>8, <1>9 DEF EffectsInv

LEMMA StepInv ==
    ASSUME EffectsInv, NEW c \in Call, Step(c)
    PROVE  EffectsInv'
  <1>1. CASE EvaluateHandler(c)
    <2>1. PICK p \in Process, b \in Binding : Evaluate(c, p, b)
      BY <1>1 DEF EvaluateHandler
    <2>2. ChallengeId(b) \in Binding
      BY IdIsBinding
    <2> QED
      BY <2>1, <2>2, BeginInv DEF Evaluate
  <1>2. CASE RevalidateHandler(c)
    <2>1. PICK p \in Process, b \in Binding, id \in told : Begin(c, "load", p, b, id)
      BY <1>2 DEF RevalidateHandler
    <2>2. id \in Binding
      BY DEF EffectsInv, TypeOK
    <2> QED
      BY <2>1, <2>2, BeginInv
  <1>3. CASE Register(c)
    BY <1>3, RegisterInv
  <1>4. CASE RegisterConflict(c)
    BY <1>4, ConflictInv
  <1>5. CASE Compare(c)
    BY <1>5, CompareInv
  <1>6. CASE Load(c)
    BY <1>6, LoadInv
  <1>7. CASE Check(c)
    BY <1>7, CheckInv
  <1>8. CASE Drop(c)
    <2>1. TypeOK /\ End(c) /\ UNCHANGED <<backend, now, policy, challenges, told, decisions, permits>>
      BY <1>8 DEF EffectsInv, Drop, history
    <2>2. faults' \in 0 .. MaxFaults
      BY <1>8, <2>1, EffectsAssumption DEF Drop, TypeOK
    <2> QED
      BY <2>1, <2>2, EndStep, QuietInv DEF TypeOK
  <1> QED
    BY <1>1, <1>2, <1>3, <1>4, <1>5, <1>6, <1>7, <1>8 DEF Step

LEMMA NextInv == EffectsInv /\ [Next]_vars => EffectsInv'
  <1> SUFFICES ASSUME EffectsInv, [Next]_vars PROVE EffectsInv'
    OBVIOUS
  <1>1. CASE \E c \in Call : Step(c)
    BY <1>1, StepInv
  <1>2. CASE \E p \in Process, id \in Binding : DecideHandler(p, id)
    BY <1>2, DecideInv, StoreIsPlace DEF DecideHandler
  <1>3. CASE \E p \in Process : ReloadPolicies(p)
    <2>1. /\ policy' \in [Process -> Policy]
          /\ UNCHANGED <<backend, now, challenges, pc, job, faults, told, decisions, permits>>
      BY <1>3 DEF ReloadPolicies, EffectsInv, TypeOK, callVars, history
    <2> QED
      BY <2>1, QuietInv DEF EffectsInv, TypeOK
  <1>4. CASE \E p \in Process : Restart(p)
    BY <1>4, RestartInv
  <1>5. CASE Tick
    <2>1. /\ now' \in Nat /\ now' >= now
          /\ UNCHANGED <<backend, policy, challenges, pc, job, faults, told, decisions, permits>>
      BY <1>5 DEF Tick, EffectsInv, TypeOK, callVars, history
    <2> QED
      BY <2>1, QuietInv DEF EffectsInv, TypeOK
  <1>6. CASE UNCHANGED vars
    <2>1. UNCHANGED <<backend, now, policy, challenges, pc, job, faults, told, decisions, permits>>
      BY <1>6 DEF vars, callVars, history
    <2> QED
      BY <2>1, QuietInv DEF EffectsInv, TypeOK
  <1> QED
    BY <1>1, <1>2, <1>3, <1>4, <1>5, <1>6 DEF Next

LEMMA Invariant == Spec => []EffectsInv
  BY InitInv, NextInv, PTL DEF Spec

\* The calls, the stores and the record of what was told, decided and permitted
\* stay within their types.
THEOREM TypeCorrect == Spec => []TypeOK
  <1>1. EffectsInv => TypeOK
    BY DEF EffectsInv
  <1> QED
    BY <1>1, Invariant, PTL

\* Whatever decisions, deadlines, reloads and restarts race with a call of
\* revalidate, what it permits was approved for this very request, owner and
\* policies, while the challenge was open, and before its deadline.
THEOREM PermitsApproved == Spec => []PermitsAreApproved
  <1>1. EffectsInv => PermitsAreApproved
    BY DEF EffectsInv
  <1> QED
    BY <1>1, Invariant, PTL

\* With a durable store, a challenge a caller was told of is there.
THEOREM ToldStays == Spec => []ToldIsStored
  <1>1. EffectsInv => ToldIsStored
    BY DEF EffectsInv
  <1> QED
    BY <1>1, Invariant, PTL

\* The abstract register, as GovernedEffects maps its state to it.
Entry(record) ==
    IF record = None THEN None
    ELSE [deadline |-> record.expires, decision |-> record.decision]

Mapped == [c \in Place \X Binding |-> Entry(challenges[c[1]][c[2]])]

Granted == {<<permit.place, permit.id>> : permit \in permits}

LEMMA EntryOf ==
    ASSUME NEW record \in Record
    PROVE  /\ record # None /\ Entry(record) # None
           /\ Entry(record).deadline = record.expires
           /\ Entry(record).decision = record.decision
           /\ Entry(record) \in [deadline : Nat, decision : {"none", "approve", "deny"}]
  BY EffectsAssumption DEF Entry, Record

\* Where one record is written, one entry of the register changes.
LEMMA MappedOne ==
    ASSUME TypeOK, NEW place \in Place, NEW id \in Binding, NEW record \in Record,
           challenges' = [challenges EXCEPT ![place][id] = record]
    PROVE  /\ Mapped' = [Mapped EXCEPT ![<<place, id>>] = Entry(record)]
           /\ <<place, id>> \in Place \X Binding
           /\ Mapped[<<place, id>>] = Entry(challenges[place][id])
           /\ Mapped'[<<place, id>>] = Entry(record)
  <1>1. /\ challenges'[place][id] = record
        /\ \A q \in Place, i \in Binding :
               q # place \/ i # id => challenges'[q][i] = challenges[q][i]
    BY WriteOne DEF TypeOK
  <1>2. \A c \in Place \X Binding :
            /\ c[1] \in Place /\ c[2] \in Binding
            /\ c # <<place, id>> => c[1] # place \/ c[2] # id
    OBVIOUS
  <1>3. \A c \in Place \X Binding :
            Mapped'[c] = [Mapped EXCEPT ![<<place, id>>] = Entry(record)][c]
    BY <1>1, <1>2 DEF Mapped
  <1>4. Mapped' = [c \in Place \X Binding |-> Mapped'[c]]
    BY DEF Mapped
  <1>5. [Mapped EXCEPT ![<<place, id>>] = Entry(record)] =
            [c \in Place \X Binding |-> [Mapped EXCEPT ![<<place, id>>] = Entry(record)][c]]
    BY DEF Mapped
  <1> QED
    BY <1>1, <1>3, <1>4, <1>5 DEF Mapped

\* A step that leaves the stores, the clock and the permits alone is none of the
\* register.
LEMMA Stutter ==
    ASSUME UNCHANGED <<now, challenges, permits>>
    PROVE  UNCHANGED <<now, Mapped, Granted>>
  BY DEF Mapped, Granted, Entry

\* The step of the register.
Opens(c) ==
    /\ Mapped[c] = None
    /\ Mapped'[c] \in [deadline : Nat, decision : {"none"}]
    /\ Mapped' = [Mapped EXCEPT ![c] = Mapped'[c]]
    /\ UNCHANGED <<now, Granted>>

Decides(c) ==
    /\ Mapped[c] # None /\ Mapped[c].decision = "none"
    /\ now < Mapped[c].deadline
    /\ \E decision \in {"approve", "deny"} :
           Mapped' = [Mapped EXCEPT ![c].decision = decision]
    /\ UNCHANGED <<now, Granted>>

Grants(c) ==
    /\ Mapped[c] # None /\ Mapped[c].decision = "approve"
    /\ now < Mapped[c].deadline
    /\ Granted' = Granted \cup {c}
    /\ UNCHANGED <<now, Mapped>>

Forgets(lost) ==
    /\ Mapped' = [c \in Place \X Binding |-> IF c \in lost THEN None ELSE Mapped[c]]
    /\ UNCHANGED <<now, Granted>>

LEMMA RegisterOpens ==
    ASSUME EffectsInv, NEW c \in Call, Register(c)
    PROVE  \E d \in Place \X Binding : Opens(d)
  <1> DEFINE place == StoreOf(job[c].process)
             id == job[c].id
             record == [binding |-> job[c].binding, expires |-> job[c].expires,
                        decision |-> "none"]
  <1>0. TypeOK /\ pc[c] # "idle"
    BY DEF EffectsInv, Register
  <1>1. /\ job[c] \in Job /\ place \in Place /\ id \in Binding
        /\ job[c].binding \in Binding
    BY <1>0, JobOf
  <1>2. record \in Record /\ record.decision = "none"
    BY <1>1 DEF Job, Record
  <1>3. /\ challenges' = [challenges EXCEPT ![place][id] = record]
        /\ challenges[place][id] = None
        /\ UNCHANGED <<now, permits>>
    BY DEF Register, Stored, AnswerChallenge
  <1> HIDE DEF record, place, id
  <1>4. /\ Mapped' = [Mapped EXCEPT ![<<place, id>>] = Entry(record)]
        /\ <<place, id>> \in Place \X Binding
        /\ Mapped[<<place, id>>] = Entry(challenges[place][id])
        /\ Mapped'[<<place, id>>] = Entry(record)
    <2>1. challenges' = [challenges EXCEPT ![place][id] = record]
      BY <1>3
    <2> QED
      BY ZenonT(40), <1>0, <1>1, <1>2, <2>1, MappedOne
  <1>5. Mapped[<<place, id>>] = None
    BY <1>3, <1>4 DEF Entry
  <1>6. Entry(record) \in [deadline : Nat, decision : {"none"}]
    BY <1>2, EntryOf
  <1>7. UNCHANGED <<now, Granted>>
    BY <1>3 DEF Granted
  <1> QED
    BY <1>4, <1>5, <1>6, <1>7 DEF Opens

LEMMA DecideDecides ==
    ASSUME EffectsInv, NEW place \in Place, NEW id \in Binding, Decide(place, id)
    PROVE  Decides(<<place, id>>)
  <1> DEFINE old == challenges[place][id]
  <1>0. TypeOK /\ old \in Record /\ old.decision = "none" /\ now < old.expires
    BY DEF EffectsInv, TypeOK, Decide, Open
  <1>1. PICK decision \in {"approve", "deny"} :
           challenges' = [challenges EXCEPT ![place][id].decision = decision]
    BY DEF Decide
  <1> DEFINE new == [old EXCEPT !.decision = decision]
  <1>2. new \in Record /\ new.expires = old.expires /\ new.decision = decision
    BY <1>0 DEF Record
  <1>3. challenges' = [challenges EXCEPT ![place][id] = new]
    BY <1>1
  <1> HIDE DEF new
  <1>4. /\ Mapped' = [Mapped EXCEPT ![<<place, id>>] = Entry(new)]
        /\ <<place, id>> \in Place \X Binding
        /\ Mapped[<<place, id>>] = Entry(old)
    BY ZenonT(40), <1>0, <1>2, <1>3, MappedOne
  <1>5. /\ Entry(old) = [deadline |-> old.expires, decision |-> old.decision]
        /\ Entry(new) = [deadline |-> old.expires, decision |-> decision]
    BY <1>0, <1>2, EntryOf DEF Entry
  <1>6. Entry(new) = [Entry(old) EXCEPT !.decision = decision]
    BY <1>5
  <1>7. Mapped' = [Mapped EXCEPT ![<<place, id>>].decision = decision]
    BY <1>4, <1>6
  <1>8. UNCHANGED <<now, Granted>>
    BY DEF Decide, Granted
  <1> QED
    BY <1>0, <1>4, <1>7, <1>8, EntryOf DEF Decides

LEMMA CheckGrants ==
    ASSUME EffectsInv, NEW c \in Call, Check(c)
    PROVE  \/ UNCHANGED <<now, Mapped, Granted>>
           \/ \E d \in Place \X Binding : Grants(d)
  <1> DEFINE place == StoreOf(job[c].process)
             id == job[c].id
             permit == [place |-> place, id |-> id, binding |-> job[c].binding, at |-> now]
  <1>0. TypeOK /\ pc[c] = "check" /\ UNCHANGED <<now, challenges>>
    BY DEF EffectsInv, Check
  <1>1. CASE ~ Permitted(job[c])
    <2>1. UNCHANGED permits
      BY <1>1 DEF Check
    <2> QED
      BY <1>0, <2>1, Stutter
  <1>2. CASE Permitted(job[c])
    <2>1. place \in Place /\ id \in Binding /\ <<place, id>> \in Place \X Binding
      BY <1>0, JobOf
    <2>2. /\ Stored(c) # None /\ Stored(c).decision = "approve" /\ now < Stored(c).expires
      BY <1>0, <1>2 DEF EffectsInv, LoadedIsStored, Permitted
    <2>3. Stored(c) = challenges[place][id] /\ challenges[place][id] \in Record
      BY <1>0, <2>2, JobOf DEF Stored
    <2>4. Mapped[<<place, id>>] = Entry(challenges[place][id])
      BY <2>1 DEF Mapped
    <2>5. permits' = permits \cup {permit}
      BY <1>2 DEF Check
    <2>6. permit.place = place /\ permit.id = id
      OBVIOUS
    <2>7. Granted' = Granted \cup {<<place, id>>}
      BY <2>5, <2>6 DEF Granted
    <2>8. UNCHANGED <<now, Mapped>>
      BY <1>0 DEF Mapped, Entry
    <2>9. Grants(<<place, id>>)
      BY <2>2, <2>3, <2>4, <2>7, <2>8, EntryOf DEF Grants
    <2> QED
      BY <2>1, <2>9
  <1> QED
    BY <1>1, <1>2

LEMMA RestartForgets ==
    ASSUME EffectsInv, NEW p \in Process, Restart(p)
    PROVE  Forgets({p} \X Binding) /\ {p} \X Binding \in SUBSET (Process \X Binding)
  <1>1. challenges' = [challenges EXCEPT ![p] = [id \in Binding |-> None]]
    BY DEF Restart
  <1>2. /\ \A id \in Binding : challenges'[p][id] = None
        /\ \A q \in Place : q # p => challenges'[q] = challenges[q]
    BY <1>1 DEF EffectsInv, TypeOK, Place
  <1>3. \A c \in Place \X Binding :
            Entry(challenges'[c[1]][c[2]]) =
                IF c \in {p} \X Binding THEN None ELSE Entry(challenges[c[1]][c[2]])
    BY <1>2 DEF Entry
  <1>4. Mapped' = [c \in Place \X Binding |-> IF c \in {p} \X Binding THEN None ELSE Mapped[c]]
    BY <1>3 DEF Mapped
  <1>5. UNCHANGED <<now, Granted>>
    BY DEF Restart, history, Granted
  <1> QED
    BY <1>4, <1>5 DEF Forgets

\* Every step is one of the register or none.
LEMMA StepMaps ==
    ASSUME EffectsInv, [Next]_vars
    PROVE  \/ UNCHANGED <<now, Mapped, Granted>>
           \/ \E d \in Place \X Binding : Opens(d) \/ Decides(d) \/ Grants(d)
           \/ \E lost \in SUBSET (Process \X Binding) : Forgets(lost)
           \/ now' = now + 1 /\ UNCHANGED <<Mapped, Granted>>
  <1>1. CASE \E c \in Call : Step(c)
    <2>1. PICK c \in Call : Step(c)
      BY <1>1
    <2>2. CASE Register(c)
      BY <2>2, RegisterOpens
    <2>3. CASE Check(c)
      BY <2>3, CheckGrants
    <2>4. CASE \/ EvaluateHandler(c) \/ RevalidateHandler(c) \/ RegisterConflict(c)
               \/ Compare(c) \/ Load(c) \/ Drop(c)
      <3>1. UNCHANGED <<now, challenges, permits>>
        BY <2>4
        DEF EvaluateHandler, Evaluate, RevalidateHandler, Begin, RegisterConflict, Compare,
            AnswerChallenge, Load, Drop, history
      <3> QED
        BY <3>1, Stutter
    <2> QED
      BY <2>1, <2>2, <2>3, <2>4 DEF Step
  <1>2. CASE \E p \in Process, id \in Binding : DecideHandler(p, id)
    <2>1. PICK p \in Process, id \in Binding : Decide(StoreOf(p), id)
      BY <1>2 DEF DecideHandler
    <2>2. StoreOf(p) \in Place /\ <<StoreOf(p), id>> \in Place \X Binding
      BY StoreIsPlace
    <2> QED
      BY <2>1, <2>2, DecideDecides
  <1>3. CASE \E p \in Process : ReloadPolicies(p)
    BY <1>3, Stutter DEF ReloadPolicies, history
  <1>4. CASE \E p \in Process : Restart(p)
    BY <1>4, RestartForgets
  <1>5. CASE Tick
    BY <1>5 DEF Tick, history, Mapped, Granted, Entry
  <1>6. CASE UNCHANGED vars
    BY <1>6, Stutter DEF vars, history
  <1> QED
    BY <1>1, <1>2, <1>3, <1>4, <1>5, <1>6 DEF Next

\* The two stores of challenges implement the abstract register: a challenge
\* keeps its deadline and its first decision, and a permit finds it open and
\* approved.
THEOREM Implements == Spec => ImplementsRegister
  <1>1. Init => Register1!Init
    BY DEF Init, Register1!Init, Place
  <1>2. EffectsInv /\ [Next]_vars => [Register1!Next]_(Register1!vars)
    <2> SUFFICES ASSUME EffectsInv, [Next]_vars
                 PROVE  [Register1!Next]_(Register1!vars)
      OBVIOUS
    <2>1. CASE UNCHANGED <<now, Mapped, Granted>>
      BY <2>1 DEF Register1!vars, Mapped, Granted, Entry
    <2>2. CASE \E d \in Place \X Binding : Opens(d)
      BY <2>2 DEF Register1!Next, Register1!Open, Opens, Mapped, Granted, Entry
    <2>3. CASE \E d \in Place \X Binding : Decides(d)
      BY <2>3 DEF Register1!Next, Register1!Decide, Decides, Mapped, Granted, Entry
    <2>4. CASE \E d \in Place \X Binding : Grants(d)
      BY <2>4 DEF Register1!Next, Register1!Permit, Grants, Mapped, Granted, Entry
    <2>5. CASE \E lost \in SUBSET (Process \X Binding) : Forgets(lost)
      BY <2>5 DEF Register1!Next, Register1!Forget, Forgets, Mapped, Granted, Entry
    <2>6. CASE now' = now + 1 /\ UNCHANGED <<Mapped, Granted>>
      BY <2>6 DEF Register1!Next, Register1!Tick, Mapped, Granted, Entry
    <2> QED
      BY StepMaps, <2>1, <2>2, <2>3, <2>4, <2>5, <2>6
  <1> QED
    BY <1>1, <1>2, Invariant, PTL DEF Spec, ImplementsRegister, Register1!Spec

-----------------------------------------------------------------------------
(* The approval stores, a part of MCGovernedEffects.                       *)

Less == {p \in Nat \X Nat : p[1] < p[2]}

LEMMA LessIsWellFounded == IsWellFoundedOn(Less, Nat)
  <1>1. OpToRel(<, Nat) = Less
    BY DEF OpToRel, Less
  <1> QED
    BY <1>1, NatLessThanWellFounded

\* The least of a set of natural numbers.
LEMMA LeastIsMin ==
    ASSUME NEW S, S \subseteq Nat, S # {}
    PROVE  /\ Approvals!Min(S) \in S
           /\ \A k \in S : Approvals!Min(S) <= k
  <1>1. PICK m \in S : \A k \in S : ~ (<<k, m>> \in Less)
    BY LessIsWellFounded, WFMin
  <1>2. ASSUME NEW k \in S PROVE m <= k
    <2>1. k \in Nat /\ m \in Nat
      OBVIOUS
    <2>2. ~ (<<k, m>> \in Less)
      BY <1>1
    <2>3. ~ (k < m)
      BY <2>1, <2>2 DEF Less
    <2> QED
      BY <2>1, <2>3
  <1> QED
    BY <1>2 DEF Approvals!Min

\* What is about to be removed has expired: an id is registered once at a time, and
\* no deadline moves.
DoomedHaveExpired ==
    \A a \in doomed : entries[a] # None => entries[a].expires <= time

RowsInv == Approvals!TypeOK /\ DoomedHaveExpired

\* A waiter finds the deadline it sleeps to: what it may wait for is not decided.
LEMMA EarliestIsEarlier ==
    ASSUME Approvals!TypeOK, NEW a \in Approvals!Listed
    PROVE  /\ Approvals!EarliestExpiry # None
           /\ Approvals!EarliestExpiry <= entries[a].expires
  <1> DEFINE of == IF durable THEN Approvals!Listed ELSE Approvals!Undecided
             S == {entries[b].expires : b \in of}
  <1>1. a \in of
    BY DEF Approvals!Listed
  <1>2. \A b \in of : b \in Call /\ entries[b] # None
    BY DEF Approvals!Listed, Approvals!Undecided
  <1>3. \A b \in of : entries[b].expires \in 0 .. MaxTime
    BY <1>2 DEF Approvals!TypeOK, Approvals!Entry
  <1>4. S \subseteq Nat /\ S # {}
    BY <1>1, <1>3
  <1>5. /\ Approvals!Min(S) \in S
        /\ \A k \in S : Approvals!Min(S) <= k
    BY <1>4, LeastIsMin
  <1>6. Approvals!EarliestExpiry = Approvals!Min(S)
    BY <1>1 DEF Approvals!EarliestExpiry
  <1>7. Approvals!Min(S) \in 0 .. MaxTime
    BY <1>3, <1>5
  <1> QED
    BY <1>1, <1>5, <1>6, <1>7, RowsAssumption

LEMMA RowsNext ==
    ASSUME RowsInv, Approvals!Next
    PROVE  /\ RowsInv'
           /\ \A a \in Approvals!Listed : entries'[a] # None
           /\ durable => \A a \in Call \ Approvals!Undecided :
                  entries[a] # None => entries'[a] \in {entries[a], None}
  <1> USE RowsAssumption DEF RowsInv, DoomedHaveExpired
  <1>0. /\ time \in Nat
        /\ \A a \in Call : entries[a] # None =>
               /\ entries[a] \in Approvals!Entry
               /\ entries[a].expires \in Nat
    BY DEF Approvals!TypeOK, Approvals!Entry
  <1>1. ASSUME NEW a \in Call, Approvals!Register(a)
        PROVE  /\ RowsInv'
               /\ \A b \in Approvals!Listed : entries'[b] # None
               /\ \A b \in Call : entries[b] # None => entries'[b] = entries[b]
    <2>1. PICK expires \in 0 .. MaxTime :
              entries' = [entries EXCEPT ![a] = [expires |-> expires, decision |-> "none"]]
      BY <1>1 DEF Approvals!Register
    <2>2. [expires |-> expires, decision |-> "none"] \in Approvals!Entry
      BY DEF Approvals!Entry
    <2>3. Approvals!TypeOK'
      BY <1>1, <2>1, <2>2 DEF Approvals!TypeOK, Approvals!Register
    <2>4. \A b \in Call : entries[b] # None => entries'[b] = entries[b]
      BY <1>1, <2>1 DEF Approvals!TypeOK, Approvals!Register
    <2>5. DoomedHaveExpired'
      BY <1>1, <2>1 DEF Approvals!TypeOK, Approvals!Register
    <2> QED
      BY <2>3, <2>4, <2>5 DEF Approvals!Listed, Approvals!Undecided
  <1>2. ASSUME NEW a \in Call, Approvals!Decide(a)
        PROVE  /\ RowsInv'
               /\ \A b \in Approvals!Listed : entries'[b] # None
               /\ durable => a \in Approvals!Undecided
               /\ \A b \in Call : b # a => entries'[b] = entries[b]
    <2>1. PICK decision \in {"approved", "rejected"} :
              entries' = [entries EXCEPT ![a].decision = decision]
      BY <1>2 DEF Approvals!Decide
    <2> DEFINE taken == [entries[a] EXCEPT !.decision = decision]
    <2>2. entries[a] # None /\ (durable => entries[a].decision = "none")
      BY <1>2 DEF Approvals!Decide, Approvals!Accepts
    <2>3. taken \in Approvals!Entry /\ taken.expires = entries[a].expires
      BY <1>0, <2>2 DEF Approvals!Entry
    <2>4. /\ entries'[a] = taken
          /\ \A b \in Call : b # a => entries'[b] = entries[b]
          /\ entries' = [entries EXCEPT ![a] = taken]
      BY <2>1 DEF Approvals!TypeOK
    <2> HIDE DEF taken
    <2>5. Approvals!TypeOK'
      BY <1>2, <2>3, <2>4 DEF Approvals!TypeOK, Approvals!Decide
    <2>6. doomed \subseteq Call /\ UNCHANGED <<time, doomed>>
      BY <1>2 DEF Approvals!TypeOK, Approvals!Decide
    <2>7. DoomedHaveExpired'
      BY <2>2, <2>3, <2>4, <2>6
    <2>8. entries'[a] # None
      BY <2>3, <2>4
    <2> QED
      BY <2>2, <2>4, <2>5, <2>7, <2>8 DEF Approvals!Listed, Approvals!Undecided
  <1>3. ASSUME NEW a \in Call, Approvals!Remove(a)
        PROVE  /\ RowsInv'
               /\ \A b \in Approvals!Listed : entries'[b] # None
               /\ \A b \in Call : entries'[b] \in {entries[b], None}
    <2>1. /\ entries' = [entries EXCEPT ![a] = None]
          /\ a \in doomed /\ doomed' = doomed \ {a}
          /\ UNCHANGED <<durable, time>>
      BY <1>3 DEF Approvals!Remove
    <2>2. a \notin Approvals!Listed
      BY <1>0, <2>1 DEF Approvals!Listed, Approvals!Undecided
    <2>3. \A b \in Call : IF b = a THEN entries'[b] = None ELSE entries'[b] = entries[b]
      BY <2>1 DEF Approvals!TypeOK
    <2>4. Approvals!TypeOK'
      BY <2>1 DEF Approvals!TypeOK
    <2>5. DoomedHaveExpired'
      BY <2>1, <2>3 DEF Approvals!TypeOK
    <2> QED
      BY <2>2, <2>3, <2>4, <2>5 DEF Approvals!Listed, Approvals!Undecided
  <1>4. ASSUME Approvals!PurgeRows
        PROVE  /\ RowsInv'
               /\ \A b \in Approvals!Listed : entries'[b] # None
               /\ \A b \in Call : entries'[b] \in {entries[b], None}
    <2>1. \A b \in Call :
              entries'[b] = IF b \in Approvals!Expired THEN None ELSE entries[b]
      BY <1>4 DEF Approvals!PurgeRows
    <2>2. Approvals!TypeOK' /\ UNCHANGED <<time, doomed>> /\ doomed \subseteq Call
      BY <1>4 DEF Approvals!PurgeRows, Approvals!TypeOK
    <2>3. \A b \in Approvals!Listed : b \in Call /\ b \notin Approvals!Expired
      BY <1>0 DEF Approvals!Listed, Approvals!Undecided, Approvals!Expired
    <2>4. DoomedHaveExpired'
      BY <2>1, <2>2
    <2> QED
      BY <2>1, <2>2, <2>3, <2>4 DEF Approvals!Listed, Approvals!Undecided
  <1>5. CASE Approvals!FindExpired
    BY <1>5 DEF Approvals!FindExpired, Approvals!TypeOK, Approvals!Expired,
                Approvals!Listed, Approvals!Undecided
  <1>6. CASE Approvals!Tick
    <2>1. /\ time' = time + 1 /\ time < MaxTime
          /\ UNCHANGED <<durable, entries, doomed>>
      BY <1>6 DEF Approvals!Tick
    <2>2. Approvals!TypeOK'
      BY <2>1, EffectsAssumption DEF Approvals!TypeOK
    <2>3. DoomedHaveExpired'
      BY <1>0, <2>1 DEF Approvals!TypeOK
    <2> QED
      BY <2>1, <2>2, <2>3 DEF Approvals!Listed, Approvals!Undecided
  <1> QED
    BY <1>1, <1>2, <1>3, <1>4, <1>5, <1>6 DEF Approvals!Next

LEMMA RowsStep ==
    ASSUME RowsInv, [MCNext]_<<part, vars, rowVars>>
    PROVE  /\ RowsInv'
           /\ Approvals!Next \/ UNCHANGED rowVars
  <1>1. CASE UNCHANGED rowVars
    BY <1>1 DEF rowVars, RowsInv, DoomedHaveExpired, Approvals!TypeOK
  <1>2. CASE Approvals!Next
    BY <1>2, RowsNext
  <1> QED
    BY <1>1, <1>2 DEF MCNext

LEMMA RowsInvariant == MCSpec => []RowsInv
  <1>1. MCInit => RowsInv
    BY EffectsAssumption
    DEF MCInit, Approvals!Init, RowsInv, DoomedHaveExpired, Approvals!TypeOK
  <1> QED
    BY <1>1, RowsStep, PTL DEF MCSpec

\* In either store, whatever is decided, purged in one statement or in two passes:
\* nothing a waiter may still wait for goes before the deadline it sleeps to, and in
\* Postgres the first decision stays the answer until the row is purged.
THEOREM RowsStand == MCSpec => ApprovalsStand
  <1>1. RowsInv => Approvals!TypeOK
    BY DEF RowsInv
  <1>2. RowsInv /\ [MCNext]_<<part, vars, rowVars>>
          => [durable => \A a \in Call \ Approvals!Undecided :
                entries[a] # None => entries'[a] \in {entries[a], None}]_(Approvals!vars)
    BY RowsStep, RowsNext DEF Approvals!vars, rowVars
  <1>3. RowsInv /\ [MCNext]_<<part, vars, rowVars>>
          => [\A a \in Approvals!Listed :
                /\ entries'[a] # None
                /\ Approvals!EarliestExpiry # None /\ Approvals!EarliestExpiry <= entries[a].expires]_(Approvals!vars)
    BY RowsStep, RowsNext, EarliestIsEarlier DEF Approvals!vars, rowVars, RowsInv
  <1>4. MCSpec => []Approvals!TypeOK
    BY <1>1, RowsInvariant, PTL
  <1>5. MCSpec => Approvals!FirstDecisionStands
    BY <1>2, RowsInvariant, PTL DEF MCSpec, Approvals!FirstDecisionStands
  <1>6. MCSpec => Approvals!PurgedAtExpiry
    BY <1>3, RowsInvariant, PTL DEF MCSpec, Approvals!PurgedAtExpiry
  <1> QED
    BY <1>4, <1>5, <1>6, PTL DEF ApprovalsStand, Approvals!ApprovalsStand

=============================================================================
