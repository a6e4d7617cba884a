---------------------------- MODULE AdmissionProofs ----------------------------
(***************************************************************************)
(* What is proved of the models that decide whether a request, an effect   *)
(* or a charge may go ahead.                                               *)
(*                                                                         *)
(*   Effects   For any number of processes, calls, effects, actions,       *)
(*             scopes and policies, of ChannelAuthority's own Spec.        *)
(*   Pipeline  For any routes, hooks, providers and deadline, of the       *)
(*             pipeline's part of MCSpec.                                  *)
(*   Budgets   For any callers, budgets, limit and window length, of the   *)
(*             limits' part of MCSpec.                                     *)
(*   Types     Of all three, under MCSpec.                                 *)
(***************************************************************************)
EXTENDS MCAdmission, ChannelInvariant, Sequences, TLAPS, FiniteSetTheorems,
        WellFoundedInduction

-----------------------------------------------------------------------------
(* Effects of a channel.                                                   *)

LEMMA InitInv == Init => Inv
  <1> SUFFICES ASSUME Init PROVE Inv
    OBVIOUS
  <1>1. TypeOK
    BY ChannelAssumption DEF Init, TypeOK, Grant, NoGrant, Awaits
  <1>2. /\ \A c \in Call : pc[c] = "idle"
        /\ \A e \in Effect, s \in Stage : receipts[s][e] = None
        /\ \A e \in Effect : permits[e] = 0
    BY DEF Init
  <1> QED
    BY SMTT(30), <1>1, <1>2
    DEF Inv, JobsRun, GrantIsPinned, HoldsGrant, EvaluationIsPinned,
        InsertsAreUnique, Inserted, ReceiptsAreUnique, DecisionsAreAuthorized,
        Deciding, EvaluationsAreTrue, PermitIsOne, AnswersAreRecorded, Stage

-----------------------------------------------------------------------------

\* A call that ends leaves nothing behind.
LEMMA AbortInv ==
    ASSUME Inv, NEW c \in Call, Abort(c), Unchanged
    PROVE  Inv'
  <1>1. /\ pc' \in [Call -> Awaits] /\ job' \in [Call -> Job \cup {None}]
        /\ pc'[c] = "idle"
        /\ \A d \in Call \ {c} : pc'[d] = pc[d] /\ job'[d] = job[d]
        /\ UNCHANGED <<grant, receipts, policy, permits>>
    BY DEF Inv, TypeOK, Abort, Goto, Awaits, Unchanged
  <1>2. TypeOK' /\ JobsRun' /\ GrantIsPinned' /\ EvaluationIsPinned'
    BY <1>1
    DEF Inv, TypeOK, JobsRun, GrantIsPinned, HoldsGrant, EvaluationIsPinned
  <1>3. InsertsAreUnique' /\ ReceiptsAreUnique' /\ EvaluationsAreTrue'
    BY <1>1
    DEF Inv, InsertsAreUnique, Inserted, Collides, ReceiptsAreUnique,
        EvaluationsAreTrue
  <1>4. DecisionsAreAuthorized'
    BY <1>1
    DEF Inv, DecisionsAreAuthorized, Deciding, Authorized, SameAuthority, Permitting
  <1>5. PermitIsOne' /\ AnswersAreRecorded'
    <2>1. PermitIsOne'
      BY <1>1 DEF Inv, PermitIsOne, Released
    <2>2. AnswersAreRecorded'
      BY <1>1 DEF Inv, AnswersAreRecorded
    <2> QED
      BY <2>1, <2>2
  <1> QED
    BY <1>2, <1>3, <1>4, <1>5 DEF Inv

\* A call that goes from one await before the decision to another.
LEMMA WaitInv ==
    ASSUME Inv, NEW c \in Call, NEW await \in {"grant", "evaluation", "release"},
           Goto(c, await), Unchanged,
           job' = [job EXCEPT ![c] = job'[c]],
           job'[c] \in Job, job'[c].grant.revision <= grant.revision,
           await # "grant" => job'[c].policy \in Policy,
           await # "grant" /\ job'[c].grant # NoGrant => job'[c].grant = grant,
           await = "release" => /\ job'[c].stage = "release"
                                /\ job'[c].evaluation # None =>
                                     /\ job'[c].evaluation.request = job'[c].request
                                     /\ receipts["evaluate"][job'[c].request.effect]
                                          = job'[c].evaluation
    PROVE  Inv'
  <1>1. /\ pc' \in [Call -> Awaits] /\ job' \in [Call -> Job \cup {None}]
        /\ pc'[c] = await
        /\ \A d \in Call \ {c} : pc'[d] = pc[d] /\ job'[d] = job[d]
        /\ UNCHANGED <<grant, receipts, policy, permits>>
    BY DEF Inv, TypeOK, Goto, Awaits, Unchanged
  <1>2. TypeOK' /\ JobsRun' /\ GrantIsPinned' /\ EvaluationIsPinned'
    BY <1>1
    DEF Inv, TypeOK, JobsRun, GrantIsPinned, HoldsGrant, EvaluationIsPinned
  <1>3. InsertsAreUnique' /\ ReceiptsAreUnique' /\ EvaluationsAreTrue'
    BY <1>1
    DEF Inv, InsertsAreUnique, Inserted, Collides, ReceiptsAreUnique,
        EvaluationsAreTrue
  <1>4. DecisionsAreAuthorized'
    BY <1>1
    DEF Inv, DecisionsAreAuthorized, Deciding, Authorized, SameAuthority, Permitting
  <1>5. PermitIsOne' /\ AnswersAreRecorded'
    <2>1. PermitIsOne'
      BY <1>1 DEF Inv, PermitIsOne, Released
    <2>2. AnswersAreRecorded'
      BY SMTT(30), <1>1 DEF Inv, AnswersAreRecorded
    <2> QED
      BY <2>1, <2>2
  <1> QED
    BY <1>2, <1>3, <1>4, <1>5 DEF Inv

\* A decision on the receipts that were found.
LEMMA DecideInv ==
    ASSUME Inv, NEW c \in Call, pc[c] \in {"evaluation", "release"}, Unchanged,
           NEW j \in Job, NEW release \in Receipt \cup {None}, Decide(c, j, release),
           j.grant = job[c].grant, j.policy = job[c].policy,
           j.evaluation # None =>
               /\ j.evaluation.request = j.request
               /\ receipts["evaluate"][j.request.effect] = j.evaluation,
           j.stage = "evaluate" => release = None,
           j.stage = "release" /\ release # None =>
               /\ release.request = j.request
               /\ receipts["release"][j.request.effect] = release
    PROVE  Inv'
  <1> DEFINE record == release = None /\ (j.stage = "release" \/ j.evaluation = None)
             k == [j EXCEPT !.answer = Answering(j, release), !.record = record]
  <1>1. /\ Answering(j, release) \in {"eligible", "released", "withheld", "uncertain"}
        /\ Answering(j, release) = "uncertain" =>
               release # None /\ release.disposition = "released"
        /\ Answering(j, release) \in {"eligible", "released"} =>
               release = None /\ ~Withheld(j) /\ Answering(j, release) = Permitting(j.stage)
        /\ release = None /\ ~Withheld(j) => Answering(j, release) = Permitting(j.stage)
    BY DEF Answering, Permitting
  <1>2. /\ k \in Job /\ k.answer = Answering(j, release) /\ k.record = record
        /\ k.process = j.process /\ k.stage = j.stage /\ k.request = j.request
        /\ k.grant = j.grant /\ k.policy = j.policy /\ k.evaluation = j.evaluation
        /\ j.stage \in {"evaluate", "release"}
    BY <1>1 DEF Job, Stage
  <1>3. /\ pc' \in [Call -> Awaits] /\ job' \in [Call -> Job \cup {None}]
        /\ pc'[c] = (IF record THEN "insert" ELSE "commit") /\ job'[c] = k
        /\ \A d \in Call \ {c} : pc'[d] = pc[d] /\ job'[d] = job[d]
        /\ UNCHANGED <<grant, receipts, policy, permits>>
    BY <1>2 DEF Inv, TypeOK, Decide, Goto, Awaits, Unchanged
  <1> HIDE DEF k
  <1>4. TypeOK' /\ JobsRun' /\ GrantIsPinned' /\ EvaluationIsPinned'
    <2>1. TypeOK'
      BY <1>3 DEF Inv, TypeOK
    <2>2. JobsRun'
      BY <1>2, <1>3 DEF Inv, JobsRun
    <2>3. GrantIsPinned'
      BY <1>2, <1>3 DEF Inv, GrantIsPinned, HoldsGrant
    <2>4. EvaluationIsPinned'
      BY <1>2, <1>3 DEF Inv, EvaluationIsPinned
    <2> QED
      BY <2>1, <2>2, <2>3, <2>4
  <1>5. InsertsAreUnique' /\ ReceiptsAreUnique' /\ EvaluationsAreTrue'
    <2>1. \A s \in Stage : ~Inserted(c, s)'
      BY <1>2, <1>3 DEF Inserted
    <2> QED
      BY <1>3, <2>1
      DEF Inv, InsertsAreUnique, Inserted, Collides, ReceiptsAreUnique,
          EvaluationsAreTrue
  <1>6. DecisionsAreAuthorized'
    <2>1. /\ Authorized(k) <=> Authorized(j)
          /\ SameAuthority(k) <=> SameAuthority(j)
          /\ Withheld(j) <=> \/ ~Authorized(j) \/ ~SameAuthority(j)
                             \/ /\ j.stage = "release"
                                /\ \/ j.evaluation = None
                                   \/ j.evaluation.disposition # "eligible"
                                   \/ policy[j.process] # j.policy
          /\ j.evaluation = None => SameAuthority(j)
      BY <1>2 DEF Authorized, SameAuthority, Withheld
    <2>2. /\ k.answer \in {"eligible", "released"} =>
                /\ Authorized(k) /\ SameAuthority(k)
                /\ k.answer = Permitting(k.stage)
          /\ k.answer = "released" =>
                k.record /\ k.evaluation # None /\ k.evaluation.disposition = "eligible"
          /\ k.record /\ k.stage = "evaluate" => 
                /\ k.evaluation = None
                /\ Authorized(k) => k.answer = "eligible"
          /\ ~k.record /\ k.stage = "evaluate" => k.evaluation # None
          /\ k.answer = "uncertain" =>
                /\ ~k.record /\ k.stage = "release"
                /\ receipts["release"][k.request.effect] # None
                /\ receipts["release"][k.request.effect].request = k.request
                /\ receipts["release"][k.request.effect].disposition = "released"
      BY <1>1, <1>2, <2>1 DEF Permitting
    <2> QED
      BY <1>3, <2>2
      DEF Inv, DecisionsAreAuthorized, Deciding, Authorized, SameAuthority, Permitting
  <1>7. PermitIsOne' /\ AnswersAreRecorded'
    <2>1. PermitIsOne'
      BY <1>3 DEF Inv, PermitIsOne, Released
    <2>2. AnswersAreRecorded'
      BY <1>3 DEF Inv, AnswersAreRecorded
    <2> QED
      BY <2>1, <2>2
  <1> QED
    BY <1>4, <1>5, <1>6, <1>7 DEF Inv

\* An insert that meets no receipt, and no other insert, of its keys.
LEMMA InsertedInv ==
    ASSUME Inv, NEW c \in Call, Insert(c), Goto(c, "commit"), UNCHANGED job,
           ~\E f \in Effect : Collides(job[c].request, job[c].stage,
                                      receipts[job[c].stage][f])
    PROVE  Inv'
  <1>1. /\ pc' \in [Call -> Awaits] /\ pc[c] = "insert" /\ pc'[c] = "commit"
        /\ \A d \in Call \ {c} : pc'[d] = pc[d]
        /\ UNCHANGED <<grant, receipts, policy, permits, job>>
    BY DEF Inv, TypeOK, Insert, Goto, Awaits, Unchanged
  <1>2. TypeOK' /\ JobsRun' /\ GrantIsPinned' /\ EvaluationIsPinned'
    BY <1>1
    DEF Inv, TypeOK, JobsRun, GrantIsPinned, HoldsGrant, EvaluationIsPinned
  <1>3. InsertsAreUnique'
    <2>1. \A d \in Call \ {c} : \A s \in Stage :
             Inserted(d, s)' /\ s = job[c].stage =>
                 /\ job[d].request.effect # job[c].request.effect
                 /\ job[d].request.action # job[c].request.action
      BY <1>1 DEF Insert, Inserted
    <2> QED
      BY SMTT(30), <1>1, <2>1 DEF Inv, InsertsAreUnique, Inserted, Collides
  <1>4. ReceiptsAreUnique' /\ EvaluationsAreTrue'
    BY <1>1 DEF Inv, ReceiptsAreUnique, EvaluationsAreTrue
  <1>5. DecisionsAreAuthorized'
    BY SMTT(60), <1>1
    DEF Inv, DecisionsAreAuthorized, Deciding, Authorized, SameAuthority, Permitting
  <1>6. PermitIsOne'
    BY <1>1 DEF Inv, PermitIsOne, Released
  <1>7. AnswersAreRecorded'
    BY <1>1 DEF Inv, AnswersAreRecorded
  <1> QED
    BY <1>2, <1>3, <1>4, <1>5, <1>6, <1>7 DEF Inv

\* What a transaction that has inserted commits: a receipt where there was none.
LEMMA CommitRecords ==
    ASSUME Inv, NEW c \in Call, Commit(c), job[c].record
    PROVE  LET j == job[c] IN
           /\ j \in Job /\ j.request \in Request /\ j.request.effect \in Effect
           /\ j.policy \in Policy /\ j.answer # "uncertain"
           /\ receipts[j.stage][j.request.effect] = None
           /\ receipts'[j.stage][j.request.effect] = Recorded(j)
           /\ Recorded(j) \in Receipt /\ Recorded(j) # None
           /\ \A s \in Stage : \A e \in Effect :
                  s # j.stage \/ e # j.request.effect => receipts'[s][e] = receipts[s][e]
           /\ receipts' \in [Stage -> [Effect -> Receipt \cup {None}]]
  <1> DEFINE j == job[c]
  <1>1. /\ j \in Job /\ j.policy \in Policy /\ j.answer # "uncertain"
        /\ j.stage \in Stage /\ Inserted(c, j.stage)
    BY DEF Inv, JobsRun, Commit, DecisionsAreAuthorized, Deciding, Inserted, Job
  <1>2. /\ j.request \in Request /\ j.request.effect \in Effect
        /\ j.grant.revision \in Nat
        /\ j.answer \in {"eligible", "released", "withheld"}
    BY <1>1 DEF Job, Request, Grant, NoGrant
  <1>3. ~Collides(j.request, j.stage, receipts[j.stage][j.request.effect])
    BY <1>1, <1>2 DEF Inv, InsertsAreUnique
  <1>4. receipts[j.stage][j.request.effect] = None
    BY <1>1, <1>2, <1>3 DEF Collides, Inv, ReceiptsAreUnique
  <1>5. Recorded(j) \in Receipt /\ Recorded(j) # None
    BY <1>1, <1>2, ChannelAssumption DEF Recorded, Receipt
  <1>6. receipts' = [receipts EXCEPT ![j.stage][j.request.effect] = Recorded(j)]
    BY DEF Commit
  <1> HIDE DEF j
  <1>7. /\ receipts'[j.stage][j.request.effect] = Recorded(j)
        /\ \A s \in Stage : \A e \in Effect :
               s # j.stage \/ e # j.request.effect => receipts'[s][e] = receipts[s][e]
        /\ receipts' \in [Stage -> [Effect -> Receipt \cup {None}]]
    BY <1>1, <1>2, <1>5, <1>6 DEF Inv, TypeOK
  <1> QED
    BY <1>1, <1>2, <1>4, <1>5, <1>7 DEF j

LEMMA CommitInv ==
    ASSUME Inv, NEW c \in Call, Commit(c)
    PROVE  Inv'
  <1> DEFINE j == job[c]
  <1>1. /\ pc' \in [Call -> Awaits] /\ pc[c] = "commit" /\ pc'[c] = "answer"
        /\ \A d \in Call \ {c} : pc'[d] = pc[d]
        /\ UNCHANGED <<grant, policy, permits, job>>
        /\ j \in Job
    BY DEF Inv, TypeOK, Commit, Goto, Awaits, JobsRun
  <1>2. receipts' \in [Stage -> [Effect -> Receipt \cup {None}]]
    BY CommitRecords DEF Commit, Inv, TypeOK
  \* Receipts stay.
  <1>3. \A s \in Stage : \A e \in Effect :
           receipts[s][e] # None => receipts'[s][e] = receipts[s][e]
    BY CommitRecords DEF Commit
  <1>4. TypeOK' /\ JobsRun' /\ GrantIsPinned'
    BY <1>1, <1>2 DEF Inv, TypeOK, JobsRun, GrantIsPinned, HoldsGrant
  <1>5. EvaluationIsPinned'
    <2>1. ASSUME NEW d \in Call, job[d].evaluation # None,
                 pc'[d] \in {"release", "insert", "commit", "answer"}
          PROVE  /\ receipts'["evaluate"][job[d].request.effect] = job[d].evaluation
                 /\ job[d].evaluation.request = job[d].request
      <3>1. pc[d] \in {"release", "insert", "commit", "answer"} /\ job[d] \in Job
        BY <1>1, <2>1 DEF Inv, JobsRun
      <3>2. job[d].request.effect \in Effect
        BY <3>1 DEF Job, Request
      <3> QED
        BY <1>3, <2>1, <3>1, <3>2 DEF Inv, EvaluationIsPinned, Stage
    <2> QED
      BY <1>1, <2>1 DEF EvaluationIsPinned
  <1>6. InsertsAreUnique'
    <2>1. ASSUME NEW d \in Call, NEW s \in Stage, Inserted(d, s)',
                 NEW f \in Effect
          PROVE  ~Collides(job[d].request, s, receipts'[s][f])
      <3>1. d # c /\ Inserted(d, s)
        BY <1>1, <2>1 DEF Inserted
      <3>2. CASE receipts'[s][f] = receipts[s][f]
        BY <3>1, <3>2 DEF Inv, InsertsAreUnique
      <3>3. CASE receipts'[s][f] # receipts[s][f]
        <4>1. /\ j.record /\ s = j.stage /\ f = j.request.effect
              /\ receipts'[s][f].request = j.request
          BY ZenonT(40), <3>3, CommitRecords DEF Commit, Recorded
        <4>2. Inserted(c, s)
          BY <1>1, <4>1 DEF Inserted
        <4> QED
          BY SMTT(60), <3>1, <4>1, <4>2 DEF Inv, InsertsAreUnique, Collides
      <3> QED
        BY <3>2, <3>3
    <2> QED
      BY <1>1, <2>1 DEF Inv, InsertsAreUnique, Inserted
  <1>7. ReceiptsAreUnique'
    <2>1. CASE j.record
      <3>1. \A f \in Effect : receipts[j.stage][f] # None =>
               receipts[j.stage][f].request.action # j.request.action
        <4>1. Inserted(c, j.stage) /\ j.stage \in Stage
          BY <1>1, <2>1 DEF Inserted, Job
        <4> QED
          BY <4>1 DEF Inv, InsertsAreUnique, Collides
      <3>2. /\ Recorded(j).request = j.request
            /\ Recorded(j).revision <= grant.revision
        BY <1>1 DEF Recorded, Inv, JobsRun
      <3> HIDE DEF j
      <3> QED
        BY SMTT(30), <1>1, <2>1, <3>1, <3>2, CommitRecords DEF Inv, ReceiptsAreUnique, j
    <2>2. CASE ~j.record
      BY <1>1, <2>2 DEF Inv, ReceiptsAreUnique, Commit
    <2> QED
      BY <2>1, <2>2
  <1>8. DecisionsAreAuthorized'
    <2>1. ASSUME NEW d \in Call, pc'[d] \in Deciding, job[d].answer = "uncertain"
          PROVE  receipts'["release"][job[d].request.effect]
                    = receipts["release"][job[d].request.effect]
      <3>1. pc[d] \in Deciding /\ job[d] \in Job
        BY <1>1, <2>1 DEF Deciding, Inv, JobsRun
      <3>2. job[d].request.effect \in Effect
        BY <3>1 DEF Job, Request
      <3> QED
        BY <1>3, <2>1, <3>1, <3>2 DEF Inv, DecisionsAreAuthorized, Stage
    <2> QED
      BY <1>1, <2>1
      DEF Inv, DecisionsAreAuthorized, Deciding, Authorized, SameAuthority, Permitting
  <1>9. EvaluationsAreTrue'
    <2>1. CASE j.record /\ j.stage = "evaluate"
      <3>1. /\ Authorized(j) <=> j.answer = "eligible"
            /\ Recorded(j).request = j.request /\ Recorded(j).policy = j.policy
            /\ Recorded(j).revision = j.grant.revision
            /\ Recorded(j).disposition = j.answer
        BY <1>1, <2>1 DEF Inv, DecisionsAreAuthorized, Deciding, Recorded
      <3>2. j.grant.revision = grant.revision => j.grant = grant
        <4>1. CASE j.grant = NoGrant
          BY <4>1 DEF Inv, TypeOK, Grant, NoGrant
        <4>2. CASE j.grant # NoGrant
          BY SMTT(60), <1>1, <4>2 DEF Inv, GrantIsPinned, HoldsGrant
        <4> QED
          BY <4>1, <4>2
      <3> HIDE DEF j
      <3> QED
        BY <1>1, <2>1, <3>1, <3>2, CommitRecords
        DEF Inv, EvaluationsAreTrue, Authorized, Stage, j
    <2>2. CASE ~(j.record /\ j.stage = "evaluate")
      BY ZenonT(40), <1>1, <2>2, CommitRecords DEF Inv, EvaluationsAreTrue, Commit, Stage
    <2> QED
      BY <2>1, <2>2
  <1>10. \A e \in Effect : Released(e) => Released(e)'
    BY <1>3 DEF Released, Stage
  <1>11. PermitIsOne'
    <2>1. CASE j.answer = "released"
      <3>1. j.record /\ j.stage = "release"
        BY <1>1, <2>1 DEF Inv, DecisionsAreAuthorized, Deciding, Permitting, Job, Stage
      <3>2. /\ receipts["release"][j.request.effect] = None
            /\ Released(j.request.effect)' /\ j.request.effect \in Effect
        <4>1. Recorded(j).disposition = "released"
          BY <2>1 DEF Recorded
        <4> HIDE DEF j
        <4> QED
          BY <1>1, <3>1, <4>1, CommitRecords DEF Released, j
      <3>3. permits[j.request.effect] = 0
        BY <3>2 DEF Inv, PermitIsOne, Released, TypeOK
      <3>4. \A d \in Call \ {c} : pc[d] = "answer" /\ job[d].answer = "released" =>
               job[d].request.effect # j.request.effect
        BY <3>2 DEF Inv, PermitIsOne, Released
      <3>5. \A d \in Call \ {c} : pc[d] = "answer" => job[d].request.effect \in Effect
        BY DEF Inv, JobsRun, Job, Request
      <3> QED
        BY <1>1, <1>10, <3>2, <3>3, <3>4, <3>5 DEF Inv, PermitIsOne
    <2>2. CASE j.answer # "released"
      <3>1. \A d \in Call \ {c} : pc[d] = "answer" => job[d].request.effect \in Effect
        BY DEF Inv, JobsRun, Job, Request
      <3> QED
        BY <1>1, <1>10, <2>2, <3>1 DEF Inv, PermitIsOne
    <2> QED
      BY <2>1, <2>2
  <1>12. AnswersAreRecorded'
    <2>1. ASSUME NEW d \in Call \ {c}, pc[d] = "answer",
                 job[d].answer \in {"eligible", "released", "uncertain"}
          PROVE  receipts'[job[d].stage][job[d].request.effect]
                    = receipts[job[d].stage][job[d].request.effect]
      <3>1. job[d].stage \in Stage /\ job[d].request.effect \in Effect
        BY <2>1 DEF Inv, JobsRun, Job, Request
      <3> QED
        BY SMTT(60), <1>3, <2>1, <3>1 DEF Inv, AnswersAreRecorded
    <2>2. CASE j.record
      <3>1. /\ Recorded(j).request = j.request /\ Recorded(j).disposition = j.answer
        BY DEF Recorded
      <3>2. /\ receipts'[j.stage][j.request.effect] = Recorded(j)
            /\ j.answer # "uncertain"
              /\ Recorded(j) # None
        BY <1>1, <2>2, CommitRecords
      <3>3. job'[c] = j
        BY <1>1
      <3> HIDE DEF j
      <3>4. ASSUME NEW d \in Call, pc'[d] = "answer",
                   job'[d].answer \in {"eligible", "released", "uncertain"}
            PROVE  LET k == job'[d]
                       r == receipts'[k.stage][k.request.effect]
                   IN  /\ r # None /\ r.request = k.request
                       /\ k.answer \in {"eligible", "released"} => r.disposition = k.answer
                       /\ k.answer = "uncertain" => r.disposition = "released"
        <4>1. CASE d = c
          BY <3>1, <3>2, <3>3, <4>1
        <4>2. CASE d # c
          <5>1. pc[d] = "answer" /\ job'[d] = job[d]
            BY <1>1, <3>4, <4>2
          <5>2. receipts'[job[d].stage][job[d].request.effect]
                   = receipts[job[d].stage][job[d].request.effect]
            BY <2>1, <3>4, <4>2, <5>1
          <5> QED
            BY <3>4, <5>1, <5>2 DEF Inv, AnswersAreRecorded
        <4> QED
          BY <4>1, <4>2
      <3> QED
        BY <3>4 DEF AnswersAreRecorded
    <2>3. CASE ~j.record
      <3>1. /\ j.answer # "released"
            /\ j.answer = "eligible" =>
                  /\ j.stage = "evaluate" /\ j.evaluation # None
                  /\ Authorized(j) /\ SameAuthority(j)
            /\ j.answer = "uncertain" =>
                  /\ j.stage = "release"
                  /\ receipts["release"][j.request.effect] # None
                  /\ receipts["release"][j.request.effect].request = j.request
                  /\ receipts["release"][j.request.effect].disposition = "released"
        BY <1>1, <2>3
        DEF Inv, DecisionsAreAuthorized, Deciding, Permitting, Job, Stage
      <3>2. j.answer = "eligible" =>
               /\ receipts["evaluate"][j.request.effect] = j.evaluation
               /\ j.evaluation.request = j.request
               /\ j.evaluation.disposition = "eligible"
        <4> HAVE j.answer = "eligible"
        <4>1. /\ receipts["evaluate"][j.request.effect] = j.evaluation
              /\ j.evaluation.request = j.request
          BY <1>1, <3>1 DEF Inv, EvaluationIsPinned
        <4>2. j.grant = grant
          BY <1>1, <3>1 DEF Inv, GrantIsPinned, HoldsGrant, Authorized, NoGrant
        <4>3. j.request.effect \in Effect
          BY <1>1 DEF Job, Request
        <4> QED
          BY <3>1, <4>1, <4>2, <4>3
          DEF Inv, EvaluationsAreTrue, Authorized, SameAuthority
      <3>3. UNCHANGED receipts
        BY <2>3 DEF Commit
      <3> HIDE DEF j
      <3> QED
        BY ZenonT(40), <1>1, <3>1, <3>2, <3>3 DEF Inv, AnswersAreRecorded, j
    <2> QED
      BY <2>2, <2>3
  <1> QED
    BY <1>4, <1>5, <1>6, <1>7, <1>8, <1>9, <1>11, <1>12 DEF Inv

-----------------------------------------------------------------------------

LEMMA AskInv ==
    ASSUME Inv, NEW c \in Call, Ask(c)
    PROVE  Inv'
  <1> PICK p \in Process, s \in Stage, q \in Request :
          job' = [job EXCEPT ![c] =
              [process |-> p, stage |-> s, request |-> q, grant |-> NoGrant,
               policy |-> None, evaluation |-> None,
               record |-> FALSE, answer |-> "withheld"]]
    BY DEF Ask
  <1> DEFINE j == [process |-> p, stage |-> s, request |-> q, grant |-> NoGrant,
                   policy |-> None, evaluation |-> None,
                   record |-> FALSE, answer |-> "withheld"]
  <1>1. j \in Job /\ j.grant.revision <= grant.revision
    BY DEF Inv, TypeOK, Job, Grant, NoGrant
  <1>2. job' = [job EXCEPT ![c] = j] /\ Goto(c, "grant") /\ Unchanged
    BY DEF Ask
  <1> HIDE DEF j
  <1>3. job'[c] = j /\ job' = [job EXCEPT ![c] = job'[c]]
    BY <1>2 DEF Inv, TypeOK
  <1> QED
    BY <1>1, <1>2, <1>3, WaitInv

LEMMA LockGrantInv ==
    ASSUME Inv, NEW c \in Call, LockGrant(c)
    PROVE  Inv'
  <1> DEFINE j == [job[c] EXCEPT !.grant = grant, !.policy = policy[job[c].process]]
  <1>1. job[c] \in Job /\ Goto(c, "evaluation") /\ Unchanged
    BY DEF Inv, JobsRun, LockGrant
  <1>2. policy[job[c].process] \in Policy /\ grant \in Grant /\ grant.revision \in Nat
    BY <1>1 DEF Inv, TypeOK, Job, Grant, NoGrant
  <1>3. j \in Job /\ j.grant = grant /\ j.policy \in Policy
    BY <1>1, <1>2 DEF Job
  <1>4. job' = [job EXCEPT ![c] = j]
    BY DEF Inv, TypeOK, LockGrant
  <1> HIDE DEF j
  <1>5. job'[c] = j /\ job' = [job EXCEPT ![c] = job'[c]]
    BY <1>4 DEF Inv, TypeOK
  <1> QED
    BY <1>1, <1>2, <1>3, <1>5, WaitInv

LEMMA LockEvaluationInv ==
    ASSUME Inv, NEW c \in Call, LockEvaluation(c)
    PROVE  Inv'
  <1> DEFINE found == receipts["evaluate"][job[c].request.effect]
             j == [job[c] EXCEPT !.evaluation = found]
  <1>1. pc[c] = "evaluation" /\ job[c] \in Job /\ Unchanged
    BY DEF Inv, JobsRun, LockEvaluation
  <1>2. found \in Receipt \cup {None}
    BY <1>1 DEF Inv, TypeOK, Job, Request, Stage
  <1>3. /\ j \in Job /\ j.stage = job[c].stage /\ j.request = job[c].request
        /\ j.grant = job[c].grant /\ j.policy = job[c].policy
        /\ j.evaluation = found
    BY <1>1, <1>2 DEF Job
  <1>4. CASE found # None /\ found.request # j.request
    BY <1>1, <1>4, AbortInv DEF LockEvaluation
  <1>5. CASE ~(found # None /\ found.request # j.request) /\ j.stage = "evaluate"
    <2>1. Decide(c, j, None)
      BY <1>5 DEF LockEvaluation
    <2> HIDE DEF j
    <2> QED
      BY <1>1, <1>3, <1>5, <2>1, DecideInv
  <1>6. CASE ~(found # None /\ found.request # j.request) /\ j.stage # "evaluate"
    <2>1. job' = [job EXCEPT ![c] = j] /\ Goto(c, "release")
      BY <1>6 DEF LockEvaluation
    <2> HIDE DEF j
    <2>2. job'[c] = j /\ job' = [job EXCEPT ![c] = job'[c]]
      BY <2>1 DEF Inv, TypeOK
    <2>3. /\ j.grant.revision <= grant.revision /\ j.policy \in Policy
          /\ j.grant # NoGrant => j.grant = grant
          /\ j.stage = "release"
      BY <1>1, <1>3, <1>6 DEF Inv, JobsRun, GrantIsPinned, HoldsGrant, Job, Stage
    <2> QED
      BY ZenonT(60), <1>1, <1>3, <1>6, <2>1, <2>2, <2>3, WaitInv
  <1> QED
    BY <1>4, <1>5, <1>6

LEMMA LockReleaseInv ==
    ASSUME Inv, NEW c \in Call, LockRelease(c)
    PROVE  Inv'
  <1> DEFINE found == receipts["release"][job[c].request.effect]
             j == job[c]
  <1>1. pc[c] = "release" /\ j \in Job /\ Unchanged /\ j.stage = "release"
    BY DEF Inv, JobsRun, LockRelease
  <1>2. found \in Receipt \cup {None}
    BY <1>1 DEF Inv, TypeOK, Job, Request, Stage
  <1>3. CASE found # None /\ found.request # j.request
    BY <1>1, <1>3, AbortInv DEF LockRelease
  <1>4. CASE ~(found # None /\ found.request # j.request)
    <2>1. Decide(c, j, found)
      BY <1>4 DEF LockRelease
    <2>2. j.evaluation # None =>
             /\ j.evaluation.request = j.request
             /\ receipts["evaluate"][j.request.effect] = j.evaluation
      BY <1>1 DEF Inv, EvaluationIsPinned
    <2> QED
      BY <1>1, <1>2, <1>4, <2>1, <2>2, DecideInv
  <1> QED
    BY <1>3, <1>4

LEMMA InsertInv ==
    ASSUME Inv, NEW c \in Call, Insert(c)
    PROVE  Inv'
  <1>1. CASE \E f \in Effect : Collides(job[c].request, job[c].stage,
                                        receipts[job[c].stage][f])
    BY <1>1, AbortInv DEF Insert
  <1>2. CASE ~\E f \in Effect : Collides(job[c].request, job[c].stage,
                                         receipts[job[c].stage][f])
    BY <1>2, InsertedInv DEF Insert
  <1> QED
    BY <1>1, <1>2

\* A caller is told.
LEMMA AnswerInv ==
    ASSUME Inv, NEW c \in Call, Answer(c)
    PROVE  Inv'
  <1>1. /\ pc' \in [Call -> Awaits] /\ job' \in [Call -> Job \cup {None}]
        /\ pc[c] = "answer" /\ pc'[c] = "idle"
        /\ \A d \in Call \ {c} : pc'[d] = pc[d] /\ job'[d] = job[d]
        /\ UNCHANGED <<grant, receipts, policy>>
        /\ job[c].request.effect \in Effect
    BY DEF Inv, TypeOK, Answer, Abort, Goto, Awaits, JobsRun, Job, Request
  <1>2. /\ permits' \in [Effect -> Nat]
        /\ \A e \in Effect :
              permits'[e] = IF job[c].answer = "released" /\ e = job[c].request.effect
                            THEN permits[e] + 1 ELSE permits[e]
    BY <1>1 DEF Inv, TypeOK, Answer
  <1>3. TypeOK' /\ JobsRun' /\ GrantIsPinned' /\ EvaluationIsPinned'
    BY <1>1, <1>2
    DEF Inv, TypeOK, JobsRun, GrantIsPinned, HoldsGrant, EvaluationIsPinned
  <1>4. InsertsAreUnique' /\ ReceiptsAreUnique' /\ EvaluationsAreTrue'
    BY <1>1
    DEF Inv, InsertsAreUnique, Inserted, Collides, ReceiptsAreUnique,
        EvaluationsAreTrue
  <1>5. DecisionsAreAuthorized'
    BY <1>1
    DEF Inv, DecisionsAreAuthorized, Deciding, Authorized, SameAuthority, Permitting
  <1>6. AnswersAreRecorded'
    BY <1>1 DEF Inv, AnswersAreRecorded
  <1>7. PermitIsOne'
    <2>1. \A e \in Effect : Released(e)' <=> Released(e)
      BY <1>1 DEF Released
    <2>2. \A d \in Call : pc[d] = "answer" => job[d].request.effect \in Effect
      BY DEF Inv, JobsRun, Job, Request
    <2>3. job[c].answer = "released" =>
             /\ Released(job[c].request.effect)
             /\ permits[job[c].request.effect] = 0
             /\ \A d \in Call \ {c} :
                    pc[d] = "answer" /\ job[d].answer = "released" =>
                        job[d].request.effect # job[c].request.effect
      BY <1>1 DEF Inv, PermitIsOne
    <2>4. \A e \in Effect : /\ permits'[e] > 0 => Released(e)'
                            /\ permits'[e] <= 1
      BY <1>2, <2>1, <2>3 DEF Inv, PermitIsOne, TypeOK
    <2>5. ASSUME NEW d \in Call, pc'[d] = "answer", job'[d].answer = "released"
          PROVE  /\ Released(job[d].request.effect)'
                 /\ permits'[job[d].request.effect] = 0
                 /\ d # c /\ job'[d] = job[d]
                 /\ \A b \in Call \ {d} :
                        pc'[b] = "answer" /\ job'[b].answer = "released" =>
                            job'[b].request.effect # job'[d].request.effect
      BY <1>1, <1>2, <2>1, <2>2, <2>3, <2>5 DEF Inv, PermitIsOne
    <2> QED
      BY <2>4, <2>5 DEF PermitIsOne
  <1> QED
    BY <1>3, <1>4, <1>5, <1>6, <1>7 DEF Inv

\* The grant changes: no call has read it and runs on.
LEMMA ChangeInv ==
    ASSUME Inv, NEW new, ChangeGrant(new), new.scope \in Scope,
           new.active \in BOOLEAN,
           DOMAIN new = DOMAIN NoGrant, new = [i \in DOMAIN new |-> new[i]]
    PROVE  Inv'
  <1>1. /\ grant' \in Grant /\ grant'.revision = grant.revision + 1
        /\ grant.revision \in Nat
        /\ UNCHANGED <<receipts, policy, pc, job, permits>>
    BY DEF Inv, TypeOK, ChangeGrant, Grant, NoGrant, callVars
  <1>2. \A c \in Call : ~HoldsGrant(c)
    BY DEF ChangeGrant
  <1>3. TypeOK' /\ EvaluationIsPinned' /\ AnswersAreRecorded'
    BY <1>1 DEF Inv, TypeOK, EvaluationIsPinned, AnswersAreRecorded
  <1>4. JobsRun'
    <2>1. \A c \in Call : pc[c] # "idle" => job[c].grant.revision \in Nat
      BY DEF Inv, JobsRun, Job, Grant, NoGrant
    <2> QED
      BY <1>1, <2>1 DEF Inv, JobsRun
  <1>5. GrantIsPinned'
    BY <1>1, <1>2 DEF GrantIsPinned, HoldsGrant
  <1>6. InsertsAreUnique' /\ PermitIsOne' /\ DecisionsAreAuthorized'
    BY SMTT(30), <1>1
    DEF Inv, InsertsAreUnique, Inserted, Collides, PermitIsOne, Released,
        DecisionsAreAuthorized, Deciding, Authorized, SameAuthority, Permitting
  <1>7. ReceiptsAreUnique' /\ EvaluationsAreTrue'
    <2>1. \A s \in Stage : \A e \in Effect :
             receipts[s][e] # None => receipts[s][e].revision \in Nat
      BY DEF Inv, TypeOK, Receipt
    <2> QED
      BY SMTT(60), <1>1, <2>1 DEF Inv, ReceiptsAreUnique, EvaluationsAreTrue, Stage
  <1> QED
    BY <1>3, <1>4, <1>5, <1>6, <1>7 DEF Inv

LEMMA ReloadInv ==
    ASSUME Inv, NEW p \in Process, Reload(p)
    PROVE  Inv'
  <1>1. policy' \in [Process -> Policy] /\ UNCHANGED <<grant, receipts, pc, job, permits>>
    BY DEF Inv, TypeOK, Reload, callVars
  <1>2. TypeOK' /\ JobsRun' /\ GrantIsPinned' /\ EvaluationIsPinned'
    BY <1>1
    DEF Inv, TypeOK, JobsRun, GrantIsPinned, HoldsGrant, EvaluationIsPinned
  <1>3. InsertsAreUnique' /\ ReceiptsAreUnique' /\ EvaluationsAreTrue'
    BY <1>1
    DEF Inv, InsertsAreUnique, Inserted, Collides, ReceiptsAreUnique,
        EvaluationsAreTrue
  <1>4. DecisionsAreAuthorized'
    BY <1>1
    DEF Inv, DecisionsAreAuthorized, Deciding, Authorized, SameAuthority, Permitting
  <1>5. PermitIsOne' /\ AnswersAreRecorded'
    <2>1. PermitIsOne'
      BY <1>1 DEF Inv, PermitIsOne, Released
    <2>2. AnswersAreRecorded'
      BY <1>1 DEF Inv, AnswersAreRecorded
    <2> QED
      BY <2>1, <2>2
  <1> QED
    BY <1>2, <1>3, <1>4, <1>5 DEF Inv

LEMMA StutterInv == Inv /\ UNCHANGED vars => Inv'
  <1> SUFFICES ASSUME Inv, UNCHANGED vars PROVE Inv'
    OBVIOUS
  <1>1. UNCHANGED <<grant, receipts, policy, permits, pc, job>>
    BY DEF vars, callVars
  <1>2. TypeOK' /\ JobsRun' /\ GrantIsPinned' /\ EvaluationIsPinned'
    BY <1>1 DEF Inv, TypeOK, JobsRun, GrantIsPinned, HoldsGrant, EvaluationIsPinned
  <1>3. InsertsAreUnique' /\ ReceiptsAreUnique' /\ EvaluationsAreTrue'
    BY <1>1
    DEF Inv, InsertsAreUnique, Inserted, Collides, ReceiptsAreUnique,
        EvaluationsAreTrue
  <1>4. DecisionsAreAuthorized'
    BY <1>1
    DEF Inv, DecisionsAreAuthorized, Deciding, Authorized, SameAuthority, Permitting
  <1>5. PermitIsOne'
    BY <1>1 DEF Inv, PermitIsOne, Released
  <1>6. AnswersAreRecorded'
    BY <1>1 DEF Inv, AnswersAreRecorded
  <1> QED
    BY <1>2, <1>3, <1>4, <1>5, <1>6 DEF Inv

LEMMA StepInv == Inv /\ [Next]_vars => Inv'
  <1> SUFFICES ASSUME Inv, [Next]_vars PROVE Inv'
    OBVIOUS
  <1>1. ASSUME NEW c \in Call, Ask(c) PROVE Inv'
    BY <1>1, AskInv
  <1>2. ASSUME NEW c \in Call, Step(c) PROVE Inv'
    BY <1>2, LockGrantInv, LockEvaluationInv, LockReleaseInv, InsertInv,
       CommitInv, AnswerInv DEF Step
  <1>3. ASSUME NEW c \in Call, Drop(c) PROVE Inv'
    BY <1>3, AbortInv DEF Drop
  <1>4. CASE PutGrant
    <2> PICK s \in Scope : ChangeGrant([revision |-> 0, active |-> TRUE, scope |-> s])
      BY <1>4 DEF PutGrant
    <2> DEFINE new == [revision |-> 0, active |-> TRUE, scope |-> s]
    <2>1. /\ ChangeGrant(new) /\ new.scope \in Scope /\ new.active \in BOOLEAN
          /\ DOMAIN new = DOMAIN NoGrant /\ new = [i \in DOMAIN new |-> new[i]]
      BY DEF NoGrant
    <2> HIDE DEF new
    <2> QED
      BY <2>1, ChangeInv
  <1>5. CASE RevokeGrant
    <2> DEFINE new == [grant EXCEPT !.active = FALSE]
    <2>1. /\ ChangeGrant(new) /\ new.scope \in Scope /\ new.active \in BOOLEAN
          /\ DOMAIN new = DOMAIN NoGrant /\ new = [i \in DOMAIN new |-> new[i]]
      BY <1>5 DEF RevokeGrant, Inv, TypeOK, Grant, NoGrant
    <2> HIDE DEF new
    <2> QED
      BY <2>1, ChangeInv
  <1>6. ASSUME NEW p \in Process, Reload(p) PROVE Inv'
    BY <1>6, ReloadInv
  <1>7. CASE UNCHANGED vars
    BY <1>7, StutterInv
  <1> QED
    BY <1>1, <1>2, <1>3, <1>4, <1>5, <1>6, <1>7 DEF Next

LEMMA InvHolds == Spec => []Inv
  BY InitInv, StepInv, PTL DEF Spec

-----------------------------------------------------------------------------

\* The state of ChannelAuthority has the types its declaration gives it.
THEOREM TypeCorrect == Spec => []TypeOK
  <1>1. Inv => TypeOK
    BY DEF Inv
  <1> QED
    BY <1>1, InvHolds, PTL

\* What channel.rs answers is what the receipts say.
THEOREM AnswersTellReceipts == Spec => []AnswersAreRecorded
  <1>1. Inv => AnswersAreRecorded
    BY DEF Inv
  <1> QED
    BY <1>1, InvHolds, PTL

\* Whatever effect_ids a caller makes up, an action of a trusted context is
\* released under one of them.
THEOREM OncePerAction == Spec => []ReleasedOncePerAction
  <1>1. Inv => ReleasedOncePerAction
    BY DEF Inv, ReleasedOncePerAction, ReceiptsAreUnique, Released, Stage
  <1> QED
    BY <1>1, InvHolds, PTL

-----------------------------------------------------------------------------

\* Only a commit records, and only an answer delivers.
LEMMA OnlyCommitRecords ==
    ASSUME Inv, [Next]_vars, ~\E c \in Call : Commit(c)
    PROVE  UNCHANGED receipts
  BY DEF Next, vars, callVars, Ask, Step, Drop, LockGrant, LockEvaluation,
         LockRelease, Insert, Answer, PutGrant, RevokeGrant, ChangeGrant,
         Reload, Unchanged

LEMMA OnlyAnswerDelivers ==
    ASSUME Inv, [Next]_vars, ~\E c \in Call : Answer(c)
    PROVE  UNCHANGED permits
  BY DEF Next, vars, callVars, Ask, Step, Drop, LockGrant, LockEvaluation,
         LockRelease, Insert, Commit, PutGrant, RevokeGrant, ChangeGrant,
         Reload, Unchanged

\* What a transaction that releases goes by.
LEMMA ReleaseIsAuthorized ==
    ASSUME Inv, NEW c \in Call, Commit(c), job[c].answer = "released"
    PROVE  LET j == job[c]
               ev == receipts["evaluate"][j.request.effect]
           IN  /\ j.record /\ j.stage = "release" /\ j.request.effect \in Effect
               /\ grant.active /\ grant.scope = j.request.scope
               /\ ev # None /\ ev.request = j.request
               /\ ev.disposition = "eligible" /\ ev.revision = grant.revision
               /\ ev.policy = j.policy /\ j.policy \notin Denying
  <1> DEFINE j == job[c]
  <1>1. pc[c] = "commit" /\ j \in Job
    BY DEF Commit, Inv, JobsRun
  <1>2. /\ Authorized(j) /\ SameAuthority(j) /\ j.answer = Permitting(j.stage)
        /\ j.record /\ j.evaluation # None /\ j.evaluation.disposition = "eligible"
    BY <1>1 DEF Inv, DecisionsAreAuthorized, Deciding
  <1>3. j.stage = "release" /\ j.request.effect \in Effect
    BY <1>1, <1>2 DEF Permitting, Job, Stage, Request
  <1>4. /\ receipts["evaluate"][j.request.effect] = j.evaluation
        /\ j.evaluation.request = j.request
    BY <1>1, <1>2 DEF Inv, EvaluationIsPinned
  <1>5. grant = j.grant
    BY <1>1, <1>2 DEF Inv, GrantIsPinned, HoldsGrant, Authorized, NoGrant
  <1> QED
    BY <1>2, <1>3, <1>4, <1>5 DEF Authorized, SameAuthority

\* FOR SHARE keeps the grant of a release as it was evaluated until the receipt
\* is committed, whoever revokes or changes it.
THEOREM ReleasesAreGranted == Spec => ReleasedUnderGrant
  <1> DEFINE Granted ==
        \A e \in Effect :
          ~Released(e) /\ Released(e)' =>
              LET r == receipts'["release"][e]
                  ev == receipts["evaluate"][e]
              IN  /\ grant.active /\ grant.scope = r.request.scope
                  /\ ev # None /\ ev.request = r.request
                  /\ ev.disposition = "eligible"
                  /\ ev.revision = grant.revision
                  /\ ev.policy = r.policy /\ r.policy \notin Denying
  <1>1. ASSUME Inv, [Next]_vars PROVE Granted
    <2> SUFFICES ASSUME NEW e \in Effect, ~Released(e), Released(e)'
                 PROVE  LET r == receipts'["release"][e]
                            ev == receipts["evaluate"][e]
                        IN  /\ grant.active /\ grant.scope = r.request.scope
                            /\ ev # None /\ ev.request = r.request
                            /\ ev.disposition = "eligible"
                            /\ ev.revision = grant.revision
                            /\ ev.policy = r.policy /\ r.policy \notin Denying
      OBVIOUS
    <2>1. PICK c \in Call : Commit(c)
      BY <1>1, OnlyCommitRecords DEF Released
    <2> DEFINE j == job[c]
    <2>2. j.record /\ j.stage = "release" /\ e = j.request.effect
      <3>1. CASE j.record
        BY <1>1, <2>1, <3>1, CommitRecords DEF Released, Stage
      <3>2. CASE ~j.record
        BY <2>1, <3>2 DEF Commit, Released
      <3> QED
        BY <3>1, <3>2
    <2>3. receipts'["release"][e] = Recorded(j)
      BY <1>1, <2>1, <2>2, CommitRecords
    <2>4. j.answer = "released"
      BY <2>3 DEF Released, Recorded
    <2>5. Recorded(j).request = j.request /\ Recorded(j).policy = j.policy
      BY DEF Recorded
    <2>6. /\ grant.active /\ grant.scope = j.request.scope
          /\ receipts["evaluate"][e] # None
          /\ receipts["evaluate"][e].request = j.request
          /\ receipts["evaluate"][e].disposition = "eligible"
          /\ receipts["evaluate"][e].revision = grant.revision
          /\ receipts["evaluate"][e].policy = j.policy /\ j.policy \notin Denying
      BY <1>1, <2>1, <2>2, <2>4, ReleaseIsAuthorized
    <2> QED
      BY <2>3, <2>5, <2>6
  <1>2. ASSUME Inv, [Next]_vars PROVE [Granted]_vars
    BY <1>1, <1>2
  <1> QED
    BY <1>2, InvHolds, PTL DEF ReleasedUnderGrant, Spec

\* ChannelAuthority implements OneShotPermit: retries, races and lost answers
\* release an effect once, and hand its permit to one caller at most.
THEOREM OnePermit == Spec => ReleasedOnce
  <1>1. Init => Register!Init
    BY DEF Init, Register!Init, Releasing, Stage
  <1>2. ASSUME Inv, [Next]_vars PROVE [Register!Next]_Releasing
    <2> DEFINE State(e, rs, ps) ==
          IF rs["release"][e] = None THEN "open"
          ELSE IF rs["release"][e].disposition # "released" THEN "spent"
          ELSE IF ps[e] = 0 THEN "permitted"
          ELSE IF ps[e] = 1 THEN "delivered" ELSE "delivered again"
    <2>1. /\ Releasing = [e \in Effect |-> State(e, receipts, permits)]
          /\ Releasing' = [e \in Effect |-> State(e, receipts', permits')]
      BY DEF Releasing
    <2>2. ASSUME NEW e \in Effect, NEW to,
                 State(e, receipts', permits') = to,
                 \A f \in Effect \ {e} :
                     State(f, receipts', permits') = State(f, receipts, permits)
          PROVE  Releasing' = [Releasing EXCEPT ![e] = to]
      BY <2>1, <2>2
    <2>3. CASE UNCHANGED <<receipts, permits>>
      BY <2>1, <2>3
    <2>4. ASSUME NEW c \in Call, Commit(c) PROVE [Register!Next]_Releasing
      <3> DEFINE j == job[c]
                 e == j.request.effect
      <3>1. permits' = permits
        BY <2>4 DEF Commit
      <3>2. CASE j.record /\ j.stage = "release"
        <4>1. /\ receipts["release"][e] = None /\ e \in Effect
              /\ receipts'["release"][e] = Recorded(j) /\ Recorded(j) # None
              /\ \A f \in Effect \ {e} : receipts'["release"][f] = receipts["release"][f]
          BY <1>2, <2>4, <3>2, CommitRecords DEF Stage
        <4>2. permits[e] = 0 /\ Recorded(j).disposition = j.answer
          BY <1>2, <4>1 DEF Inv, PermitIsOne, Released, TypeOK, Recorded
        <4>3. Releasing[e] = "open"
          BY <2>1, <4>1
        <4> HIDE DEF e, j
        <4>4. CASE j.answer = "released"
          <5>1. Releasing' = [Releasing EXCEPT ![e] = "permitted"]
            <6>1. State(e, receipts', permits') = "permitted"
              BY <3>1, <4>1, <4>2, <4>4
            <6>2. \A f \in Effect \ {e} :
                     State(f, receipts', permits') = State(f, receipts, permits)
              BY <3>1, <4>1
            <6> HIDE DEF State
            <6> QED
              BY <2>2, <4>1, <6>1, <6>2
          <5> QED
            BY <4>1, <4>3, <5>1 DEF Register!Next, Register!Permit, Register!Move
        <4>5. CASE j.answer # "released"
          <5>1. Releasing' = [Releasing EXCEPT ![e] = "spent"]
            <6>1. State(e, receipts', permits') = "spent"
              BY <4>1, <4>2, <4>5
            <6>2. \A f \in Effect \ {e} :
                     State(f, receipts', permits') = State(f, receipts, permits)
              BY <3>1, <4>1
            <6> HIDE DEF State
            <6> QED
              BY <2>2, <4>1, <6>1, <6>2
          <5> QED
            BY <4>1, <4>3, <5>1 DEF Register!Next, Register!Spend, Register!Move
        <4> QED
          BY <4>4, <4>5
      <3>3. CASE ~(j.record /\ j.stage = "release")
        <4>1. \A f \in Effect : receipts'["release"][f] = receipts["release"][f]
          BY <1>2, <2>4, <3>3, CommitRecords DEF Commit, Stage
        <4> QED
          BY <2>1, <3>1, <4>1
      <3> QED
        BY <3>2, <3>3
    <2>5. ASSUME NEW c \in Call, Answer(c) PROVE [Register!Next]_Releasing
      <3> DEFINE e == job[c].request.effect
      <3>1. receipts' = receipts /\ pc[c] = "answer"
        BY <2>5 DEF Answer
      <3>2. CASE job[c].answer = "released"
        <4>1. Released(e) /\ permits[e] = 0 /\ e \in Effect
          BY <1>2, <3>1, <3>2 DEF Inv, PermitIsOne, JobsRun, Job, Request
        <4>2. /\ permits'[e] = 1
              /\ \A f \in Effect \ {e} : permits'[f] = permits[f]
          BY <1>2, <2>5, <3>2, <4>1 DEF Answer, Inv, TypeOK
        <4>3. Releasing[e] = "permitted"
          BY <2>1, <4>1 DEF Released
        <4> HIDE DEF e
        <4>4. Releasing' = [Releasing EXCEPT ![e] = "delivered"]
          <5>1. State(e, receipts', permits') = "delivered"
            BY <3>1, <4>1, <4>2 DEF Released
          <5>2. \A f \in Effect \ {e} :
                   State(f, receipts', permits') = State(f, receipts, permits)
            BY <3>1, <4>2
          <5> HIDE DEF State
          <5> QED
            BY <2>2, <4>1, <5>1, <5>2
        <4> QED
          BY <4>1, <4>3, <4>4 DEF Register!Next, Register!Deliver, Register!Move
      <3>3. CASE job[c].answer # "released"
        BY <2>3, <2>5, <3>1, <3>3 DEF Answer
      <3> QED
        BY <3>2, <3>3
    <2> QED
      BY <1>2, <2>3, <2>4, <2>5, OnlyCommitRecords, OnlyAnswerDelivers
  <1>3. Spec => Register!Init /\ [][Register!Next]_Releasing
    BY <1>1, <1>2, InvHolds, PTL DEF Spec
  <1> QED
    BY <1>3 DEF ReleasedOnce, Register!Spec

-----------------------------------------------------------------------------
(* The request pipeline.                                                   *)

\* A route is a finite list of hooks.
LEMMA RouteHooks ==
    ASSUME Pipeline!TypeOK
    PROVE  /\ x5 \in Pipeline!Route
           /\ Len(x5.hooks) \in 0 .. MaxHooks
           /\ DOMAIN x5.hooks = 1 .. Len(x5.hooks)
           /\ \A i \in DOMAIN x5.hooks : x5.hooks[i] \in Hook
  <1>1. x5 \in Pipeline!Route
    BY DEF Pipeline!TypeOK
  <1>2. PICK m \in 0 .. MaxHooks : x5.hooks \in [1 .. m -> Hook]
    BY <1>1 DEF Pipeline!Route, Pipeline!BoundedSeq, Pipeline!SeqOf
  <1>3. m \in Nat /\ x5.hooks \in Seq(Hook)
    BY <1>2, PipelineAssumption
  <1>4. Len(x5.hooks) = m
    BY <1>2, <1>3
  <1> QED
    BY <1>1, <1>2, <1>4

\* An answer changes nothing but where the request is.
LEMMA AnswerKeeps ==
    ASSUME Pipeline!PipelineInv, Pipeline!Answer
    PROVE  Pipeline!PipelineInv'
  BY DEF Pipeline!Answer, Pipeline!environment, Pipeline!decision, Pipeline!PipelineInv,
     Pipeline!TypeOK, Pipeline!PassedInOrder, Pipeline!ChecksSupported,
     Pipeline!SentAfterHooks, Pipeline!LetThrough, Pipeline!WithinDeadline,
     Pipeline!SentInTime, Pipeline!PinnedIsPair, Pipeline!JudgedByItsRoute,
     Pipeline!BarredIsStopped, Pipeline!Supported, Pipeline!Protected, Pipeline!HasHook,
        Pipeline!NothingJudged

\* What a step leaves alone of the request, and what it may not leave alone.
SameRequest == UNCHANGED <<x4, x5, x6, x7, x8, x9, x10, x12, x13, x14>>

\* Configurations are published between the awaits of the request.
LEMMA SwapKeeps ==
    ASSUME Pipeline!PipelineInv, Pipeline!SwapRoutes \/ Pipeline!SwapPolicies
    PROVE  Pipeline!PipelineInv'
  <1>1. SameRequest /\ UNCHANGED <<x1, x3, x11>>
    BY DEF Pipeline!SwapRoutes, Pipeline!SwapPolicies, Pipeline!decision, SameRequest
  <1>2. x2' \in [routes : 0 .. MaxRev, policies : 0 .. MaxRev]
    BY PipelineAssumption
    DEF Pipeline!PipelineInv, Pipeline!TypeOK, Pipeline!SwapRoutes, Pipeline!SwapPolicies
  <1> QED
    BY <1>1, <1>2
    DEF SameRequest, Pipeline!PipelineInv,
        Pipeline!TypeOK, Pipeline!PassedInOrder, Pipeline!ChecksSupported,
        Pipeline!SentAfterHooks, Pipeline!LetThrough, Pipeline!WithinDeadline,
        Pipeline!SentInTime, Pipeline!PinnedIsPair, Pipeline!JudgedByItsRoute,
        Pipeline!BarredIsStopped, Pipeline!Supported, Pipeline!Protected, Pipeline!HasHook,
        Pipeline!NothingJudged

\* The identity is issued, which ends an earlier bar, or revoked.
LEMMA IdentityKeeps ==
    ASSUME Pipeline!PipelineInv, Pipeline!Issue \/ Pipeline!Revoke
    PROVE  Pipeline!PipelineInv'
  <1>1. SameRequest /\ UNCHANGED <<x1, x2>>
    BY DEF Pipeline!Issue, Pipeline!Revoke, Pipeline!decision, SameRequest
  <1>2. /\ x3' \in {"unknown", "active", "revoked"} /\ x11' \in BOOLEAN
        /\ ~ x11'
    <2>1. CASE Pipeline!Issue
      BY <2>1 DEF Pipeline!Issue
    <2>2. CASE Pipeline!Revoke
      <3>1. x3 = "active" /\ x3' = "revoked" /\ UNCHANGED x11
        BY <2>2 DEF Pipeline!Revoke
      <3> QED
        BY <3>1 DEF Pipeline!PipelineInv, Pipeline!TypeOK, Pipeline!BarredIsStopped
    <2> QED
      BY <2>1, <2>2
  <1>3. Pipeline!BarredIsStopped'
    BY <1>1, <1>2 DEF SameRequest, Pipeline!PipelineInv, Pipeline!BarredIsStopped
  <1> QED
    BY <1>1, <1>2, <1>3
    DEF SameRequest, Pipeline!PipelineInv,
        Pipeline!TypeOK, Pipeline!PassedInOrder, Pipeline!ChecksSupported,
        Pipeline!SentAfterHooks, Pipeline!LetThrough, Pipeline!WithinDeadline,
        Pipeline!SentInTime, Pipeline!PinnedIsPair, Pipeline!JudgedByItsRoute,
        Pipeline!Supported, Pipeline!Protected, Pipeline!HasHook, Pipeline!NothingJudged

\* Time passes while a request is waited for, up to the deadline of what is timed.
LEMMA TickKeeps ==
    ASSUME Pipeline!PipelineInv, Pipeline!Tick
    PROVE  Pipeline!PipelineInv'
  <1>1. SameRequest /\ UNCHANGED <<x2, x3, x11>> /\ x1' = x1 + 1
    BY DEF Pipeline!Tick, Pipeline!decision, SameRequest
  <1>2. x1 \in Nat /\ x1' \in 0 .. MaxTime
    BY PipelineAssumption DEF Pipeline!PipelineInv, Pipeline!TypeOK, Pipeline!Tick
  <1>3. Pipeline!PassedInOrder'
    <2>1. ASSUME NEW i \in 1 .. x8 - 1, x4 \in {"hooks", "send"} PROVE x9[i] <= x1 + 1
      <3>1. x9[i] <= x1
        BY <2>1 DEF Pipeline!PipelineInv, Pipeline!PassedInOrder
      <3>2. i \in 1 .. MaxHooks
        BY <2>1, RouteHooks, PipelineAssumption
        DEF Pipeline!PipelineInv, Pipeline!TypeOK
      <3>3. x9[i] \in Nat
        BY <3>2, PipelineAssumption
        DEF Pipeline!PipelineInv, Pipeline!TypeOK, Pipeline!Never
      <3> QED
        BY <1>2, <3>1, <3>3
    <2> QED
      BY <1>1, <2>1 DEF SameRequest, Pipeline!PipelineInv, Pipeline!PassedInOrder
  <1>4. Pipeline!WithinDeadline'
    <2>1. Pipeline!Protected' <=> Pipeline!Protected
      BY <1>1 DEF SameRequest, Pipeline!Protected, Pipeline!HasHook
    <2>2. ~ (Pipeline!Timed /\ Pipeline!Late) /\ x4 # "send"
      BY DEF Pipeline!Tick
    <2> QED
      BY <1>1, <1>2, <2>1, <2>2, PipelineAssumption
      DEF SameRequest, Pipeline!WithinDeadline, Pipeline!Timed, Pipeline!Late
  <1> QED
    BY <1>1, <1>2, <1>3, <1>4
    DEF SameRequest, Pipeline!PipelineInv, Pipeline!TypeOK, Pipeline!ChecksSupported,
        Pipeline!SentAfterHooks, Pipeline!LetThrough,
        Pipeline!SentInTime, Pipeline!PinnedIsPair, Pipeline!JudgedByItsRoute,
        Pipeline!BarredIsStopped, Pipeline!Supported, Pipeline!Protected, Pipeline!HasHook,
        Pipeline!NothingJudged

\* The route and the policies are taken as one configuration.
LEMMA MatchKeeps ==
    ASSUME Pipeline!PipelineInv, Pipeline!Match
    PROVE  Pipeline!PipelineInv'
  <1>1. /\ x4 = "match" /\ x4' = "auth" /\ x6' = x2 /\ x2.routes = x2.policies
        /\ UNCHANGED <<x1, x2, x3, x5, x7, x8, x9, x10, x11, x12, x13, x14>>
    BY DEF Pipeline!Match, Pipeline!Pin, Pipeline!Publishing, Pipeline!environment
  <1>2. x10 = {}
    BY <1>1 DEF Pipeline!PipelineInv, Pipeline!NothingJudged
  <1> QED
    BY <1>1, <1>2
    DEF Pipeline!PipelineInv,
        Pipeline!TypeOK, Pipeline!PassedInOrder, Pipeline!ChecksSupported,
        Pipeline!SentAfterHooks, Pipeline!LetThrough, Pipeline!WithinDeadline,
        Pipeline!SentInTime, Pipeline!PinnedIsPair, Pipeline!JudgedByItsRoute,
        Pipeline!BarredIsStopped, Pipeline!Supported, Pipeline!Protected, Pipeline!HasHook,
        Pipeline!NothingJudged

\* Who is authenticated has passed no hook.
LEMMA AuthenticateKeeps ==
    ASSUME Pipeline!PipelineInv, Pipeline!Authenticate \/ Pipeline!CheckAuthenticate
    PROVE  Pipeline!PipelineInv'
  <1>1. /\ \/ x4 = "auth" /\ x4' = "body"
           \/ x4 = "checkAuth" /\ x4' = "checkMint"
        /\ UNCHANGED <<x1, x2, x3, x5, x6, x8, x9, x10, x11, x12, x13, x14>>
        /\ x7' \in Pipeline!Callers(x5.auth)
    BY DEF Pipeline!Authenticate, Pipeline!CheckAuthenticate, Pipeline!environment
  <1>2. x7' \in {"anonymous", "user", "agent", "service", "relayed"}
    <2>1. x5.auth \in {"none", "kratos", "mcp", "api"}
      BY PipelineAssumption DEF Pipeline!PipelineInv, Pipeline!TypeOK, Pipeline!Route
    <2> QED
      BY <1>1, <2>1 DEF Pipeline!Callers
  <1>3. Pipeline!BarredIsStopped'
    <2>1. ASSUME NEW i \in DOMAIN x5.hooks, i < x8, x5.hooks[i] = "authorize"
          PROVE  FALSE
      <3>1. CASE x4 = "auth"
        BY <2>1, <3>1, RouteHooks DEF Pipeline!PipelineInv, Pipeline!PassedInOrder
      <3>2. CASE x4 = "checkAuth"
        BY <2>1, <3>2, RouteHooks
        DEF Pipeline!PipelineInv, Pipeline!ChecksSupported, Pipeline!Supported,
            Pipeline!HasHook
      <3> QED
        BY <1>1, <3>1, <3>2
    <2> QED
      BY <1>1, <2>1 DEF Pipeline!PipelineInv, Pipeline!BarredIsStopped
  <1> QED
    BY <1>1, <1>2, <1>3
    DEF Pipeline!PipelineInv,
        Pipeline!TypeOK, Pipeline!PassedInOrder, Pipeline!ChecksSupported,
        Pipeline!SentAfterHooks, Pipeline!LetThrough, Pipeline!WithinDeadline,
        Pipeline!SentInTime, Pipeline!PinnedIsPair, Pipeline!JudgedByItsRoute,
        Pipeline!Supported, Pipeline!Protected, Pipeline!HasHook, Pipeline!NothingJudged

\* The body is read, and what it names is looked up before the first hook.
LEMMA ReadKeeps ==
    ASSUME Pipeline!PipelineInv, Pipeline!ReadBody \/ Pipeline!Lookups \/ Pipeline!CheckMatch
    PROVE  Pipeline!PipelineInv'
  <1>1. UNCHANGED <<x1, x2, x3, x5, x6, x7, x8, x9, x10, x11, x12, x13, x14>>
    BY DEF Pipeline!ReadBody, Pipeline!Lookups, Pipeline!CheckMatch, Pipeline!environment,
       Pipeline!decision
  <1>2. \/ x4 = "body" /\ x4' = "lookups"
        \/ x4 = "checkMatch" /\ x4' = "checkAuth" /\ Pipeline!Supported
        \/ x4' = "answered"
        \/ x4 = "lookups" /\ x4' = "send" /\ Len(x5.hooks) = 0
        \/ x4 = "lookups" /\ x4' = "hooks" /\ Len(x5.hooks) # 0
    BY DEF Pipeline!ReadBody, Pipeline!Lookups, Pipeline!CheckMatch, Pipeline!After
  <1>3. Pipeline!PassedInOrder' /\ Pipeline!ChecksSupported' /\ Pipeline!SentAfterHooks'
    BY <1>1, <1>2, RouteHooks, PipelineAssumption
    DEF Pipeline!PipelineInv, Pipeline!PassedInOrder, Pipeline!ChecksSupported,
        Pipeline!SentAfterHooks, Pipeline!LetThrough, Pipeline!Supported, Pipeline!HasHook
  <1> QED
    BY <1>1, <1>2, <1>3
    DEF Pipeline!PipelineInv, Pipeline!TypeOK, Pipeline!LetThrough, Pipeline!WithinDeadline,
        Pipeline!SentInTime, Pipeline!PinnedIsPair, Pipeline!JudgedByItsRoute,
        Pipeline!BarredIsStopped, Pipeline!Protected, Pipeline!HasHook,
        Pipeline!NothingJudged

\* A hook lets the request pass: it was there in time, and an authorize hook has seen
\* that the caller is not barred.
LEMMA PassKeeps ==
    ASSUME Pipeline!PipelineInv, x4 = "hooks", Pipeline!Pass,
           x5.hooks[x8] = "authorize" => ~ (Pipeline!NonHuman(x7) /\ x3 = "revoked"),
           x10' \in {x10, x10 \cup {x6.policies}},
           x12' \in {"own", "none", "grant", "minted"}
    PROVE  Pipeline!PipelineInv'
  <1>1. /\ UNCHANGED <<x1, x2, x3, x5, x6, x7, x11, x13, x14>>
        /\ x8' = x8 + 1
        /\ x9' = [x9 EXCEPT ![x8] = x1]
        /\ x4' \in {"send", "hooks", "answered"}
        /\ x4' = "send" => x8 = Len(x5.hooks)
        /\ x4' = "hooks" => x8 # Len(x5.hooks)
    BY DEF Pipeline!Pass, Pipeline!After, Pipeline!environment
  <1>2. /\ x8 \in 1 .. Len(x5.hooks) /\ Len(x5.hooks) \in 0 .. MaxHooks
        /\ x5.hooks[x8] \in Hook /\ DOMAIN x5.hooks = 1 .. Len(x5.hooks)
    BY RouteHooks DEF Pipeline!PipelineInv, Pipeline!PassedInOrder, Pipeline!TypeOK
  <1>3. /\ x9' \in [1 .. MaxHooks -> 0 .. Pipeline!Never]
        /\ x9'[x8] = x1 /\ \A i \in 1 .. MaxHooks \ {x8} : x9'[i] = x9[i]
    <2>1. /\ x9 \in [1 .. MaxHooks -> 0 .. Pipeline!Never] /\ x8 \in 1 .. MaxHooks
          /\ x1 \in 0 .. Pipeline!Never
      BY SMTT(30), <1>2, PipelineAssumption DEF Pipeline!PipelineInv, Pipeline!TypeOK, Pipeline!Never
    <2> QED
      BY <1>1, <2>1
  <1>4. x14 = Pipeline!Never
    BY DEF Pipeline!PipelineInv, Pipeline!SentAfterHooks, Pipeline!LetThrough
  <1>5. Pipeline!TypeOK'
    <2>1. x6.policies \in 0 .. MaxRev
      BY DEF Pipeline!PipelineInv, Pipeline!TypeOK
    <2> QED
      BY <1>1, <1>2, <1>3, <2>1, PipelineAssumption DEF Pipeline!PipelineInv, Pipeline!TypeOK
  <1>6. Pipeline!PassedInOrder'
    <2>1. ASSUME NEW i \in 1 .. x8 PROVE x9'[i] <= x1
      <3>1. CASE i = x8
        BY <1>3, <3>1, PipelineAssumption DEF Pipeline!PipelineInv, Pipeline!TypeOK
      <3>2. CASE i # x8
        <4>1. i \in 1 .. x8 - 1 /\ i \in 1 .. MaxHooks \ {x8}
          BY <1>2, <3>2, PipelineAssumption
        <4>2. x9[i] <= x1
          BY <4>1 DEF Pipeline!PipelineInv, Pipeline!PassedInOrder
        <4> QED
          BY <1>3, <4>1, <4>2
      <3> QED
        BY <3>1, <3>2
    <2>2. x8' - 1 = x8
      BY <1>1, <1>2
    <2> QED
      BY <1>1, <1>2, <2>1, <2>2 DEF Pipeline!PassedInOrder
  <1>7. Pipeline!BarredIsStopped'
    <2>1. x11' => x3' = "revoked"
      BY <1>1 DEF Pipeline!PipelineInv, Pipeline!BarredIsStopped
    <2>2. ASSUME NEW i \in DOMAIN x5.hooks, i < x8 + 1, x5.hooks[i] = "authorize",
                 Pipeline!NonHuman(x7)
          PROVE  ~ x11
      <3>1. CASE i = x8
        BY <2>2, <3>1 DEF Pipeline!PipelineInv, Pipeline!BarredIsStopped
      <3>2. CASE i < x8
        BY <2>2, <3>2 DEF Pipeline!PipelineInv, Pipeline!BarredIsStopped
      <3> QED
        BY <1>2, <2>2, <3>1, <3>2
    <2> QED
      BY <1>1, <2>1, <2>2 DEF Pipeline!BarredIsStopped
  <1>8. Pipeline!JudgedByItsRoute'
    BY <1>1 DEF Pipeline!PipelineInv, Pipeline!PinnedIsPair, Pipeline!JudgedByItsRoute
  <1> QED
    BY <1>1, <1>4, <1>5, <1>6, <1>7, <1>8
    DEF Pipeline!PipelineInv, Pipeline!ChecksSupported, Pipeline!SentAfterHooks,
        Pipeline!LetThrough, Pipeline!WithinDeadline, Pipeline!SentInTime,
        Pipeline!PinnedIsPair, Pipeline!Protected, Pipeline!HasHook, Pipeline!NothingJudged

\* The hooks that let a request pass, each with what it changes besides.
LEMMA HookKeeps ==
    ASSUME Pipeline!PipelineInv,
           \/ Pipeline!Clinical \/ Pipeline!Grant \/ Pipeline!Mint \/ Pipeline!Claims
           \/ Pipeline!BodyTransform \/ Pipeline!BudgetLeft \/ Pipeline!Allow("authorize")
           \/ Pipeline!Shadow \/ Pipeline!GuardAllows
    PROVE  Pipeline!PipelineInv'
  <1>1. x4 = "hooks" /\ Pipeline!Pass
    BY DEF Pipeline!Clinical, Pipeline!Grant, Pipeline!Mint, Pipeline!Claims,
       Pipeline!BodyTransform, Pipeline!BudgetLeft, Pipeline!Allow, Pipeline!Shadow,
       Pipeline!GuardAllows, Pipeline!Runs
  <1>2. x12 \in {"own", "none", "grant", "minted"}
    BY DEF Pipeline!PipelineInv, Pipeline!TypeOK
  <1>3. /\ x12' \in {"own", "none", "grant", "minted"}
        /\ x10' \in {x10, x10 \cup {x6.policies}}
    BY <1>2
    DEF Pipeline!Clinical, Pipeline!Grant, Pipeline!Mint, Pipeline!Claims,
       Pipeline!BodyTransform, Pipeline!BudgetLeft, Pipeline!Allow, Pipeline!Shadow,
       Pipeline!GuardAllows
  <1>4. x5.hooks[x8] = "authorize" => ~ (Pipeline!NonHuman(x7) /\ x3 = "revoked")
    <2>1. CASE Pipeline!Allow("authorize")
      BY <2>1 DEF Pipeline!Allow, Pipeline!SeenRevoked
    <2>2. CASE ~ Pipeline!Allow("authorize")
      BY <2>2
      DEF Pipeline!Clinical, Pipeline!Grant, Pipeline!Mint, Pipeline!Claims,
          Pipeline!BodyTransform, Pipeline!BudgetLeft, Pipeline!Shadow,
          Pipeline!GuardAllows, Pipeline!Runs
    <2> QED
      BY <2>1, <2>2
  <1> QED
    BY <1>1, <1>3, <1>4, PassKeeps

\* What goes upstream goes after the last hook, and within the deadline.
LEMMA SendKeeps ==
    ASSUME Pipeline!PipelineInv, Pipeline!Send
    PROVE  Pipeline!PipelineInv'
  <1>1. /\ x4 = "send" /\ x4' = "head" /\ x14' = x1
        /\ UNCHANGED <<x1, x2, x3, x5, x6, x7, x8, x9, x10, x11, x13>>
        /\ x12' = Pipeline!Outbound
    BY DEF Pipeline!Send, Pipeline!environment
  <1>2. /\ x8 = Len(x5.hooks) + 1 /\ DOMAIN x5.hooks = 1 .. Len(x5.hooks)
        /\ Len(x5.hooks) \in Nat
        /\ \A i \in 1 .. x8 - 1 : x9[i] <= x1
    BY <1>1, RouteHooks, PipelineAssumption DEF Pipeline!PipelineInv, Pipeline!PassedInOrder
  <1>3. /\ x12' \in {"own", "none", "grant", "minted"}
        /\ x14' \in 0 .. Pipeline!Never
    BY <1>1, PipelineAssumption
    DEF Pipeline!PipelineInv, Pipeline!TypeOK, Pipeline!Outbound, Pipeline!Never
  <1>4. \A i \in DOMAIN x5.hooks : x9[i] <= x1
    BY <1>2
  <1> QED
    BY <1>1, <1>2, <1>3, <1>4
    DEF Pipeline!PipelineInv,
        Pipeline!TypeOK, Pipeline!PassedInOrder, Pipeline!ChecksSupported,
        Pipeline!SentAfterHooks, Pipeline!LetThrough, Pipeline!WithinDeadline,
        Pipeline!SentInTime, Pipeline!PinnedIsPair, Pipeline!JudgedByItsRoute,
        Pipeline!BarredIsStopped, Pipeline!Supported, Pipeline!Protected, Pipeline!HasHook,
        Pipeline!NothingJudged

\* The check endpoint lets through what has no hook that could refuse it.
LEMMA CheckMintKeeps ==
    ASSUME Pipeline!PipelineInv, Pipeline!CheckMint
    PROVE  Pipeline!PipelineInv'
  <1>1. /\ x4 = "checkMint" /\ x4' = "allowed" /\ x14' = x1 /\ x12' = "minted"
        /\ UNCHANGED <<x1, x2, x3, x5, x6, x7, x8, x9, x10, x11, x13>>
    BY DEF Pipeline!CheckMint, Pipeline!environment
  <1>2. Pipeline!Supported /\ ~ Pipeline!Protected
    <2>1. Pipeline!Supported
      BY <1>1 DEF Pipeline!PipelineInv, Pipeline!ChecksSupported
    <2>2. \A i \in DOMAIN x5.hooks : x5.hooks[i] = "mint"
      BY <2>1, RouteHooks DEF Pipeline!PipelineInv, Pipeline!Supported, Pipeline!HasHook
    <2> QED
      BY <2>1, <2>2 DEF Pipeline!Protected, Pipeline!HasHook
  <1>3. x14' \in 0 .. Pipeline!Never
    BY <1>1, PipelineAssumption DEF Pipeline!PipelineInv, Pipeline!TypeOK, Pipeline!Never
  <1> QED
    BY <1>1, <1>2, <1>3
    DEF Pipeline!PipelineInv,
        Pipeline!TypeOK, Pipeline!PassedInOrder, Pipeline!ChecksSupported,
        Pipeline!SentAfterHooks, Pipeline!LetThrough, Pipeline!WithinDeadline,
        Pipeline!SentInTime, Pipeline!PinnedIsPair, Pipeline!JudgedByItsRoute,
        Pipeline!BarredIsStopped, Pipeline!Supported, Pipeline!Protected, Pipeline!HasHook,
        Pipeline!NothingJudged

\* The head of the answer changes nothing that was decided.
LEMMA RespondKeeps ==
    ASSUME Pipeline!PipelineInv, Pipeline!Respond
    PROVE  Pipeline!PipelineInv'
  <1>1. /\ x4 = "head" /\ x4' = "answered"
        /\ UNCHANGED <<x1, x2, x3, x5, x6, x7, x8, x9, x10, x11, x12, x14>>
        /\ x13' \in {"closed", "open", "ungoverned"}
    BY DEF Pipeline!Respond, Pipeline!environment, Pipeline!ToolsOf
  <1> QED
    BY <1>1
    DEF Pipeline!PipelineInv,
        Pipeline!TypeOK, Pipeline!PassedInOrder, Pipeline!ChecksSupported,
        Pipeline!SentAfterHooks, Pipeline!LetThrough, Pipeline!WithinDeadline,
        Pipeline!SentInTime, Pipeline!PinnedIsPair, Pipeline!JudgedByItsRoute,
        Pipeline!BarredIsStopped, Pipeline!Supported, Pipeline!Protected, Pipeline!HasHook,
        Pipeline!NothingJudged

\* The invariant behind what the pipeline promises is inductive.
LEMMA PipelineNext == Pipeline!PipelineInv /\ Pipeline!Next => Pipeline!PipelineInv'
  <1> SUFFICES ASSUME Pipeline!PipelineInv, Pipeline!Next PROVE Pipeline!PipelineInv'
    OBVIOUS
  <1>1. CASE Pipeline!SwapRoutes \/ Pipeline!SwapPolicies
    BY <1>1, SwapKeeps
  <1>2. CASE Pipeline!Issue \/ Pipeline!Revoke
    BY <1>2, IdentityKeeps
  <1>3. CASE Pipeline!Tick \/ Pipeline!Match
    BY <1>3, TickKeeps, MatchKeeps
  <1>4. CASE \/ Pipeline!NoRoute \/ Pipeline!Expire \/ Pipeline!Unauthenticated
             \/ Pipeline!BodyTooLarge \/ Pipeline!Refuse \/ Pipeline!NoUpstream
             \/ Pipeline!UpstreamFails \/ Pipeline!CheckFails
    BY <1>4, AnswerKeeps
    DEF Pipeline!NoRoute, Pipeline!Expire, Pipeline!Unauthenticated,
        Pipeline!BodyTooLarge, Pipeline!Refuse, Pipeline!NoUpstream,
        Pipeline!UpstreamFails, Pipeline!CheckFails
  <1>5. CASE Pipeline!Authenticate \/ Pipeline!CheckAuthenticate
    BY <1>5, AuthenticateKeeps
  <1>6. CASE Pipeline!ReadBody \/ Pipeline!Lookups \/ Pipeline!CheckMatch
    BY <1>6, ReadKeeps
  <1>7. CASE \/ Pipeline!Clinical \/ Pipeline!Grant \/ Pipeline!Mint \/ Pipeline!Claims
             \/ Pipeline!BodyTransform \/ Pipeline!BudgetLeft \/ Pipeline!Allow("authorize")
             \/ Pipeline!Shadow \/ Pipeline!GuardAllows
    BY <1>7, HookKeeps
  <1>8. CASE Pipeline!Send \/ Pipeline!Respond \/ Pipeline!CheckMint
    BY <1>8, SendKeeps, RespondKeeps, CheckMintKeeps
  <1> QED
    BY <1>1, <1>2, <1>3, <1>4, <1>5, <1>6, <1>7, <1>8 DEF Pipeline!Next

\* At first a request has arrived, and nothing has judged it.
LEMMA PipelineInit == Pipeline!Init => Pipeline!PipelineInv
  <1> SUFFICES ASSUME Pipeline!Init PROVE Pipeline!PipelineInv
    OBVIOUS
  <1>1. Pipeline!TypeOK
    BY PipelineAssumption DEF Pipeline!Init, Pipeline!TypeOK, Pipeline!Never
  <1>2. /\ x1 = 0 /\ x4 \in {"match", "checkMatch"} /\ x8 = 1 /\ x10 = {}
        /\ x14 = Pipeline!Never /\ x2 = [routes |-> 0, policies |-> 0] /\ x6 = x2
        /\ x11 = (x3 = "revoked")
    BY DEF Pipeline!Init
  <1>3. \A i \in DOMAIN x5.hooks : ~ i < x8
    BY <1>1, <1>2, RouteHooks, PipelineAssumption
  <1>4. Pipeline!PassedInOrder /\ Pipeline!ChecksSupported /\ Pipeline!SentAfterHooks
    BY <1>2
    DEF Pipeline!PassedInOrder, Pipeline!ChecksSupported, Pipeline!SentAfterHooks,
        Pipeline!LetThrough
  <1>5. Pipeline!WithinDeadline /\ Pipeline!SentInTime
    BY <1>2, PipelineAssumption
    DEF Pipeline!WithinDeadline, Pipeline!SentInTime, Pipeline!LetThrough
  <1>6. Pipeline!PinnedIsPair /\ Pipeline!NothingJudged /\ Pipeline!JudgedByItsRoute
    BY <1>2 DEF Pipeline!PinnedIsPair, Pipeline!NothingJudged, Pipeline!JudgedByItsRoute
  <1>7. Pipeline!BarredIsStopped
    BY <1>2, <1>3 DEF Pipeline!BarredIsStopped
  <1> QED
    BY <1>1, <1>4, <1>5, <1>6, <1>7 DEF Pipeline!PipelineInv

\* The steps of the other models leave the pipeline alone.
LEMMA PipelineStays == Pipeline!PipelineInv /\ UNCHANGED others => Pipeline!PipelineInv'
  BY DEF others, past5, Pipeline!PipelineInv,
     Pipeline!TypeOK, Pipeline!PassedInOrder, Pipeline!ChecksSupported,
     Pipeline!SentAfterHooks, Pipeline!LetThrough, Pipeline!WithinDeadline,
     Pipeline!SentInTime, Pipeline!PinnedIsPair, Pipeline!JudgedByItsRoute,
     Pipeline!BarredIsStopped, Pipeline!Supported, Pipeline!Protected, Pipeline!HasHook,
     Pipeline!NothingJudged

PipelineHolds == part = "pipeline" => Pipeline!PipelineInv

\* What is let through may pass.
LEMMA PipelineMeans ==
    ASSUME Pipeline!PipelineInv
    PROVE  Pipeline!LetThroughIsAllowed
  <1>1. Pipeline!Mediated
    <2> SUFFICES ASSUME Pipeline!LetThrough, NEW i \in DOMAIN x5.hooks,
                        x5.hooks[i] \in Pipeline!Enforces
                 PROVE  x9[i] <= x14
      BY DEF Pipeline!Mediated
    <2>1. ~ Pipeline!Supported
      BY RouteHooks
      DEF Pipeline!PipelineInv, Pipeline!Supported, Pipeline!HasHook, Pipeline!Enforces
    <2> QED
      BY <2>1 DEF Pipeline!PipelineInv, Pipeline!SentAfterHooks
  <1>2. Pipeline!RevokedIsDenied
    <2> SUFFICES ASSUME Pipeline!LetThrough, NEW i \in DOMAIN x5.hooks,
                        x5.hooks[i] = "authorize", Pipeline!NonHuman(x7)
                 PROVE  ~ x11
      BY DEF Pipeline!RevokedIsDenied, Pipeline!HasHook
    <2>1. ~ Pipeline!Supported
      BY RouteHooks DEF Pipeline!PipelineInv, Pipeline!Supported, Pipeline!HasHook
    <2>2. i < x8
      BY <2>1, RouteHooks, PipelineAssumption
      DEF Pipeline!PipelineInv, Pipeline!SentAfterHooks
    <2> QED
      BY <2>2 DEF Pipeline!PipelineInv, Pipeline!BarredIsStopped
  <1> QED
    BY <1>1, <1>2 DEF Pipeline!LetThroughIsAllowed, Pipeline!PipelineInv

LEMMA PipelineInvariant == MCSpec => []PipelineHolds
  <1>1. MCInit => PipelineHolds
    BY PipelineInit DEF MCInit, PipelineHolds
  <1>2. PipelineHolds /\ [MCNext]_<<part, vars, others>> => PipelineHolds'
    BY PipelineNext, PipelineStays DEF MCNext, PipelineHolds
  <1> QED
    BY <1>1, <1>2, PTL DEF MCSpec

\* Whatever the route lists, whoever comes, and whatever is republished or revoked while
\* the request waits: the pipeline and the check endpoint let it through only when every
\* hook that can refuse it has let it pass, by the policies published with its route, and
\* only if its identity was not revoked when it came.
THEOREM RequestsPassHooks == MCSpec => []LetThroughIsAllowed
  <1>1. PipelineHolds => LetThroughIsAllowed
    BY PipelineMeans DEF PipelineHolds, LetThroughIsAllowed
  <1> QED
    BY <1>1, PipelineInvariant, PTL

\* Nothing is sent upstream on a protected route after the deadline of its decision.
THEOREM RequestsAreInTime == MCSpec => []SentInTime
  <1>1. PipelineHolds => SentInTime
    BY DEF PipelineHolds, SentInTime, Pipeline!PipelineInv
  <1> QED
    BY <1>1, PipelineInvariant, PTL

-----------------------------------------------------------------------------
(* Budgets.                                                                *)

\* What the counters hold.
LEMMA ValueType ==
    ASSUME Limits!CountersRun, NEW c \in Limits!Counter
    PROVE  /\ Limits!Value(c) \in Nat
           /\ x2[c].value \in Nat /\ x2[c].until \in Nat
  BY DEF Limits!CountersRun, Limits!Value

\* A charge adds what it says, and moves no expiry but that of an empty window.
LEMMA IncrementedBy ==
    ASSUME Limits!CountersRun, NEW c \in Limits!Counter, NEW n \in Nat
    PROVE  /\ Limits!Incremented(c, n) \in [value : Nat, until : Nat]
           /\ Limits!Incremented(c, n).value = Limits!Value(c) + n
           /\ Limits!Value(c) # 0 => Limits!Incremented(c, n).until = x2[c].until
  <1>1. Limits!Value(c) \in Nat /\ x2[c].until \in Nat /\ x1 \in Nat /\ Length \in Nat
    BY ValueType, LimitsAssumption DEF Limits!CountersRun
  <1> QED
    BY <1>1 DEF Limits!Incremented

\* Fewer in flight reserve less, and one fewer a whole request less.
LEMMA InFlightFinite ==
    ASSUME NEW w
    PROVE  /\ IsFiniteSet(Limits!InFlight(w)) /\ Limits!InFlight(w) \subseteq Caller
           /\ Cardinality(Limits!InFlight(w)) \in Nat
  <1>1. Limits!InFlight(w) \subseteq Caller
    BY DEF Limits!InFlight
  <1> QED
    BY <1>1, LimitsAssumption, FS_Subset, FS_CardinalityType

LEMMA Product ==
    ASSUME NEW m \in Nat, NEW n \in Nat, NEW k \in Nat, n <= k
    PROVE  n * m <= k * m /\ n * m \in Nat /\ (n + 1) * m = n * m + m
  OBVIOUS

LEMMA LimitsCardinality == \A S : Limits!Cardinality(S) = Cardinality(S)
  BY DEF Limits!Cardinality, Cardinality

\* At most one for each caller reserves at most that.
LEMMA ReservesAtMost ==
    ASSUME NEW S \in SUBSET Caller, NEW r \in Caller, r \notin S
    PROVE  Cardinality(S) * MaxCost + MaxCost <= Cardinality(Caller) * MaxCost
  <1>1. IsFiniteSet(S) /\ Cardinality(S) \in Nat /\ Cardinality(Caller) \in Nat
    BY LimitsAssumption, FS_Subset, FS_CardinalityType
  <1>2. Cardinality(S \cup {r}) = Cardinality(S) + 1
    BY <1>1, FS_AddElement
  <1>3. Cardinality(S \cup {r}) <= Cardinality(Caller)
    BY LimitsAssumption, FS_Subset
  <1> QED
    BY <1>1, <1>2, <1>3, Product, LimitsAssumption

\* What a step does to a window: nothing is added, a request passes its check, or one
\* that had passed it charges it.
Frees(w) ==
    Limits!Value(w)' <= Limits!Value(w) /\ Limits!InFlight(w)' \subseteq Limits!InFlight(w)

Admits(w) ==
    /\ Limits!Value(w) < Limit /\ Limits!Value(w)' = Limits!Value(w)

Charges(w) ==
    \E r \in Limits!InFlight(w) :
        /\ Limits!Value(w)' <= Limits!Value(w) + MaxCost
        /\ Limits!InFlight(w)' \subseteq Limits!InFlight(w) \ {r}

\* Whatever a step does to a window, what is reserved of it stays within the bound.
LEMMA StepReserves ==
    ASSUME Limits!LimitsInv, Limits!CountersRun', Limits!RequestsRun',
           x5' = 0 => x5 = 0,
           x5' = 0 => \A w \in Limits!Window : Frees(w) \/ Admits(w) \/ Charges(w)
    PROVE  Limits!LimitsInv'
  <1> SUFFICES ASSUME x5' = 0, NEW w \in Limits!Window
               PROVE  /\ Limit = 0 => Limits!InFlight(w)' = {}
                      /\ Limits!Value(w)' + Cardinality(Limits!InFlight(w)') * MaxCost
                            <= Limit - 1 + Cardinality(Caller) * MaxCost
    BY LimitsCardinality DEF Limits!LimitsInv, Limits!NothingPasses, Limits!Reserved
  <1> DEFINE S == Limits!InFlight(w)
             T == Limits!InFlight(w)'
             B == Limit - 1 + Cardinality(Caller) * MaxCost
  <1>1. /\ w \in Limits!Counter /\ Limits!Value(w) \in Nat /\ Limits!Value(w)' \in Nat
    <2>1. w \in Limits!Counter
      BY DEF Limits!Counter
    <2> QED
      BY <2>1, ValueType DEF Limits!LimitsInv, Limits!CountersRun, Limits!Value
  <1>2. /\ S \subseteq Caller /\ IsFiniteSet(S) /\ Cardinality(S) \in Nat
        /\ T \subseteq Caller /\ IsFiniteSet(T) /\ Cardinality(T) \in Nat
        /\ Cardinality(Caller) \in Nat /\ MaxCost \in Nat /\ Limit \in Nat
    <2>1. T \subseteq Caller
      BY DEF Limits!InFlight
    <2> QED
      BY <2>1, InFlightFinite, LimitsAssumption, FS_Subset, FS_CardinalityType
  <1>3. /\ Limits!Value(w) + Cardinality(S) * MaxCost <= B
        /\ Limit = 0 => S = {}
    BY LimitsCardinality DEF Limits!LimitsInv, Limits!NothingPasses, Limits!Reserved
  <1> HIDE DEF S, T
  <1>4. CASE Frees(w)
    <2>1. T \subseteq S /\ Limits!Value(w)' <= Limits!Value(w)
      BY <1>4 DEF Frees, S, T
    <2>2. Cardinality(T) <= Cardinality(S)
      BY <1>2, <2>1, FS_Subset
    <2>3. /\ Cardinality(T) * MaxCost <= Cardinality(S) * MaxCost
          /\ Cardinality(T) * MaxCost \in Nat /\ Cardinality(S) * MaxCost \in Nat
          /\ Cardinality(Caller) * MaxCost \in Nat
      BY <1>2, <2>2, Product
    <2> QED
      BY <1>1, <1>2, <1>3, <2>1, <2>3 DEF T
  <1>5. CASE Admits(w)
    <2>1. Cardinality(T) <= Cardinality(Caller)
      BY <1>2, LimitsAssumption, FS_Subset
    <2>2. /\ Cardinality(T) * MaxCost <= Cardinality(Caller) * MaxCost
          /\ Cardinality(T) * MaxCost \in Nat /\ Cardinality(Caller) * MaxCost \in Nat
      BY <1>2, <2>1, Product
    <2> QED
      BY <1>1, <1>2, <1>5, <2>2 DEF Admits, T
  <1>6. CASE Charges(w)
    <2>1. PICK r \in S : /\ Limits!Value(w)' <= Limits!Value(w) + MaxCost
                         /\ T \subseteq S \ {r}
      BY <1>6 DEF Charges, S, T
    <2>2. IsFiniteSet(S \ {r}) /\ Cardinality(S \ {r}) = Cardinality(S) - 1
      BY <1>2, <2>1, FS_RemoveElement
    <2>3. Cardinality(T) <= Cardinality(S) - 1
      BY <2>1, <2>2, FS_Subset
    <2>4. Cardinality(T) + 1 <= Cardinality(S) /\ Cardinality(T) + 1 \in Nat
      BY <1>2, <2>3
    <2>5. /\ (Cardinality(T) + 1) * MaxCost <= Cardinality(S) * MaxCost
          /\ (Cardinality(T) + 1) * MaxCost = Cardinality(T) * MaxCost + MaxCost
          /\ Cardinality(T) * MaxCost \in Nat /\ Cardinality(S) * MaxCost \in Nat
          /\ Cardinality(Caller) * MaxCost \in Nat
      BY <1>2, <2>4, Product
    <2> QED
      BY <1>1, <1>2, <1>3, <2>1, <2>5 DEF T
  <1> QED
    BY <1>4, <1>5, <1>6 DEF Limits!LimitsInv

\* One caller moves.
LEMMA CallerMoves ==
    ASSUME Limits!RequestsRun, NEW r \in Caller, NEW q, Limits!Runs(q),
           x4' = [x4 EXCEPT ![r] = q]
    PROVE  /\ Limits!RequestsRun'
           /\ x4'[r] = q /\ \A s \in Caller \ {r} : x4'[s] = x4[s]
  <1>1. x4'[r] = q /\ \A s \in Caller \ {r} : x4'[s] = x4[s]
    BY DEF Limits!RequestsRun
  <1>2. x4' = [s \in Caller |-> x4'[s]]
    BY DEF Limits!RequestsRun
  <1>3. ASSUME NEW s \in Caller PROVE Limits!Runs(x4'[s])
    BY <1>1 DEF Limits!RequestsRun
  <1> QED
    BY <1>1, <1>2, <1>3 DEF Limits!RequestsRun, Limits!Runs

LEMMA FlightMoves ==
    ASSUME NEW r \in Caller, NEW q, NEW w,
           x4'[r] = q, \A s \in Caller \ {r} : x4'[s] = x4[s]
    PROVE  /\ Limits!InFlight(w)' \subseteq Limits!InFlight(w) \cup {r}
           /\ ~ Limits!MayCharge(q, w) =>
                  Limits!InFlight(w)' \subseteq Limits!InFlight(w) \ {r}
           /\ (Limits!MayCharge(q, w) => Limits!MayCharge(x4[r], w)) =>
                  Limits!InFlight(w)' \subseteq Limits!InFlight(w)
  BY DEF Limits!InFlight, Limits!MayCharge

\* Idle is a request that charges nothing.
LEMMA IdleRuns == Limits!Runs(Limits!Idle) /\ \A w : ~ Limits!MayCharge(Limits!Idle, w)
  BY LimitsAssumption DEF Limits!Runs, Limits!Idle, Limits!MayCharge

Awaited == {"idle", "checking", "streaming", "charging", "logging"}

Record(U) == [pc : Awaited, todo : SUBSET Budget, cost : 0 .. MaxCost, total : U]

\* What the records of requests that run are, and the other way round.
LEMMA RunsOn ==
    ASSUME NEW q
    PROVE  Limits!Runs(q) <=>
              /\ q \in Record({q.total})
              /\ q.pc = "charging" => q.todo \subseteq Limits!Window
  BY DEF Limits!Runs, Awaited, Record

\* A check that passes adds the request to those in flight of its window only.
LEMMA DecideMoves ==
    ASSUME Limits!RequestsRun, NEW r \in Caller, NEW b, NEW used,
           x4[r].pc = "checking", b \in x4[r].todo, Limits!Decide(r, b, used)
    PROVE  /\ Limits!RequestsRun'
           /\ \A w : w # b \/ Limits!Exceeded(used) =>
                 Limits!InFlight(w)' \subseteq Limits!InFlight(w)
  <1> DEFINE todo == x4[r].todo \ {b}
             at == IF todo = {} THEN "streaming" ELSE "checking"
             q == [x4[r] EXCEPT !.todo = todo, !.pc = at]
  <1>1. Limits!Runs(x4[r])
    BY DEF Limits!RequestsRun
  <1>2. PICK p \in {q, Limits!Idle} :
           x4' = [x4 EXCEPT ![r] = p] /\ (Limits!Exceeded(used) => p = Limits!Idle)
    <2>1. CASE Limits!Exceeded(used)
      BY <2>1 DEF Limits!Decide
    <2>2. CASE ~ Limits!Exceeded(used)
      BY <2>2 DEF Limits!Decide
    <2> QED
      BY <2>1, <2>2
  <1>3. Limits!Runs(q) /\ q.pc = at /\ q.todo = todo
    <2>1. /\ at \in Awaited /\ todo \in SUBSET Budget /\ at # "charging"
      BY <1>1 DEF Limits!Runs, Awaited
    <2>2. PICK U : U = {x4[r].total} /\ x4[r] \in Record(U)
      BY <1>1, RunsOn
    <2> HIDE DEF at, todo
    <2>3. q \in Record(U) /\ q.pc = at /\ q.todo = todo /\ q.total = x4[r].total
      BY <2>1, <2>2 DEF Record
    <2> HIDE DEF q
    <2> QED
      BY <2>1, <2>2, <2>3, RunsOn
  <1>4. ASSUME NEW w, w # b, Limits!MayCharge(q, w) PROVE Limits!MayCharge(x4[r], w)
    BY <1>3, <1>4 DEF Limits!MayCharge
  <1>5. \A w : /\ p = Limits!Idle => ~ Limits!MayCharge(p, w)
               /\ w # b => (Limits!MayCharge(p, w) => Limits!MayCharge(x4[r], w))
    BY <1>2, <1>4, IdleRuns
  <1>6. Limits!RequestsRun' /\ x4'[r] = p /\ \A s \in Caller \ {r} : x4'[s] = x4[s]
    BY <1>2, <1>3, IdleRuns, CallerMoves
  <1>7. ASSUME NEW w, w # b \/ Limits!Exceeded(used)
        PROVE  Limits!InFlight(w)' \subseteq Limits!InFlight(w)
    BY <1>2, <1>5, <1>6, <1>7, FlightMoves
  <1> QED
    BY <1>6, <1>7

\* A request that charges is in flight for what it has still to charge.
LEMMA ChargedMoves ==
    ASSUME Limits!RequestsRun, NEW r \in Caller, NEW todo \in SUBSET Limits!Window,
           NEW cost \in 0 .. MaxCost, Limits!Charged(r, todo, cost)
    PROVE  /\ Limits!RequestsRun'
           /\ \A w : /\ w \notin todo =>
                            Limits!InFlight(w)' \subseteq Limits!InFlight(w) \ {r}
                     /\ Limits!InFlight(w)' \subseteq Limits!InFlight(w) \cup {r}
  <1> DEFINE charging == [x4[r] EXCEPT !.pc = "charging", !.todo = todo, !.cost = cost]
             logging == [x4[r] EXCEPT !.pc = "logging", !.todo = {}, !.cost = cost]
  <1>1. Limits!Runs(x4[r]) /\ todo \subseteq Budget
    BY DEF Limits!RequestsRun, Limits!Window
  <1>0. PICK U : U = {x4[r].total} /\ x4[r] \in Record(U)
    BY <1>1, RunsOn
  <1>2. Limits!Runs(charging) /\ charging.todo = todo /\ charging.pc = "charging"
    <2>1. /\ charging \in Record(U) /\ charging.total = x4[r].total
          /\ charging.todo = todo /\ charging.pc = "charging"
      BY <1>1, <1>0 DEF Awaited, Record
    <2> HIDE DEF charging
    <2> QED
      BY <1>0, <2>1, RunsOn
  <1>3. Limits!Runs(logging) /\ logging.pc = "logging"
    <2>1. /\ logging \in Record(U) /\ logging.total = x4[r].total
          /\ logging.todo = {} /\ logging.pc = "logging"
      BY <1>0 DEF Awaited, Record
    <2> HIDE DEF logging
    <2> QED
      BY <1>0, <2>1, RunsOn
  <1>4. \A w : /\ w \notin todo => ~ Limits!MayCharge(charging, w)
               /\ ~ Limits!MayCharge(logging, w)
    <2> HIDE DEF charging, logging
    <2> QED
      BY <1>2, <1>3 DEF Limits!MayCharge
  <1>5. PICK q \in {charging, logging, Limits!Idle} :
           x4' = [x4 EXCEPT ![r] = q] /\ (q = charging \/ todo = {})
    BY DEF Limits!Charged, Limits!RequestsRun
  <1> HIDE DEF charging, logging
  <1>6. Limits!Runs(q) /\ \A w : w \notin todo => ~ Limits!MayCharge(q, w)
    BY <1>2, <1>3, <1>4, <1>5, IdleRuns
  <1>7. Limits!RequestsRun' /\ x4'[r] = q /\ \A s \in Caller \ {r} : x4'[s] = x4[s]
    BY <1>5, <1>6, CallerMoves
  <1> QED
    BY <1>6, <1>7, FlightMoves

LEMMA WindowIsCounter ==
    ASSUME NEW w \in Limits!Window
    PROVE  /\ w \in Limits!Counter /\ w \in Budget /\ w # "lifetime" /\ w # "oauth"
           /\ Limits!Window \subseteq Budget
  BY LimitsAssumption DEF Limits!Counter, Limits!Window

\* Nothing is counted and time stands still.
LEMMA SameCounters ==
    ASSUME Limits!CountersRun, x5' \in Nat, UNCHANGED <<x1, x2>>
    PROVE  Limits!CountersRun' /\ \A w : Limits!Value(w)' = Limits!Value(w)
  BY DEF Limits!CountersRun, Limits!Value, Limits!Live

\* What is added to one counter is added to that one only, and no more is there then.
LEMMA AddedCounter ==
    ASSUME Limits!CountersRun, NEW c \in Limits!Counter, NEW n \in Nat, x5' \in Nat,
           x1' = x1, x2' = [x2 EXCEPT ![c] = Limits!Incremented(c, n)]
    PROVE  /\ Limits!CountersRun'
           /\ \A d \in Limits!Counter \ {c} : Limits!Value(d)' = Limits!Value(d)
           /\ Limits!Value(c)' <= Limits!Value(c) + n
  <1>1. /\ Limits!Incremented(c, n) \in [value : Nat, until : Nat]
        /\ Limits!Incremented(c, n).value = Limits!Value(c) + n
    BY IncrementedBy
  <1>2. x2 \in [Limits!Counter -> [value : Nat, until : Nat]]
    BY DEF Limits!CountersRun
  <1>3. /\ x2' \in [Limits!Counter -> [value : Nat, until : Nat]]
        /\ x2'[c] = Limits!Incremented(c, n)
        /\ \A d \in Limits!Counter \ {c} : x2'[d] = x2[d]
    BY <1>1, <1>2
  <1>4. Limits!CountersRun'
    BY <1>3 DEF Limits!CountersRun
  <1>5. Limits!Value(c) + n \in Nat
    BY ValueType
  <1> QED
    BY <1>1, <1>3, <1>4, <1>5 DEF Limits!Value, Limits!Live

\* A request that arrives has its checks before it.
LEMMA ArriveKeeps ==
    ASSUME Limits!LimitsInv, NEW r \in Caller, Limits!Arrive(r)
    PROVE  Limits!LimitsInv'
  <1>1. PICK failed, total :
           /\ failed \in 0 .. 1
           /\ x5' = x5 + failed /\ UNCHANGED <<x1, x2>>
           /\ x4' = [x4 EXCEPT ![r] =
                        [pc |-> IF Budget = {} THEN "streaming" ELSE "checking",
                         todo |-> Budget, cost |-> 0, total |-> total]]
    BY DEF Limits!Arrive
  <1> DEFINE at == IF Budget = {} THEN "streaming" ELSE "checking"
             q == [pc |-> at, todo |-> Budget, cost |-> 0, total |-> total]
  <1>2. Limits!Runs(q)
    BY LimitsAssumption DEF Limits!Runs
  <1>3. \A w \in Limits!Window : ~ Limits!MayCharge(q, w)
    BY WindowIsCounter DEF Limits!MayCharge
  <1>4. x4' = [x4 EXCEPT ![r] = q]
    BY <1>1
  <1> HIDE DEF q, at
  <1>5. Limits!RequestsRun' /\ x4'[r] = q /\ \A s \in Caller \ {r} : x4'[s] = x4[s]
    BY <1>2, <1>4, CallerMoves DEF Limits!LimitsInv
  <1>6. x5' \in Nat /\ (x5' = 0 => x5 = 0)
    BY <1>1 DEF Limits!LimitsInv, Limits!CountersRun
  <1>7. Limits!CountersRun' /\ \A w : Limits!Value(w)' = Limits!Value(w)
    BY <1>1, <1>6, SameCounters DEF Limits!LimitsInv
  <1>8. ASSUME NEW w \in Limits!Window PROVE Frees(w)
    <2>1. Limits!Value(w) \in Nat /\ Limits!Value(w)' = Limits!Value(w)
      BY <1>7, ValueType, WindowIsCounter DEF Limits!LimitsInv
    <2>2. Limits!InFlight(w)' \subseteq Limits!InFlight(w)
      BY <1>3, <1>5, FlightMoves
    <2> QED
      BY <2>1, <2>2 DEF Frees
  <1> QED
    BY <1>5, <1>6, <1>7, <1>8, StepReserves

\* A check: what passes it was below the limit, as far as the window is read.
LEMMA CheckKeeps ==
    ASSUME Limits!LimitsInv, NEW r \in Caller, NEW b, NEW used,
           x4[r].pc = "checking", b \in x4[r].todo, Limits!Decide(r, b, used),
           UNCHANGED <<x1, x2>>, x5' \in Nat, x5' = 0 => x5 = 0,
           x5' = 0 /\ b \in Limits!Window => used = Limits!Value(b)
    PROVE  Limits!LimitsInv'
  <1>1. /\ Limits!RequestsRun'
        /\ \A w : w # b \/ Limits!Exceeded(used) =>
              Limits!InFlight(w)' \subseteq Limits!InFlight(w)
    BY DecideMoves DEF Limits!LimitsInv
  <1>2. Limits!CountersRun' /\ \A w : Limits!Value(w)' = Limits!Value(w)
    BY SameCounters DEF Limits!LimitsInv
  <1>3. ASSUME x5' = 0, NEW w \in Limits!Window PROVE Frees(w) \/ Admits(w)
    <2>1. Limits!Value(w) \in Nat /\ Limits!Value(w)' = Limits!Value(w) /\ Limit \in Nat
      BY <1>2, ValueType, WindowIsCounter, LimitsAssumption DEF Limits!LimitsInv
    <2>2. CASE w # b \/ Limits!Exceeded(used)
      BY <1>1, <2>1, <2>2 DEF Frees
    <2>3. CASE w = b /\ ~ Limits!Exceeded(used)
      BY <1>3, <2>1, <2>3 DEF Admits, Limits!Exceeded
    <2> QED
      BY <2>2, <2>3
  <1> QED
    BY <1>1, <1>2, <1>3, StepReserves

\* What is refused, given up or done charges no more.
LEMMA IdleKeeps ==
    ASSUME Limits!LimitsInv, NEW r \in Caller, x4' = [x4 EXCEPT ![r] = Limits!Idle],
           UNCHANGED <<x1, x2>>, x5' \in Nat, x5' = 0 => x5 = 0
    PROVE  Limits!LimitsInv'
  <1>1. /\ Limits!RequestsRun'
        /\ \A w : Limits!InFlight(w)' \subseteq Limits!InFlight(w)
    BY IdleRuns, CallerMoves, FlightMoves DEF Limits!LimitsInv
  <1>2. Limits!CountersRun' /\ \A w : Limits!Value(w)' = Limits!Value(w)
    BY SameCounters DEF Limits!LimitsInv
  <1>3. ASSUME NEW w \in Limits!Window PROVE Frees(w)
    BY <1>1, <1>2, ValueType, WindowIsCounter DEF Limits!LimitsInv, Frees
  <1> QED
    BY <1>1, <1>2, <1>3, StepReserves

\* A stream that ends charges every window it had passed.
LEMMA StreamKeeps ==
    ASSUME Limits!LimitsInv, NEW r \in Caller, Limits!StreamEnds(r)
    PROVE  Limits!LimitsInv'
  <1>1. PICK cost \in 0 .. MaxCost : Limits!Charged(r, Limits!Window, cost)
    BY DEF Limits!StreamEnds
  <1>2. /\ Limits!RequestsRun'
        /\ \A w : Limits!InFlight(w)' \subseteq Limits!InFlight(w) \cup {r}
    BY <1>1, ChargedMoves DEF Limits!LimitsInv
  <1>3. \A w : r \in Limits!InFlight(w)
    BY DEF Limits!StreamEnds, Limits!InFlight, Limits!MayCharge
  <1>4. UNCHANGED <<x1, x2, x5>> /\ x5 \in Nat
    BY DEF Limits!StreamEnds, Limits!LimitsInv, Limits!CountersRun
  <1>5. Limits!CountersRun' /\ \A w : Limits!Value(w)' = Limits!Value(w)
    BY <1>4, SameCounters DEF Limits!LimitsInv
  <1>6. ASSUME NEW w \in Limits!Window PROVE Frees(w)
    BY <1>2, <1>3, <1>5, ValueType, WindowIsCounter DEF Limits!LimitsInv, Frees
  <1> QED
    BY <1>2, <1>4, <1>5, <1>6, StepReserves

\* A charge of one window ends the reservation for it, and for no other.
LEMMA ChargeKeeps ==
    ASSUME Limits!LimitsInv, NEW r \in Caller, NEW b \in Limits!Window, Limits!Charge(r, b)
    PROVE  Limits!LimitsInv'
  <1> DEFINE cost == x4[r].cost
             todo == x4[r].todo \ {b}
  <1>1. PICK failed \in 0 .. 1 :
           /\ x5' = x5 + failed /\ x1' = x1
           /\ x4[r].pc = "charging" /\ b \in x4[r].todo
           /\ Limits!Charged(r, todo, cost)
           /\ x2' = [x2 EXCEPT ![b] = IF failed = 1 THEN x2[b] ELSE Limits!Incremented(b, cost)]
    BY DEF Limits!Charge
  <1>2. cost \in 0 .. MaxCost /\ todo \in SUBSET Limits!Window
    BY <1>1 DEF Limits!LimitsInv, Limits!RequestsRun, Limits!Runs
  <1>3. x5' \in Nat /\ (x5' = 0 => x5 = 0 /\ failed = 0)
    BY <1>1 DEF Limits!LimitsInv, Limits!CountersRun
  <1>4. /\ Limits!RequestsRun'
        /\ Limits!InFlight(b)' \subseteq Limits!InFlight(b) \ {r}
        /\ \A w : w \in todo => Limits!InFlight(w)' \subseteq Limits!InFlight(w) \cup {r}
        /\ \A w : w \notin todo => Limits!InFlight(w)' \subseteq Limits!InFlight(w)
    <2>1. /\ Limits!RequestsRun'
          /\ \A w : /\ w \notin todo =>
                           Limits!InFlight(w)' \subseteq Limits!InFlight(w) \ {r}
                    /\ Limits!InFlight(w)' \subseteq Limits!InFlight(w) \cup {r}
      <3> HIDE DEF todo, cost
      <3> QED
        BY <1>1, <1>2, ChargedMoves DEF Limits!LimitsInv
    <2>2. b \notin todo
      OBVIOUS
    <2> HIDE DEF todo
    <2> QED
      BY <2>1, <2>2
  <1>5. \A w \in x4[r].todo : r \in Limits!InFlight(w)
    BY <1>1 DEF Limits!InFlight, Limits!MayCharge
  <1>6. b \in Limits!Counter /\ cost \in Nat /\ MaxCost \in Nat /\ cost <= MaxCost
    BY <1>2, WindowIsCounter, LimitsAssumption
  <1> HIDE DEF cost
  <1>7. CASE failed = 0
    <2>1. x2' = [x2 EXCEPT ![b] = Limits!Incremented(b, cost)]
      BY <1>1, <1>7
    <2>2. /\ Limits!CountersRun'
          /\ \A d \in Limits!Counter \ {b} : Limits!Value(d)' = Limits!Value(d)
          /\ Limits!Value(b)' <= Limits!Value(b) + cost
      BY <1>1, <1>3, <1>6, <2>1, AddedCounter DEF Limits!LimitsInv
    <2>3. ASSUME NEW w \in Limits!Window \ {b} PROVE Frees(w)
      <3>1. Limits!Value(w) \in Nat /\ Limits!Value(w)' = Limits!Value(w)
        BY <2>2, ValueType, WindowIsCounter DEF Limits!LimitsInv
      <3>2. Limits!InFlight(w)' \subseteq Limits!InFlight(w)
        BY <1>4, <1>5
      <3> QED
        BY <3>1, <3>2 DEF Frees
    <2>4. Charges(b)
      <3>1. Limits!Value(b) \in Nat /\ Limits!Value(b)' \in Nat
        BY <1>6, <2>2, ValueType DEF Limits!LimitsInv, Limits!CountersRun, Limits!Value
      <3>2. Limits!Value(b)' <= Limits!Value(b) + MaxCost
        BY <1>6, <2>2, <3>1
      <3> QED
        BY <1>1, <1>4, <1>5, <3>2 DEF Charges
    <2> QED
      BY <1>3, <1>4, <2>2, <2>3, <2>4, StepReserves
  <1>8. CASE failed = 1
    <2>1. x2' = x2
      BY <1>1, <1>8 DEF Limits!LimitsInv, Limits!CountersRun
    <2>2. Limits!CountersRun'
      BY <1>1, <1>3, <2>1, SameCounters DEF Limits!LimitsInv
    <2> QED
      BY <1>3, <1>4, <1>8, <2>2, StepReserves
  <1> QED
    BY <1>7, <1>8

\* The counters of OAuth calls are no window.
LEMMA OAuthKeeps ==
    ASSUME Limits!LimitsInv, Limits!OAuthCall
    PROVE  Limits!LimitsInv'
  <1>1. /\ x2' = [x2 EXCEPT !["oauth"] = Limits!Incremented("oauth", 1)]
        /\ UNCHANGED <<x1, x4, x5>> /\ x5 \in Nat
    BY DEF Limits!OAuthCall, Limits!LimitsInv, Limits!CountersRun
  <1>2. /\ Limits!CountersRun'
        /\ \A d \in Limits!Counter \ {"oauth"} : Limits!Value(d)' = Limits!Value(d)
    <2>1. "oauth" \in Limits!Counter
      BY DEF Limits!Counter
    <2> QED
      BY <1>1, <2>1, AddedCounter DEF Limits!LimitsInv
  <1>3. Limits!RequestsRun' /\ \A w : Limits!InFlight(w)' = Limits!InFlight(w)
    BY <1>1
    DEF Limits!LimitsInv, Limits!RequestsRun, Limits!Runs, Limits!InFlight, Limits!MayCharge
  <1>4. ASSUME NEW w \in Limits!Window PROVE Frees(w)
    <2>1. w \in Limits!Counter \ {"oauth"}
      BY WindowIsCounter
    <2> QED
      BY <1>2, <1>3, <2>1, ValueType DEF Limits!LimitsInv, Frees
  <1> QED
    BY <1>1, <1>2, <1>3, <1>4, StepReserves

\* Windows end.
LEMMA LimitsTickKeeps ==
    ASSUME Limits!LimitsInv, Limits!Tick
    PROVE  Limits!LimitsInv'
  <1>1. x1' = x1 + 1 /\ UNCHANGED <<x2, x4, x5>>
    BY DEF Limits!Tick
  <1>2. Limits!CountersRun'
    BY <1>1 DEF Limits!LimitsInv, Limits!CountersRun
  <1>3. Limits!RequestsRun' /\ \A w : Limits!InFlight(w)' = Limits!InFlight(w)
    BY <1>1
    DEF Limits!LimitsInv, Limits!RequestsRun, Limits!Runs, Limits!InFlight, Limits!MayCharge
  <1>4. ASSUME NEW w \in Limits!Window PROVE Frees(w)
    <2>1. w \in Limits!Counter /\ x1 \in Nat
      BY WindowIsCounter DEF Limits!LimitsInv, Limits!CountersRun
    <2>2. x2[w].value \in Nat /\ x2[w].until \in Nat
      BY <2>1 DEF Limits!LimitsInv, Limits!CountersRun
    <2>3. Limits!Value(w)' <= Limits!Value(w)
      BY <1>1, <2>1, <2>2 DEF Limits!Value, Limits!Live
    <2> QED
      BY <1>3, <2>3 DEF Frees
  <1> QED
    BY <1>1, <1>2, <1>3, <1>4, StepReserves

\* The invariant behind OvershootIsBounded is inductive.
LEMMA LimitsNext == Limits!LimitsInv /\ Limits!Next => Limits!LimitsInv'
  <1> SUFFICES ASSUME Limits!LimitsInv, Limits!Next PROVE Limits!LimitsInv'
    OBVIOUS
  <1>1. x5 \in Nat
    BY DEF Limits!LimitsInv, Limits!CountersRun
  <1>2. ASSUME NEW r \in Caller, Limits!CheckLifetime(r) PROVE Limits!LimitsInv'
    <2>1. /\ x4[r].pc = "checking" /\ "lifetime" \in x4[r].todo
          /\ Limits!Decide(r, "lifetime", x4[r].total) /\ UNCHANGED <<x1, x2, x5>>
      BY <1>2 DEF Limits!CheckLifetime
    <2>2. "lifetime" \notin Limits!Window
      BY DEF Limits!Window
    <2> QED
      BY <1>1, <2>1, <2>2, CheckKeeps
  <1>3. ASSUME NEW r \in Caller, NEW b \in Limits!Window, Limits!Check(r, b)
        PROVE  Limits!LimitsInv'
    <2>1. PICK failed, used :
             /\ failed \in 0 .. 1
             /\ x4[r].pc = "checking" /\ b \in x4[r].todo
             /\ x5' = x5 + failed /\ UNCHANGED <<x1, x2>>
             /\ failed = 0 => used = Limits!Value(b)
             /\ Limits!Decide(r, b, used)
      BY <1>3 DEF Limits!Check
    <2>2. x5' \in Nat /\ (x5' = 0 => x5 = 0 /\ failed = 0)
      BY <1>1, <2>1
    <2> QED
      BY <2>1, <2>2, CheckKeeps
  <1>4. ASSUME NEW r \in Caller, NEW b \in Limits!Window, Limits!CheckBlind(r, b)
        PROVE  Limits!LimitsInv'
    <2>1. /\ x4[r].pc = "checking" /\ b \in x4[r].todo
          /\ x5' = x5 + 2 /\ UNCHANGED <<x1, x2>>
          /\ \/ x4' = [x4 EXCEPT ![r] = Limits!Idle]
             \/ Limits!Decide(r, b, 0)
      BY <1>4 DEF Limits!CheckBlind
    <2>2. x5' \in Nat /\ x5' # 0
      BY <1>1, <2>1
    <2> QED
      BY <2>1, <2>2, IdleKeeps, CheckKeeps
  <1>5. ASSUME NEW r \in Caller, Limits!LogUsage(r) PROVE Limits!LimitsInv'
    <2>1. PICK failed \in 0 .. 1 :
             /\ x5' = x5 + failed /\ UNCHANGED <<x1, x2>>
             /\ x4' = [x4 EXCEPT ![r] = Limits!Idle]
      BY <1>5 DEF Limits!LogUsage
    <2>2. x5' \in Nat /\ (x5' = 0 => x5 = 0)
      BY <1>1, <2>1
    <2> QED
      BY <2>1, <2>2, IdleKeeps
  <1>6. ASSUME NEW r \in Caller, Limits!Leave(r) PROVE Limits!LimitsInv'
    BY <1>1, <1>6, IdleKeeps DEF Limits!Leave
  <1> QED
    BY <1>2, <1>3, <1>4, <1>5, <1>6, ArriveKeeps, StreamKeeps, ChargeKeeps, OAuthKeeps,
       LimitsTickKeeps
    DEF Limits!Next

\* At first nothing is counted and nobody is in flight.
LEMMA LimitsInit == Limits!Init => Limits!LimitsInv
  <1> SUFFICES ASSUME Limits!Init PROVE Limits!LimitsInv
    OBVIOUS
  <1>1. Limits!RequestsRun
    BY IdleRuns DEF Limits!Init, Limits!RequestsRun
  <1>2. Limits!CountersRun
    BY DEF Limits!Init, Limits!CountersRun
  <1>3. ASSUME NEW w PROVE Limits!InFlight(w) = {}
    BY IdleRuns DEF Limits!Init, Limits!InFlight
  <1>4. ASSUME NEW w \in Limits!Window
        PROVE  Limits!Value(w) + Cardinality(Limits!InFlight(w)) * MaxCost
                  <= Limit - 1 + Cardinality(Caller) * MaxCost
    <2>1. Limits!Value(w) = 0
      BY WindowIsCounter DEF Limits!Init, Limits!Value
    <2>2. Cardinality({}) * MaxCost + MaxCost <= Cardinality(Caller) * MaxCost
      BY ReservesAtMost, LimitsAssumption
    <2>3. Cardinality({}) = 0 /\ Cardinality(Caller) \in Nat
      BY FS_EmptySet, FS_CardinalityType, LimitsAssumption
    <2>4. Cardinality(Caller) * MaxCost \in Nat /\ 0 * MaxCost \in Nat
      BY <2>3, Product, LimitsAssumption
    <2>5. Cardinality({}) * MaxCost = 0
      BY <2>3, LimitsAssumption
    <2>6. Cardinality(Limits!InFlight(w)) * MaxCost = 0
      BY ONLY <1>3, <2>5, w \in Limits!Window
    <2>7. MaxCost <= Cardinality(Caller) * MaxCost
      <3> DEFINE none == Cardinality({}) * MaxCost
                 all == Cardinality(Caller) * MaxCost
      <3>1. none = 0 /\ none + MaxCost <= all /\ all \in Nat /\ MaxCost \in Nat
        BY <2>2, <2>4, <2>5, LimitsAssumption
      <3> HIDE DEF none
      <3>2. MaxCost <= all
        <4> HIDE DEF all
        <4> QED
          BY <3>1
      <3> QED
        BY <3>2
    <2>8. 0 + 0 <= Limit - 1 + Cardinality(Caller) * MaxCost
      <3> DEFINE all == Cardinality(Caller) * MaxCost
      <3>1. all \in Nat /\ MaxCost <= all /\ MaxCost \in Nat \ {0} /\ Limit \in Nat
        BY <2>4, <2>7, LimitsAssumption
      <3>2. 0 + 0 <= Limit - 1 + all
        <4> HIDE DEF all
        <4> QED
          BY <3>1
      <3> QED
        BY <3>2
    <2> QED
      BY <2>1, <2>6, <2>8
  <1> QED
    BY <1>1, <1>2, <1>3, <1>4, LimitsCardinality
    DEF Limits!LimitsInv, Limits!NothingPasses, Limits!Reserved

\* The steps of the other models leave budgets alone.
LEMMA LimitsStay == Limits!LimitsInv /\ UNCHANGED others => Limits!LimitsInv'
  BY DEF others, past5, Limits!LimitsInv, Limits!RequestsRun, Limits!Runs,
     Limits!CountersRun, Limits!NothingPasses, Limits!Reserved, Limits!InFlight,
     Limits!MayCharge, Limits!Value, Limits!Live

LimitsHold == part = "limits" => Limits!LimitsInv

LEMMA LimitsInvariant == MCSpec => []LimitsHold
  <1>1. MCInit => LimitsHold
    BY LimitsInit DEF MCInit, LimitsHold
  <1>2. LimitsHold /\ [MCNext]_<<part, vars, others>> => LimitsHold'
    BY LimitsNext, LimitsStay DEF MCNext, LimitsHold
  <1> QED
    BY <1>1, <1>2, PTL DEF MCSpec

\* For any number of callers, budgets and costs: as long as Redis answers, a window never
\* holds more than the last token allowed and one request for each caller, though it is
\* compared long before it is charged.
THEOREM OvershootBounded == MCSpec => []OvershootIsBounded
  <1>1. LimitsHold => OvershootIsBounded
    <2> SUFFICES ASSUME Limits!LimitsInv, x5 = 0, NEW w \in Limits!Window
                 PROVE  Limits!Value(w) <= Limit - 1 + Cardinality(Caller) * MaxCost
      BY LimitsCardinality DEF LimitsHold, OvershootIsBounded, Limits!OvershootIsBounded
    <2>1. Limits!Value(w) + Cardinality(Limits!InFlight(w)) * MaxCost
             <= Limit - 1 + Cardinality(Caller) * MaxCost
      BY LimitsCardinality DEF Limits!LimitsInv, Limits!Reserved
    <2>2. Limits!Value(w) \in Nat /\ Cardinality(Limits!InFlight(w)) * MaxCost \in Nat
      BY ValueType, WindowIsCounter, InFlightFinite, Product, LimitsAssumption
      DEF Limits!LimitsInv
    <2>3. Cardinality(Caller) * MaxCost \in Nat
      BY FS_CardinalityType, Product, LimitsAssumption
    <2> QED
      BY <2>1, <2>2, <2>3, LimitsAssumption
  <1> QED
    BY <1>1, LimitsInvariant, PTL

\* No charge and no refused call moves the expiry of a window that holds anything.
THEOREM WindowsStayFixed == MCSpec => WindowIsFixed
  <1>1. LimitsHold /\ [MCNext]_<<part, vars, others>>
           => [part = "limits" => Limits!KeepsWindows]_<<part, vars, others>>
    <2> SUFFICES ASSUME Limits!LimitsInv, Limits!Next, NEW c \in Limits!Counter,
                        Limits!Value(c) > 0
                 PROVE  x2'[c].until = x2[c].until
      BY DEF LimitsHold, MCNext, Limits!KeepsWindows
    <2>1. Limits!Value(c) # 0 /\ x2 \in [Limits!Counter -> [value : Nat, until : Nat]]
      BY DEF Limits!LimitsInv, Limits!CountersRun
    <2>2. ASSUME NEW b \in Limits!Counter, NEW n \in Nat,
                 x2' = [x2 EXCEPT ![b] = Limits!Incremented(b, n)]
          PROVE  x2'[c].until = x2[c].until
      BY <2>1, <2>2, IncrementedBy DEF Limits!LimitsInv
    <2>3. CASE x2' = x2
      BY <2>3
    <2>4. ASSUME NEW r \in Caller, NEW b \in Limits!Window, Limits!Charge(r, b)
          PROVE  x2'[c].until = x2[c].until
      <3>1. x2' = x2 \/ x2' = [x2 EXCEPT ![b] = Limits!Incremented(b, x4[r].cost)]
        BY <2>1, <2>4 DEF Limits!Charge
      <3>2. x4[r].cost \in Nat /\ b \in Limits!Counter
        BY WindowIsCounter, LimitsAssumption
        DEF Limits!LimitsInv, Limits!RequestsRun, Limits!Runs
      <3> QED
        BY <2>2, <2>3, <3>1, <3>2
    <2>5. CASE Limits!OAuthCall
      BY <2>2, <2>5 DEF Limits!OAuthCall, Limits!Counter
    <2> QED
      BY <2>3, <2>4, <2>5
      DEF Limits!Next, Limits!Arrive, Limits!CheckLifetime, Limits!Check, Limits!CheckBlind,
          Limits!StreamEnds, Limits!LogUsage, Limits!Leave, Limits!Tick
  <1> QED
    BY <1>1, LimitsInvariant, PTL DEF MCSpec, WindowIsFixed

-----------------------------------------------------------------------------
(* Sums over a finite set, which the ledger's are.                         *)

\* Induction over the subsets of a finite set, as a statement about sets.
LEMMA SubsetInduction ==
    ASSUME NEW S, IsFiniteSet(S), NEW G,
           \A T \in SUBSET S : (\A R \in SUBSET T : R # T => R \in G) => T \in G
    PROVE  SUBSET S \subseteq G
  <1> SUFFICES ASSUME (SUBSET S) \ G # {} PROVE FALSE
    OBVIOUS
  <1>1. IsWellFoundedOn(StrictSubsetOrdering(S), SUBSET S)
    <2>1. FiniteSubsetsOf(S) = SUBSET S
      BY FS_FiniteSubsetsOfFinite
    <2>2. IsWellFoundedOn(StrictSubsetOrdering(S), FiniteSubsetsOf(S))
      BY FS_StrictSubsetOrderingWellFounded
    <2> QED
      BY <2>1, <2>2
  <1> DEFINE rest == (SUBSET S) \ G
  <1> HIDE DEF rest
  <1>2. PICK T \in rest : \A R \in rest : ~ (<<R, T>> \in StrictSubsetOrdering(S))
    <2>1. rest \subseteq SUBSET S /\ rest # {}
      BY DEF rest
    <2> QED
      BY <1>1, <2>1, WFMin
  <1>3. ASSUME NEW R \in SUBSET T, R # T PROVE R \in G
    BY <1>2, <1>3 DEF StrictSubsetOrdering, rest
  <1> QED
    BY <1>2, <1>3 DEF rest

\* The element a sum begins with.
First(s) == CHOOSE x \in s : TRUE

\* g gives each subset of S the sum of f over it.
Sums(f, S, g) ==
    \A s \in SUBSET S : g[s] = IF s = {} THEN 0 ELSE f[First(s)] + g[s \ {First(s)}]

LEMMA FirstIsIn == \A s : s # {} => First(s) \in s /\ s \ {First(s)} # s
  BY DEF First

\* There is one such function at most.
LEMMA SumsAgree ==
    ASSUME NEW S, IsFiniteSet(S), NEW f, NEW R, R \subseteq S, NEW T, T \subseteq S,
           NEW g, Sums(f, R, g), NEW h, Sums(f, T, h)
    PROVE  \A s \in SUBSET (R \cap T) : g[s] = h[s]
  <1> DEFINE G == {s \in SUBSET S : s \subseteq R \cap T => g[s] = h[s]}
  <1>1. ASSUME NEW s \in SUBSET S, \A t \in SUBSET s : t # s => t \in G PROVE s \in G
    <2> SUFFICES ASSUME s \subseteq R \cap T PROVE g[s] = h[s]
      OBVIOUS
    <2>1. CASE s = {}
      BY <2>1 DEF Sums
    <2>2. CASE s # {}
      <3> DEFINE t == s \ {First(s)}
      <3>1. t \in SUBSET s /\ t # s
        BY <2>2, FirstIsIn
      <3>2. g[t] = h[t]
        BY <1>1, <3>1
      <3>3. g[s] = f[First(s)] + g[t] /\ h[s] = f[First(s)] + h[t]
        BY <2>2 DEF Sums
      <3> QED
        BY <3>2, <3>3
    <2> QED
      BY <2>1, <2>2
  <1> HIDE DEF G
  <1>2. SUBSET S \subseteq G
    BY <1>1, SubsetInduction
  <1> QED
    BY <1>2 DEF G

\* And there is one, in natural numbers if f is.
LEMMA SumsExist ==
    ASSUME NEW S, IsFiniteSet(S), NEW f \in [S -> Nat]
    PROVE  \E g \in [SUBSET S -> Nat] : Sums(f, S, g)
  <1> DEFINE G == {T \in SUBSET S : \E g \in [SUBSET T -> Nat] : Sums(f, T, g)}
  <1>1. ASSUME NEW T \in SUBSET S, \A R \in SUBSET T : R # T => R \in G PROVE T \in G
    <2> DEFINE of(R) == CHOOSE g \in [SUBSET R -> Nat] : Sums(f, R, g)
               total == [R \in SUBSET T |-> of(R)[R]]
               rest == T \ {First(T)}
               h == [s \in SUBSET T |-> IF s # T THEN total[s]
                                        ELSE IF T = {} THEN 0 ELSE f[First(T)] + total[rest]]
    <2>1. ASSUME NEW R \in SUBSET T, R # T
          PROVE  of(R) \in [SUBSET R -> Nat] /\ Sums(f, R, of(R)) /\ total[R] = of(R)[R]
                 /\ total[R] \in Nat
      <3>1. \E g \in [SUBSET R -> Nat] : Sums(f, R, g)
        BY <1>1, <2>1
      <3>2. of(R) \in [SUBSET R -> Nat] /\ Sums(f, R, of(R))
        BY <3>1
      <3> HIDE DEF of
      <3> QED
        BY <3>2
    <2> HIDE DEF of, total
    <2>2. ASSUME NEW R \in SUBSET T, R # T, R # {}
          PROVE  total[R] = f[First(R)] + total[R \ {First(R)}]
      <3> DEFINE q == R \ {First(R)}
      <3>1. q \in SUBSET T /\ q # T /\ q \subseteq R /\ q \subseteq S /\ R \subseteq S
        BY <2>2
      <3>2. of(R)[R] = f[First(R)] + of(R)[q]
        BY <2>1, <2>2 DEF Sums
      <3>3. of(R)[q] = of(q)[q]
        <4>1. Sums(f, R, of(R)) /\ Sums(f, q, of(q))
          BY <2>1, <2>2, <3>1
        <4>2. q \in SUBSET (R \cap q)
          BY <3>1
        <4> HIDE DEF q
        <4> QED
          BY <3>1, <4>1, <4>2, SumsAgree
      <3> QED
        BY <2>1, <2>2, <3>1, <3>2, <3>3
    <2>3. T # {} => /\ rest \in SUBSET T /\ rest # T /\ total[rest] \in Nat
                    /\ First(T) \in S /\ f[First(T)] \in Nat
      BY <2>1, FirstIsIn
    <2>4. h \in [SUBSET T -> Nat]
      <3>1. \A s \in SUBSET T : s # T => total[s] \in Nat
        BY <2>1
      <3> DEFINE last == IF T = {} THEN 0 ELSE f[First(T)] + total[rest]
      <3>2. last \in Nat
        BY <2>3
      <3> HIDE DEF last
      <3>3. [s \in SUBSET T |-> IF s # T THEN total[s] ELSE last] \in [SUBSET T -> Nat]
        BY <3>1, <3>2
      <3> QED
        BY <3>3 DEF last
    <2>5. Sums(f, T, h)
      <3> SUFFICES ASSUME NEW s \in SUBSET T
                   PROVE  h[s] = IF s = {} THEN 0 ELSE f[First(s)] + h[s \ {First(s)}]
        BY DEF Sums
      <3>1. CASE s = T
        BY <2>3, <3>1
      <3>2. CASE s # T /\ s = {}
        <4>1. Sums(f, s, of(s)) /\ total[s] = of(s)[s] /\ of(s)[s] = 0
          BY <2>1, <3>2 DEF Sums
        <4> QED
          BY <3>2, <4>1
      <3>3. CASE s # T /\ s # {}
        <4>1. h[s] = total[s] /\ h[s \ {First(s)}] = total[s \ {First(s)}]
          BY <3>3
        <4> QED
          BY <2>2, <3>3, <4>1
      <3> QED
        BY <3>1, <3>2, <3>3
    <2> HIDE DEF h
    <2> QED
      BY <2>4, <2>5
  <1> HIDE DEF G
  <1>2. SUBSET S \subseteq G
    BY <1>1, SubsetInduction
  <1> QED
    BY <1>2 DEF G

\* What the ledger says was spent is a natural number.
LEMMA SpentIsNatural ==
    ASSUME Limits!TypeOK, NEW b
    PROVE  Limits!Spent(b) \in Nat
  <1> DEFINE S == 0 .. x1
             since == IF b = "lifetime" THEN 0 ELSE x1 - Length + 1
             f == [t \in S |-> IF t >= since THEN x3[t] ELSE 0]
             Equals(g) == g = [s \in SUBSET S |->
                                  IF s = {} THEN 0
                                  ELSE (IF (CHOOSE x \in s : TRUE) >= since
                                        THEN x3[CHOOSE x \in s : TRUE] ELSE 0)
                                       + g[s \ {CHOOSE x \in s : TRUE}]]
             u == CHOOSE g : Equals(g)
  <1>1. x1 \in Nat /\ IsFiniteSet(S)
    BY FS_Interval, PipelineAssumption DEF Limits!TypeOK
  <1>2. f \in [S -> Nat]
    BY PipelineAssumption DEF Limits!TypeOK
  <1>3. PICK g \in [SUBSET S -> Nat] : Sums(f, S, g)
    <2> HIDE DEF S, f
    <2> QED
      BY <1>1, <1>2, SumsExist
  <1>4. \A s \in SUBSET S : s # {} => f[First(s)] = IF (CHOOSE x \in s : TRUE) >= since
                                                  THEN x3[CHOOSE x \in s : TRUE] ELSE 0
    <2> SUFFICES ASSUME NEW s \in SUBSET S, s # {}
                 PROVE  f[First(s)] = IF First(s) >= since THEN x3[First(s)] ELSE 0
      BY DEF First
    <2>1. First(s) \in S
      BY FirstIsIn
    <2> QED
      BY <2>1
  <1> HIDE DEF S, since
  <1>5. Equals(g)
    <2> DEFINE h == [s \in SUBSET S |->
                        IF s = {} THEN 0
                        ELSE (IF (CHOOSE x \in s : TRUE) >= since
                              THEN x3[CHOOSE x \in s : TRUE] ELSE 0)
                             + g[s \ {CHOOSE x \in s : TRUE}]]
    <2>1. \A s \in SUBSET S : h[s] = g[s]
      <3> SUFFICES ASSUME NEW s \in SUBSET S PROVE h[s] = g[s]
        OBVIOUS
      <3> HIDE DEF f
      <3>1. CASE s = {}
        BY <1>3, <3>1 DEF Sums
      <3>2. CASE s # {}
        <4>1. g[s] = f[First(s)] + g[s \ {First(s)}]
          BY <1>3, <3>2 DEF Sums
        <4> QED
          BY <1>4, <3>2, <4>1 DEF First
      <3> QED
        BY <3>1, <3>2
    <2>2. g = [s \in SUBSET S |-> g[s]] /\ h = [s \in SUBSET S |-> h[s]]
      BY <1>3
    <2> HIDE DEF h
    <2>3. g = h
      BY <2>1, <2>2
    <2> QED
      BY <2>3 DEF h
  <1>6. Equals(u)
    <2> HIDE DEF Equals
    <2> QED
      BY <1>5
  <1>7. Sums(f, S, u)
    <2> SUFFICES ASSUME NEW s \in SUBSET S
                 PROVE  u[s] = IF s = {} THEN 0 ELSE f[First(s)] + u[s \ {First(s)}]
      BY DEF Sums
    <2> HIDE DEF u, f
    <2> QED
      BY <1>4, <1>6 DEF First
  <1>8. u[S] = g[S]
    <2> HIDE DEF u, f
    <2>1. S \in SUBSET (S \cap S)
      OBVIOUS
    <2> QED
      BY <1>1, <1>3, <1>7, <2>1, SumsAgree
  <1>9. Limits!Spent(b) = u[S]
    BY DEF Limits!Spent, Limits!MapThenSumSet, Limits!MapThenFoldSet, S, since
  <1> HIDE DEF u
  <1> QED
    BY <1>3, <1>8, <1>9

-----------------------------------------------------------------------------
(* Types.                                                                  *)

\* A request's record is replaced by another.
LEMMA RecordMoves ==
    ASSUME Limits!TypeOK, NEW r \in Caller, NEW q \in Record(Nat), x4' = [x4 EXCEPT ![r] = q]
    PROVE  x4' \in [Caller -> Record(Nat)]
  BY DEF Limits!TypeOK, Record, Awaited

\* What the records of requests are, whatever the next budget is.
LEMMA RequestRecords ==
    ASSUME Limits!TypeOK
    PROVE  /\ Limits!Idle \in Record(Nat)
           /\ \A r \in Caller : x4[r] \in Record(Nat)
           /\ \A r \in Caller, todo \in SUBSET Budget :
                 /\ [x4[r] EXCEPT !.todo = todo, !.pc = "streaming"] \in Record(Nat)
                 /\ [x4[r] EXCEPT !.todo = todo, !.pc = "checking"] \in Record(Nat)
           /\ \A r \in Caller, todo \in SUBSET Budget, cost \in 0 .. MaxCost :
                 /\ [x4[r] EXCEPT !.pc = "charging", !.todo = todo, !.cost = cost] \in Record(Nat)
                 /\ [x4[r] EXCEPT !.pc = "logging", !.todo = todo, !.cost = cost] \in Record(Nat)
  <1>1. \A r \in Caller : x4[r] \in Record(Nat)
    BY DEF Limits!TypeOK, Record, Awaited
  <1>2. MaxCost \in Nat /\ Limits!Idle \in Record(Nat)
    BY LimitsAssumption DEF Limits!Idle, Record, Awaited
  <1>3. ASSUME NEW q \in Record(Nat), NEW todo \in SUBSET Budget, NEW cost \in 0 .. MaxCost
        PROVE  /\ [q EXCEPT !.todo = todo, !.pc = "streaming"] \in Record(Nat)
               /\ [q EXCEPT !.todo = todo, !.pc = "checking"] \in Record(Nat)
               /\ [q EXCEPT !.pc = "charging", !.todo = todo, !.cost = cost] \in Record(Nat)
               /\ [q EXCEPT !.pc = "logging", !.todo = todo, !.cost = cost] \in Record(Nat)
    BY DEF Record, Awaited
  <1>4. \A r \in Caller, todo \in SUBSET Budget :
           /\ [x4[r] EXCEPT !.todo = todo, !.pc = "streaming"] \in Record(Nat)
           /\ [x4[r] EXCEPT !.todo = todo, !.pc = "checking"] \in Record(Nat)
    <2> SUFFICES ASSUME NEW r \in Caller, NEW todo \in SUBSET Budget
                 PROVE  /\ [x4[r] EXCEPT !.todo = todo, !.pc = "streaming"] \in Record(Nat)
                        /\ [x4[r] EXCEPT !.todo = todo, !.pc = "checking"] \in Record(Nat)
      OBVIOUS
    <2>1. x4[r] \in Record(Nat) /\ 0 \in 0 .. MaxCost
      BY <1>1, <1>2
    <2> QED
      BY <2>1, <1>3
  <1>5. \A r \in Caller, todo \in SUBSET Budget, cost \in 0 .. MaxCost :
           /\ [x4[r] EXCEPT !.pc = "charging", !.todo = todo, !.cost = cost] \in Record(Nat)
           /\ [x4[r] EXCEPT !.pc = "logging", !.todo = todo, !.cost = cost] \in Record(Nat)
    BY <1>1, <1>3
  <1> QED
    BY <1>1, <1>2, <1>4, <1>5

\* A decision, or a charge, leaves a record of a request.
LEMMA DecisionRecords ==
    ASSUME Limits!TypeOK, NEW r \in Caller, NEW b, NEW used, Limits!Decide(r, b, used)
    PROVE  x4' \in [Caller -> Record(Nat)]
  <1> DEFINE todo == x4[r].todo \ {b}
             at == IF todo = {} THEN "streaming" ELSE "checking"
             q == IF Limits!Exceeded(used) THEN Limits!Idle
                  ELSE [x4[r] EXCEPT !.todo = todo, !.pc = at]
  <1>1. x4[r].todo \in SUBSET Budget
    BY DEF Limits!TypeOK
  <1>2. todo \in SUBSET Budget
    BY <1>1
  <1>3. q \in Record(Nat)
    <2> HIDE DEF todo
    <2> QED
      BY <1>2, RequestRecords
  <1>4. x4' = [x4 EXCEPT ![r] = q]
    BY DEF Limits!Decide
  <1> HIDE DEF q
  <1> QED
    BY <1>3, <1>4, RecordMoves

LEMMA ChargeRecords ==
    ASSUME Limits!TypeOK, NEW r \in Caller, NEW todo \in SUBSET Budget,
           NEW cost \in 0 .. MaxCost, Limits!Charged(r, todo, cost)
    PROVE  x4' \in [Caller -> Record(Nat)]
  <1> DEFINE q == IF todo # {} THEN [x4[r] EXCEPT !.pc = "charging", !.todo = todo, !.cost = cost]
                  ELSE IF Ledger THEN [x4[r] EXCEPT !.pc = "logging", !.todo = {}, !.cost = cost]
                  ELSE Limits!Idle
  <1>1. q \in Record(Nat)
    BY RequestRecords
  <1>2. x4' = [x4 EXCEPT ![r] = q]
    BY DEF Limits!Charged
  <1> HIDE DEF q
  <1> QED
    BY <1>1, <1>2, RecordMoves

\* A step with its parts in their types.
LEMMA LimitsTyped ==
    ASSUME x1' \in 0 .. MaxTime + 1, x2' \in [Limits!Counter -> [value : Nat, until : 0 .. MaxTime + 1 + Length]],
           x3' \in [0 .. MaxTime + 1 -> Nat], x4' \in [Caller -> Record(Nat)],
           x5' \in 0 .. MaxFaults + 1
    PROVE  Limits!TypeOK'
  BY DEF Limits!TypeOK, Record, Awaited

\* A counter that is incremented ends within a window's length.
LEMMA CounterMoves ==
    ASSUME Limits!TypeOK, NEW c \in Limits!Counter, NEW n \in Nat
    PROVE  Limits!Incremented(c, n) \in [value : Nat, until : 0 .. MaxTime + 1 + Length]
  <1>1. /\ x2[c].value \in Nat /\ x2[c].until \in 0 .. MaxTime + 1 + Length
        /\ x1 \in 0 .. MaxTime + 1 /\ MaxTime \in Nat /\ Length \in Nat
    BY LimitsAssumption, PipelineAssumption DEF Limits!TypeOK
  <1>2. Limits!Value(c) \in Nat
    BY <1>1 DEF Limits!Value
  <1> QED
    BY <1>1, <1>2 DEF Limits!Incremented

LEMMA LimitsTypesNext == Limits!TypeOK /\ Limits!Next => Limits!TypeOK'
  <1> SUFFICES ASSUME Limits!TypeOK, Limits!Next PROVE Limits!TypeOK'
    OBVIOUS
  <1> DEFINE counters == [Limits!Counter -> [value : Nat, until : 0 .. MaxTime + 1 + Length]]
  <1>1. /\ x1 \in 0 .. MaxTime + 1 /\ x2 \in counters /\ x3 \in [0 .. MaxTime + 1 -> Nat]
        /\ x4 \in [Caller -> Record(Nat)] /\ x5 \in 0 .. MaxFaults + 1
    BY DEF Limits!TypeOK, Record, Awaited
  <1>2. MaxTime \in Nat /\ MaxFaults \in Nat /\ Length \in Nat
    BY LimitsAssumption, PipelineAssumption
  <1>3. ASSUME NEW failed \in 0 .. 2, x5 + failed <= MaxFaults + 1
        PROVE  x5 + failed \in 0 .. MaxFaults + 1
    BY <1>1, <1>2, <1>3
  <1>4. ASSUME NEW r \in Caller, Limits!Arrive(r) PROVE Limits!TypeOK'
    <2>1. PICK failed \in 0 .. 1 :
             /\ x5 + failed <= MaxFaults + 1 /\ x5' = x5 + failed
             /\ x4' = [x4 EXCEPT ![r] =
                   [pc |-> IF Budget = {} THEN "streaming" ELSE "checking", todo |-> Budget,
                    cost |-> 0, total |-> IF failed = 1 THEN 0 ELSE Limits!Spent("lifetime")]]
             /\ x1' = x1 /\ x2' = x2 /\ x3' = x3
      BY <1>4 DEF Limits!Arrive, Limits!MayFail
    <2> DEFINE q == [pc |-> IF Budget = {} THEN "streaming" ELSE "checking", todo |-> Budget,
                     cost |-> 0, total |-> IF failed = 1 THEN 0 ELSE Limits!Spent("lifetime")]
    <2>2. q \in Record(Nat)
      BY SpentIsNatural, LimitsAssumption DEF Record, Awaited
    <2>3. x4' = [x4 EXCEPT ![r] = q]
      BY <2>1
    <2> HIDE DEF q
    <2>4. x4' \in [Caller -> Record(Nat)]
      BY <2>2, <2>3, RecordMoves
    <2> QED
      BY <1>1, <1>3, <2>1, <2>4, LimitsTyped
  <1>5. ASSUME NEW r \in Caller, Limits!CheckLifetime(r) PROVE Limits!TypeOK'
    BY <1>1, <1>5, DecisionRecords, LimitsTyped DEF Limits!CheckLifetime
  <1>6. ASSUME NEW r \in Caller, NEW b, Limits!Check(r, b) PROVE Limits!TypeOK'
    <2>1. PICK failed \in 0 .. 1 :
             /\ x5 + failed <= MaxFaults + 1 /\ x5' = x5 + failed
             /\ \E used : Limits!Decide(r, b, used)
             /\ x1' = x1 /\ x2' = x2 /\ x3' = x3
      BY <1>6 DEF Limits!Check, Limits!MayFail
    <2>2. PICK used : Limits!Decide(r, b, used)
      BY <2>1
    <2> QED
      BY <1>1, <1>3, <2>1, <2>2, DecisionRecords, LimitsTyped
  <1>7. ASSUME NEW r \in Caller, NEW b, Limits!CheckBlind(r, b) PROVE Limits!TypeOK'
    <2>1. /\ x5 + 2 <= MaxFaults + 1 /\ x5' = x5 + 2 /\ x1' = x1 /\ x2' = x2 /\ x3' = x3
          /\ x4' = [x4 EXCEPT ![r] = Limits!Idle] \/ Limits!Decide(r, b, 0)
      BY <1>7 DEF Limits!CheckBlind
    <2>2. x4' \in [Caller -> Record(Nat)]
      BY <2>1, RequestRecords, RecordMoves, DecisionRecords
    <2> QED
      BY <1>1, <1>3, <2>1, <2>2, LimitsTyped
  <1>8. ASSUME NEW r \in Caller, NEW w \in Limits!Window, Limits!Charge(r, w)
        PROVE  Limits!TypeOK'
    <2>1. PICK failed \in 0 .. 1 :
             /\ x5 + failed <= MaxFaults + 1 /\ x5' = x5 + failed
             /\ x2' = [x2 EXCEPT ![w] =
                         IF failed = 1 THEN @ ELSE Limits!Incremented(w, x4[r].cost)]
             /\ Limits!Charged(r, x4[r].todo \ {w}, x4[r].cost)
             /\ x1' = x1 /\ x3' = x3
      BY <1>8 DEF Limits!Charge, Limits!MayFail
    <2>2. x4[r].cost \in 0 .. MaxCost /\ x4[r].cost \in Nat /\ x4[r].todo \ {w} \in SUBSET Budget
      BY <1>1, LimitsAssumption DEF Record
    <2>3. x4' \in [Caller -> Record(Nat)]
      BY <2>1, <2>2, ChargeRecords
    <2>4. x2' \in counters
      <3>1. Limits!Incremented(w, x4[r].cost) \in [value : Nat, until : 0 .. MaxTime + 1 + Length]
        BY <2>2, CounterMoves, WindowIsCounter
      <3> QED
        BY <1>1, <2>1, <3>1
    <2> QED
      BY <1>1, <1>3, <2>1, <2>3, <2>4, LimitsTyped
  <1>9. ASSUME NEW r \in Caller, Limits!StreamEnds(r) PROVE Limits!TypeOK'
    <2>1. Limits!Window \in SUBSET Budget
      BY DEF Limits!Window
    <2>2. x4' \in [Caller -> Record(Nat)]
      BY <1>9, <2>1, ChargeRecords DEF Limits!StreamEnds
    <2> QED
      BY <1>1, <1>9, <2>2, LimitsTyped DEF Limits!StreamEnds
  <1>10. ASSUME NEW r \in Caller, Limits!LogUsage(r) PROVE Limits!TypeOK'
    <2>1. PICK failed \in 0 .. 1 :
             /\ x5 + failed <= MaxFaults + 1 /\ x5' = x5 + failed
             /\ x3' = [x3 EXCEPT ![x1] = IF failed = 1 THEN @ ELSE @ + x4[r].cost]
             /\ x4' = [x4 EXCEPT ![r] = Limits!Idle]
             /\ x1' = x1 /\ x2' = x2
      BY <1>10 DEF Limits!LogUsage, Limits!MayFail
    <2>2. x4' \in [Caller -> Record(Nat)]
      BY <2>1, RequestRecords, RecordMoves
    <2>3. x3' \in [0 .. MaxTime + 1 -> Nat]
      <3>1. x3[x1] \in Nat /\ x4[r].cost \in Nat
        BY <1>1, LimitsAssumption DEF Record
      <3>2. x3[x1] + x4[r].cost \in Nat
        BY <3>1
      <3> QED
        BY <1>1, <2>1, <3>2
    <2> QED
      BY <1>1, <1>3, <2>1, <2>2, <2>3, LimitsTyped
  <1>11. ASSUME NEW r \in Caller, Limits!Leave(r) PROVE Limits!TypeOK'
    BY <1>1, <1>11, RequestRecords, RecordMoves, LimitsTyped DEF Limits!Leave
  <1>12. CASE Limits!OAuthCall
    <2>1. x2' \in counters
      <3>1. "oauth" \in Limits!Counter /\ 1 \in Nat
        BY DEF Limits!Counter
      <3>2. Limits!Incremented("oauth", 1) \in [value : Nat, until : 0 .. MaxTime + 1 + Length]
        BY <3>1, CounterMoves
      <3> QED
        BY <1>1, <1>12, <3>2 DEF Limits!OAuthCall
    <2> QED
      BY <1>1, <1>12, <2>1, LimitsTyped DEF Limits!OAuthCall
  <1>13. CASE Limits!Tick
    <2>1. x1' \in 0 .. MaxTime + 1
      BY <1>1, <1>2, <1>13 DEF Limits!Tick
    <2> QED
      BY <1>1, <1>13, <2>1, LimitsTyped DEF Limits!Tick
  <1> QED
    BY <1>4, <1>5, <1>6, <1>7, <1>8, <1>9, <1>10, <1>11, <1>12, <1>13 DEF Limits!Next

LimitsTypesHold == part = "limits" => Limits!TypeOK

LEMMA LimitsTypes == MCSpec => []LimitsTypesHold
  <1>1. Limits!Init => Limits!TypeOK
    <2>1. 0 \in 0 .. MaxTime + 1 /\ 0 \in 0 .. MaxFaults + 1 /\ 0 \in 0 .. MaxCost
          /\ 0 \in 0 .. MaxTime + 1 + Length
      BY LimitsAssumption, PipelineAssumption
    <2> QED
      BY <2>1 DEF Limits!Init, Limits!TypeOK, Limits!Idle
  <1>2. MCInit => LimitsTypesHold
    BY <1>1 DEF MCInit, LimitsTypesHold
  <1>3. Limits!TypeOK /\ UNCHANGED others => Limits!TypeOK'
    BY DEF others, Limits!TypeOK
  <1>4. LimitsTypesHold /\ [MCNext]_<<part, vars, others>> => LimitsTypesHold'
    BY <1>3, LimitsTypesNext DEF MCNext, LimitsTypesHold
  <1> QED
    BY <1>2, <1>4, PTL DEF MCSpec

\* In every part the variables have their types: receipts, grants and permits,
\* what a request has passed, counters, ledger and the totals read from it.
THEOREM TypesAreRight == MCSpec => []TypesOK
  <1>1. MCInit => Inv
    BY InitInv DEF MCInit
  <1>2. Inv /\ [MCNext]_<<part, vars, others>> => Inv'
    <2>1. [MCNext]_<<part, vars, others>> => [Next]_vars
      BY DEF MCNext
    <2> QED
      BY <2>1, StepInv
  <1>3. Inv /\ PipelineHolds /\ LimitsTypesHold => TypesOK
    BY DEF Inv, PipelineHolds, Pipeline!PipelineInv, LimitsTypesHold, TypesOK
  <1> QED
    BY <1>1, <1>2, <1>3, PipelineInvariant, LimitsTypes, PTL DEF MCSpec

================================================================================
