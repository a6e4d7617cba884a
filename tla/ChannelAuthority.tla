--------------------------- MODULE ChannelAuthority ---------------------------
(***************************************************************************)
(* Evaluation and release of channel effects (governed_effect/channel.rs). *)
(*                                                                         *)
(* A caller has an effect evaluated, queues it, and asks for its release   *)
(* before it runs it.  Each call is one Postgres transaction (READ         *)
(* COMMITTED) of some gateway process: it locks the grant FOR SHARE and    *)
(* the receipts of the effect FOR UPDATE, decides under the policies that  *)
(* process has loaded, and inserts the receipt of its stage.  Calls are    *)
(* retried, dropped with their clients and lose their answers; grants and  *)
(* policies change meanwhile.                                              *)
(*                                                                         *)
(* One grant of one issuer.  Its specification, and what of a request is   *)
(* compared with it, is a scope; two requests of an effect differ in scope *)
(* or action, which their digest tells.  A policy set permits all requests *)
(* or none.  What makes a request invalid by itself is left out.           *)
(***************************************************************************)
EXTENDS Integers, FiniteSets

CONSTANTS
    Process,      \* gateway processes
    Call,         \* calls in flight
    Effect,       \* effect_id
    Action,       \* causality.action_id, and the action
    Scope,        \* what a grant is for
    Policy,       \* policy sets, told apart by their digests
    Denying,      \* those that do not permit
    None,
    MaxRevision   \* bound: changes of the grant

VARIABLES
    grant,        \* governed_channel_grants
    receipts,     \* governed_channel_effect_receipts, of either stage
    policy,       \* the policy set each process has loaded
    pc, job,      \* the calls
    permits       \* history: the "released" answers callers received

callVars == <<pc, job>>
vars == <<grant, receipts, policy, callVars, permits>>

Stage   == {"evaluate", "release"}
Request == [effect : Effect, action : Action, scope : Scope]

NoGrant == [revision |-> 0, active |-> FALSE, scope |-> None]
Grant == [revision : Nat \ {0}, active : BOOLEAN, scope : Scope] \cup {NoGrant}

\* The request stands for request_sha256.
Receipt == [request : Request, revision : Nat, policy : Policy,
            disposition : {"eligible", "released", "withheld"}]

ASSUME ChannelAssumption ==
    /\ Denying \subseteq Policy
    /\ None \notin Policy \cup Receipt
    /\ MaxRevision \in Nat

\* A transaction: the grant and the policy set it goes by, the evaluation it
\* has locked, and what it will answer.
Job == [process : Process, stage : Stage, request : Request, grant : Grant,
        policy : Policy \cup {None}, evaluation : Receipt \cup {None},
        record : BOOLEAN,
        answer : {"eligible", "released", "withheld", "uncertain"}]

Awaits == {"idle", "grant", "evaluation", "release", "insert", "commit", "answer"}

TypeOK ==
    /\ grant \in Grant
    /\ receipts \in [Stage -> [Effect -> Receipt \cup {None}]]
    /\ policy \in [Process -> Policy]
    /\ pc \in [Call -> Awaits]
    /\ job \in [Call -> Job \cup {None}]
    /\ permits \in [Effect -> Nat]

Init ==
    /\ grant = NoGrant
    /\ receipts = [s \in Stage |-> [e \in Effect |-> None]]
    /\ policy \in [Process -> Policy]
    /\ pc = [c \in Call |-> "idle"]
    /\ job = [c \in Call |-> None]
    /\ permits = [e \in Effect |-> 0]

-----------------------------------------------------------------------------
(* The locks of a transaction are held to its end.                         *)

\* Variant: the grant is read without FOR SHARE.
HoldsNoGrant(c) == FALSE

HoldsGrant(c) ==
    /\ pc[c] \in {"evaluation", "release", "insert", "commit"}
    /\ job[c].grant # NoGrant

HoldsEvaluation(c, e) ==
    /\ pc[c] \in {"release", "insert", "commit"}
    /\ job[c].request.effect = e
    /\ job[c].evaluation # None

\* A release that found one inserts none.
HoldsRelease(c, e) ==
    /\ pc[c] = "commit"
    /\ job[c].request.effect = e
    /\ job[c].stage = "release" /\ ~job[c].record

Goto(c, await) == pc' = [pc EXCEPT ![c] = await]

\* The transaction is rolled back.
Abort(c) == Goto(c, "idle") /\ job' = [job EXCEPT ![c] = None]

Unchanged == UNCHANGED <<grant, receipts, policy, permits>>

-----------------------------------------------------------------------------
(* decide.                                                                 *)

\* An evaluation or a release of any request, in any process.
Ask(c) ==
    /\ pc[c] = "idle"
    /\ \E p \in Process, s \in Stage, q \in Request :
           job' = [job EXCEPT ![c] =
               [process |-> p, stage |-> s, request |-> q, grant |-> NoGrant,
                policy |-> None, evaluation |-> None,
                record |-> FALSE, answer |-> "withheld"]]
    /\ Goto(c, "grant")
    /\ Unchanged

\* locked_grant, and the policies of now.
LockGrant(c) ==
    /\ pc[c] = "grant"
    /\ job' = [job EXCEPT ![c].grant = grant, ![c].policy = policy[job[c].process]]
    /\ Goto(c, "evaluation")
    /\ Unchanged

\* grant_reason and policy_reason find nothing.
Authorized(j) ==
    /\ j.grant.active
    /\ j.grant.scope = j.request.scope
    /\ j.policy \notin Denying

\* Variant: the revision of the grant is not compared.
SameAuthorityOfPolicies(j) ==
    j.evaluation # None => j.evaluation.policy = j.policy

\* The evaluation was made under the same authority.
SameAuthority(j) ==
    j.evaluation # None =>
        /\ j.evaluation.revision = j.grant.revision
        /\ j.evaluation.policy = j.policy

\* There is a reason to withhold; the policies are looked at once more before
\* a release.
Withheld(j) ==
    \/ ~Authorized(j) \/ ~SameAuthority(j)
    \/ /\ j.stage = "release"
       /\ \/ j.evaluation = None
          \/ j.evaluation.disposition # "eligible"
          \/ policy[j.process] # j.policy

Permitting(stage) == IF stage = "release" THEN "released" ELSE "eligible"

\* Variant: a release that finds its receipt answers as the first one did.
AnsweringAgain(j, release) ==
    IF release # None THEN release.disposition
    ELSE IF Withheld(j) THEN "withheld" ELSE Permitting(j.stage)

Answering(j, release) ==
    IF release # None /\ release.disposition = "released" THEN "uncertain"
    ELSE IF release # None \/ Withheld(j) THEN "withheld"
    ELSE Permitting(j.stage)

\* The rest of the function, up to its next await.  A receipt is inserted
\* unless its stage has one.
Decide(c, j, release) ==
    LET record == release = None /\ (j.stage = "release" \/ j.evaluation = None) IN
    /\ job' = [job EXCEPT ![c] =
          [j EXCEPT !.answer = Answering(j, release), !.record = record]]
    /\ Goto(c, IF record THEN "insert" ELSE "commit")

\* SELECT of the evaluation FOR UPDATE; "channel_effect_identity_collision".
LockEvaluation(c) ==
    LET e == job[c].request.effect
        found == receipts["evaluate"][e]
        j == [job[c] EXCEPT !.evaluation = found]
    IN
    /\ pc[c] = "evaluation"
    /\ \A d \in Call \ {c} : ~HoldsEvaluation(d, e)
    /\ IF found # None /\ found.request # j.request THEN Abort(c)
       ELSE IF j.stage = "evaluate" THEN Decide(c, j, None)
       ELSE job' = [job EXCEPT ![c] = j] /\ Goto(c, "release")
    /\ Unchanged

\* SELECT of the release FOR UPDATE, and the policies once more.
LockRelease(c) ==
    LET e == job[c].request.effect
        found == receipts["release"][e]
    IN
    /\ pc[c] = "release"
    /\ \A d \in Call \ {c} : ~HoldsRelease(d, e)
    /\ IF found # None /\ found.request # job[c].request
          THEN Abort(c)
          ELSE Decide(c, job[c], found)
    /\ Unchanged

\* The unique keys: effect and stage; action and stage.
Collides(q, s, r) == r # None /\ (r.request.effect = q.effect \/ r.request.action = q.action)

\* INSERT ... ON CONFLICT DO NOTHING waits for an insert of the same key that
\* is not committed; one that is committed is a collision.
Insert(c) ==
    LET q == job[c].request
        s == job[c].stage
    IN
    /\ pc[c] = "insert"
    /\ \A d \in Call \ {c} :
           pc[d] = "commit" /\ job[d].record /\ job[d].stage = s =>
               /\ job[d].request.effect # q.effect
               /\ job[d].request.action # q.action
    /\ IF \E f \in Effect : Collides(q, s, receipts[s][f])
          THEN Abort(c)
          ELSE Goto(c, "commit") /\ UNCHANGED job
    /\ Unchanged

Recorded(j) == [request |-> j.request, revision |-> j.grant.revision,
                policy |-> j.policy, disposition |-> j.answer]

Commit(c) ==
    LET j == job[c] IN
    /\ pc[c] = "commit"
    /\ receipts' = IF j.record
                      THEN [receipts EXCEPT ![j.stage][j.request.effect] = Recorded(j)]
                      ELSE receipts
    /\ Goto(c, "answer")
    /\ UNCHANGED <<grant, policy, job, permits>>

\* The answer reaches the caller.
Answer(c) ==
    /\ pc[c] = "answer"
    /\ permits' = IF job[c].answer = "released"
                     THEN [permits EXCEPT ![job[c].request.effect] = @ + 1]
                     ELSE permits
    /\ Abort(c)
    /\ UNCHANGED <<grant, receipts, policy>>

\* A query fails, the commit fails, the process dies, the client leaves; or the
\* answer is lost.
Drop(c) ==
    /\ pc[c] # "idle"
    /\ Abort(c)
    /\ Unchanged

-----------------------------------------------------------------------------
(* Grants and policies.                                                    *)

\* Both statements take the row FOR UPDATE.
ChangeGrant(new) ==
    /\ \A c \in Call : ~HoldsGrant(c)
    /\ grant.revision < MaxRevision
    /\ grant' = [new EXCEPT !.revision = grant.revision + 1]
    /\ UNCHANGED <<receipts, policy, callVars, permits>>

\* put_grant of an administrator who knows the revision.
PutGrant ==
    \E s \in Scope : ChangeGrant([revision |-> 0, active |-> TRUE, scope |-> s])

\* Variant: a revocation of what was never granted.
RevokeAnything == ChangeGrant([grant EXCEPT !.active = FALSE])

\* revoke_grant, of a revoked grant too.
RevokeGrant == grant # NoGrant /\ ChangeGrant([grant EXCEPT !.active = FALSE])

\* The process publishes another configuration, or one it has had before.
Reload(p) ==
    /\ \E v \in Policy \ {policy[p]} : policy' = [policy EXCEPT ![p] = v]
    /\ UNCHANGED <<grant, receipts, callVars, permits>>

-----------------------------------------------------------------------------

Step(c) ==
    \/ LockGrant(c) \/ LockEvaluation(c) \/ LockRelease(c) \/ Insert(c)
    \/ Commit(c) \/ Answer(c)

Next ==
    \/ \E c \in Call : Ask(c) \/ Step(c) \/ Drop(c)
    \/ PutGrant \/ RevokeGrant
    \/ \E p \in Process : Reload(p)

Spec == Init /\ [][Next]_vars

-----------------------------------------------------------------------------
(* Properties.                                                             *)

\* "does not issue a second release permit": whatever calls race, are retried
\* or lose their answers, an effect is released or spent once, and one caller
\* at most is told "released".
Releasing ==
    [e \in Effect |->
        IF receipts["release"][e] = None THEN "open"
        ELSE IF receipts["release"][e].disposition # "released" THEN "spent"
        ELSE IF permits[e] = 0 THEN "permitted"
        ELSE IF permits[e] = 1 THEN "delivered" ELSE "delivered again"]

Register == INSTANCE OneShotPermit WITH state <- Releasing
ReleasedOnce == Register!Spec

\* When a release is recorded, the grant is still the one its evaluation went
\* by, active and for this request, and the evaluation of this very request was
\* eligible: neither a revocation nor a change gets between the check and the
\* commit.
Released(e) == receipts["release"][e] # None
               /\ receipts["release"][e].disposition = "released"

ReleasedUnderGrant ==
    [][\A e \in Effect :
          ~Released(e) /\ Released(e)' =>
              LET r == receipts'["release"][e]
                  ev == receipts["evaluate"][e]
              IN  /\ grant.active /\ grant.scope = r.request.scope
                  /\ ev # None /\ ev.request = r.request
                  /\ ev.disposition = "eligible"
                  /\ ev.revision = grant.revision
                  /\ ev.policy = r.policy /\ r.policy \notin Denying]_vars

\* An answer is what the receipts say, though evaluations are answered again
\* without being recorded: "eligible" and "released" of a receipt of the same
\* request that says so, "uncertain" of one that says "released".
AnswersAreRecorded ==
    \A c \in Call :
        pc[c] = "answer" =>
            LET j == job[c]
                r == receipts[j.stage][j.request.effect]
            IN  /\ j.answer \in {"eligible", "released"} =>
                       r # None /\ r.request = j.request /\ r.disposition = j.answer
                /\ j.answer = "uncertain" =>
                       r # None /\ r.request = j.request /\ r.disposition = "released"

\* An action is released under one effect_id only.
ReleasedOncePerAction ==
    \A e, f \in Effect :
        Released(e) /\ Released(f)
        /\ receipts["release"][e].request.action = receipts["release"][f].request.action
            => e = f

=============================================================================
