--------------------------- MODULE ChannelInvariant ---------------------------
(* What holds of every state of ChannelAuthority, as the proofs need it. *)
EXTENDS ChannelAuthority

\* A call that runs has a job; the grant it read is not newer than the grant,
\* and the policies are those it took with it.
JobsRun ==
    \A c \in Call :
        /\ pc[c] # "idle" => job[c] \in Job /\ job[c].grant.revision <= grant.revision
        /\ pc[c] \notin {"idle", "grant"} => job[c].policy \in Policy
        /\ pc[c] = "release" => job[c].stage = "release"

\* FOR SHARE: the grant a transaction found is the grant to its end.
GrantIsPinned ==
    \A c \in Call : HoldsGrant(c) => grant = job[c].grant

\* A receipt stays, so what a transaction found of its evaluation is there.
EvaluationIsPinned ==
    \A c \in Call :
        pc[c] \in {"release", "insert", "commit", "answer"} /\ job[c].evaluation # None =>
            /\ receipts["evaluate"][job[c].request.effect] = job[c].evaluation
            /\ job[c].evaluation.request = job[c].request

\* A transaction that inserted has the keys of its receipt to itself.
Inserted(c, s) == pc[c] = "commit" /\ job[c].record /\ job[c].stage = s

InsertsAreUnique ==
    \A c \in Call : \A s \in Stage : Inserted(c, s) =>
        /\ \A f \in Effect : ~Collides(job[c].request, s, receipts[s][f])
        /\ \A d \in Call \ {c} : Inserted(d, s) =>
               /\ job[d].request.effect # job[c].request.effect
               /\ job[d].request.action # job[c].request.action

ReceiptsAreUnique ==
    \A s \in Stage : \A e \in Effect : receipts[s][e] # None =>
        /\ receipts[s][e].request.effect = e
        /\ receipts[s][e].revision <= grant.revision
        /\ \A f \in Effect \ {e} : receipts[s][f] # None =>
               receipts[s][f].request.action # receipts[s][e].request.action

\* What permits is decided on an authority that permits, and recorded; a
\* replayed evaluation has its receipt.
Deciding == {"insert", "commit"}

DecisionsAreAuthorized ==
    \A c \in Call : pc[c] \in Deciding =>
        LET j == job[c] IN
        /\ j.answer \in {"eligible", "released"} =>
              /\ Authorized(j) /\ SameAuthority(j)
              /\ j.answer = Permitting(j.stage)
        /\ j.answer = "released" =>
              j.record /\ j.evaluation # None /\ j.evaluation.disposition = "eligible"
        /\ j.record /\ j.stage = "evaluate" => 
              /\ j.evaluation = None
              /\ Authorized(j) => j.answer = "eligible"
        /\ ~j.record /\ j.stage = "evaluate" => j.evaluation # None
        /\ j.answer = "uncertain" =>
              /\ ~j.record /\ j.stage = "release"
              /\ receipts["release"][j.request.effect] # None
              /\ receipts["release"][j.request.effect].request = j.request
              /\ receipts["release"][j.request.effect].disposition = "released"

\* What an evaluation recorded under the current grant says is what the grant
\* says now.
EvaluationsAreTrue ==
    \A e \in Effect :
        LET r == receipts["evaluate"][e] IN
        r # None /\ r.revision = grant.revision =>
            (r.disposition = "eligible"
             <=> grant.active /\ grant.scope = r.request.scope /\ r.policy \notin Denying)

\* The permit of a release is with the call that recorded it, or delivered.
PermitIsOne ==
    /\ \A e \in Effect :
        /\ permits[e] > 0 => Released(e)
        /\ permits[e] <= 1
    /\ \A c \in Call :
        pc[c] = "answer" /\ job[c].answer = "released" =>
            /\ Released(job[c].request.effect)
            /\ permits[job[c].request.effect] = 0
            /\ \A d \in Call \ {c} :
                   pc[d] = "answer" /\ job[d].answer = "released" =>
                       job[d].request.effect # job[c].request.effect

Inv == /\ TypeOK
       /\ JobsRun
       /\ GrantIsPinned
       /\ EvaluationIsPinned
       /\ InsertsAreUnique
       /\ ReceiptsAreUnique
       /\ DecisionsAreAuthorized
       /\ EvaluationsAreTrue
       /\ PermitIsOne
       /\ AnswersAreRecorded

=============================================================================
