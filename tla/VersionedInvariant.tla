-------------------------- MODULE VersionedInvariant --------------------------
(***************************************************************************)
(* The inductive invariants behind the properties of                       *)
(* VersionedSessionCache.                                                  *)
(***************************************************************************)
EXTENDS VersionedSessionCache

\* Who is flushed by hand is the process that the requests are in.
FlushesAtHome == \A p \in Process : StartFlush(p) => \A r \in Request : home[r] = p

Storing  == {"enter", "epoch", "adopt"}
Writing  == {"publish", "published"}
Found(r) == job[r].phase # "put" /\ job[r].entry # NoEntry

Publishing(p) == task[p].at # "idle" /\ task[p].aim # ByForce

-----------------------------------------------------------------------------
(* Nothing is tagged with an epoch or dated by an account yet to come.     *)

EpochsArePast ==
    /\ l2.epoch <= fence.epoch
    /\ \A p \in Process :
          /\ l1[p].epoch <= fence.epoch
          /\ epoch[p] <= fence.epoch /\ task[p].epoch <= fence.epoch
    /\ \A r \in Request :
          job[r].epoch <= fence.epoch /\ job[r].entry.epoch <= fence.epoch

AccountsArePast ==
    /\ \A c \in 0 .. MaxRev : committed[c] <= account
    /\ \A e \in 0 .. fence.epoch : floors[e] <= account
    /\ \A p \in Process : task[p].cause <= account
    /\ flushed <= account

\* Verified identities are of an account; the entry in hand is one.
HandOf(r) ==
    /\ job[r].phase = "put" => job[r].entry.identity \in Nat
    /\ pc[r] \in Writing => job[r].phase = "put"
    /\ pc[r] \in {"local", "load", "loaded", "authenticate", "served"} => job[r].phase # "put"
    /\ pc[r] \in {"attest", "attested", "served"} /\ job[r].phase # "put" =>
          job[r].entry # NoEntry
    /\ pc[r] \in {"attest", "attested"} /\ job[r].phase # "put" =>
          job[r].entry.epoch = job[r].epoch

InHand == \A r \in Request : HandOf(r)

TypeInv == TypeOK /\ InHand /\ durable <= MaxRev

PastInv == EpochsArePast /\ AccountsArePast

-----------------------------------------------------------------------------
(* DeniedIsNotServed: Redis confirms an entry only to a request that       *)
(* expects the fence of now.                                               *)

DeniedOf(r) ==
    /\ job[r].known <= fence.water
    /\ pc[r] = "attested" /\ job[r].reply => job[r].known <= job[r].expected
    /\ pc[r] = "served" => ~(denied # 0 /\ denied <= job[r].known)

DeniedInv == \A r \in Request : DeniedOf(r)

-----------------------------------------------------------------------------
(* EpochFencesIdentities.                                                  *)

\* An identity may carry the epoch.
May(identity, e) == identity >= floors[e]

EntrySound(entry) == entry # NoEntry => May(entry.identity, entry.epoch)

RequestSound(r) ==
    /\ job[r].phase # "put" => EntrySound(job[r].entry)
    /\ job[r].phase = "put" /\ pc[r] \in Writing => May(job[r].entry.identity, job[r].epoch)

EntriesAreSound ==
    /\ EntrySound(l2)
    /\ \A p \in Process : EntrySound(l1[p])
    /\ \A r \in Request : RequestSound(r)

\* What is verified, and not invalidated since, may carry whatever epoch its
\* process takes up before the next invalidation.
MayTakeUp(p, identity) ==
    /\ epoch[p] \in Nat => May(identity, epoch[p])
    /\ task[p].at = "advanced" => May(identity, task[p].epoch)
    /\ task[p].at = "advance" /\ task[p].aim # ByForce =>
          /\ identity >= task[p].cause
          /\ task[p].aim <= fence.rev => May(identity, fence.epoch)

MayAdopt(r) ==
    job[r].phase = "put" /\ pc[r] \in Storing /\ Unmoved(r) =>
        MayTakeUp(home[r], job[r].entry.identity)

VerifiedMayAdopt == \A r \in Request : MayAdopt(r)

\* Publications exclude each other, and without a database there are none.
Publications ==
    /\ \A p, q \in Process : Publishing(p) /\ Publishing(q) => p = q
    /\ ~database => /\ \A p \in Process : ~Publishing(p)
                    /\ \A e \in 0 .. fence.epoch : floors[e] = 0

\* With a database, a process that serves has an epoch.
EpochIsKnown ==
    /\ \A p \in Process : conf[p] # Uninit => epoch[p] # Uninit
    /\ database => \A r \in Request : pc[r] # "idle" => epoch[home[r]] # Uninit

\* A process's count of invalidations only grows while it lives.
GenerationIsPast(r) == pc[r] # "idle" => job[r].generation <= generation[home[r]]

GenerationsArePast == \A r \in Request : GenerationIsPast(r)

EpochInv ==
    /\ EntriesAreSound /\ VerifiedMayAdopt
    /\ Publications /\ EpochIsKnown /\ GenerationsArePast

-----------------------------------------------------------------------------
(* FlushesAllCaches.                                                       *)

\* Not older than any flush that moved the epoch.
Above(identity) ==
    /\ identity >= flushed
    /\ \A p \in Process :
          task[p].aim = ByForce /\ task[p].epoch # 0 => identity >= task[p].cause

\* Entries of the epoch of now are young.
EntryYoung(entry) ==
    entry # NoEntry /\ entry.epoch = fence.epoch => Above(entry.identity)

RequestYoung(r) ==
    /\ job[r].phase # "put" => EntryYoung(job[r].entry)
    /\ job[r].phase = "put" /\ pc[r] \in Writing /\ job[r].epoch = fence.epoch =>
          Above(job[r].entry.identity)

EntriesAreYoung ==
    /\ EntryYoung(l2)
    /\ \A p \in Process : EntryYoung(l1[p])
    /\ \A r \in Request : RequestYoung(r)

\* Not older than any flush.
Recent(identity) ==
    /\ identity >= flushed
    /\ \A p \in Process :
          task[p].at # "idle" /\ task[p].aim = ByForce => identity >= task[p].cause

\* What is verified, and not invalidated since, is younger than any flush.
VerifiedIsYoung ==
    \A r \in Request :
        job[r].phase = "put" /\ pc[r] \in Storing /\ Unmoved(r) =>
            Recent(job[r].entry.identity)

AnswerIsYoung(r) ==
    /\ job[r].flushed <= flushed
    /\ pc[r] = "attested" /\ job[r].reply /\ job[r].phase # "put" =>
          job[r].entry.identity >= job[r].flushed
    /\ pc[r] = "served" => job[r].entry.identity >= job[r].flushed

AnswersAreYoung == \A r \in Request : AnswerIsYoung(r)

\* A task that is over, or has only begun, has moved nothing.
IdleTasks ==
    \A p \in Process : task[p].at \in {"idle", "advance"} => task[p].epoch = 0

FlushInv == EntriesAreYoung /\ VerifiedIsYoung /\ AnswersAreYoung /\ IdleTasks

=============================================================================
