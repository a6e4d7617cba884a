---------------------------- MODULE GovernedEffects ----------------------------
(***************************************************************************)
(* Effects that policies let through only after a human approved them      *)
(* (governed_effect/mod.rs, postgres.rs and the handlers of admin/mod.rs). *)
(*                                                                         *)
(* A caller has an effect evaluated and may be answered a challenge, whose *)
(* id is a hash of what is asked, of the policies and of the owner who     *)
(* asks; administrators decide it; the caller asks again, with the         *)
(* challenge, and is permitted or denied.  Calls interleave between the    *)
(* capture of the policies, the store, and the look at the clock.          *)
(*                                                                         *)
(* A request is an effect and the end of the lease and budget it shows;    *)
(* everything else it holds is what its digest tells apart, so another     *)
(* value of it is another effect.  Of the reasons that make a request      *)
(* invalid, the dates are modelled, the rest is Malformed.  Hashes do not  *)
(* collide.  A policy set denies, allows or challenges all requests.       *)
(***************************************************************************)
EXTENDS Integers, FiniteSets

CONSTANTS
    Process,     \* gateway processes
    Call,        \* calls in flight
    Effect,      \* effect_id, with all that the request says of it
    Malformed,   \* effects whose requests are invalid whatever the date
    Lease,       \* ends of leases and budgets
    Owner,       \* identities that ask and decide
    Unattested,  \* those of API keys, or of no issuer
    Policy,      \* policy sets, told apart by their digests
    Denying, Allowing,
    Database,    \* where durable challenges are
    None,
    Ttl,         \* challenge_ttl
    MaxTime, MaxFaults    \* bounds

VARIABLES
    backend,     \* approval.backend
    now,
    policy,      \* the policy set each process has loaded
    challenges,  \* records of a store, by challenge_id
    pc, job,     \* the calls
    faults,
    told,        \* history: challenges that were answered
    decisions,   \* history: decisions that were taken
    permits      \* history: permits that rest on a challenge

callVars == <<pc, job>>
history  == <<told, decisions, permits>>
vars == <<backend, now, policy, challenges, callVars, faults, history>>

Request  == [effect : Effect, lease : Lease]
\* The digest of the canonical request, the policies, the owner: AuthorityBinding.
Binding  == [request : Request, policy : Policy, owner : Owner]

\* The digest that makes a challenge_id.
ChallengeId(binding) ==
    [request |-> binding.request, policy |-> binding.policy, owner |-> binding.owner]

Record == [binding : Binding, expires : Nat, decision : {"none", "approve", "deny"}]
Place  == Process \cup {Database}
StoreOf(p) == IF backend = "postgres" THEN Database ELSE p

Job == [process : Process, binding : Binding, id : Binding, expires : Nat,
        record : Record \cup {None}]

ASSUME EffectsAssumption ==
    /\ Database \notin Process
    /\ Lease \subseteq Nat
    /\ None \notin Record \cup Binding \cup Job
    /\ None \notin [deadline : Nat, decision : {"none", "approve", "deny"}]
    /\ Ttl \in Nat /\ MaxTime \in Nat /\ MaxFaults \in Nat

TypeOK ==
    /\ backend \in {"postgres", "memory"}
    /\ now \in Nat
    /\ policy \in [Process -> Policy]
    /\ challenges \in [Place -> [Binding -> Record \cup {None}]]
    /\ pc \in [Call -> {"idle", "register", "compare", "load", "check"}]
    /\ job \in [Call -> Job \cup {None}]
    /\ \A c \in Call : pc[c] # "idle" => job[c] # None
    /\ faults \in 0..MaxFaults
    /\ told \subseteq Binding
    /\ decisions \subseteq [place : Place, binding : Binding, decision : {"approve", "deny"},
                            at : Nat, expires : Nat]
    /\ permits \subseteq [place : Place, id : Binding, binding : Binding, at : Nat]

Init ==
    /\ backend \in {"postgres", "memory"}
    /\ now = 0
    /\ policy \in [Process -> Policy]
    /\ challenges = [place \in Place |-> [id \in Binding |-> None]]
    /\ pc = [c \in Call |-> "idle"] /\ job = [c \in Call |-> None]
    /\ faults = 0
    /\ told = {} /\ decisions = {} /\ permits = {}

----------------------------------------------------------------------------

Valid(request) == request.effect \notin Malformed /\ now < request.lease

\* cedar_decision
Requires(p) == p \notin Denying \cup Allowing

Go(c, to) == pc' = [pc EXCEPT ![c] = to]
End(c) == Go(c, "idle") /\ job' = [job EXCEPT ![c] = None]

Trusted(owner) == owner \notin Unattested

\* What both calls begin with: the pinned policies, the binding, the checks of
\* the request.
Begin(c, to, p, b, id) ==
    /\ pc[c] = "idle"
    /\ b.policy = policy[p]
    /\ Valid(b.request)
    /\ Go(c, to)
    /\ job' = [job EXCEPT ![c] = [process |-> p, binding |-> b, id |-> id,
                                  expires |-> now + Ttl, record |-> None]]
    /\ UNCHANGED <<backend, now, policy, challenges, faults, history>>

\* evaluate, up to the store.  It denies or permits by itself what the policies
\* deny or allow.
Evaluate(c, p, b) == Requires(b.policy) /\ Begin(c, "register", p, b, ChallengeId(b))

EvaluateHandler(c) ==
    \E p \in Process, b \in Binding : Trusted(b.owner) /\ Evaluate(c, p, b)

\* revalidate, up to the store.
RevalidateHandler(c) ==
    \E p \in Process, b \in Binding, id \in told :
        Trusted(b.owner) /\ Begin(c, "load", p, b, id)

Stored(c) == challenges[StoreOf(job[c].process)][job[c].id]

\* The answer to evaluate may be lost on its way.
AnswerChallenge(c) ==
    /\ \/ told' = told \cup {job[c].id} /\ UNCHANGED faults
       \/ faults < MaxFaults /\ faults' = faults + 1 /\ UNCHANGED told
    /\ End(c)
    /\ UNCHANGED <<decisions, permits>>

\* Variant: a retry renews the challenge (ON CONFLICT DO UPDATE).
RegisterRenewing(c) ==
    /\ pc[c] = "register"
    /\ challenges' = [challenges EXCEPT ![StoreOf(job[c].process)][job[c].id] =
           [binding |-> job[c].binding, expires |-> job[c].expires,
            decision |-> "none"]]
    /\ AnswerChallenge(c)
    /\ UNCHANGED <<backend, now, policy>>

\* ChallengeStore::register inserts, ...
Register(c) ==
    /\ pc[c] = "register" /\ Stored(c) = None
    /\ challenges' = [challenges EXCEPT ![StoreOf(job[c].process)][job[c].id] =
           [binding |-> job[c].binding, expires |-> job[c].expires,
            decision |-> "none"]]
    /\ AnswerChallenge(c)
    /\ UNCHANGED <<backend, now, policy>>

\* ... or leaves what it finds.  Postgres reads it again to compare.
RegisterConflict(c) ==
    /\ pc[c] = "register" /\ Stored(c) # None
    /\ Go(c, "compare")
    /\ UNCHANGED <<backend, now, policy, challenges, job, faults, history>>

Compare(c) ==
    /\ pc[c] = "compare"
    /\ \/ /\ Stored(c) # None /\ Stored(c).binding = job[c].binding
          /\ AnswerChallenge(c)
       \/ /\ Stored(c) = None \/ Stored(c).binding # job[c].binding
          /\ End(c) /\ UNCHANGED <<faults, history>>
    /\ UNCHANGED <<backend, now, policy, challenges>>

Load(c) ==
    /\ pc[c] = "load"
    /\ \/ /\ Stored(c) # None
          /\ Go(c, "check") /\ job' = [job EXCEPT ![c].record = Stored(c)]
       \/ Stored(c) = None /\ End(c)
    /\ UNCHANGED <<backend, now, policy, challenges, faults, history>>

\* Variant: the binding of the challenge is not compared with the request's.
PermittedUnbound(j) == now < j.record.expires /\ j.record.decision = "approve"

\* The checks of revalidate on the record it loaded, with the clock of now and
\* the policies of its beginning.
Permitted(j) ==
    /\ j.record.binding = j.binding
    /\ now < j.record.expires
    /\ j.record.decision = "approve"
    /\ j.binding.policy \notin Denying

Check(c) ==
    /\ pc[c] = "check"
    /\ permits' = IF Permitted(job[c])
                  THEN permits \cup {[place |-> StoreOf(job[c].process), id |-> job[c].id,
                                      binding |-> job[c].binding, at |-> now]}
                  ELSE permits
    /\ End(c)
    /\ UNCHANGED <<backend, now, policy, challenges, faults, told, decisions>>

Open(record) == record # None /\ record.decision = "none" /\ now < record.expires

\* decide: one update, of a challenge that is open.
Decide(place, id) ==
    /\ Open(challenges[place][id])
    /\ \E decision \in {"approve", "deny"} :
        /\ challenges' = [challenges EXCEPT ![place][id].decision = decision]
        /\ decisions' = decisions \cup
               {[place |-> place, binding |-> challenges[place][id].binding,
                 decision |-> decision, at |-> now,
                 expires |-> challenges[place][id].expires]}
    /\ UNCHANGED <<backend, now, policy, callVars, faults, told, permits>>

DecideHandler(p, id) == \E owner \in Owner : Trusted(owner) /\ Decide(StoreOf(p), id)

----------------------------------------------------------------------------

\* The engine of a process installs another policy set.
ReloadPolicies(p) ==
    /\ \E other \in Policy \ {policy[p]} : policy' = [policy EXCEPT ![p] = other]
    /\ UNCHANGED <<backend, now, challenges, callVars, faults, history>>

\* A call fails in the store, or goes with its client.
Drop(c) ==
    /\ pc[c] # "idle" /\ faults < MaxFaults
    /\ faults' = faults + 1
    /\ End(c)
    /\ UNCHANGED <<backend, now, policy, challenges, history>>

\* A process starts again: its memory is lost, and the policies are loaded anew.
Restart(p) ==
    LET lost == {c \in Call : pc[c] # "idle" /\ job[c].process = p} IN
    /\ faults < MaxFaults
    /\ faults' = faults + 1
    /\ pc' = [c \in Call |-> IF c \in lost THEN "idle" ELSE pc[c]]
    /\ job' = [c \in Call |-> IF c \in lost THEN None ELSE job[c]]
    /\ challenges' = [challenges EXCEPT ![p] = [id \in Binding |-> None]]
    /\ UNCHANGED <<backend, now, policy, history>>

Tick == now < MaxTime /\ now' = now + 1
        /\ UNCHANGED <<backend, policy, challenges, callVars, faults, history>>

Step(c) ==
    \/ EvaluateHandler(c) \/ RevalidateHandler(c) \/ Register(c) \/ RegisterConflict(c)
    \/ Compare(c) \/ Load(c) \/ Check(c) \/ Drop(c)

Next ==
    \/ \E c \in Call : Step(c)
    \/ \E p \in Process, id \in Binding : DecideHandler(p, id)
    \/ \E p \in Process : ReloadPolicies(p) \/ Restart(p)
    \/ Tick

Spec == Init /\ [][Next]_vars

----------------------------------------------------------------------------

\* revalidate permits an effect only if an administrator approved it: this very
\* request, for this owner, under these policies, at a time when the challenge
\* was open, and before the deadline of that approval.  The record may have been
\* loaded long before, and policies, decisions and the deadline move meanwhile.
PermitsAreApproved ==
    \A permit \in permits : \E d \in decisions :
        /\ d.place = permit.place /\ d.binding = permit.binding
        /\ d.decision = "approve"
        /\ d.at <= permit.at /\ permit.at < d.expires

\* A caller that was answered a challenge by a durable store will find it there.
ToldIsStored ==
    backend = "postgres" => \A id \in told : challenges[Database][id] # None

\* Whatever retries, races and restarts do, a challenge keeps its deadline and
\* its first decision, and what is permitted is open and approved.
Register1 == INSTANCE ChallengeRegister WITH
    Challenge <- Place \X Binding, Volatile <- Process \X Binding, Absent <- None, clock <- now,
    register <- [c \in Place \X Binding |->
        IF challenges[c[1]][c[2]] = None THEN None
        ELSE [deadline |-> challenges[c[1]][c[2]].expires,
              decision |-> challenges[c[1]][c[2]].decision]],
    permitted <- {<<permit.place, permit.id>> : permit \in permits}

ImplementsRegister == Register1!Spec

----------------------------------------------------------------------------
(* Why: what calls carry agrees with what is stored.                       *)

\* A challenge is stored under the id of its binding ...
StoredUnderId ==
    \A place \in Place, id \in Binding :
        challenges[place][id] # None => ChallengeId(challenges[place][id].binding) = id

\* ... as a call that is about to store it has it.
CallsCarryIds ==
    \A c \in Call : pc[c] \in {"register", "compare"} =>
        job[c].id = ChallengeId(job[c].binding)

\* An approval in a store is one that an administrator gave while it was open.
ApprovedIsDecided ==
    \A place \in Place, id \in Binding :
        LET r == challenges[place][id] IN
        r # None /\ r.decision = "approve" =>
            \E d \in decisions :
                /\ d.place = place /\ d.binding = r.binding
                /\ d.decision = "approve" /\ d.expires = r.expires
                /\ d.at <= now

\* What a call has loaded is still stored, but for a decision taken meanwhile.
LoadedIsStored ==
    \A c \in Call : pc[c] = "check" =>
        /\ job[c].record # None /\ Stored(c) # None
        /\ Stored(c).binding = job[c].record.binding
        /\ Stored(c).expires = job[c].record.expires
        /\ job[c].record.decision \in {"none", Stored(c).decision}

EffectsInv ==
    /\ TypeOK
    /\ StoredUnderId /\ CallsCarryIds
    /\ ApprovedIsDecided /\ LoadedIsStored
    /\ PermitsAreApproved /\ ToldIsStored

=============================================================================
