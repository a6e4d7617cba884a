------------------------------- MODULE Requests -------------------------------
(***************************************************************************)
(* One request through the proxy pipeline (middleware/pipeline.rs), or     *)
(* through the check endpoint that answers for a proxy in front            *)
(* (middleware/ext_authz.rs), while the configuration is republished,      *)
(* identities are revoked and time passes.                                 *)
(*                                                                         *)
(* A step is the end of one await.  On a route that asks the ASO service   *)
(* for a decision all awaits share one deadline; a timer is polled after   *)
(* what it guards, so an answer that comes at the deadline still counts.   *)
(* What sessions are served from the cache is SessionCache, what a budget  *)
(* reads is UsageLimits, what the stream does after the head is            *)
(* StreamApprovals.                                                        *)
(***************************************************************************)
EXTENDS Integers, Sequences, SequencesExt

CONSTANTS
    Provider,       \* kinds of authentication the routes name
    Hook,           \* kinds of pre-request hooks the routes list
    AuthorityMode,  \* the gateway consumes authority revisions
    Deadline,       \* ticks from arrival
    MaxHooks,       \* bound: hooks of a route
    MaxTime,        \* bound: ticks
    MaxRev          \* bound: configurations published

VARIABLES
    now,
    served,     \* revisions of the router and of the policies that serve
    identity,   \* agent_identities: status of the one non-human identity
    pc,
    route,      \* the matched route
    pinned,     \* revisions taken with the route
    who,        \* the principal, as the authenticator saw it
    hook,       \* index of the hook that runs next
    passed,     \* hooks that let the request pass, and the time each did
    judged,     \* revisions of the policies that judged the request
    barred,     \* the identity was revoked before the request, and ever since
    token,      \* the Authorization header that goes upstream
    tools,      \* which tools the response may show
    sent        \* when the upstream was called

environment == <<now, served, identity>>
decision == <<route, pinned, who, hook, passed, judged, token, tools, sent>>
vars == <<environment, pc, decision, barred>>

Never == MaxTime + 1

Route == [auth : Provider \cup {"none"}, hooks : BoundedSeq(Hook, MaxHooks), upstream : BOOLEAN]

\* Who a provider may say the caller is: "relayed" is the non-human identity
\* with a token the gateway minted for it and verifies as a federated one,
\* without the kind it was stamped with.
Callers(auth) ==
    CASE auth = "none"   -> {"anonymous"}
      [] auth = "kratos" -> {"user"}
      [] auth = "mcp"    -> {"user", "agent", "relayed"}
      [] auth = "api"    -> {"user", "agent", "service"}

Kind(caller) ==
    CASE caller = "agent"   -> "Agent"
      [] caller = "service" -> "Service"
      [] OTHER              -> "User"

NonHuman(caller) == Kind(caller) # "User"

TypeOK ==
    /\ now \in 0 .. MaxTime
    /\ served \in [routes : 0 .. MaxRev, policies : 0 .. MaxRev]
    /\ identity \in {"unknown", "active", "revoked"}
    /\ pc \in {"match", "auth", "body", "lookups", "hooks", "send", "head", "tools",
               "checkMatch", "checkAuth", "checkMint", "allowed", "answered"}
    /\ route \in Route
    /\ pinned \in [routes : 0 .. MaxRev, policies : 0 .. MaxRev]
    /\ who \in {"anonymous", "user", "agent", "service", "relayed"}
    /\ hook \in 1 .. MaxHooks + 1
    /\ passed \in [1 .. MaxHooks -> 0 .. Never]
    /\ judged \subseteq 0 .. MaxRev
    /\ barred \in BOOLEAN
    /\ token \in {"own", "none", "grant", "minted"}
    /\ tools \in {"closed", "open", "ungoverned"}
    /\ sent \in 0 .. Never

Init ==
    /\ now = 0
    /\ served = [routes |-> 0, policies |-> 0]
    /\ identity \in {"unknown", "active", "revoked"}
    /\ pc \in {"match", "checkMatch"}
    /\ route \in Route
    /\ pinned = served
    /\ who = "anonymous"
    /\ hook = 1
    /\ passed = [i \in 1 .. MaxHooks |-> Never]
    /\ judged = {}
    /\ barred = (identity = "revoked")
    /\ token = "own"
    /\ tools = "closed"
    /\ sent = Never

-----------------------------------------------------------------------------
(* The environment *)

\* A reload swaps the router and then the policies under the publication lock.
Publishing == served.routes # served.policies

SwapRoutes ==
    /\ ~ Publishing
    /\ served.routes < MaxRev
    /\ served' = [served EXCEPT !.routes = @ + 1]
    /\ UNCHANGED <<now, identity, pc, decision, barred>>

SwapPolicies ==
    /\ Publishing
    /\ served' = [served EXCEPT !.policies = served.routes]
    /\ UNCHANGED <<now, identity, pc, decision, barred>>

Issue ==
    /\ identity # "active"
    /\ identity' = "active"
    /\ barred' = FALSE
    /\ UNCHANGED <<now, served, pc, decision>>

Revoke ==
    /\ identity = "active"
    /\ identity' = "revoked"
    /\ UNCHANGED <<now, served, pc, decision, barred>>

-----------------------------------------------------------------------------
(* The pipeline *)

HasHook(h) == \E i \in DOMAIN route.hooks : route.hooks[i] \in h

\* has_fresh_aso_decision.
Protected == HasHook({"clinical", "grant", "grantAndMint"})

Late == now >= Deadline

\* Variant: the hooks are awaited for as long as they take.
TimedButHooks == pc = "match" \/ (pc \in {"auth", "body", "lookups"} /\ Protected)

\* Awaits that end with 503 at the deadline.
Timed == pc = "match" \/ (pc \in {"auth", "body", "lookups", "hooks"} /\ Protected)

Answer ==
    /\ pc' = "answered"
    /\ UNCHANGED <<environment, decision, barred>>

Expire == Timed /\ Late /\ Answer

\* Variant: without the lock.
PinAnytime == pinned' = served

\* The route and the policies are taken under the publication lock.
Pin ==
    /\ ~ Publishing
    /\ pinned' = served

\* In authority mode a Kratos route without a fresh decision is refused.
Unfresh == AuthorityMode /\ route.auth = "kratos" /\ ~ Protected

Match ==
    /\ pc = "match"
    /\ Pin
    /\ pc' = "auth"
    /\ UNCHANGED <<environment, barred, route, who, hook, passed, judged, token, tools, sent>>

NoRoute == pc \in {"match", "checkMatch"} /\ ~ Publishing /\ Answer

Authenticate ==
    /\ pc = "auth"
    /\ ~ Unfresh
    /\ who' \in Callers(route.auth)
    /\ pc' = "body"
    /\ UNCHANGED <<environment, barred, route, pinned, hook, passed, judged, token, tools, sent>>

\* 401, the 403 that asks for a scope, 500 without the provider, 502, 503.
Unauthenticated == pc = "auth" /\ (route.auth # "none") /\ Answer

ReadBody ==
    /\ pc = "body"
    /\ pc' = "lookups"
    /\ UNCHANGED <<environment, decision, barred>>

BodyTooLarge == pc = "body" /\ Answer

\* Whether the loop over the hooks goes on after i of them: the deadline is
\* looked at before each.
After(i) ==
    IF i = Len(route.hooks) THEN "send" ELSE IF Protected /\ Late THEN "answered" ELSE "hooks"

Lookups ==
    /\ pc = "lookups"
    /\ pc' = After(0)
    /\ UNCHANGED <<environment, decision, barred>>

Runs(h) == pc = "hooks" /\ route.hooks[hook] = h

\* The hook that runs lets the request pass.
Pass ==
    /\ passed' = [passed EXCEPT ![hook] = now]
    /\ hook' = hook + 1
    /\ pc' = After(hook)
    /\ UNCHANGED <<environment, barred, route, pinned, who, tools, sent>>

Clinical == Runs("clinical") /\ Pass /\ UNCHANGED <<judged, token>>

\* A replica grant is for the identity and the session Kratos confirmed.
Grant ==
    /\ Runs("grant")
    /\ route.auth = "kratos"
    /\ token' = "grant"
    /\ Pass
    /\ UNCHANGED judged

\* A minter that is missing or fails is only logged.
Mint ==
    /\ Runs("mint")
    /\ token' \in {token, "minted"}
    /\ Pass
    /\ UNCHANGED judged

\* Claims that only inject headers, rendered from templates.
Claims == Runs("claims") /\ Pass /\ UNCHANGED <<judged, token>>

\* Fields that are set in a body that is JSON; another is sent as it is.
BodyTransform == Runs("body") /\ Pass /\ UNCHANGED <<judged, token>>

BudgetLeft == Runs("budget") /\ Pass /\ UNCHANGED <<judged, token>>

\* What the revocation check may say: a failed read counts as revoked.
SeenRevoked == {NonHuman(who) /\ identity = "revoked", NonHuman(who)}

\* The policies pinned with the route judge, unless the identity is revoked.
Allow(h) ==
    /\ Runs(h)
    /\ FALSE \in SeenRevoked
    /\ judged' = judged \cup {pinned.policies}
    /\ Pass
    /\ UNCHANGED token

\* A hook that does not enforce records what it would have done.
Shadow ==
    /\ Runs("shadow")
    /\ judged' \in {judged, judged \cup {pinned.policies}}
    /\ Pass
    /\ UNCHANGED token

GuardAllows == \E h \in {"guard", "watch"} : Runs(h) /\ Pass /\ UNCHANGED <<judged, token>>

\* Hooks that can end a request, with 401, 403, 429, 400 or 503.
Enforces == {"clinical", "grant", "grantAndMint", "budget", "authorize", "guard"}

Refuse == pc = "hooks" /\ route.hooks[hook] \in Enforces /\ Answer

\* A verified MCP token stays here: it was minted for this server.
Outbound == IF route.auth = "mcp" /\ token = "own" THEN "none" ELSE token

Send ==
    /\ pc = "send"
    /\ route.upstream
    /\ token' = Outbound
    /\ sent' = now
    /\ pc' = "head"
    /\ UNCHANGED <<environment, barred, route, pinned, who, hook, passed, judged, tools>>

NoUpstream == pc = "send" /\ ~ route.upstream /\ Answer

UpstreamFails == pc = "head" /\ Answer

\* What the tools of the stream are governed by: nothing, unless the route
\* enforces, or the policies pinned with it, once the registry was read again.
ToolsOf ==
    IF ~ HasHook({"authorize"}) THEN {"ungoverned"}
    ELSE {IF revoked THEN "closed" ELSE "open" : revoked \in SeenRevoked}

\* The head of the answer, and with it how its body is passed on.
Respond ==
    /\ pc = "head"
    /\ tools' \in ToolsOf
    /\ pc' = "answered"
    /\ UNCHANGED <<environment, barred, route, pinned, who, hook, passed, judged, token, sent>>

-----------------------------------------------------------------------------
(* The check endpoint *)

\* supported_mint_config: nothing but claims that may mint a token.
Supported == ~ HasHook(Hook \ {"mint"})

CheckMatch ==
    /\ pc = "checkMatch"
    /\ ~ Publishing
    /\ pc' = IF Supported THEN "checkAuth" ELSE "answered"
    /\ UNCHANGED <<environment, decision, barred>>

\* No fresh decision can be had here for a Kratos route in authority mode.
CheckAuthenticate ==
    /\ pc = "checkAuth"
    /\ ~ (AuthorityMode /\ route.auth = "kratos")
    /\ who' \in Callers(route.auth)
    /\ pc' = "checkMint"
    /\ UNCHANGED <<environment, barred, route, pinned, hook, passed, judged, token, tools, sent>>

CheckFails == pc \in {"checkAuth", "checkMint"} /\ Answer

\* A token is minted for every caller, whatever the route asks for.
CheckMint ==
    /\ pc = "checkMint"
    /\ token' = "minted"
    /\ sent' = now
    /\ pc' = "allowed"
    /\ UNCHANGED <<environment, barred, route, pinned, who, hook, passed, judged, tools>>

-----------------------------------------------------------------------------

\* Timers fire when they are due, and nothing is awaited before the call.
Tick ==
    /\ now < MaxTime
    /\ ~ (Timed /\ Late)
    /\ pc # "send"
    /\ now' = now + 1
    /\ UNCHANGED <<served, identity, pc, decision, barred>>

Next ==
    \/ SwapRoutes \/ SwapPolicies \/ Issue \/ Revoke \/ Tick
    \/ Match \/ NoRoute \/ Expire
    \/ Authenticate \/ Unauthenticated \/ ReadBody \/ BodyTooLarge \/ Lookups
    \/ Clinical \/ Grant \/ Mint \/ Claims \/ BodyTransform \/ BudgetLeft
    \/ Allow("authorize") \/ Shadow \/ GuardAllows \/ Refuse
    \/ Send \/ NoUpstream \/ UpstreamFails \/ Respond
    \/ CheckMatch \/ CheckAuthenticate \/ CheckFails \/ CheckMint

Spec == Init /\ [][Next]_vars

-----------------------------------------------------------------------------

LetThrough == sent # Never

(* Nothing goes around a hook: whoever lets a request through, the         *)
(* pipeline or the check endpoint, every hook of its route that can refuse *)
(* has run for this request and let it pass (pipeline.rs:671,              *)
(* ext_authz.rs:177).                                                      *)
Mediated ==
    LetThrough =>
        \A i \in DOMAIN route.hooks : route.hooks[i] \in Enforces => passed[i] <= sent

(* The upstream of a protected route is not called after the deadline of   *)
(* the decision: no await on the way escapes the deadline, and no answer   *)
(* that comes too late lets the next hook run (pipeline.rs:251, 672).      *)
SentInTime == LetThrough /\ Protected => sent <= Deadline

(* One request is judged by one configuration: however long it waits, the  *)
(* policies that judge it were published with the route it matched         *)
(* (pipeline.rs:283-305).                                                  *)
JudgedByItsRoute == judged \subseteq {pinned.routes}

(* An agent or a service that was revoked before the request came is       *)
(* denied by the next authorize, on whatever provider it is cached and     *)
(* whether or not the registry can be read (db/mod.rs:759,                 *)
(* pipeline.rs:893).                                                       *)
RevokedIsDenied ==
    LetThrough /\ HasHook({"authorize"}) /\ NonHuman(who) => ~ barred

(* "once revoked, the identity is denied on its next authorize"            *)
(* (README.md:915).  A service that comes back with its own token through  *)
(* a verifier of federated tokens is not: the verifier strips the kind     *)
(* the token was stamped with, and nobody looks a user up in the registry  *)
(* of non-human identities.                                                *)
RevokedIsDeniedAnyway ==
    LetThrough /\ HasHook({"authorize"}) /\ who \in {"agent", "service", "relayed"} => ~ barred

(* Whoever is let through has passed all that its route asks for, by one   *)
(* configuration, and was not revoked when it came.                        *)
LetThroughIsAllowed == Mediated /\ JudgedByItsRoute /\ RevokedIsDenied

-----------------------------------------------------------------------------
(* The inductive invariant behind them.                                    *)

\* The hooks before the one that runs have passed, by now.
PassedInOrder ==
    /\ pc \in {"match", "auth", "body", "lookups"} => hook = 1
    /\ pc = "hooks" => hook <= Len(route.hooks)
    /\ pc = "send" => hook = Len(route.hooks) + 1
    /\ pc \in {"hooks", "send"} => \A i \in 1 .. hook - 1 : passed[i] <= now

\* The check endpoint goes on with a route that lists no more than it supports.
ChecksSupported ==
    pc \in {"checkAuth", "checkMint", "allowed"} => Supported

\* What is sent was sent once, when everything had passed.
SentAfterHooks ==
    LetThrough => /\ pc \in {"head", "allowed", "answered"}
                  /\ Supported \/ hook = Len(route.hooks) + 1
                  /\ \A i \in DOMAIN route.hooks : Supported \/ passed[i] <= sent

\* Until the call, a request is waited for no longer than its timers run.
WithinDeadline ==
    /\ pc = "match" => now <= Deadline
    /\ pc \in {"auth", "body", "lookups", "hooks", "send"} /\ Protected => now <= Deadline

\* The policies that judge are of the revision of the route, which is taken first.
PinnedIsPair == pinned.routes = pinned.policies

NothingJudged == pc \in {"match", "checkMatch", "checkAuth", "checkMint"} => judged = {}

\* An identity barred since before the request has not passed an authorize hook.
BarredIsStopped ==
    /\ barred => identity = "revoked"
    /\ \A i \in DOMAIN route.hooks :
          i < hook /\ route.hooks[i] = "authorize" /\ NonHuman(who) => ~ barred

PipelineInv ==
    /\ TypeOK
    /\ PassedInOrder /\ ChecksSupported /\ SentAfterHooks
    /\ WithinDeadline /\ SentInTime
    /\ PinnedIsPair /\ NothingJudged /\ JudgedByItsRoute
    /\ BarredIsStopped

=============================================================================
