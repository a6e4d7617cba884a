----------------------------- MODULE UsageLimits -----------------------------
(***************************************************************************)
(* Token budgets and the request rate of the OAuth endpoints               *)
(* (ratelimit/mod.rs, ratelimit/oauth_limit.rs, the MaxTokenBudget hook    *)
(* and the metering step of middleware/pipeline.rs, and the usage ledger   *)
(* of db/mod.rs).                                                          *)
(*                                                                         *)
(* A budget is compared before a request is forwarded and charged when its *)
(* stream has ended, each by a call of its own to Redis; the ledger in     *)
(* Postgres is written after the counters, and only on some routes, and is *)
(* what a budget is compared with while Redis does not answer.             *)
(*                                                                         *)
(* One principal, one route.  Budget holds the windows of the route's      *)
(* hooks, "lifetime" possibly among them; Request are the requests under   *)
(* way at one time, over all replicas: a slot is used again.               *)
(***************************************************************************)
EXTENDS Integers, FiniteSets, FiniteSetsExt

CONSTANTS
    Request,    \* slots for concurrent requests
    Budget,     \* windows of the MaxTokenBudget hooks
    Limit,      \* tokens a budget allows
    Length,     \* ticks of a fixed window
    Agent,      \* the principal, or the scope of the budget, is an agent
    Ledger,     \* the route has a StreamMeter hook with log_to_db
    MaxCost,    \* bound: tokens of one request
    MaxTime,    \* bound: ticks
    MaxCalls,   \* bound: OAuth calls counted in one window
    MaxFaults   \* bound: calls to Redis or Postgres that fail

VARIABLES
    now,
    counter,    \* Redis: for each fixed window, its value and its expiry
    ledger,     \* usage_events: tokens by the time of the row
    request,    \* where each request is, what is left to do, what it costs
    faults

vars == <<now, counter, ledger, request, faults>>

Window == Budget \ {"lifetime"}

Counter == Window \cup {"oauth"}

Idle == [pc |-> "idle", todo |-> {}, cost |-> 0, total |-> 0]

TypeOK ==
    /\ now \in 0 .. MaxTime
    /\ counter \in [Counter -> [value : Nat, until : 0 .. MaxTime + Length]]
    /\ ledger \in [0 .. MaxTime -> Nat]
    /\ request \in [Request -> [pc : {"idle", "checking", "streaming", "charging", "logging"},
                                todo : SUBSET Budget, cost : 0 .. MaxCost, total : Nat]]
    /\ faults \in 0 .. MaxFaults

Init ==
    /\ now = 0
    /\ counter = [c \in Counter |-> [value |-> 0, until |-> 0]]
    /\ ledger = [t \in 0 .. MaxTime |-> 0]
    /\ request = [r \in Request |-> Idle]
    /\ faults = 0

Live(c) == counter[c].until > now

\* What get_budget answers: a key that is gone counts for nothing.
Value(c) == IF Live(c) THEN counter[c].value ELSE 0

\* Variant: every charge renews the expiry.
IncrementedRenewing(c, n) ==
    [value |-> Value(c) + n, until |-> now + Length]

\* WINDOW_INCR_LUA: INCRBY, and EXPIRE when the result is what was added.
Incremented(c, n) ==
    LET value == Value(c) + n
    IN [value |-> value, until |-> IF value = n THEN now + Length ELSE counter[c].until]

\* The sum of the rows newer than now - window, or of all rows.
Spent(b) ==
    LET since == IF b = "lifetime" THEN 0 ELSE now - Length + 1
    IN MapThenSumSet(LAMBDA t : IF t >= since THEN ledger[t] ELSE 0, 0 .. now)

\* A call fails, or it does not.
MayFail(failed) ==
    /\ failed \in {0, 1}
    /\ faults + failed <= MaxFaults

\* A request arrives; the lookups read the lifetime total, a failed one as 0.
Arrive(r) ==
    /\ request[r].pc = "idle"
    /\ \E failed \in 0 .. 1 :
        /\ MayFail(failed)
        /\ faults' = faults + failed
        /\ request' = [request EXCEPT ![r] =
            [pc |-> IF Budget = {} THEN "streaming" ELSE "checking", todo |-> Budget, cost |-> 0,
             total |-> IF failed = 1 THEN 0 ELSE Spent("lifetime")]]
    /\ UNCHANGED <<now, counter, ledger>>

\* Variant: a budget that is used up exactly lets the next request pass.
ExceededBeyond(used) == used > Limit

Exceeded(used) == used >= Limit

\* A hook that has a reading refuses the request or lets the next hook run.
Decide(r, b, used) ==
    request' = [request EXCEPT ![r] =
        IF Exceeded(used) THEN Idle
        ELSE LET todo == request[r].todo \ {b}
             IN  [@ EXCEPT !.todo = todo,
                           !.pc = IF todo = {} THEN "streaming" ELSE "checking"]]

CheckLifetime(r) ==
    /\ request[r].pc = "checking"
    /\ "lifetime" \in request[r].todo
    /\ Decide(r, "lifetime", request[r].total)
    /\ UNCHANGED <<now, counter, ledger, faults>>

\* The shared counter, or the ledger where Redis does not answer.
Check(r, b) ==
    /\ request[r].pc = "checking"
    /\ b \in request[r].todo \cap Window
    /\ \E failed \in 0 .. 1 :
        /\ MayFail(failed)
        /\ faults' = faults + failed
        /\ Decide(r, b, IF failed = 1 THEN Spent(b) ELSE Value(b))
    /\ UNCHANGED <<now, counter, ledger>>

\* Neither answers: an agent is refused, anyone else is taken to have spent 0.
CheckBlind(r, b) ==
    /\ request[r].pc = "checking"
    /\ b \in request[r].todo \cap Window
    /\ faults + 2 <= MaxFaults
    /\ faults' = faults + 2
    /\ IF Agent THEN request' = [request EXCEPT ![r] = Idle] ELSE Decide(r, b, 0)
    /\ UNCHANGED <<now, counter, ledger>>

\* Where a request goes when it has charged the windows in todo.
Charged(r, todo, cost) ==
    request' = [request EXCEPT ![r] =
        IF todo # {} THEN [@ EXCEPT !.pc = "charging", !.todo = todo, !.cost = cost]
        ELSE IF Ledger THEN [@ EXCEPT !.pc = "logging", !.todo = {}, !.cost = cost]
        ELSE Idle]

\* The stream has ended and says what it cost.
StreamEnds(r) ==
    /\ request[r].pc = "streaming"
    /\ \E cost \in 0 .. MaxCost : Charged(r, Window, cost)
    /\ UNCHANGED <<now, counter, ledger, faults>>

\* A response that is not streamed is not metered; a process that dies, or a
\* request that another hook refuses, charges nothing either.
Leave(r) ==
    /\ request[r].pc # "idle"
    /\ request' = [request EXCEPT ![r] = Idle]
    /\ UNCHANGED <<now, counter, ledger, faults>>

\* incr_budget for one window; a call that fails is logged and given up.
Charge(r, w) ==
    /\ request[r].pc = "charging"
    /\ w \in request[r].todo
    /\ Charged(r, request[r].todo \ {w}, request[r].cost)
    /\ \E failed \in 0 .. 1 :
        /\ MayFail(failed)
        /\ faults' = faults + failed
        /\ counter' = [counter EXCEPT ![w] =
                        IF failed = 1 THEN @ ELSE Incremented(w, request[r].cost)]
    /\ UNCHANGED <<now, ledger>>

LogUsage(r) ==
    /\ request[r].pc = "logging"
    /\ request' = [request EXCEPT ![r] = Idle]
    /\ \E failed \in 0 .. 1 :
        /\ MayFail(failed)
        /\ faults' = faults + failed
        /\ ledger' = [ledger EXCEPT ![now] =
                        IF failed = 1 THEN @ ELSE @ + request[r].cost]
    /\ UNCHANGED <<now, counter>>

\* OAuthLimiter::check counts a call first, refused or not, and then compares.
OAuthCall ==
    /\ Value("oauth") < MaxCalls
    /\ counter' = [counter EXCEPT !["oauth"] = Incremented("oauth", 1)]
    /\ UNCHANGED <<now, ledger, request, faults>>

Tick ==
    /\ now < MaxTime
    /\ now' = now + 1
    /\ UNCHANGED <<counter, ledger, request, faults>>

Next ==
    \/ \E r \in Request :
        \/ Arrive(r)
        \/ CheckLifetime(r)
        \/ \E w \in Window : Check(r, w) \/ CheckBlind(r, w) \/ Charge(r, w)
        \/ StreamEnds(r)
        \/ LogUsage(r)
        \/ Leave(r)
    \/ OAuthCall
    \/ Tick

Spec == Init /\ [][Next]_vars

-----------------------------------------------------------------------------

(* A budget is compared long before it is charged, so requests under way   *)
(* together overshoot it, but by no more than they can cost together: as   *)
(* long as the backends answer, a window never holds more than the last    *)
(* token allowed and one request for each slot (pipeline.rs:849, 1379).    *)
OvershootIsBounded ==
    faults = 0 => \A w \in Window : Value(w) <= Limit - 1 + Cardinality(Request) * MaxCost

(* A window ends when it was going to: neither further charges, of nothing *)
(* included, nor refused calls move the expiry of what was counted, so a   *)
(* caller that keeps trying is let in again (WINDOW_INCR_LUA).             *)
KeepsWindows ==
    \A c \in Counter : Live(c) /\ Value(c) > 0 => counter'[c].until = counter[c].until

WindowIsFixed == [][KeepsWindows]_vars

(* "an agent budget is a hard governance control, so it must never be      *)
(* silently bypassed by a Redis/DB blip" (pipeline.rs:1560): a request of  *)
(* an agent does not pass a window that is used up.  It does while Redis   *)
(* is away and Postgres is not: the ledger holds what was logged, which is *)
(* nothing on a route whose hooks do not log.                              *)
AgentsStopAtLimit ==
    [][\A r \in Request, w \in Window :
        Agent /\ Value(w) >= Limit /\ w \in request[r].todo /\ request[r].pc = "checking"
          => w \in request'[r].todo \/ request'[r].pc = "idle"]_vars

-----------------------------------------------------------------------------
(* The inductive invariant behind OvershootIsBounded.                      *)

\* A request that has passed the check of window w, and may still charge it.
MayCharge(q, w) ==
    \/ q.pc = "checking" /\ w \notin q.todo
    \/ q.pc = "streaming"
    \/ q.pc = "charging" /\ w \in q.todo

InFlight(w) == {r \in Request : MayCharge(request[r], w)}

\* What a request is, but for the total of the ledger.
Runs(q) ==
    /\ q \in [pc : {"idle", "checking", "streaming", "charging", "logging"},
              todo : SUBSET Budget, cost : 0 .. MaxCost, total : {q.total}]
    /\ q.pc = "charging" => q.todo \subseteq Window

RequestsRun ==
    /\ request = [r \in Request |-> request[r]]
    /\ \A r \in Request : Runs(request[r])

CountersRun ==
    /\ now \in Nat
    /\ counter \in [Counter -> [value : Nat, until : Nat]]
    /\ faults \in Nat

\* A budget of nothing lets nobody pass.
NothingPasses == Limit = 0 => \A w \in Window : InFlight(w) = {}

\* Whoever is in flight may charge the most there is.
Reserved ==
    \A w \in Window :
        Value(w) + Cardinality(InFlight(w)) * MaxCost <= Limit - 1 + Cardinality(Request) * MaxCost

LimitsInv ==
    /\ RequestsRun /\ CountersRun
    /\ faults = 0 => NothingPasses /\ Reserved

=============================================================================
