------------------------------ MODULE JwksCache ------------------------------
(***************************************************************************)
(* The signing keys of an authorization server, cached by one authenticator*)
(* (auth/jwks.rs).                                                         *)
(*                                                                         *)
(* Requests look for the key their token names in the cached set.  A set   *)
(* older than its time to live is fetched again, by one request at a time, *)
(* and so, at most once an interval, is a set without the key.  The server *)
(* rotates its keys whenever it likes, fails, and answers slowly; requests *)
(* are dropped with their clients.                                         *)
(*                                                                         *)
(* A token names a key; that keys are asymmetric, and what a token without *)
(* a name gets, are functions of the same set and left out.                *)
(***************************************************************************)
EXTENDS Integers

CONSTANTS
    Request,
    Kid,          \* names of keys
    None,
    Ttl,          \* JWKS_TTL
    Floor,        \* MIN_REFRESH_INTERVAL
    Timeout,      \* of the HTTP client
    MaxTime       \* bound

ASSUME JwksAssumption ==
    /\ Ttl \in Nat \ {0} /\ Floor \in Nat \ {0} /\ Timeout \in Nat
    /\ MaxTime \in Nat
    /\ None \notin Kid

VARIABLES
    now,
    keys,         \* what the server publishes (external)
    turned,       \* when a key was last added or removed
    cache,        \* the cached set, and fetched_at
    last_forced,  \* the instant of the last forced refresh
    pc, job       \* requests

serverVars == <<keys, turned>>
cacheVars == <<cache, last_forced>>
requestVars == <<pc, job>>
vars == <<now, serverVars, cacheVars, requestVars>>

Cached == [keys : SUBSET Kid, fetched_at : 0..MaxTime] \cup {None}

\* The key asked for, whether the refresh is a forced one, when the request
\* came and then when its fetch was sent, and what that returned.
Job == [kid : Kid, forced : BOOLEAN, sent : 0..MaxTime, keys : SUBSET Kid]

Answers == {"accepted", "unknown", "limited", "failed"}
Awaits  == {"idle", "lookup", "lock", "fetch", "store"} \cup Answers

\* A task past the lock holds it.
Holding == {"fetch", "store"}

TypeOK ==
    /\ now \in 0..MaxTime
    /\ keys \in SUBSET Kid
    /\ turned \in [Kid -> 0..MaxTime]
    /\ cache \in Cached
    /\ last_forced \in 0..MaxTime \cup {None}
    /\ pc \in [Request -> Awaits]
    /\ job \in [Request -> Job \cup {None}]

Init ==
    /\ now = 0
    /\ keys \in SUBSET Kid
    /\ turned = [k \in Kid |-> 0]
    /\ cache = None
    /\ last_forced = None
    /\ pc = [r \in Request |-> "idle"]
    /\ job = [r \in Request |-> None]

-----------------------------------------------------------------------------
(* The server and time (external).                                         *)

Rotate ==
    \E new \in SUBSET Kid \ {keys} :
        /\ keys' = new
        /\ turned' = [k \in Kid |-> IF (k \in new) = (k \in keys) THEN turned[k] ELSE now]
        /\ UNCHANGED <<now, cacheVars, requestVars>>

\* No fetch outlives the timeout of the client.
Tick ==
    /\ now < MaxTime
    /\ \A r \in Request : pc[r] \in Holding => now - job[r].sent < Timeout
    /\ now' = now + 1
    /\ UNCHANGED <<serverVars, cacheVars, requestVars>>

-----------------------------------------------------------------------------
(* decoding_key.                                                           *)

Goto(r, await) == pc' = [pc EXCEPT ![r] = await]

Ask(r) ==
    /\ pc[r] \in {"idle"} \cup Answers
    /\ \E k \in Kid :
           job' = [job EXCEPT ![r] =
               [kid |-> k, forced |-> FALSE, sent |-> now, keys |-> {}]]
    /\ Goto(r, "lookup")
    /\ UNCHANGED <<now, serverVars, cacheVars>>

\* Variant: one instant too long.
FreshAtTtl == cache # None /\ now - cache.fetched_at <= Ttl

Fresh == cache # None /\ now - cache.fetched_at < Ttl

\* Variant: the refresh is tried until it finds the key.
SelectAgain(r, set) ==
    /\ Goto(r, IF job[r].kid \in set THEN "accepted" ELSE "lock")
    /\ UNCHANGED job

\* The set is there: the key is in it, or a forced refresh is tried, once.
Select(r, set) ==
    IF job[r].kid \in set THEN Goto(r, "accepted") /\ UNCHANGED job
    ELSE IF job[r].forced THEN Goto(r, "unknown") /\ UNCHANGED job
    ELSE Goto(r, "lock") /\ job' = [job EXCEPT ![r].forced = TRUE]

\* jwks.
Lookup(r) ==
    /\ pc[r] = "lookup"
    /\ IF Fresh THEN Select(r, cache.keys) ELSE Goto(r, "lock") /\ UNCHANGED job
    /\ UNCHANGED <<now, serverVars, cacheVars>>

TooSoon == last_forced # None /\ now - last_forced < Floor

\* refresh_single_flight up to the request it sends.
Refresh(r) ==
    /\ pc[r] = "lock"
    /\ \A q \in Request : pc[q] \notin Holding
    /\ IF Fresh
          THEN Select(r, cache.keys) /\ UNCHANGED last_forced
       ELSE IF job[r].forced /\ TooSoon
          THEN Goto(r, "limited") /\ UNCHANGED <<job, last_forced>>
       ELSE /\ last_forced' = IF job[r].forced THEN now ELSE last_forced
            /\ job' = [job EXCEPT ![r].sent = now]
            /\ Goto(r, "fetch")
    /\ UNCHANGED <<now, serverVars, cache>>

\* The server answers with its keys of now; they arrive later.
Serve(r) ==
    /\ pc[r] = "fetch"
    /\ job' = [job EXCEPT ![r].keys = keys]
    /\ Goto(r, "store")
    /\ UNCHANGED <<now, serverVars, cacheVars>>

\* Variant: the set is dated by its expiry.
StoreExpiry(r) ==
    /\ pc[r] = "store"
    /\ cache' = [keys |-> job[r].keys, fetched_at |-> now + Ttl]
    /\ Select(r, job[r].keys)
    /\ UNCHANGED <<now, serverVars, last_forced>>

\* The end of fetch, and what the caller makes of it.
Store(r) ==
    /\ pc[r] = "store"
    /\ cache' = [keys |-> job[r].keys, fetched_at |-> now]
    /\ Select(r, job[r].keys)
    /\ UNCHANGED <<now, serverVars, last_forced>>

\* The fetch fails: the cache stays as it was.
Fail(r) ==
    /\ pc[r] \in Holding
    /\ Goto(r, "failed")
    /\ UNCHANGED <<now, serverVars, cacheVars, job>>

\* The client leaves.
Drop(r) ==
    /\ pc[r] \in {"lookup", "lock"} \cup Holding
    /\ Goto(r, "idle")
    /\ job' = [job EXCEPT ![r] = None]
    /\ UNCHANGED <<now, serverVars, cacheVars>>

Work(r) == Lookup(r) \/ Refresh(r) \/ Serve(r) \/ Store(r) \/ Fail(r)

Next ==
    \/ Rotate \/ Tick
    \/ \E r \in Request : Ask(r) \/ Work(r) \/ Drop(r)

Spec == Init /\ [][Next]_vars

\* tokio's Mutex is first come, first served.
FairSpec == Spec /\ \A r \in Request : WF_vars(Work(r)) /\ SF_vars(Refresh(r))

-----------------------------------------------------------------------------
(* Properties.                                                             *)

Decides(r, answer) == pc[r] # answer /\ pc'[r] = answer

\* A decision is right, or was less than a time to live and a fetch ago: a key
\* that was withdrawn is not accepted, and one that was published not unknown,
\* for longer, though fetches are slow, fail, and are waited for by requests
\* that have looked at the cache before.
AnswersAreRecent ==
    [][\A r \in Request :
          \/ Decides(r, "accepted") /\ job[r].kid \notin keys
          \/ Decides(r, "unknown") /\ job[r].kid \in keys
          => now - turned[job[r].kid] < Ttl + Timeout]_vars

\* Requests that find the set stale or without their key do not stampede: one
\* at a time asks the server, and one that has waited for it makes do with what
\* it brought, so a set stays for its time to live once it is cached.
NoStampede ==
    /\ [](\A q, r \in Request : {pc[q], pc[r]} \subseteq Holding => q = r)
    /\ [][cache' # cache /\ cache # None => now - cache.fetched_at >= Ttl]_vars

\* A request is answered, or its client leaves: waiting for the lock, finding
\* the set already refreshed, without the key, and failing fetches end.
RequestsEnd ==
    \A r \in Request :
        pc[r] = "lookup" ~> pc[r] \in Answers \cup {"idle"}

\* "On a cache miss, force ONE rate-limited refresh and retry": a key that was
\* published longer than the interval and a fetch before the request came is
\* not unknown.
\* The code looks at the age of the set first and forces nothing while it is
\* within its time to live (refresh_single_flight).
UnknownIsRefreshed ==
    [][\A r \in Request :
          Decides(r, "unknown") /\ job[r].kid \in keys
          => job[r].sent - turned[job[r].kid] <= Floor + Timeout]_vars

=============================================================================
