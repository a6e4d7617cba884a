------------------------------- MODULE ApiKeys -------------------------------
(***************************************************************************)
(* API keys: the table and its handlers (db/mod.rs, admin/mod.rs), and the *)
(* authenticator that keeps what it validated in memory (auth/api_key.rs). *)
(*                                                                         *)
(* One process.  A lookup is two steps, the answer of Postgres and its     *)
(* storing: what happens to the key between them goes unseen.              *)
(***************************************************************************)
EXTENDS Integers

CONSTANTS
    Key,        \* keys, by their hash
    Request,    \* requests under way
    Ttl,        \* ticks an answer is kept
    MaxTime     \* bound: ticks

VARIABLES
    now,
    row,        \* api_keys: active, and the expiry
    cached,     \* until when the authenticator keeps its answer
    lookup,     \* each request's key, and when Postgres answered for it
    accepted,   \* the key accepted last, and when
    slowest     \* ticks the slowest lookup took to be stored

vars == <<now, row, cached, lookup, accepted, slowest>>

\* No expiry, and no time.
Never == MaxTime + Ttl + 1

NoKey == [key |-> "none", read |-> Never]

TypeOK ==
    /\ now \in 0 .. MaxTime
    /\ row \in [Key -> [state : {"absent", "active", "revoked"}, expires : 0 .. Never,
                        ended : 0 .. Never, sound : BOOLEAN]]
    /\ cached \in [Key -> 0 .. Never]
    /\ lookup \in [Request -> [key : Key \cup {"none"}, read : 0 .. Never]]
    /\ accepted \in [key : Key \cup {"none"}, at : 0 .. Never]
    /\ slowest \in 0 .. MaxTime

Init ==
    /\ now = 0
    /\ row = [k \in Key |-> [state |-> "absent", expires |-> Never, ended |-> Never,
                             sound |-> TRUE]]
    /\ cached = [k \in Key |-> 0]
    /\ lookup = [r \in Request |-> NoKey]
    /\ accepted = [key |-> "none", at |-> Never]
    /\ slowest = 0

\* A key is created with or without an expiry.  The columns that say what the
\* key stands for are the table's defaults; a row may hold values no identity
\* is built from.
Create(k) ==
    /\ row[k].state = "absent"
    /\ \E expires \in (now .. MaxTime) \cup {Never}, sound \in BOOLEAN :
        row' = [row EXCEPT ![k] = [state |-> "active", expires |-> expires, ended |-> Never,
                                   sound |-> sound]]
    /\ UNCHANGED <<now, cached, lookup, accepted, slowest>>

\* The row is kept, and the caches are not told.
Revoke(k) ==
    /\ row[k].state = "active"
    /\ row' = [row EXCEPT ![k].state = "revoked", ![k].ended = now]
    /\ UNCHANGED <<now, cached, lookup, accepted, slowest>>

\* The query of validate_api_key.
Valid(k) == row[k].state = "active" /\ row[k].expires > now

\* When a key ceased to be valid: revoked, or expired.
EndOf(k) == IF row[k].ended < row[k].expires THEN row[k].ended ELSE row[k].expires

Accept(k) == accepted' = IF row[k].sound THEN [key |-> k, at |-> now] ELSE accepted

\* Variant: every use of an answer keeps it for longer.
HitKeeps(r, k) ==
    /\ lookup[r] = NoKey
    /\ cached[k] > now
    /\ Accept(k)
    /\ cached' = [cached EXCEPT ![k] = now + Ttl]
    /\ UNCHANGED <<now, row, lookup, slowest>>

\* A request with a secret key from a browser is refused before this.
Hit(r, k) ==
    /\ lookup[r] = NoKey
    /\ cached[k] > now
    /\ Accept(k)
    /\ UNCHANGED <<now, row, cached, lookup, slowest>>

\* Postgres answers a request that found nothing in the cache, then or earlier;
\* no row, or no answer, ends it.
Look(r, k) ==
    /\ lookup[r] = NoKey
    /\ Valid(k)
    /\ lookup' = [lookup EXCEPT ![r] = [key |-> k, read |-> now]]
    /\ UNCHANGED <<now, row, cached, accepted, slowest>>

Store(r) ==
    LET k == lookup[r].key
        took == now - lookup[r].read
    IN  /\ lookup[r] # NoKey
        /\ cached' = [cached EXCEPT ![k] = now + Ttl]
        /\ lookup' = [lookup EXCEPT ![r] = NoKey]
        /\ slowest' = IF took > slowest THEN took ELSE slowest
        /\ Accept(k)
        /\ UNCHANGED <<now, row>>

\* The request's connection is gone, or its deadline has passed.
Abandon(r) ==
    /\ lookup[r] # NoKey
    /\ lookup' = [lookup EXCEPT ![r] = NoKey]
    /\ UNCHANGED <<now, row, cached, accepted, slowest>>

Evict(k) ==
    /\ cached[k] > now
    /\ cached' = [cached EXCEPT ![k] = 0]
    /\ UNCHANGED <<now, row, lookup, accepted, slowest>>

Tick ==
    /\ now < MaxTime
    /\ now' = now + 1
    /\ UNCHANGED <<row, cached, lookup, accepted, slowest>>

Next ==
    \/ \E k \in Key :
        \/ Create(k) \/ Revoke(k) \/ Evict(k)
        \/ \E r \in Request : Hit(r, k) \/ Look(r, k)
    \/ \E r \in Request : Store(r) \/ Abandon(r)
    \/ Tick

Spec == Init /\ [][Next]_vars

-----------------------------------------------------------------------------

(* A key that was revoked, or has expired, is still accepted for a while,  *)
(* but only so long: the time an answer is kept, and the time the slowest  *)
(* lookup took between the answer and its storing (api_key.rs:44, 75-96).  *)
EndedKeysStop ==
    accepted.key # "none" => accepted.at < EndOf(accepted.key) + Ttl + slowest

-----------------------------------------------------------------------------
(* The inductive invariant behind it.                                      *)

\* A key that is not stored is neither kept nor looked up nor accepted, and one
\* that is not revoked has no end but its expiry.
EndsOnce ==
    \A k \in Key :
        /\ row[k].state = "absent" => cached[k] = 0 /\ row[k].expires = Never
        /\ IF row[k].state = "revoked" THEN row[k].ended <= now ELSE row[k].ended = Never

\* What Postgres answered was so when it answered.
LookupsWereValid ==
    \A r \in Request :
        \/ lookup[r] = NoKey
        \/ LET k == lookup[r].key
           IN  /\ k \in Key /\ row[k].state # "absent"
               /\ lookup[r].read <= now /\ lookup[r].read <= EndOf(k)

\* An answer is kept Ttl from its storing, which was at most the slowest lookup
\* after the answer.
KeptIsBounded ==
    \A k \in Key : cached[k] <= now + Ttl /\ cached[k] <= EndOf(k) + Ttl + slowest

AcceptedIsStored ==
    accepted.key # "none" => accepted.at <= now /\ row[accepted.key].state # "absent"

KeysInv ==
    /\ TypeOK /\ EndsOnce /\ LookupsWereValid /\ KeptIsBounded
    /\ AcceptedIsStored /\ EndedKeysStop

=============================================================================
