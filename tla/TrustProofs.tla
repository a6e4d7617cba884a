------------------------------ MODULE TrustProofs ------------------------------
(***************************************************************************)
(* What is proved of the models the gateway's decisions rest on, and of    *)
(* the process itself.                                                     *)
(*                                                                         *)
(*   Key sets      For any number of requests and keys and any durations,  *)
(*                 of JwksCache's own Spec.                                *)
(*   API keys      For any number of keys and lookups, and any time that   *)
(*                 an answer is kept.                                      *)
(*   Signing keys  For any keys, whatever is put under their ids, any       *)
(*                 number of processes and any life of a token.            *)
(*   Routes        For any routes, rows, file, hosts, paths and methods,   *)
(*                 and whether or not the database overrides the file.     *)
(*   Policies      For any rows, contents, overlay and releases.           *)
(*   The watch     For any files, directories, writes and swaps.           *)
(*   The process   For any options, flaws and outages.                     *)
(*   Types         Of all of these.                                        *)
(*                                                                         *)
(* All but the first are parts of MCTrust's MCSpec.                        *)
(***************************************************************************)
EXTENDS MCTrust, TLAPS, WellFoundedInduction, FiniteSetTheorems, SequenceTheorems

-----------------------------------------------------------------------------
(* Key sets.                                                               *)

\* What is wrong in a set that was right at the instant t has turned since.
RightSince(set, t) == \A k \in Kid : (k \in set) # (k \in keys) => turned[k] >= t

\* A request that goes on has a job.  The keys of a fetch were served after it
\* was sent, at most a timeout ago; those in the cache, at most a timeout before
\* fetched_at.
KeySetsInv ==
    /\ TypeOK
    /\ \A k \in Kid : turned[k] <= now
    /\ \A r \in Request : pc[r] \in {"lookup", "lock"} \cup Holding => job[r] \in Job
    /\ \A r \in Request : pc[r] \in Holding =>
           job[r].sent <= now /\ now <= job[r].sent + Timeout
    /\ \A r \in Request : pc[r] = "store" => RightSince(job[r].keys, job[r].sent)
    /\ cache # None => /\ cache.fetched_at <= now
                       /\ RightSince(cache.keys, cache.fetched_at - Timeout)

LEMMA KeySetsInit == Init => KeySetsInv
  BY JwksAssumption
  DEF Init, KeySetsInv, TypeOK, Cached, Job, Awaits, Answers, Holding

\* A request that decides on a set changes nothing but itself, and needs no
\* more than its job.
LEMMA SelectStep ==
    ASSUME TypeOK, NEW r \in Request, job[r] \in Job, NEW set, Select(r, set)
    PROVE  /\ pc' \in [Request -> Awaits]
           /\ job' \in [Request -> Job \cup {None}]
           /\ \A q \in Request : q # r => pc'[q] = pc[q] /\ job'[q] = job[q]
           /\ pc'[r] \in {"accepted", "unknown", "lock"}
           /\ job'[r] \in Job
           /\ pc'[r] = "accepted" => job[r].kid \in set
           /\ pc'[r] = "unknown" => job[r].kid \notin set
  <1>1. [job[r] EXCEPT !.forced = TRUE] \in Job
    BY DEF Job
  <1> QED
    BY <1>1 DEF Select, Goto, TypeOK, Awaits, Answers

\* Such a step keeps the invariant when the cache does.
LEMMA SelectInv ==
    ASSUME KeySetsInv, NEW r \in Request, job[r] \in Job, NEW set, Select(r, set),
           UNCHANGED <<now, serverVars>>,
           cache' \in Cached, last_forced' \in 0..MaxTime \cup {None},
           cache' # None => /\ cache'.fetched_at <= now
                            /\ RightSince(cache'.keys, cache'.fetched_at - Timeout)
    PROVE  KeySetsInv'
  <1>1. TypeOK
    BY DEF KeySetsInv
  <1>2. TypeOK'
    BY <1>1, SelectStep DEF TypeOK, serverVars
  <1> QED
    BY <1>1, <1>2, SelectStep DEF KeySetsInv, Holding, serverVars, RightSince

LEMMA KeySetsStep == ASSUME KeySetsInv, [Next]_vars PROVE KeySetsInv'
  <1> USE JwksAssumption
  <1>1. CASE Rotate
    <2>1. TypeOK'
      BY <1>1 DEF KeySetsInv, TypeOK, Rotate, cacheVars, requestVars
    <2>2. /\ \A k \in Kid : turned'[k] <= now /\ turned'[k] >= turned[k]
          /\ \A k \in Kid : (k \in keys) # (k \in keys') => turned'[k] = now
      BY <1>1 DEF KeySetsInv, TypeOK, Rotate
    <2>3. ASSUME NEW set, NEW t \in Int, t <= now, RightSince(set, t)
          PROVE  RightSince(set, t)'
      <3>1. SUFFICES ASSUME NEW k \in Kid, (k \in set) # (k \in keys')
                     PROVE  turned'[k] >= t
        BY DEF RightSince
      <3>2. CASE (k \in keys) # (k \in keys')
        BY <2>2, <2>3, <3>2
      <3>3. CASE (k \in keys) = (k \in keys')
        <4>1. turned[k] >= t
          BY <2>3, <3>1, <3>3 DEF RightSince
        <4> QED
          BY <2>1, <2>2, <4>1 DEF KeySetsInv, TypeOK
      <3> QED
        BY <3>2, <3>3
    <2> QED
      BY <1>1, <2>1, <2>2, <2>3
      DEF KeySetsInv, Rotate, TypeOK, Cached, Job, Holding, cacheVars, requestVars
  <1>2. CASE Tick
    BY <1>2
    DEF KeySetsInv, TypeOK, Tick, Holding, RightSince, Cached, Job, serverVars,
        cacheVars, requestVars
  <1>3. ASSUME NEW r \in Request, Ask(r) PROVE KeySetsInv'
    BY <1>3
    DEF KeySetsInv, TypeOK, Ask, Goto, Holding, Awaits, RightSince, Job, serverVars, cacheVars
  <1>4. ASSUME NEW r \in Request, Lookup(r) PROVE KeySetsInv'
    <2>1. CASE Fresh
      BY <1>4, <2>1, SelectInv DEF Lookup, KeySetsInv, TypeOK, cacheVars
    <2>2. CASE ~Fresh
      BY <1>4, <2>2
      DEF Lookup, KeySetsInv, TypeOK, Goto, Holding, Awaits, RightSince, serverVars, cacheVars
    <2> QED
      BY <2>1, <2>2
  <1>5. ASSUME NEW r \in Request, Refresh(r) PROVE KeySetsInv'
    <2>1. CASE Fresh
      BY <1>5, <2>1, SelectInv DEF Refresh, KeySetsInv, TypeOK
    <2>2. CASE ~Fresh
      BY <1>5, <2>2
      DEF Refresh, KeySetsInv, TypeOK, Goto, Holding, Awaits, Answers, RightSince, Job, serverVars
    <2> QED
      BY <2>1, <2>2
  <1>6. ASSUME NEW r \in Request, Serve(r) PROVE KeySetsInv'
    BY <1>6
    DEF Serve, KeySetsInv, TypeOK, Goto, Holding, Awaits, RightSince, Job, serverVars, cacheVars
  <1>7. ASSUME NEW r \in Request, Store(r) PROVE KeySetsInv'
    <2>1. job[r] \in Job /\ RightSince(job[r].keys, job[r].sent)
          /\ now <= job[r].sent + Timeout
      BY <1>7 DEF Store, KeySetsInv, Holding
    <2>2. cache' \in Cached /\ cache'.fetched_at = now /\ cache'.keys = job[r].keys
      BY <1>7, <2>1 DEF Store, Cached, Job, KeySetsInv, TypeOK
    <2>3. RightSince(cache'.keys, cache'.fetched_at - Timeout)
      BY <2>1, <2>2 DEF RightSince, KeySetsInv, TypeOK, Job
    <2> QED
      BY <1>7, <2>1, <2>2, <2>3, SelectInv DEF Store, KeySetsInv, TypeOK
  <1>8. ASSUME NEW r \in Request, Fail(r) PROVE KeySetsInv'
    BY <1>8
    DEF Fail, KeySetsInv, TypeOK, Goto, Holding, Awaits, Answers, RightSince, serverVars, cacheVars
  <1>9. ASSUME NEW r \in Request, Drop(r) PROVE KeySetsInv'
    BY <1>9
    DEF Drop, KeySetsInv, TypeOK, Goto, Holding, Awaits, RightSince, serverVars, cacheVars
  <1>10. CASE UNCHANGED vars
    BY <1>10
    DEF vars, KeySetsInv, TypeOK, Holding, RightSince, serverVars, cacheVars, requestVars
  <1> QED
    BY <1>1, <1>2, <1>3, <1>4, <1>5, <1>6, <1>7, <1>8, <1>9, <1>10
    DEF Next, Work

\* Type correctness.
THEOREM TypeCorrect == Spec => []TypeOK
  <1>1. KeySetsInv => TypeOK
    BY DEF KeySetsInv
  <1> QED
    BY KeySetsInit, KeySetsStep, <1>1, PTL DEF Spec

\* The set a request decides on was right less than Ttl + Timeout ago.
LEMMA StepRecent ==
    ASSUME KeySetsInv, [Next]_vars, NEW r \in Request,
           \/ Decides(r, "accepted") /\ job[r].kid \notin keys
           \/ Decides(r, "unknown") /\ job[r].kid \in keys
    PROVE  now - turned[job[r].kid] < Ttl + Timeout
  <1> USE JwksAssumption
  <1>1. TypeOK /\ pc[r] # pc'[r] /\ pc'[r] \in {"accepted", "unknown"}
    BY DEF KeySetsInv, Decides
  <1>2. Lookup(r) \/ Refresh(r) \/ Store(r)
    BY <1>1
    DEF Next, Work, vars, Rotate, Tick, Ask, Lookup, Refresh, Serve, Store, Fail,
        Drop, Goto, requestVars, TypeOK, Select
  <1>3. ASSUME NEW set, NEW t \in Int, job[r] \in Job, Select(r, set),
               RightSince(set, t), now - t < Ttl + Timeout
        PROVE  now - turned[job[r].kid] < Ttl + Timeout
    <2>1. (job[r].kid \in set) # (job[r].kid \in keys) /\ job[r].kid \in Kid
      BY <1>1, <1>3, SelectStep DEF Decides, Job
    <2> QED
      BY <1>1, <1>3, <2>1 DEF RightSince, TypeOK
  <1>4. CASE (Lookup(r) \/ Refresh(r)) /\ Fresh
    <2>1. /\ job[r] \in Job /\ Select(r, cache.keys)
          /\ RightSince(cache.keys, cache.fetched_at - Timeout)
          /\ cache.fetched_at - Timeout \in Int
          /\ now - (cache.fetched_at - Timeout) < Ttl + Timeout
      BY <1>4 DEF KeySetsInv, TypeOK, Lookup, Refresh, Fresh, Cached
    <2> QED
      BY <1>3, <2>1
  <1>5. CASE (Lookup(r) \/ Refresh(r)) /\ ~Fresh
    BY <1>1, <1>5 DEF Lookup, Refresh, Goto, TypeOK
  <1>6. CASE Store(r)
    <2>1. /\ job[r] \in Job /\ Select(r, job[r].keys)
          /\ RightSince(job[r].keys, job[r].sent)
          /\ job[r].sent \in Int
          /\ now - job[r].sent < Ttl + Timeout
      BY <1>6 DEF KeySetsInv, TypeOK, Store, Holding, Job
    <2> QED
      BY <1>3, <2>1
  <1> QED
    BY <1>2, <1>4, <1>5, <1>6

\* Whatever the number of requests and the durations: a decision was right less
\* than a time to live and a fetch ago.
THEOREM DecisionsAreRecent == Spec => AnswersAreRecent
  <1>1. ASSUME KeySetsInv, [Next]_vars
        PROVE  [\A r \in Request :
                  \/ Decides(r, "accepted") /\ job[r].kid \notin keys
                  \/ Decides(r, "unknown") /\ job[r].kid \in keys
                  => now - turned[job[r].kid] < Ttl + Timeout]_vars
    BY <1>1, StepRecent
  <1> QED
    BY KeySetsInit, KeySetsStep, <1>1, PTL DEF Spec, AnswersAreRecent

\* One request holds the lock, and a set it replaces has been stale since it
\* took it.
SingleFlight ==
    /\ \A q, r \in Request : {pc[q], pc[r]} \subseteq Holding => q = r
    /\ \A r \in Request : pc[r] \in Holding => ~ Fresh

\* A request that does not take the lock leaves it, the cache and time alone.
LEMMA SingleFlightKept ==
    ASSUME KeySetsInv, SingleFlight, NEW r \in Request,
           pc' \in [Request -> Awaits], \A q \in Request : q # r => pc'[q] = pc[q],
           pc'[r] \in Holding => pc[r] \in Holding,
           UNCHANGED <<now, cache>>
    PROVE  SingleFlight'
  BY DEF SingleFlight, Fresh

LEMMA SingleFlightStep ==
    ASSUME KeySetsInv, SingleFlight, [Next]_vars PROVE SingleFlight'
  <1>1. TypeOK
    BY DEF KeySetsInv
  <1>2. CASE Rotate \/ UNCHANGED vars
    BY <1>2 DEF Rotate, SingleFlight, Fresh, vars, cacheVars, requestVars
  <1>3. CASE Tick
    BY <1>1, <1>3, JwksAssumption
    DEF Tick, SingleFlight, Fresh, TypeOK, Cached, cacheVars, requestVars
  <1>4. ASSUME NEW r \in Request, Ask(r) \/ Serve(r) \/ Fail(r) \/ Drop(r)
        PROVE  SingleFlight'
    BY <1>1, <1>4, SingleFlightKept
    DEF Ask, Serve, Fail, Drop, Goto, TypeOK, Awaits, Answers, Holding, cacheVars
  <1>5. ASSUME NEW r \in Request, Lookup(r) PROVE SingleFlight'
    BY <1>1, <1>5, SelectStep, SingleFlightKept
    DEF KeySetsInv, Lookup, Goto, TypeOK, Awaits, Holding, cacheVars
  <1>6. ASSUME NEW r \in Request, Refresh(r) PROVE SingleFlight'
    <2>1. CASE Fresh
      BY <1>1, <1>6, <2>1, SelectStep, SingleFlightKept
      DEF KeySetsInv, Refresh, TypeOK, Awaits, Holding
    <2>2. CASE ~ Fresh
      <3>1. /\ \A q \in Request : pc[q] \notin Holding
            /\ \A q \in Request : q # r => pc'[q] = pc[q]
            /\ UNCHANGED <<now, cache>>
        BY <1>1, <1>6, <2>2 DEF Refresh, Goto, TypeOK
      <3> QED
        BY <2>2, <3>1 DEF SingleFlight, Fresh
    <2> QED
      BY <2>1, <2>2
  <1>7. ASSUME NEW r \in Request, Store(r) PROVE SingleFlight'
    <2>1. /\ \A q \in Request : q # r => pc'[q] = pc[q]
          /\ pc'[r] \notin Holding
          /\ pc[r] \in Holding
      BY <1>1, <1>7, SelectStep DEF KeySetsInv, Store, Holding
    <2>2. \A q \in Request : pc'[q] \notin Holding
      BY <2>1 DEF SingleFlight
    <2> QED
      BY <2>2 DEF SingleFlight
  <1> QED
    BY <1>2, <1>3, <1>4, <1>5, <1>6, <1>7 DEF Next, Work

\* Whatever the number of requests and the durations, fetches that fail and
\* clients that leave in the middle of one included: the server is asked by one
\* request at a time, and a set is not replaced within its time to live.
THEOREM FetchesDoNotStampede == Spec => NoStampede
  <1>1. Init => SingleFlight
    BY DEF Init, SingleFlight, Holding
  <1>2. ASSUME SingleFlight, KeySetsInv, [Next]_vars
        PROVE  [cache' # cache /\ cache # None => now - cache.fetched_at >= Ttl]_vars
    <2> SUFFICES ASSUME cache' # cache, cache # None
                 PROVE  now - cache.fetched_at >= Ttl
      OBVIOUS
    <2>1. PICK r \in Request : Store(r)
      BY <1>2
      DEF Next, Work, vars, Rotate, Tick, Ask, Lookup, Refresh, Serve, Fail, Drop, cacheVars
    <2>2. ~ Fresh
      BY <1>2, <2>1 DEF Store, SingleFlight, Holding
    <2> QED
      BY <1>2, <2>2, JwksAssumption DEF Fresh, KeySetsInv, TypeOK, Cached
  <1>3. SingleFlight => \A q, r \in Request : {pc[q], pc[r]} \subseteq Holding => q = r
    BY DEF SingleFlight
  <1> QED
    BY KeySetsInit, KeySetsStep, SingleFlightStep, <1>1, <1>2, <1>3, PTL DEF Spec, NoStampede

-----------------------------------------------------------------------------
(* Natural numbers: induction and recursion, as statements about sets.     *)

\* The relation < as a set of pairs, for which the library's theorems can be used.
Less == {p \in Nat \X Nat : p[1] < p[2]}

LEMMA LessIsWellFounded == IsWellFoundedOn(Less, Nat)
  <1>1. OpToRel(<, Nat) = Less
    BY DEF OpToRel, Less
  <1> QED
    BY <1>1, NatLessThanWellFounded

\* A set of natural numbers has a least one.
LEMMA LeastNatural ==
    ASSUME NEW S, S \subseteq Nat, S # {}
    PROVE  \E m \in S : \A k \in S : m <= k
  <1>1. PICK m \in S : \A k \in S : ~ (<<k, m>> \in Less)
    BY LessIsWellFounded, WFMin
  <1>2. ASSUME NEW k \in S PROVE m <= k
    <2>1. k \in Nat /\ m \in Nat
      OBVIOUS
    <2>2. ~ (<<k, m>> \in Less)
      BY <1>1
    <2>3. ~ (k < m)
      BY <2>1, <2>2 DEF Less
    <2> QED
      BY <2>1, <2>3
  <1> QED
    BY <1>2

\* Induction, as a statement about sets.
LEMMA InductionOnSets ==
    ASSUME NEW S, 0 \in S, \A n \in Nat : n \in S => n + 1 \in S
    PROVE  Nat \subseteq S
  <1> SUFFICES ASSUME Nat \ S # {} PROVE FALSE
    OBVIOUS
  <1>1. PICK m \in Nat \ S : \A k \in Nat \ S : m <= k
    BY LeastNatural
  <1>2. m # 0 /\ m - 1 \in Nat
    BY <1>1
  <1>3. m - 1 \in S
    BY <1>1, <1>2
  <1> QED
    BY <1>2, <1>3

\* A set of numbers that has a bound has a greatest one.
LEMMA GreatestNatural ==
    ASSUME NEW n \in Nat, NEW S, S \subseteq 1 .. n, S # {}
    PROVE  \E m \in S : \A k \in S : k <= m
  <1> DEFINE down == {n - k : k \in S}
  <1>1. down \subseteq Nat /\ down # {}
    <2>1. \A k \in S : k \in 1 .. n
      OBVIOUS
    <2>2. \A k \in S : n - k \in Nat
      BY <2>1
    <2> QED
      BY <2>2
  <1>2. PICK d \in down : \A k \in down : d <= k
    BY <1>1, LeastNatural
  <1>3. PICK m \in S : d = n - m
    OBVIOUS
  <1>4. ASSUME NEW k \in S PROVE k <= m
    <2>1. n - m <= n - k
      BY <1>2, <1>3
    <2>2. k \in 1 .. n /\ m \in 1 .. n
      OBVIOUS
    <2> QED
      BY <2>1, <2>2
  <1> QED
    BY <1>4

\* Induction up to a bound.
LEMMA InductionUpTo ==
    ASSUME NEW n \in Nat, NEW S, 0 \in S, \A i \in 1 .. n : i - 1 \in S => i \in S
    PROVE  0 .. n \subseteq S
  <1> DEFINE T == {i \in Nat : i <= n => i \in S}
  <1>1. 0 \in T
    OBVIOUS
  <1>2. ASSUME NEW i \in Nat, i \in T PROVE i + 1 \in T
    <2> SUFFICES ASSUME i + 1 <= n PROVE i + 1 \in S
      OBVIOUS
    <2>1. i \in S /\ i + 1 \in 1 .. n /\ (i + 1) - 1 = i
      BY <1>2
    <2> QED
      BY <2>1
  <1>3. Nat \subseteq T
    BY <1>1, <1>2, InductionOnSets
  <1> QED
    BY <1>3

\* Recursion: what is defined step by step exists.
Exists(n, B, first, step) ==
    \E f \in [0 .. n -> B] :
        f[0] = first /\ \A i \in 1 .. n : f[i] = step[<<i, f[i - 1]>>]

LEMMA RecursionUpTo ==
    ASSUME NEW n \in Nat, NEW B, NEW first \in B, NEW step \in [(1 .. n) \X B -> B]
    PROVE  Exists(n, B, first, step)
  <1> DEFINE Upto(m, f) == /\ f \in [0 .. m -> B]
                           /\ f[0] = first
                           /\ \A i \in 1 .. m : f[i] = step[<<i, f[i - 1]>>]
             S == {m \in 0 .. n : \E f : Upto(m, f)}
  <1>1. 0 \in S
    <2> DEFINE base == [i \in 0 .. 0 |-> first]
    <2>1. base \in [0 .. 0 -> B] /\ base[0] = first
      OBVIOUS
    <2> HIDE DEF base
    <2>2. Upto(0, base)
      BY <2>1
    <2> QED
      BY <2>2
  <1>2. ASSUME NEW m \in 1 .. n, m - 1 \in S PROVE m \in S
    <2>1. PICK f : Upto(m - 1, f)
      BY <1>2
    <2> DEFINE last == step[<<m, f[m - 1]>>]
               g == [i \in 0 .. m |-> IF i = m THEN last ELSE f[i]]
    <2>2. f[m - 1] \in B /\ last \in B
      BY <2>1
    <2>3. g \in [0 .. m -> B]
      <3> HIDE DEF last
      <3> QED
        BY <2>1, <2>2
    <2>4. g[0] = first
      BY <2>1
    <2>5. ASSUME NEW i \in 1 .. m PROVE g[i] = step[<<i, g[i - 1]>>]
      <3>1. i - 1 \in 0 .. m /\ i - 1 # m /\ g[i - 1] = f[i - 1]
        OBVIOUS
      <3>2. CASE i = m
        BY <3>1, <3>2
      <3>3. CASE i # m
        <4>1. i \in 1 .. m - 1 /\ g[i] = f[i]
          BY <3>3
        <4> QED
          BY <2>1, <3>1, <4>1
      <3> QED
        BY <3>2, <3>3
    <2> HIDE DEF g
    <2>6. Upto(m, g)
      BY <2>3, <2>4, <2>5
    <2> QED
      BY <2>6
  <1>3. n \in S
    <2> HIDE DEF S
    <2>1. 0 .. n \subseteq S
      BY <1>1, <1>2, InductionUpTo
    <2> QED
      BY <2>1
  <1> QED
    BY <1>3 DEF Exists

-----------------------------------------------------------------------------
(* API keys.                                                               *)

\* Instants are numbers.
LEMMA Instants ==
    ASSUME Secrets!TypeOK
    PROVE  /\ Ttl \in Nat \ {0} /\ MaxTime \in Nat
           /\ Secrets!Never \in Nat /\ Secrets!Never = MaxTime + Ttl + 1
           /\ x1 \in Nat /\ x1 <= MaxTime /\ x6 \in Nat
           /\ \A k \in Kid : /\ x2[k].expires \in Nat /\ x2[k].ended \in Nat
                             /\ x3[k] \in Nat /\ Secrets!EndOf(k) \in Nat
                             /\ Secrets!EndOf(k) <= x2[k].expires
                             /\ Secrets!EndOf(k) <= x2[k].ended
  <1>1. Ttl \in Nat \ {0} /\ MaxTime \in Nat
    BY JwksAssumption
  <1>2. Secrets!Never \in Nat /\ Secrets!Never = MaxTime + Ttl + 1
    BY <1>1 DEF Secrets!Never
  <1>3. x1 \in Nat /\ x1 <= MaxTime /\ x6 \in Nat
    BY <1>1 DEF Secrets!TypeOK
  <1>4. ASSUME NEW k \in Kid
        PROVE  /\ x2[k].expires \in Nat /\ x2[k].ended \in Nat /\ x3[k] \in Nat
    BY <1>2 DEF Secrets!TypeOK
  <1> QED
    BY <1>1, <1>2, <1>3, <1>4 DEF Secrets!EndOf

\* A step that changes no row, and keeps nothing for longer than it may.
LEMMA RowsStay ==
    ASSUME Secrets!KeysInv, Secrets!TypeOK', UNCHANGED x2, x1' >= x1, x6' >= x6,
           \A k \in Kid : x3'[k] = x3[k] \/ x3'[k] = 0
                          \/ /\ x3'[k] <= x1' + Ttl
                             /\ x3'[k] <= Secrets!EndOf(k) + Ttl + x6'
                             /\ x2[k].state # "absent",
           \A r \in Request :
              \/ x4'[r] = x4[r] \/ x4'[r] = Secrets!NoKey
              \/ LET k == x4'[r].key
                 IN  k \in Kid /\ x2[k].state # "absent"
                     /\ x4'[r].read <= x1' /\ x4'[r].read <= Secrets!EndOf(k),
           \/ x5' = x5
           \/ /\ x5'.key \in Kid /\ x5'.at = x1' /\ x2[x5'.key].state # "absent"
              /\ x5'.at < Secrets!EndOf(x5'.key) + Ttl + x6'
    PROVE  Secrets!KeysInv'
  <1>1. \A k \in Kid : Secrets!EndOf(k)' = Secrets!EndOf(k)
    BY DEF Secrets!EndOf
  <1>2. Secrets!Never' = Secrets!Never /\ Secrets!NoKey' = Secrets!NoKey
    BY DEF Secrets!Never, Secrets!NoKey
  <1>3. x1 \in Nat /\ x1' \in Nat /\ x6 \in Nat /\ x6' \in Nat /\ Ttl \in Nat
    BY Instants DEF Secrets!KeysInv, Secrets!TypeOK
  <1>4. \A k \in Kid : Secrets!EndOf(k) \in Nat /\ x3[k] \in Nat
                       /\ x2[k].ended \in Nat /\ x2[k].expires \in Nat
    BY Instants DEF Secrets!KeysInv
  <1>5. Secrets!EndsOnce'
    BY <1>2, <1>3, <1>4 DEF Secrets!KeysInv, Secrets!EndsOnce
  <1>6. Secrets!LookupsWereValid'
    <2> SUFFICES ASSUME NEW r \in Request, x4'[r] # Secrets!NoKey
                 PROVE  /\ x4'[r].key \in Kid /\ x2[x4'[r].key].state # "absent"
                        /\ x4'[r].read <= x1'
                        /\ x4'[r].read <= Secrets!EndOf(x4'[r].key)
      BY <1>1, <1>2 DEF Secrets!LookupsWereValid
    <2>1. CASE x4'[r] = x4[r]
      <3>1. /\ x4[r].key \in Kid /\ x2[x4[r].key].state # "absent"
            /\ x4[r].read <= x1 /\ x4[r].read <= Secrets!EndOf(x4[r].key)
        BY <2>1 DEF Secrets!KeysInv, Secrets!LookupsWereValid
      <3>2. x4[r].read \in Nat
        BY Instants DEF Secrets!KeysInv, Secrets!TypeOK
      <3> QED
        BY <1>3, <2>1, <3>1, <3>2
    <2> QED
      BY <2>1
  <1>7. Secrets!KeptIsBounded'
    <2> SUFFICES ASSUME NEW k \in Kid
                 PROVE  x3'[k] <= x1' + Ttl /\ x3'[k] <= Secrets!EndOf(k) + Ttl + x6'
      BY <1>1 DEF Secrets!KeptIsBounded
    <2>1. x3[k] <= x1 + Ttl /\ x3[k] <= Secrets!EndOf(k) + Ttl + x6
      BY DEF Secrets!KeysInv, Secrets!KeptIsBounded
    <2> QED
      BY <1>3, <1>4, <2>1
  <1>8. Secrets!AcceptedIsStored' /\ Secrets!EndedKeysStop'
    <2>1. CASE x5' = x5
      <3> SUFFICES ASSUME x5.key # "none"
                   PROVE  /\ x5.at <= x1' /\ x2[x5.key].state # "absent"
                          /\ x5.at < Secrets!EndOf(x5.key) + Ttl + x6'
        BY <1>1, <2>1 DEF Secrets!AcceptedIsStored, Secrets!EndedKeysStop, Secrets!EndOf
      <3>1. x5.key \in Kid /\ x5.at \in Nat
        BY Instants DEF Secrets!KeysInv, Secrets!TypeOK
      <3> QED
        BY <1>3, <1>4, <3>1
        DEF Secrets!KeysInv, Secrets!AcceptedIsStored, Secrets!EndedKeysStop
    <2>2. CASE x5' # x5
      <3>1. /\ x5'.key \in Kid /\ x5'.at = x1' /\ x2[x5'.key].state # "absent"
            /\ x5'.at < Secrets!EndOf(x5'.key) + Ttl + x6'
        BY <2>2
      <3> QED
        BY <1>1, <1>3, <3>1 DEF Secrets!AcceptedIsStored, Secrets!EndedKeysStop, Secrets!EndOf
    <2> QED
      BY <2>1, <2>2
  <1> QED
    BY <1>5, <1>6, <1>7, <1>8 DEF Secrets!KeysInv

\* A step that ends keys, now, or stores new ones, and leaves the caches.
LEMMA CachesStay ==
    ASSUME Secrets!KeysInv, Secrets!TypeOK', UNCHANGED <<x1, x3, x4, x5, x6>>,
           \A k \in Kid :
              \/ x2'[k] = x2[k]
              \/ /\ x2[k].state = "absent" /\ x2'[k].state = "active"
                 /\ x2'[k].ended = Secrets!Never /\ x2'[k].expires >= x1
              \/ /\ x2[k].state = "active" /\ x2'[k].state = "revoked"
                 /\ x2'[k].ended = x1 /\ x2'[k].expires = x2[k].expires
    PROVE  Secrets!KeysInv'
  <1> DEFINE endOf(k) == Secrets!EndOf(k)'
  <1>1. Secrets!Never' = Secrets!Never /\ Secrets!NoKey' = Secrets!NoKey
    BY DEF Secrets!Never, Secrets!NoKey
  <1>2. x1 \in Nat /\ x6 \in Nat /\ Ttl \in Nat \ {0} /\ MaxTime \in Nat
        /\ Secrets!Never = MaxTime + Ttl + 1 /\ x1 <= MaxTime
    BY Instants DEF Secrets!KeysInv
  <1>3. \A k \in Kid : /\ Secrets!EndOf(k) \in Nat /\ x3[k] \in Nat
                       /\ x2[k].ended \in Nat /\ x2[k].expires \in Nat
                       /\ x2'[k].ended \in Nat /\ x2'[k].expires \in Nat
    BY <1>1, <1>2, Instants DEF Secrets!KeysInv, Secrets!TypeOK
  <1>4. Secrets!EndsOnce'
    <2> SUFFICES ASSUME NEW k \in Kid
                 PROVE  /\ x2'[k].state = "absent" =>
                              x3[k] = 0 /\ x2'[k].expires = Secrets!Never
                        /\ IF x2'[k].state = "revoked" THEN x2'[k].ended <= x1
                           ELSE x2'[k].ended = Secrets!Never
      BY <1>1 DEF Secrets!EndsOnce
    <2> QED
      BY <1>2 DEF Secrets!KeysInv, Secrets!EndsOnce
  \* A key that has an end, or gets one, has it no earlier than it had or now.
  <1>5. ASSUME NEW k \in Kid, x2[k].state # "absent"
        PROVE  /\ x2'[k].state # "absent" /\ endOf(k) \in Nat
               /\ endOf(k) = Secrets!EndOf(k)
                  \/ endOf(k) = x1 \/ endOf(k) = x2[k].expires
               /\ endOf(k) # Secrets!EndOf(k) => Secrets!EndOf(k) <= x2[k].expires
    BY <1>3, <1>5 DEF Secrets!EndOf
  <1>6. Secrets!LookupsWereValid'
    <2> SUFFICES ASSUME NEW r \in Request, x4[r] # Secrets!NoKey
                 PROVE  /\ x4[r].key \in Kid /\ x2'[x4[r].key].state # "absent"
                        /\ x4[r].read <= x1
                        /\ x4[r].read <= endOf(x4[r].key)
      BY <1>1 DEF Secrets!LookupsWereValid, Secrets!EndOf
    <2>1. /\ x4[r].key \in Kid /\ x2[x4[r].key].state # "absent"
          /\ x4[r].read <= x1 /\ x4[r].read <= Secrets!EndOf(x4[r].key)
      BY DEF Secrets!KeysInv, Secrets!LookupsWereValid
    <2>2. x4[r].read \in Nat
      BY Instants DEF Secrets!KeysInv, Secrets!TypeOK
    <2> QED
      BY <1>2, <1>3, <1>5, <2>1, <2>2
  <1>7. Secrets!KeptIsBounded'
    <2> SUFFICES ASSUME NEW k \in Kid
                 PROVE  x3[k] <= x1 + Ttl /\ x3[k] <= endOf(k) + Ttl + x6
      BY DEF Secrets!KeptIsBounded, Secrets!EndOf
    <2>1. x3[k] <= x1 + Ttl /\ x3[k] <= Secrets!EndOf(k) + Ttl + x6
      BY DEF Secrets!KeysInv, Secrets!KeptIsBounded
    <2>2. CASE x2[k].state = "absent"
      <3>1. x3[k] = 0
        BY <2>2 DEF Secrets!KeysInv, Secrets!EndsOnce
      <3>2. endOf(k) \in Nat
        BY <1>3 DEF Secrets!EndOf
      <3> QED
        BY <1>2, <2>1, <3>1, <3>2
    <2>3. CASE x2[k].state # "absent"
      BY <1>2, <1>3, <1>5, <2>1, <2>3
    <2> QED
      BY <2>2, <2>3
  <1>8. Secrets!AcceptedIsStored' /\ Secrets!EndedKeysStop'
    <2> SUFFICES ASSUME x5.key # "none"
                 PROVE  /\ x5.at <= x1 /\ x2'[x5.key].state # "absent"
                        /\ x5.at < endOf(x5.key) + Ttl + x6
      BY DEF Secrets!AcceptedIsStored, Secrets!EndedKeysStop, Secrets!EndOf
    <2>1. x5.key \in Kid /\ x5.at \in Nat
      BY Instants DEF Secrets!KeysInv, Secrets!TypeOK
    <2>2. /\ x5.at <= x1 /\ x2[x5.key].state # "absent"
          /\ x5.at < Secrets!EndOf(x5.key) + Ttl + x6
      BY DEF Secrets!KeysInv, Secrets!AcceptedIsStored, Secrets!EndedKeysStop
    <2> QED
      BY <1>2, <1>3, <1>5, <2>1, <2>2
  <1> QED
    BY <1>4, <1>6, <1>7, <1>8 DEF Secrets!KeysInv

LEMMA KeysNext == Secrets!KeysInv /\ Secrets!Next => Secrets!KeysInv'
  <1> SUFFICES ASSUME Secrets!KeysInv, Secrets!Next PROVE Secrets!KeysInv'
    OBVIOUS
  <1>1. /\ Secrets!TypeOK /\ x1 \in Nat /\ x6 \in Nat /\ Ttl \in Nat \ {0} /\ MaxTime \in Nat
        /\ Secrets!Never \in Nat /\ Secrets!Never = MaxTime + Ttl + 1 /\ x1 <= MaxTime
    BY Instants DEF Secrets!KeysInv
  <1>2. Secrets!Never' = Secrets!Never /\ Secrets!NoKey' = Secrets!NoKey
    BY DEF Secrets!Never, Secrets!NoKey
  <1>3. ASSUME NEW k \in Kid, Secrets!Create(k) PROVE Secrets!KeysInv'
    <2>1. PICK expires \in (x1 .. MaxTime) \cup {Secrets!Never}, sound \in BOOLEAN :
             x2' = [x2 EXCEPT ![k] = [state |-> "active", expires |-> expires,
                                      ended |-> Secrets!Never, sound |-> sound]]
      BY <1>3 DEF Secrets!Create
    <2>2. expires \in 0 .. Secrets!Never /\ expires >= x1
      BY <1>1
    <2>3. Secrets!TypeOK'
      BY <1>1, <1>2, <1>3, <2>1, <2>2 DEF Secrets!TypeOK, Secrets!Create
    <2> QED
      BY <1>1, <1>3, <2>1, <2>2, <2>3, CachesStay DEF Secrets!Create, Secrets!TypeOK
  <1>4. ASSUME NEW k \in Kid, Secrets!Revoke(k) PROVE Secrets!KeysInv'
    <2>1. /\ x2[k].state = "active"
          /\ x2' = [x2 EXCEPT ![k].state = "revoked", ![k].ended = x1]
          /\ UNCHANGED <<x1, x3, x4, x5, x6>>
      BY <1>4 DEF Secrets!Revoke
    <2> DEFINE R == [state : {"absent", "active", "revoked"}, expires : 0 .. Secrets!Never,
                     ended : 0 .. Secrets!Never, sound : BOOLEAN]
    <2>2. x2 \in [Kid -> R] /\ x1 \in 0 .. Secrets!Never
      BY <1>1 DEF Secrets!TypeOK
    <2>3. x2'[k] \in R /\ x2'[k].state = "revoked" /\ x2'[k].ended = x1
          /\ x2'[k].expires = x2[k].expires
      BY <2>1, <2>2
    <2>4. x2' \in [Kid -> R] /\ \A i \in Kid \ {k} : x2'[i] = x2[i]
      <3> HIDE DEF R
      <3> QED
        BY <2>1, <2>2, <2>3
    <2>5. Secrets!TypeOK'
      BY <1>1, <1>2, <2>1, <2>4 DEF Secrets!TypeOK
    <2> QED
      BY <2>1, <2>3, <2>4, <2>5, CachesStay
  <1>5. ASSUME NEW k \in Kid, Secrets!Evict(k) PROVE Secrets!KeysInv'
    <2>1. Secrets!TypeOK'
      BY <1>1, <1>2, <1>5 DEF Secrets!TypeOK, Secrets!Evict
    <2> QED
      BY <1>1, <1>5, <2>1, RowsStay DEF Secrets!Evict, Secrets!TypeOK
  <1>6. ASSUME NEW k \in Kid, NEW r \in Request, Secrets!Hit(r, k) PROVE Secrets!KeysInv'
    <2>1. Secrets!TypeOK'
      BY <1>1, <1>2, <1>6 DEF Secrets!TypeOK, Secrets!Hit, Secrets!Accept
    <2>2. x2[k].state # "absent"
      BY <1>1, <1>6 DEF Secrets!KeysInv, Secrets!EndsOnce, Secrets!Hit
    <2>3. x1 < Secrets!EndOf(k) + Ttl + x6
      <3>1. x3[k] > x1 /\ x3[k] <= Secrets!EndOf(k) + Ttl + x6
        BY <1>6 DEF Secrets!KeysInv, Secrets!KeptIsBounded, Secrets!Hit
      <3>2. x3[k] \in Nat /\ Secrets!EndOf(k) \in Nat
        BY <1>1, Instants
      <3> QED
        BY <1>1, <3>1, <3>2
    <2>4. x5' = x5 \/ x5' = [key |-> k, at |-> x1]
      BY <1>6 DEF Secrets!Hit, Secrets!Accept
    <2>5. UNCHANGED <<x1, x2, x3, x4, x6>>
      BY <1>6 DEF Secrets!Hit
    <2>6. \/ x5' = x5
          \/ /\ x5'.key \in Kid /\ x5'.at = x1' /\ x2[x5'.key].state # "absent"
             /\ x5'.at < Secrets!EndOf(x5'.key) + Ttl + x6'
      BY <2>2, <2>3, <2>4, <2>5
    <2> QED
      BY <1>1, <2>1, <2>5, <2>6, RowsStay
  <1>7. ASSUME NEW k \in Kid, NEW r \in Request, Secrets!Look(r, k) PROVE Secrets!KeysInv'
    <2>1. Secrets!TypeOK'
      BY <1>1, <1>2, <1>7 DEF Secrets!TypeOK, Secrets!Look
    <2>2. UNCHANGED <<x1, x2, x3, x5, x6>> /\ x4' = [x4 EXCEPT ![r] = [key |-> k, read |-> x1]]
          /\ Secrets!Valid(k)
      BY <1>7 DEF Secrets!Look
    <2>3. x2[k].state # "absent" /\ x1 <= Secrets!EndOf(k)
      <3>1. x2[k].state = "active" /\ x2[k].expires > x1 /\ x2[k].ended = Secrets!Never
        BY <2>2 DEF Secrets!Valid, Secrets!KeysInv, Secrets!EndsOnce
      <3>2. x2[k].expires \in Nat
        BY <1>1, Instants
      <3> QED
        BY <1>1, <3>1, <3>2 DEF Secrets!EndOf
    <2>4. \A q \in Request :
             \/ x4'[q] = x4[q]
             \/ /\ x4'[q].key \in Kid /\ x2[x4'[q].key].state # "absent"
                /\ x4'[q].read <= x1' /\ x4'[q].read <= Secrets!EndOf(x4'[q].key)
      BY <1>1, <2>2, <2>3 DEF Secrets!TypeOK
    <2> QED
      BY <1>1, <2>1, <2>2, <2>4, RowsStay
  <1>8. ASSUME NEW r \in Request, Secrets!Store(r) PROVE Secrets!KeysInv'
    <2> DEFINE k == x4[r].key
               took == x1 - x4[r].read
    <2>1. /\ k \in Kid /\ x2[k].state # "absent"
          /\ x4[r].read <= x1 /\ x4[r].read <= Secrets!EndOf(k)
          /\ x4[r].read \in Nat /\ Secrets!EndOf(k) \in Nat
      BY <1>1, <1>8, Instants
      DEF Secrets!Store, Secrets!KeysInv, Secrets!LookupsWereValid, Secrets!TypeOK
    <2>2. /\ x3' = [x3 EXCEPT ![k] = x1 + Ttl]
          /\ x4' = [x4 EXCEPT ![r] = Secrets!NoKey]
          /\ x6' = IF took > x6 THEN took ELSE x6
          /\ x5' = x5 \/ x5' = [key |-> k, at |-> x1]
          /\ UNCHANGED <<x1, x2>>
      BY <1>8 DEF Secrets!Store, Secrets!Accept
    <2>3. took \in 0 .. MaxTime
      BY <1>1, <2>1
    <2> HIDE DEF k, took
    <2>4. x6' \in 0 .. MaxTime /\ x6' >= x6 /\ x6' >= took
      BY <1>1, <2>2, <2>3 DEF Secrets!TypeOK
    <2>5. Secrets!TypeOK'
      BY <1>1, <1>2, <2>1, <2>2, <2>4 DEF Secrets!TypeOK, Secrets!NoKey
    <2>6. x1 + Ttl <= Secrets!EndOf(k) + Ttl + x6' /\ x1 < Secrets!EndOf(k) + Ttl + x6'
      BY <1>1, <2>1, <2>3, <2>4 DEF took
    <2>7. \/ x5' = x5
          \/ /\ x5'.key \in Kid /\ x5'.at = x1' /\ x2[x5'.key].state # "absent"
             /\ x5'.at < Secrets!EndOf(x5'.key) + Ttl + x6'
      BY <2>1, <2>2, <2>6
    <2>8. \A i \in Kid : x3'[i] = x3[i]
                         \/ /\ x3'[i] <= x1' + Ttl
                            /\ x3'[i] <= Secrets!EndOf(i) + Ttl + x6'
                            /\ x2[i].state # "absent"
      BY <1>1, <2>1, <2>2, <2>6 DEF Secrets!TypeOK
    <2>9. \A q \in Request : x4'[q] = x4[q] \/ x4'[q] = Secrets!NoKey
      BY <1>1, <2>2 DEF Secrets!TypeOK
    <2> QED
      BY <1>1, <2>2, <2>4, <2>5, <2>7, <2>8, <2>9, RowsStay
  <1>9. ASSUME NEW r \in Request, Secrets!Abandon(r) PROVE Secrets!KeysInv'
    <2>1. Secrets!TypeOK'
      BY <1>1, <1>2, <1>9 DEF Secrets!TypeOK, Secrets!Abandon, Secrets!NoKey
    <2> QED
      BY <1>1, <1>9, <2>1, RowsStay DEF Secrets!Abandon, Secrets!TypeOK
  <1>10. CASE Secrets!Tick
    <2>1. Secrets!TypeOK'
      BY <1>1, <1>2, <1>10 DEF Secrets!TypeOK, Secrets!Tick
    <2> QED
      BY <1>1, <1>10, <2>1, RowsStay DEF Secrets!Tick, Secrets!TypeOK
  <1> QED
    BY <1>3, <1>4, <1>5, <1>6, <1>7, <1>8, <1>9, <1>10 DEF Secrets!Next

LEMMA KeysInit == Secrets!Init => Secrets!KeysInv
  <1> SUFFICES ASSUME Secrets!Init PROVE Secrets!KeysInv
    OBVIOUS
  <1>1. Secrets!Never \in Nat /\ Ttl \in Nat /\ MaxTime \in Nat
    BY JwksAssumption DEF Secrets!Never
  <1>2. Secrets!TypeOK
    BY <1>1 DEF Secrets!Init, Secrets!TypeOK, Secrets!NoKey
  <1> QED
    BY <1>1, <1>2
    DEF Secrets!Init, Secrets!KeysInv, Secrets!EndsOnce, Secrets!LookupsWereValid,
        Secrets!KeptIsBounded, Secrets!AcceptedIsStored, Secrets!EndedKeysStop, Secrets!EndOf

LEMMA KeysStay == Secrets!KeysInv /\ UNCHANGED others => Secrets!KeysInv'
  BY DEF others, Secrets!KeysInv, Secrets!TypeOK, Secrets!EndsOnce, Secrets!LookupsWereValid,
     Secrets!KeptIsBounded, Secrets!AcceptedIsStored, Secrets!EndedKeysStop, Secrets!EndOf,
     Secrets!Never, Secrets!NoKey

SecretsHold == part = "secrets" => Secrets!KeysInv

LEMMA SecretsInvariant == MCSpec => []SecretsHold
  <1>1. MCInit => SecretsHold
    BY KeysInit DEF MCInit, SecretsHold
  <1>2. SecretsHold /\ [MCNext]_<<part, vars, others>> => SecretsHold'
    BY KeysNext, KeysStay DEF MCNext, SecretsHold
  <1> QED
    BY <1>1, <1>2, PTL DEF MCSpec

\* For any number of keys and requests, and any time an answer is kept: a key that was
\* revoked or has expired is accepted no longer than that and the slowest lookup.
THEOREM EndedKeysAreStopped == MCSpec => []EndedKeysStop
  <1>1. SecretsHold => EndedKeysStop
    BY DEF SecretsHold, EndedKeysStop, Secrets!KeysInv
  <1> QED
    BY <1>1, SecretsInvariant, PTL

-----------------------------------------------------------------------------
(* Signing keys.                                                           *)

\* Of the active keys one was created last.
LEMMA NewestIsActive ==
    ASSUME Signing!SigningInv, Signing!Active # {}
    PROVE  Signing!Newest \in Signing!Active
  <1> DEFINE at == {i \in DOMAIN x3 : x3[i] \in Signing!Active}
  <1>1. x3 \in Seq(Key) /\ Len(x3) \in Nat /\ DOMAIN x3 = 1 .. Len(x3)
    BY DEF Signing!SigningInv, Signing!TypeOK
  <1>2. \E k \in Signing!Active : \A i, j \in DOMAIN x3 :
           x3[i] = k /\ x3[j] \in Signing!Active => j <= i
    <2>1. CASE at = {}
      BY <2>1
    <2>2. CASE at # {}
      <3>1. PICK m \in at : \A k \in at : k <= m
        BY <1>1, <2>2, GreatestNatural
      <3>2. \A i, j \in DOMAIN x3 : x3[i] = x3[m] /\ x3[j] \in Signing!Active => j <= i
        BY <3>1 DEF Signing!SigningInv, Signing!BornOnce
      <3> QED
        BY <3>1, <3>2
    <2> QED
      BY <2>1, <2>2
  <1> QED
    BY <1>2 DEF Signing!Newest

\* A step that leaves the table alone, and the rotations, what signs and what signed.
LEMMA AccountedStay ==
    ASSUME Signing!SigningInv, Signing!TypeOK', UNCHANGED <<x2, x3, x4, x5, x6, x7>>
    PROVE  Signing!SigningInv'
  BY DEF Signing!SigningInv, Signing!BornOnce, Signing!RotatedAreThere,
         Signing!SignersAreAccounted, Signing!Accounted

\* A step after which every row is there that was, with the same keys.
LEMMA SigningRowsStay ==
    ASSUME Signing!SigningInv, Signing!TypeOK',
           \A k \in Key : x2[k] # None => x2'[k] # None /\ x2'[k].pair = x2[k].pair,
           \A k \in Key : x5'[k] # None => \A j \in x5'[k] : x2[j] # None,
           UNCHANGED <<x3, x4, x6, x7>>
    PROVE  Signing!SigningInv'
  <1>1. Signing!TypeOK /\ Signing!BornOnce /\ Signing!SignersAreAccounted
    BY DEF Signing!SigningInv
  <1>2. Signing!BornOnce'
    BY <1>1 DEF Signing!TypeOK, Signing!BornOnce
  <1>3. Signing!RotatedAreThere'
    BY DEF Signing!TypeOK, Signing!RotatedAreThere
  <1>4. \A signer \in Signing!Signer : Signing!Accounted(signer) => Signing!Accounted(signer)'
    BY DEF Signing!Accounted, Signing!Signer
  <1>5. Signing!SignersAreAccounted'
    BY <1>1, <1>4 DEF Signing!TypeOK, Signing!Token, Signing!SignersAreAccounted
  <1> QED
    BY <1>2, <1>3, <1>5 DEF Signing!SigningInv

\* A row that is there, its fields, and what signs with it.
LEMMA RowOf ==
    ASSUME Signing!TypeOK, NEW k \in Key, x2[k] # None
    PROVE  /\ x2[k] \in Signing!Row /\ x2[k].pair \in Pair
           /\ [x2[k] EXCEPT !.active = FALSE] \in Signing!Row
           /\ [x2[k] EXCEPT !.active = FALSE].pair = x2[k].pair
           /\ Signing!SignerOf(k) \in Signing!Signer
           /\ Signing!SignerOf(k).id = k /\ Signing!SignerOf(k).pair = x2[k].pair
  BY DEF Signing!TypeOK, Signing!Row, Signing!SignerOf, Signing!Signer

LEMMA NoRow == ASSUME NEW r \in Signing!Row PROVE r # None
  BY SigningAssumption DEF Signing!Row

LEMMA SigningNext == Signing!SigningInv /\ Signing!Next => Signing!SigningInv'
  <1> SUFFICES ASSUME Signing!SigningInv, Signing!Next PROVE Signing!SigningInv'
    OBVIOUS
  <1>1. /\ Signing!TypeOK /\ Signing!BornOnce
        /\ Signing!RotatedAreThere /\ Signing!SignersAreAccounted
        /\ TokenLife \in Nat /\ MaxAge \in Nat
    BY SigningAssumption DEF Signing!SigningInv
  <1>2. Signing!Active \subseteq Key /\ \A k \in Signing!Active : x2[k] # None
    BY DEF Signing!Active, Signing!Listed
  <1>3. ASSUME NEW k \in Key, Signing!Deactivate(k) PROVE Signing!SigningInv'
    <2>1. x5' = [x5 EXCEPT ![k] = Signing!Active] /\ UNCHANGED <<x1, x2, x3, x4, x6, x7>>
      BY <1>3 DEF Signing!Deactivate
    <2>2. Signing!TypeOK'
      BY <1>1, <1>2, <2>1 DEF Signing!TypeOK
    <2>3. \A i \in Key : x5'[i] # None => \A j \in x5'[i] : x2[j] # None
      BY <1>1, <1>2, <2>1 DEF Signing!TypeOK, Signing!RotatedAreThere
    <2> QED
      BY <2>1, <2>2, <2>3, SigningRowsStay
  <1>4. ASSUME NEW k \in Key, NEW pair \in Pair, Signing!Insert(k, pair)
        PROVE  Signing!SigningInv'
    <2> DEFINE new == [pair |-> pair, active |-> TRUE]
               put == [id |-> k, pair |-> pair]
               old == IF x2[k] = None THEN {} ELSE {Signing!SignerOf(k)}
    <2>1. /\ x5[k] # None
          /\ x2' = [j \in Key |-> IF j = k THEN new
                                  ELSE IF j \in x5[k] THEN [x2[j] EXCEPT !.active = FALSE]
                                  ELSE x2[j]]
          /\ x3' = IF x2[k] = None THEN Append(x3, k) ELSE x3
          /\ x4' = (x4 \cup old) \ {put}
          /\ x5' = [x5 EXCEPT ![k] = None]
          /\ UNCHANGED <<x1, x6, x7>>
      BY <1>4 DEF Signing!Insert
    <2>2. new \in Signing!Row /\ new # None /\ new.pair = pair /\ put \in Signing!Signer
          /\ put.id = k /\ put.pair = pair
      BY NoRow DEF Signing!Row, Signing!Signer
    <2>3. old \subseteq Signing!Signer
          /\ (x2[k] # None => \A s \in Signing!Signer :
                 s.id = k /\ x2[k].pair = s.pair => s \in old)
      <3>1. CASE x2[k] = None
        BY <3>1
      <3>2. CASE x2[k] # None
        <4>1. old = {Signing!SignerOf(k)} /\ Signing!SignerOf(k) \in Signing!Signer
          BY <1>1, <3>2, RowOf
        <4>2. \A s \in Signing!Signer :
                  s.id = k /\ x2[k].pair = s.pair => s = Signing!SignerOf(k)
          BY DEF Signing!Signer, Signing!SignerOf
        <4> HIDE DEF old
        <4> QED
          BY <3>2, <4>1, <4>2
      <3> QED
        BY <3>1, <3>2
    <2> HIDE DEF new, put, old
    <2>4. \A j \in x5[k] : x2[j] # None
      BY <1>1, <2>1 DEF Signing!RotatedAreThere
    <2>5. x2'[k] = new
          /\ \A j \in Key \ {k} : x2[j] # None =>
                x2'[j] \in Signing!Row /\ x2'[j].pair = x2[j].pair
      BY <1>1, <2>1, RowOf
    <2>6. \A j \in Key \ {k} : x2[j] = None => x2'[j] = None
      BY <2>1, <2>4
    <2>7. x2' \in [Key -> Signing!Row \cup {None}]
      <3>1. \A j \in Key : x2'[j] \in Signing!Row \cup {None}
        BY <2>2, <2>5, <2>6
      <3>2. DOMAIN x2' = Key /\ x2' = [j \in Key |-> x2'[j]]
        BY <2>1
      <3> QED
        BY <3>1, <3>2
    <2>8. Signing!TypeOK'
      BY <1>1, <2>1, <2>3, <2>7 DEF Signing!TypeOK
    <2>9. \A j \in Key : x2[j] # None => x2'[j] # None
      BY <2>2, <2>5, NoRow
    <2>10. Signing!BornOnce'
      <3>1. x3 \in Seq(Key) /\ \A i \in DOMAIN x3 : x3[i] \in Key
        BY <1>1 DEF Signing!TypeOK
      <3>2. CASE x2[k] = None
        <4>1. x3' = Append(x3, k) /\ Len(x3') = Len(x3) + 1 /\ Len(x3) \in Nat
              /\ DOMAIN x3' = 1 .. Len(x3) + 1 /\ DOMAIN x3 = 1 .. Len(x3)
              /\ x3'[Len(x3) + 1] = k /\ \A i \in 1 .. Len(x3) : x3'[i] = x3[i]
          BY <2>1, <3>1, <3>2
        <4>2. \A i \in 1 .. Len(x3) : x3[i] # k
          BY <1>1, <3>2, <4>1 DEF Signing!BornOnce
        <4>3. x2'[k] # None
          BY <2>2, <2>5
        <4> QED
          BY <1>1, <2>9, <3>1, <4>1, <4>2, <4>3 DEF Signing!BornOnce
      <3>3. CASE x2[k] # None
        BY <1>1, <2>1, <2>9, <3>1, <3>3 DEF Signing!BornOnce
      <3> QED
        BY <3>2, <3>3
    <2>11. Signing!RotatedAreThere'
      <3>1. \A i \in Key : x5'[i] # None => i # k /\ x5[i] # None /\ x5'[i] = x5[i]
        BY <1>1, <2>1 DEF Signing!TypeOK
      <3>2. \A i \in Key : x5[i] # None => x5[i] \subseteq Key
        BY <1>1 DEF Signing!TypeOK
      <3> QED
        BY <1>1, <2>9, <3>1, <3>2 DEF Signing!RotatedAreThere
    <2>12. \A s \in Signing!Signer : Signing!Accounted(s) => Signing!Accounted(s)'
      <3> SUFFICES ASSUME NEW s \in Signing!Signer, Signing!Accounted(s)
                   PROVE  s \in x4' \/ (x2'[s.id] # None /\ x2'[s.id].pair = s.pair)
        BY DEF Signing!Accounted
      <3>1. s.id \in Key /\ s.pair \in Pair /\ s = [id |-> s.id, pair |-> s.pair]
        BY DEF Signing!Signer
      <3>2. CASE s = put
        BY <2>2, <2>5, <3>2
      <3>3. CASE s # put /\ s \in x4
        BY <2>1, <3>3
      <3>4. CASE s # put /\ s \notin x4 /\ s.id = k
        BY <2>1, <2>3, <3>4 DEF Signing!Accounted
      <3>5. CASE s # put /\ s \notin x4 /\ s.id # k
        BY <2>5, <2>9, <3>1, <3>5 DEF Signing!Accounted
      <3> QED
        BY <3>2, <3>3, <3>4, <3>5
    <2>13. Signing!SignersAreAccounted'
      BY <1>1, <2>1, <2>12 DEF Signing!TypeOK, Signing!Token, Signing!SignersAreAccounted
    <2> QED
      BY <2>8, <2>10, <2>11, <2>13 DEF Signing!SigningInv
  <1>5. ASSUME NEW k \in Key, Signing!Rollback(k) PROVE Signing!SigningInv'
    <2>1. x5' = [x5 EXCEPT ![k] = None] /\ UNCHANGED <<x1, x2, x3, x4, x6, x7>>
      BY <1>5 DEF Signing!Rollback
    <2>2. Signing!TypeOK'
      BY <1>1, <2>1 DEF Signing!TypeOK
    <2>3. \A i \in Key : x5'[i] # None => \A j \in x5'[i] : x2[j] # None
      BY <1>1, <2>1 DEF Signing!TypeOK, Signing!RotatedAreThere
    <2> QED
      BY <2>1, <2>2, <2>3, SigningRowsStay
  <1>6. ASSUME NEW k \in Key, Signing!Retire(k) PROVE Signing!SigningInv'
    <2>1. x2[k] # None
      BY <1>2, <1>6 DEF Signing!Retire
    <2>2. x2' = [x2 EXCEPT ![k] = [x2[k] EXCEPT !.active = FALSE]]
          /\ UNCHANGED <<x1, x3, x4, x5, x6, x7>>
      BY <1>6 DEF Signing!Retire
    <2>3. \A j \in Key : IF j = k THEN x2'[j] \in Signing!Row /\ x2'[j].pair = x2[j].pair
                         ELSE x2'[j] = x2[j]
      BY <1>1, <2>1, <2>2, RowOf DEF Signing!TypeOK
    <2>4. Signing!TypeOK'
      BY <1>1, <2>1, <2>2, RowOf DEF Signing!TypeOK
    <2>5. \A j \in Key : x2[j] # None => x2'[j] # None /\ x2'[j].pair = x2[j].pair
      BY <2>3, NoRow
    <2> QED
      BY <1>1, <2>2, <2>4, <2>5, SigningRowsStay DEF Signing!RotatedAreThere
  <1>7. ASSUME NEW p \in Process, Signing!Restart(p) PROVE Signing!SigningInv'
    <2>1. PICK s \in {ConfigKey} \cup (IF Signing!Active = {} THEN {}
                                       ELSE {Signing!SignerOf(Signing!Newest)}) :
             x6' = [x6 EXCEPT ![p] = s]
      BY <1>7 DEF Signing!Restart
    <2>2. s = ConfigKey \/ (s \in Signing!Signer /\ Signing!Accounted(s))
      <3>1. CASE Signing!Active = {}
        BY <3>1
      <3>2. CASE Signing!Active # {}
        <4> DEFINE k == Signing!Newest
        <4>1. k \in Key /\ x2[k] # None
          BY <1>2, <3>2, NewestIsActive
        <4>2. s = ConfigKey \/ s = Signing!SignerOf(k)
          BY <2>1, <3>2
        <4> HIDE DEF k
        <4>3. Signing!SignerOf(k) \in Signing!Signer /\ Signing!Accounted(Signing!SignerOf(k))
          BY <1>1, <4>1, RowOf DEF Signing!Accounted
        <4> QED
          BY <4>2, <4>3
      <3> QED
        BY <3>1, <3>2
    <2>3. UNCHANGED <<x1, x2, x3, x4, x5, x7>>
      BY <1>7 DEF Signing!Restart
    <2>4. Signing!TypeOK'
      BY <1>1, <2>1, <2>2, <2>3 DEF Signing!TypeOK
    <2>5. Signing!SignersAreAccounted'
      BY <1>1, <2>1, <2>2, <2>3
      DEF Signing!TypeOK, Signing!SignersAreAccounted, Signing!Accounted
    <2> QED
      BY <1>1, <2>3, <2>4, <2>5
      DEF Signing!SigningInv, Signing!BornOnce, Signing!RotatedAreThere
  <1>8. ASSUME NEW p \in Process, Signing!Mint(p) PROVE Signing!SigningInv'
    <2> DEFINE t == [by |-> x6[p], exp |-> x1 + TokenLife]
    <2>1. x7' = x7 \cup {t} /\ UNCHANGED <<x1, x2, x3, x4, x5, x6>>
      BY <1>8 DEF Signing!Mint
    <2>2. t \in Signing!Token /\ (t.by = ConfigKey \/ Signing!Accounted(t.by))
      BY <1>1 DEF Signing!TypeOK, Signing!Token, Signing!SignersAreAccounted
    <2> HIDE DEF t
    <2>3. Signing!TypeOK'
      BY <1>1, <2>1, <2>2 DEF Signing!TypeOK
    <2>4. Signing!SignersAreAccounted'
      BY <1>1, <2>1, <2>2 DEF Signing!SignersAreAccounted, Signing!Accounted
    <2> QED
      BY <1>1, <2>1, <2>3, <2>4
      DEF Signing!SigningInv, Signing!BornOnce, Signing!RotatedAreThere
  <1>9. CASE Signing!Tick
    BY <1>1, <1>9, AccountedStay DEF Signing!Tick, Signing!TypeOK
  <1> QED
    BY <1>3, <1>4, <1>5, <1>6, <1>7, <1>8, <1>9 DEF Signing!Next

LEMMA SigningInit == Signing!Init => Signing!SigningInv
  BY SigningAssumption
  DEF Signing!Init, Signing!SigningInv, Signing!TypeOK, Signing!BornOnce,
      Signing!RotatedAreThere, Signing!SignersAreAccounted

LEMMA SigningStays == Signing!SigningInv /\ UNCHANGED others => Signing!SigningInv'
  BY AccountedStay DEF others, Signing!SigningInv, Signing!TypeOK

SigningHolds == part = "signing" => Signing!SigningInv

LEMMA SigningInvariant == MCSpec => []SigningHolds
  <1>1. MCInit => SigningHolds
    BY SigningInit DEF MCInit, SigningHolds
  <1>2. SigningHolds /\ [MCNext]_<<part, vars, others>> => SigningHolds'
    BY SigningNext, SigningStays DEF MCNext, SigningHolds
  <1> QED
    BY <1>1, <1>2, PTL DEF MCSpec

\* For any number of keys, processes and tokens: whatever rotations, races of rotations,
\* deactivations and restarts come, what a token was signed with stays published, be it
\* active or not; but for a secret that is shared, a key that was replaced under its id,
\* and while a public key is in the table that is no PEM.
THEOREM TokensStayVerifiable == MCSpec => []StaysVerifiable
  <1>1. SigningHolds => StaysVerifiable
    <2> SUFFICES ASSUME Signing!SigningInv,
                        \A k \in Signing!Publishable : x2[k].pair \notin Unreadable,
                        NEW t \in x7, t.by # ConfigKey
                 PROVE  t.by \in Signing!Published \/ t.by \in x4 \/ t.by.pair \in Shared
      BY DEF SigningHolds, StaysVerifiable, Signing!StaysVerifiable
    <2> DEFINE s == t.by
    <2>1. s \in Signing!Signer /\ Signing!Accounted(s)
      BY DEF Signing!SigningInv, Signing!TypeOK, Signing!Token, Signing!SignersAreAccounted
    <2>2. s.id \in Key /\ s = [id |-> s.id, pair |-> s.pair]
      BY <2>1 DEF Signing!Signer
    <2>3. Signing!Published = {Signing!SignerOf(k) : k \in Signing!Publishable}
      BY DEF Signing!Published
    <2>4. CASE s \notin x4 /\ s.pair \notin Shared
      <3>1. x2[s.id] # None /\ x2[s.id].pair = s.pair
        BY <2>1, <2>4 DEF Signing!Accounted
      <3>2. s.id \in Signing!Publishable /\ s = Signing!SignerOf(s.id)
        BY <2>2, <2>4, <3>1 DEF Signing!Publishable, Signing!Listed, Signing!SignerOf
      <3> QED
        BY <2>3, <3>2
    <2> QED
      BY <2>4
  <1> QED
    BY <1>1, SigningInvariant, PTL

-----------------------------------------------------------------------------
(* Routes.                                                                 *)

OfFile == {RouteFile[id] : id \in DOMAIN RouteFile}

LEMMA RoutesCardinality == \A S : Routes!Cardinality(S) = Cardinality(S)
  BY DEF Routes!Cardinality, Cardinality

Standing == Routes!Compiled(Routes!Effective(x3))

\* What is built has its fields, and stands for its identifier.
LEMMA BuiltStands ==
    ASSUME x3 \in [RouteId -> Route \cup {None}], NEW e \in Standing
    PROVE  LET s == Routes!Stands(e.id)
           IN  /\ e.id \in RouteId /\ s \in Route \cup OfFile /\ s # None
               /\ s.enabled \/ (Override /\ Routes!Reads(x3[e.id]))
               /\ s.site \in DOMAIN Domains
               /\ e.route.priority = s.priority /\ e.route.length = s.length
               /\ \A q : Routes!Matches(e.route, q) <=> Routes!Matches(s, q)
               /\ e = [id |-> e.id, route |-> e.route]
               /\ e.route = s \/ (s \in Route /\ e.route = [s EXCEPT !.enabled = TRUE])
               /\ Override /\ Routes!Reads(x3[e.id]) => e.route = [s EXCEPT !.enabled = TRUE]
               /\ ~ (Override /\ Routes!Reads(x3[e.id])) => e.route = s
  <1> DEFINE read == {id \in RouteId : Routes!Reads(x3[id])}
             row(id) == [x3[id] EXCEPT !.enabled = TRUE]
  <1>1. e \in Routes!Effective(x3) /\ e.route.enabled /\ e.route.site \in DOMAIN Domains
    BY DEF Standing, Routes!Compiled
  <1>2. CASE Override /\ \E id \in read : e = [id |-> id, route |-> row(id)]
    <2>1. PICK id \in read : e = [id |-> id, route |-> row(id)]
      BY <1>2
    <2>2. e.id = id /\ e.route = row(id) /\ id \in RouteId /\ Routes!Reads(x3[id])
      BY <2>1
    <2>3. x3[id] \in Route /\ x3[id] # None
      BY <2>2 DEF Routes!Reads
    <2>4. Routes!Stands(id) = x3[id]
      BY <1>2, <2>2 DEF Routes!Stands
    <2>5. /\ row(id).site = x3[id].site /\ row(id).hosts = x3[id].hosts
          /\ row(id).accepts = x3[id].accepts /\ row(id).methods = x3[id].methods
          /\ row(id).priority = x3[id].priority /\ row(id).length = x3[id].length
      BY <2>3, RoutesAssumption
    <2>6. \A q : Routes!Matches(row(id), q) <=> Routes!Matches(x3[id], q)
      BY <2>5 DEF Routes!Matches
    <2> HIDE DEF row
    <2>7. x3[id].site \in DOMAIN Domains
      BY <1>1, <2>2, <2>5
    <2>8. e = [id |-> e.id, route |-> e.route]
      BY <2>1, <2>2
    <2> QED
      BY <1>2, <2>2, <2>3, <2>4, <2>5, <2>6, <2>7, <2>8 DEF row
  <1>3. CASE \E id \in DOMAIN RouteFile : (~ Override \/ id \notin read)
                                          /\ e = [id |-> id, route |-> RouteFile[id]]
    <2>1. PICK id \in DOMAIN RouteFile :
             (~ Override \/ id \notin read) /\ e = [id |-> id, route |-> RouteFile[id]]
      BY <1>3
    <2>2. e.id = id /\ e.route = RouteFile[id] /\ id \in RouteId
      BY <2>1, RoutesAssumption
    <2>3. RouteFile[id] \in OfFile /\ RouteFile[id] # None
      BY RoutesAssumption DEF OfFile
    <2>4. Routes!Stands(id) = RouteFile[id] /\ ~ (Override /\ Routes!Reads(x3[id]))
      BY <2>1, <2>2 DEF Routes!Stands
    <2>5. e = [id |-> e.id, route |-> e.route]
      BY <2>1, <2>2
    <2>6. e.route = Routes!Stands(e.id) /\ Routes!Stands(e.id) \in OfFile
          /\ Routes!Stands(e.id) # None
      BY <2>2, <2>3, <2>4
    <2>7. e.id \in RouteId /\ ~ (Override /\ Routes!Reads(x3[e.id]))
      BY <2>2, <2>4
    <2> QED
      BY <1>1, <2>5, <2>6, <2>7
  <1> QED
    BY <1>1, <1>2, <1>3 DEF Routes!Effective, Routes!Merge

\* Those that are tried: the candidates, and the rows that say they are disabled.
Tried(q) ==
    {id \in RouteId :
        LET route == Routes!Stands(id)
        IN  /\ route # None
            /\ route.enabled \/ (Override /\ Routes!Reads(x3[id]))
            /\ route.site \in DOMAIN Domains
            /\ Routes!Matches(route, q)}

\* Whatever may serve a request is built.
LEMMA CandidatesAreBuilt ==
    ASSUME x3 \in [RouteId -> Route \cup {None}], NEW q, NEW id \in Tried(q)
    PROVE  \E e \in Standing : e.id = id /\ Routes!Matches(e.route, q)
  <1> DEFINE s == Routes!Stands(id)
             row == [x3[id] EXCEPT !.enabled = TRUE]
  <1>1. /\ id \in RouteId /\ s # None /\ s.site \in DOMAIN Domains /\ Routes!Matches(s, q)
        /\ s.enabled \/ (Override /\ Routes!Reads(x3[id]))
    BY DEF Tried
  <1>2. CASE Override /\ Routes!Reads(x3[id])
    <2>1. s = x3[id] /\ x3[id] \in Route
      BY <1>1, <1>2 DEF Routes!Stands, Routes!Reads
    <2>2. /\ row.site = x3[id].site /\ row.hosts = x3[id].hosts
          /\ row.accepts = x3[id].accepts /\ row.methods = x3[id].methods
          /\ row.enabled
      BY <2>1, RoutesAssumption
    <2>3. Routes!Matches(row, q) /\ row.site \in DOMAIN Domains
      BY <1>1, <2>1, <2>2 DEF Routes!Matches
    <2>4. [id |-> id, route |-> row] \in Routes!Effective(x3)
      BY <1>1, <1>2 DEF Routes!Effective, Routes!Merge
    <2> HIDE DEF row
    <2>5. [id |-> id, route |-> row] \in Standing
      BY <2>2, <2>3, <2>4 DEF Standing, Routes!Compiled
    <2> QED
      BY <2>3, <2>5
  <1>3. CASE ~ (Override /\ Routes!Reads(x3[id]))
    <2>1. id \in DOMAIN RouteFile /\ s = RouteFile[id] /\ s.enabled
      BY <1>1, <1>3 DEF Routes!Stands
    <2>2. [id |-> id, route |-> s] \in Routes!Effective(x3)
      BY <1>3, <2>1 DEF Routes!Effective, Routes!Merge
    <2> HIDE DEF s
    <2>3. [id |-> id, route |-> s] \in Standing
      BY <1>1, <2>1, <2>2 DEF Standing, Routes!Compiled
    <2> QED
      BY <1>1, <2>3
  <1> QED
    BY <1>2, <1>3

\* One route of each identifier.
LEMMA BuiltIsFinite ==
    ASSUME x3 \in [RouteId -> Route \cup {None}]
    PROVE  IsFiniteSet(Standing)
  <1> DEFINE idOf == [e \in Standing |-> e.id]
  <1>1. idOf \in [Standing -> RouteId]
    BY BuiltStands
  <1>2. ASSUME NEW d \in Standing, NEW e \in Standing, idOf[d] = idOf[e] PROVE d = e
    <2>1. d.id = e.id
      BY <1>2
    <2>2. d = [id |-> d.id, route |-> d.route] /\ e = [id |-> e.id, route |-> e.route]
      BY BuiltStands
    <2>3. d.route = e.route
      <3> DEFINE s == Routes!Stands(d.id)
                 over == Override /\ Routes!Reads(x3[d.id])
      <3>1. /\ over => d.route = [s EXCEPT !.enabled = TRUE]
            /\ ~ over => d.route = s
        BY BuiltStands
      <3>2. /\ over => e.route = [s EXCEPT !.enabled = TRUE]
            /\ ~ over => e.route = s
        BY <2>1, BuiltStands
      <3> HIDE DEF s, over
      <3> QED
        BY <3>1, <3>2
    <2> QED
      BY <2>1, <2>2, <2>3
  <1>3. idOf \in Injection(Standing, RouteId)
    BY <1>1, <1>2 DEF Injection, IsInjective
  <1> QED
    BY <1>3, FS_Injection, RoutesAssumption

\* The table holds what is built, in order.
LEMMA TableHolds ==
    ASSUME Routes!TableIsBuilt
    PROVE  \E n \in Nat :
              /\ DOMAIN x2 = 1 .. n
              /\ \A i \in 1 .. n : x2[i] \in Standing
              /\ \A e \in Standing : \E i \in 1 .. n : x2[i] = e
              /\ \A i, j \in 1 .. n : i < j => Routes!Before(x2[i], x2[j])
  <1> DEFINE n == Cardinality(Standing)
  <1>1. x3 \in [RouteId -> Route \cup {None}]
    BY DEF Routes!TableIsBuilt
  <1>2. IsFiniteSet(Standing) /\ n \in Nat
    BY <1>1, BuiltIsFinite, FS_CardinalityType
  <1>3. /\ x2 \in [1 .. n -> Standing]
        /\ \A i, j \in 1 .. n : i # j => x2[i] # x2[j]
        /\ \A i, j \in DOMAIN x2 : i < j => Routes!Before(x2[i], x2[j])
    BY RoutesCardinality DEF Routes!TableIsBuilt, Routes!Tables, Routes!SetToSeqs, Standing
  <1>4. x2 \in Injection(1 .. n, Standing)
    BY <1>3 DEF Injection, IsInjective
  <1>5. Cardinality(1 .. n) = n
    BY <1>2, FS_Interval
  <1>6. x2 \in Surjection(1 .. n, Standing)
    BY <1>2, <1>4, <1>5, FS_Injection
  <1>7. \A e \in Standing : \E i \in 1 .. n : x2[i] = e
    BY <1>6 DEF Surjection
  <1>8. DOMAIN x2 = 1 .. n /\ \A i \in 1 .. n : x2[i] \in Standing
    BY <1>3
  <1> QED
    BY <1>2, <1>3, <1>7, <1>8

\* A route is never None, and its rank is a number.
LEMMA RanksAreNumbers ==
    ASSUME x3 \in [RouteId -> Route \cup {None}], NEW e \in Standing
    PROVE  /\ e # None
           /\ e.route.priority \in Int /\ e.route.length \in Int
  <1> DEFINE s == Routes!Stands(e.id)
  <1>1. /\ e.id \in RouteId /\ s \in Route \cup OfFile
        /\ e.route.priority = s.priority /\ e.route.length = s.length
        /\ e = [id |-> e.id, route |-> e.route]
        /\ e.route = s \/ (s \in Route /\ e.route = [s EXCEPT !.enabled = TRUE])
    BY BuiltStands
  <1>2. e.route \in Route \cup OfFile \cup {[r EXCEPT !.enabled = TRUE] : r \in Route}
    BY <1>1
  <1>3. e # None
    <2> DEFINE All == Route \cup OfFile \cup {[r EXCEPT !.enabled = TRUE] : r \in Route}
    <2>1. None \notin [id : RouteId, route : All]
      BY RoutesAssumption DEF OfFile
    <2>2. e \in [id : RouteId, route : All]
      <3> HIDE DEF All
      <3>1. e.id \in RouteId /\ e = [id |-> e.id, route |-> e.route] /\ e.route \in All
        BY <1>1, <1>2 DEF All
      <3>2. [id |-> e.id, route |-> e.route] \in [id : RouteId, route : All]
        BY <3>1
      <3> QED
        BY <3>1, <3>2
    <2> HIDE DEF All
    <2> QED
      BY <2>1, <2>2
  <1>4. s.priority \in Int /\ s.length \in Int
    BY <1>1, RoutesAssumption DEF OfFile
  <1> QED
    BY <1>1, <1>3, <1>4

\* The first route that matches is the best of those that are tried.
LEMMA BestIsTried ==
    ASSUME Routes!TableIsBuilt, NEW q \in Routes!Query
    PROVE  LET r == Routes!MatchRoute(q)
           IN  IF Tried(q) = {} THEN r = None
               ELSE /\ r # None
                    /\ r.id \in Tried(q)
                    /\ \A id \in Tried(q) :
                          ~ Routes!Outranks(Routes!Stands(id), Routes!Stands(r.id))
  <1> DEFINE at == {i \in DOMAIN x2 : Routes!Matches(x2[i].route, q)}
             m == CHOOSE i \in at : \A j \in at : i <= j
  <1>1. x3 \in [RouteId -> Route \cup {None}]
    BY DEF Routes!TableIsBuilt
  <1>2. PICK n \in Nat :
           /\ DOMAIN x2 = 1 .. n
           /\ \A i \in 1 .. n : x2[i] \in Standing
           /\ \A e \in Standing : \E i \in 1 .. n : x2[i] = e
           /\ \A i, j \in 1 .. n : i < j => Routes!Before(x2[i], x2[j])
    BY TableHolds
  <1>3. Routes!MatchRoute(q) = IF at = {} THEN None ELSE x2[m]
    BY DEF Routes!MatchRoute
  <1>4. ASSUME NEW id \in Tried(q)
        PROVE  \E i \in at : x2[i].id = id
    BY <1>1, <1>2, <1>4, CandidatesAreBuilt
  <1>5. ASSUME NEW i \in at PROVE x2[i].id \in Tried(q)
    <2>1. x2[i] \in Standing /\ Routes!Matches(x2[i].route, q)
      BY <1>2
    <2> QED
      BY <1>1, <2>1, BuiltStands DEF Tried
  <1>6. CASE at = {}
    BY <1>3, <1>4, <1>6
  <1>7. CASE at # {}
    <2>1. at \subseteq Nat
      BY <1>2
    <2>2. m \in at /\ \A j \in at : m <= j
      BY <1>7, <2>1, LeastNatural
    <2> HIDE DEF m
    <2>3. Routes!MatchRoute(q) = x2[m] /\ x2[m] # None /\ x2[m].id \in Tried(q)
      BY <1>1, <1>2, <1>3, <1>5, <1>7, <2>2, RanksAreNumbers
    <2>4. ASSUME NEW id \in Tried(q)
          PROVE  ~ Routes!Outranks(Routes!Stands(id), Routes!Stands(x2[m].id))
      <3>1. PICK j \in at : x2[j].id = id
        BY <1>4
      <3>2. x2[j] \in Standing /\ x2[m] \in Standing /\ j \in 1 .. n /\ m \in 1 .. n /\ m <= j
        BY <1>2, <2>2
      <3>3. /\ x2[j].route.priority = Routes!Stands(id).priority
            /\ x2[j].route.length = Routes!Stands(id).length
            /\ x2[m].route.priority = Routes!Stands(x2[m].id).priority
            /\ x2[m].route.length = Routes!Stands(x2[m].id).length
        BY <1>1, <3>1, <3>2, BuiltStands
      <3>4. /\ x2[j].route.priority \in Int /\ x2[j].route.length \in Int
            /\ x2[m].route.priority \in Int /\ x2[m].route.length \in Int
        BY <1>1, <3>2, RanksAreNumbers
      <3>5. m = j \/ Routes!Before(x2[m], x2[j])
        BY <1>2, <3>2
      <3> QED
        BY <3>3, <3>4, <3>5 DEF Routes!Before, Routes!Outranks
    <2> QED
      BY <2>3, <2>4
  <1> QED
    BY <1>6, <1>7

LEMMA BestIsServed == Routes!TableIsBuilt => Routes!ServedByTheBest
  <1> SUFFICES ASSUME Routes!TableIsBuilt, NEW q \in Routes!Query
               PROVE  LET r == Routes!MatchRoute(q)
                      IN  IF r = None THEN Routes!Candidates(q) = {}
                          ELSE /\ r.id \in Routes!Candidates(q) \cup Routes!Revived
                               /\ \A id \in Routes!Candidates(q) :
                                     ~ Routes!Outranks(Routes!Stands(id), Routes!Stands(r.id))
    BY DEF Routes!ServedByTheBest
  <1> DEFINE r == Routes!MatchRoute(q)
  <1>1. Routes!Candidates(q) \subseteq Tried(q)
    BY DEF Routes!Candidates, Tried
  <1>2. Tried(q) \subseteq Routes!Candidates(q) \cup Routes!Revived
    BY DEF Routes!Candidates, Routes!Revived, Routes!Stands, Tried
  <1>3. IF Tried(q) = {} THEN r = None
        ELSE /\ r # None
             /\ r.id \in Tried(q)
             /\ \A id \in Tried(q) : ~ Routes!Outranks(Routes!Stands(id), Routes!Stands(r.id))
    BY BestIsTried
  <1> HIDE DEF r
  <1> QED
    BY <1>1, <1>2, <1>3 DEF r

LEMMA RoutesInit == Routes!Init => Routes!RoutesInv
  BY DEF Routes!Init, Routes!RoutesInv, Routes!TableIsBuilt

LEMMA RoutesNext == Routes!RoutesInv /\ Routes!Next => Routes!RoutesInv'
  <1> SUFFICES ASSUME Routes!RoutesInv, Routes!Next PROVE Routes!RoutesInv'
    OBVIOUS
  <1>1. ASSUME UNCHANGED <<x2, x3>> PROVE Routes!TableIsBuilt'
    BY <1>1
    DEF Routes!RoutesInv, Routes!TableIsBuilt, Routes!Tables, Routes!Effective, Routes!Merge
  <1>2. ASSUME NEW id \in RouteId, NEW route \in Route, Routes!Upsert(id, route)
        PROVE  Routes!RoutesInv'
    BY <1>1, <1>2 DEF Routes!Upsert, Routes!RoutesInv
  <1>3. ASSUME NEW id \in RouteId, Routes!Delete(id) PROVE Routes!RoutesInv'
    BY <1>1, <1>3 DEF Routes!Delete, Routes!RoutesInv
  <1>4. CASE Routes!Load
    <2>1. x2' \in Routes!Tables(Routes!Effective(x1)) /\ x3' = x1 /\ x1' = x1
      BY <1>4 DEF Routes!Load
    <2> QED
      BY <2>1 DEF Routes!RoutesInv, Routes!TableIsBuilt
  <1> QED
    BY <1>2, <1>3, <1>4 DEF Routes!Next

LEMMA RoutesStay == Routes!RoutesInv /\ UNCHANGED others => Routes!RoutesInv'
  BY DEF others, Routes!RoutesInv, Routes!TableIsBuilt

RoutesHold == part = "routes" => Routes!RoutesInv

LEMMA RoutesInvariant == MCSpec => []RoutesHold
  <1>1. MCInit => RoutesHold
    BY RoutesInit DEF MCInit, RoutesHold
  <1>2. RoutesHold /\ [MCNext]_<<part, vars, others>> => RoutesHold'
    BY RoutesNext, RoutesStay DEF MCNext, RoutesHold
  <1> QED
    BY <1>1, <1>2, PTL DEF MCSpec

\* For any routes, file, sites and hosts: whatever was stored, replaced, broken or
\* deleted, a request is served by an enabled route that stands, or by a row that says
\* it is disabled; by none that an enabled route outranks; and by one if there is any.
THEOREM BestRouteServes == MCSpec => []ServedByTheBest
  <1>1. RoutesHold => ServedByTheBest
    BY BestIsServed DEF RoutesHold, ServedByTheBest, Routes!RoutesInv
  <1> QED
    BY <1>1, RoutesInvariant, PTL

-----------------------------------------------------------------------------
(* Policies.                                                               *)

\* A bundle of rows of the store and records of the overlay.
Contents == Content \cup {Sugar[i].content : i \in DOMAIN Sugar}

Records == [id : Id, content : Contents]

Bundles == [records : Seq(Records),
            schema : {c.schema : c \in Contents} \cup {None},
            entities : {c.entities : c \in Contents} \cup {None}]

\* A row that is merged, or not, makes a bundle of a bundle.
LEMMA MergeMakesBundles ==
    ASSUME NEW bad, NEW b \in Bundles, NEW r \in Records
    PROVE  /\ Policies!Merged(b, r) \in Bundles
           /\ Policies!MergeLenient(bad, b, r) \in Bundles
  <1>1. r.content \in Contents
    BY DEF Records
  <1>2. Append(b.records, r) \in Seq(Records)
    BY DEF Bundles
  <1>3. /\ Policies!Or(b.schema, r.content.schema) \in {c.schema : c \in Contents} \cup {None}
        /\ Policies!Or(b.entities, r.content.entities)
              \in {c.entities : c \in Contents} \cup {None}
    BY <1>1 DEF Bundles, Policies!Or
  <1>4. Policies!Merged(b, r) \in Bundles
    BY <1>2, <1>3 DEF Policies!Merged, Bundles
  <1> QED
    BY <1>4 DEF Policies!MergeLenient

LEMMA EmptyIsBundle == Policies!EmptyBundle \in Bundles
  BY DEF Policies!EmptyBundle, Bundles

\* The lenient build, as the steps it is made of.
Builds(bad, rs, f) ==
    /\ f \in [0 .. Len(rs) -> Bundles]
    /\ f[0] = Policies!EmptyBundle
    /\ \A i \in 1 .. Len(rs) : f[i] = Policies!MergeLenient(bad, f[i - 1], rs[i])

LEMMA BuildsInSteps ==
    ASSUME NEW bad, NEW rs \in Seq(Records)
    PROVE  \E f : Builds(bad, rs, f)
                  /\ Policies!Built(bad, rs) = Policies!WithEntities(f[Len(rs)])
  <1> DEFINE n == Len(rs)
             step == [p \in (1 .. n) \X Bundles |->
                         Policies!MergeLenient(bad, p[2], rs[p[1]])]
             Equals(g) == g = [i \in 0 .. n |->
                                  IF i = 0 THEN Policies!EmptyBundle
                                  ELSE Policies!MergeLenient(bad, g[i - 1], rs[i])]
             u == CHOOSE g : Equals(g)
  <1>1. n \in Nat /\ \A i \in 1 .. n : rs[i] \in Records
    OBVIOUS
  <1>2. step \in [(1 .. n) \X Bundles -> Bundles]
    BY <1>1, MergeMakesBundles
  <1>3. \A i \in 1 .. n, b \in Bundles : step[<<i, b>>] = Policies!MergeLenient(bad, b, rs[i])
    OBVIOUS
  <1> HIDE DEF step
  <1>4. PICK f \in [0 .. n -> Bundles] :
           f[0] = Policies!EmptyBundle /\ \A i \in 1 .. n : f[i] = step[<<i, f[i - 1]>>]
    <2> DEFINE e == Policies!EmptyBundle
    <2>1. n \in Nat /\ e \in Bundles
      BY <1>1, EmptyIsBundle
    <2> HIDE DEF n, e
    <2>2. Exists(n, Bundles, e, step)
      BY <1>2, <2>1, RecursionUpTo
    <2> QED
      BY <2>2 DEF e, Exists
  <1>5. \A i \in 1 .. n : f[i] = Policies!MergeLenient(bad, f[i - 1], rs[i])
    BY <1>1, <1>3, <1>4
  <1>6. Equals(f)
    <2> DEFINE h == [i \in 0 .. n |->
                        IF i = 0 THEN Policies!EmptyBundle
                        ELSE Policies!MergeLenient(bad, f[i - 1], rs[i])]
    <2>1. \A i \in 0 .. n : h[i] = f[i]
      BY <1>1, <1>4, <1>5
    <2>2. DOMAIN h = 0 .. n
      OBVIOUS
    <2> QED
      BY <1>4, <2>1, <2>2
  <1>7. Equals(u)
    <2> HIDE DEF Equals
    <2> QED
      BY <1>6
  <1>8. Policies!Built(bad, rs) = Policies!WithEntities(u[n])
    BY DEF Policies!Built
  <1> HIDE DEF u
  <1>9. \A i \in 0 .. n : u[i] = f[i]
    <2> DEFINE S == {i \in 0 .. n : u[i] = f[i]}
    <2>1. 0 \in S
      BY <1>1, <1>4, <1>7
    <2>2. ASSUME NEW i \in 1 .. n, i - 1 \in S PROVE i \in S
      <3>1. u[i] = Policies!MergeLenient(bad, u[i - 1], rs[i])
        BY <1>1, <1>7
      <3> QED
        BY <1>5, <2>2, <3>1
    <2> HIDE DEF S
    <2>3. 0 .. n \subseteq S
      BY <1>1, <2>1, <2>2, InductionUpTo
    <2> QED
      BY <2>3 DEF S
  <1> QED
    BY <1>1, <1>4, <1>5, <1>8, <1>9 DEF Builds

\* What a record needs to be merged into a bundle that has been built.
LEMMA MergedRecords ==
    ASSUME NEW bad, NEW b \in Bundles, NEW r \in Records
    PROVE  LET c == Policies!MergeLenient(bad, b, r)
           IN  /\ ~ Policies!Mergeable(bad, b, r) => c = b
               /\ Policies!Mergeable(bad, b, r) =>
                     /\ c = Policies!Merged(b, r)
                     /\ c.records \in Seq(Records) /\ Len(c.records) = Len(b.records) + 1
                     /\ DOMAIN c.records = 1 .. Len(b.records) + 1
                     /\ c.records[Len(b.records) + 1] = r
                     /\ \A j \in 1 .. Len(b.records) : c.records[j] = b.records[j]
  <1>1. b.records \in Seq(Records)
    BY DEF Bundles
  <1>2. Policies!Merged(b, r).records = Append(b.records, r)
    BY DEF Policies!Merged
  <1> DEFINE q == Append(b.records, r)
  <1>3. /\ q \in Seq(Records) /\ Len(q) = Len(b.records) + 1
        /\ DOMAIN q = 1 .. Len(b.records) + 1 /\ q[Len(b.records) + 1] = r
        /\ \A j \in 1 .. Len(b.records) : q[j] = b.records[j]
    BY <1>1
  <1> QED
    BY <1>2, <1>3 DEF Policies!MergeLenient

\* Rows of the store: their identifiers are none of the overlay's.
StoredRows == [id : Id \ Reserved, content : Content]

\* The overlay's records, and the rows before them.
LEMMA OverlayRecords ==
    /\ Sugar \in Seq(Records)
    /\ \A rows \in Seq(StoredRows) : rows \in Seq(Records)
    /\ \A i \in DOMAIN Sugar :
           /\ Sugar[i].id \in Reserved
           /\ Sugar[i].content.schema = None /\ Sugar[i].content.entities = None
    /\ \A i, j \in DOMAIN Sugar : Sugar[i].id = Sugar[j].id => i = j
  <1> DEFINE overlay == [id : Reserved, content : {Sugar[i].content : i \in DOMAIN Sugar}]
  <1>1. Reserved \subseteq Id /\ Sugar \in Seq(overlay)
    BY PoliciesAssumption
  <1>2. overlay \subseteq Records
    BY <1>1 DEF Records, Contents
  <1>3. StoredRows \subseteq Records
    BY DEF Records, Contents, StoredRows
  <1> HIDE DEF overlay
  <1>4. \A i \in DOMAIN Sugar : Sugar[i].id \in Reserved
    <2>1. \A i \in DOMAIN Sugar : Sugar[i] \in overlay
      BY <1>1
    <2>2. \A r \in overlay : r.id \in Reserved
      BY DEF overlay
    <2> QED
      BY <2>1, <2>2
  <1>5. Sugar \in Seq(Records)
    BY <1>1, <1>2, SeqMonotonic
  <1>6. \A rows \in Seq(StoredRows) : rows \in Seq(Records)
    BY <1>3, SeqMonotonic
  <1> QED
    BY <1>4, <1>5, <1>6, PoliciesAssumption

\* The overlay is merged, whatever rows there are before it.
LEMMA OverlayIsMerged ==
    ASSUME NEW bad, \A i \in DOMAIN Sugar : Sugar[i].content.text \notin bad,
           NEW rows \in Seq(StoredRows)
    PROVE  LET b == Policies!Built(bad, rows \o Sugar)
           IN  \A i \in DOMAIN Sugar : \E j \in DOMAIN b.records : b.records[j] = Sugar[i]
  <1> DEFINE rs == rows \o Sugar
             n == Len(rs)
             m == Len(rows)
  <1>1. /\ Sugar \in Seq(Records) /\ rows \in Seq(Records)
        /\ \A i \in DOMAIN Sugar :
               /\ Sugar[i].id \in Reserved
               /\ Sugar[i].content.schema = None /\ Sugar[i].content.entities = None
        /\ \A i, j \in DOMAIN Sugar : Sugar[i].id = Sugar[j].id => i = j
    BY OverlayRecords
  <1>2. /\ rs \in Seq(Records) /\ n \in Nat /\ m \in Nat /\ n = m + Len(Sugar)
        /\ DOMAIN Sugar = 1 .. Len(Sugar) /\ Len(Sugar) \in Nat
        /\ \A k \in 1 .. n : rs[k] \in Records
        /\ \A k \in 1 .. m : rs[k] = rows[k] /\ rs[k].id \notin Reserved
        /\ \A k \in m + 1 .. n : k - m \in DOMAIN Sugar /\ rs[k] = Sugar[k - m]
        /\ \A k \in DOMAIN Sugar : k + m \in 1 .. n /\ rs[k + m] = Sugar[k]
    <2>1. \A k \in 1 .. m : rows[k] \in StoredRows
      OBVIOUS
    <2> QED
      BY <1>1, <2>1 DEF StoredRows
  <1> HIDE DEF rs, n, m
  <1>3. PICK f : Builds(bad, rs, f)
                 /\ Policies!Built(bad, rs) = Policies!WithEntities(f[n])
    BY <1>2, BuildsInSteps DEF n
  <1>4. /\ \A i \in 0 .. n : f[i] \in Bundles
        /\ f[0] = Policies!EmptyBundle
        /\ \A i \in 1 .. n : f[i] = Policies!MergeLenient(bad, f[i - 1], rs[i])
    BY <1>3 DEF Builds, n
  <1> DEFINE S == {i \in 0 .. n :
                      /\ \A j \in DOMAIN f[i].records :
                            \E k \in 1 .. i : f[i].records[j] = rs[k]
                      /\ \A k \in m + 1 .. i :
                            \E j \in DOMAIN f[i].records : f[i].records[j] = rs[k]}
  <1>5. 0 \in S
    BY <1>2, <1>4 DEF Policies!EmptyBundle
  <1>6. ASSUME NEW i \in 1 .. n, i - 1 \in S PROVE i \in S
    <2> DEFINE a == f[i - 1]
               b == f[i]
    <2>1. /\ a \in Bundles /\ rs[i] \in Records /\ i - 1 \in 0 .. n
          /\ b = Policies!MergeLenient(bad, a, rs[i])
      BY <1>2, <1>4
    <2>2. /\ \A j \in DOMAIN a.records : \E k \in 1 .. i - 1 : a.records[j] = rs[k]
          /\ \A k \in m + 1 .. i - 1 : \E j \in DOMAIN a.records : a.records[j] = rs[k]
      BY <1>6
    <2>3. a.records \in Seq(Records) /\ DOMAIN a.records = 1 .. Len(a.records)
          /\ Len(a.records) \in Nat
      BY <2>1 DEF Bundles
    <2>4. i \in m + 1 .. n => Policies!Mergeable(bad, a, rs[i])
      <3> SUFFICES ASSUME i \in m + 1 .. n PROVE Policies!Mergeable(bad, a, rs[i])
        OBVIOUS
      <3>1. i - m \in DOMAIN Sugar /\ rs[i] = Sugar[i - m]
        BY <1>2
      <3>2. rs[i].content.text \notin bad /\ rs[i].content.schema = None
            /\ rs[i].content.entities = None /\ rs[i].id \in Reserved
        BY <1>1, <3>1
      <3>3. ASSUME NEW j \in DOMAIN a.records PROVE a.records[j].id # rs[i].id
        <4>1. PICK k \in 1 .. i - 1 : a.records[j] = rs[k]
          BY <2>2
        <4>2. CASE k \in 1 .. m
          BY <1>2, <3>2, <4>1, <4>2
        <4>3. CASE k \notin 1 .. m
          <5>1. k \in m + 1 .. n /\ k # i
            BY <1>2, <4>3
          <5>2. k - m \in DOMAIN Sugar /\ rs[k] = Sugar[k - m] /\ k - m # i - m
            BY <1>2, <5>1
          <5> QED
            BY <1>1, <3>1, <4>1, <5>2
        <4> QED
          BY <4>2, <4>3
      <3> QED
        BY <3>2, <3>3 DEF Policies!Mergeable, Policies!SchemaParses, Policies!Conforms
    <2> HIDE DEF a, b
    <2>5. /\ \A j \in DOMAIN b.records : \E k \in 1 .. i : b.records[j] = rs[k]
          /\ \A k \in m + 1 .. i : \E j \in DOMAIN b.records : b.records[j] = rs[k]
      <3>1. CASE Policies!Mergeable(bad, a, rs[i])
        <4>1. /\ DOMAIN b.records = 1 .. Len(a.records) + 1
              /\ b.records[Len(a.records) + 1] = rs[i]
              /\ \A j \in 1 .. Len(a.records) : b.records[j] = a.records[j]
          BY <2>1, <3>1, MergedRecords
        <4>2. ASSUME NEW j \in DOMAIN b.records
              PROVE  \E k \in 1 .. i : b.records[j] = rs[k]
          <5>1. CASE j = Len(a.records) + 1
            BY <4>1, <5>1
          <5>2. CASE j # Len(a.records) + 1
            <6>1. j \in DOMAIN a.records /\ b.records[j] = a.records[j]
              BY <2>3, <4>1, <5>2
            <6>2. PICK k \in 1 .. i - 1 : a.records[j] = rs[k]
              BY <2>2, <6>1
            <6>3. k \in 1 .. i
              OBVIOUS
            <6> QED
              BY <6>1, <6>2, <6>3
          <5> QED
            BY <5>1, <5>2
        <4>3. ASSUME NEW k \in m + 1 .. i
              PROVE  \E j \in DOMAIN b.records : b.records[j] = rs[k]
          <5>1. CASE k = i
            <6>1. Len(a.records) + 1 \in DOMAIN b.records
              BY <2>3, <4>1
            <6> QED
              BY <4>1, <5>1, <6>1
          <5>2. CASE k # i
            <6>1. k \in m + 1 .. i - 1
              BY <1>2, <5>2
            <6>2. PICK j \in DOMAIN a.records : a.records[j] = rs[k]
              BY <2>2, <6>1
            <6>3. j \in DOMAIN b.records /\ b.records[j] = a.records[j]
              BY <2>3, <4>1
            <6> QED
              BY <6>2, <6>3
          <5> QED
            BY <5>1, <5>2
        <4> QED
          BY <4>2, <4>3
      <3>2. CASE ~ Policies!Mergeable(bad, a, rs[i])
        <4>1. b = a /\ i \notin m + 1 .. n
          BY <2>1, <2>4, <3>2, MergedRecords
        <4>2. m + 1 .. i = {} /\ 1 .. i - 1 \subseteq 1 .. i
          BY <1>2, <4>1
        <4> QED
          BY <2>2, <4>1, <4>2
      <3> QED
        BY <3>1, <3>2
    <2> QED
      BY <2>5 DEF b
  <1>7. n \in S
    <2> HIDE DEF S
    <2>1. 0 .. n \subseteq S
      BY <1>2, <1>5, <1>6, InductionUpTo
    <2> QED
      BY <1>2, <2>1
  <1>8. Policies!WithEntities(f[n]).records = f[n].records
    <2>1. f[n] \in Bundles
      BY <1>2, <1>4
    <2> QED
      BY <2>1 DEF Policies!WithEntities, Bundles
  <1>9. ASSUME NEW i \in DOMAIN Sugar
        PROVE  \E j \in DOMAIN f[n].records : f[n].records[j] = Sugar[i]
    <2>1. i + m \in m + 1 .. n /\ rs[i + m] = Sugar[i]
      BY <1>2
    <2> QED
      BY <1>7, <2>1
  <1> QED
    BY <1>3, <1>8, <1>9 DEF rs

\* A strict build of the records of a bundle.
StrictlyBuilds(bad, rs, b, g) ==
    /\ g \in [0 .. Len(rs) -> Bundles]
    /\ g[0] = Policies!EmptyBundle
    /\ \A k \in 1 .. Len(rs) : /\ Policies!Mergeable(bad, g[k - 1], rs[k])
                               /\ g[k] = Policies!Merged(g[k - 1], rs[k])
    /\ g[Len(rs)] = b

\* Merging a row makes a strict build longer by one.
LEMMA StrictBuildGrows ==
    ASSUME NEW bad, NEW b \in Bundles, NEW r \in Records, Policies!Mergeable(bad, b, r),
           \E g : StrictlyBuilds(bad, b.records, b, g)
    PROVE  LET c == Policies!Merged(b, r) IN \E g : StrictlyBuilds(bad, c.records, c, g)
  <1> DEFINE c == Policies!Merged(b, r)
             l == Len(b.records)
  <1>1. PICK g : StrictlyBuilds(bad, b.records, b, g)
    OBVIOUS
  <1> DEFINE h == [k \in 0 .. l + 1 |-> IF k = l + 1 THEN c ELSE g[k]]
  <1>2. /\ l \in Nat /\ Len(c.records) = l + 1 /\ c.records[l + 1] = r
        /\ \A j \in 1 .. l : c.records[j] = b.records[j]
    <2>1. Policies!MergeLenient(bad, b, r) = c
      BY DEF Policies!MergeLenient
    <2>2. l \in Nat
      BY DEF Bundles
    <2> HIDE DEF c
    <2> QED
      BY <2>1, <2>2, MergedRecords
  <1>3. /\ g \in [0 .. l -> Bundles] /\ g[0] = Policies!EmptyBundle /\ g[l] = b
        /\ \A k \in 1 .. l : /\ Policies!Mergeable(bad, g[k - 1], b.records[k])
                             /\ g[k] = Policies!Merged(g[k - 1], b.records[k])
    BY <1>1 DEF StrictlyBuilds
  <1>4. c \in Bundles /\ c = Policies!Merged(b, r)
    BY MergeMakesBundles
  <1> HIDE DEF c, l
  <1>5. h \in [0 .. l + 1 -> Bundles] /\ h[0] = Policies!EmptyBundle /\ h[l + 1] = c
    BY <1>2, <1>3, <1>4
  <1>6. ASSUME NEW k \in 1 .. l + 1
        PROVE  /\ Policies!Mergeable(bad, h[k - 1], c.records[k])
               /\ h[k] = Policies!Merged(h[k - 1], c.records[k])
    <2>1. h[k - 1] = g[k - 1]
      BY <1>2
    <2>2. CASE k = l + 1
      <3>1. k - 1 = l /\ h[k] = c /\ c.records[k] = r /\ g[k - 1] = b
        BY <1>2, <1>3, <2>2
      <3> QED
        BY <1>4, <2>1, <3>1
    <2>3. CASE k # l + 1
      <3>1. k \in 1 .. l /\ h[k] = g[k] /\ c.records[k] = b.records[k]
        BY <1>2, <2>3
      <3> QED
        BY <1>3, <2>1, <3>1
    <2> QED
      BY <2>2, <2>3
  <1> HIDE DEF h
  <1>7. StrictlyBuilds(bad, c.records, c, h)
    BY <1>2, <1>5, <1>6 DEF StrictlyBuilds
  <1> QED
    BY <1>7 DEF c

\* What is built leniently can be built strictly of the records it holds.
LEMMA LenientIsStrict ==
    ASSUME NEW bad, NEW rs \in Seq(Records)
    PROVE  \E b \in Bundles :
              /\ Policies!Built(bad, rs) = Policies!WithEntities(b)
              /\ \E g : StrictlyBuilds(bad, b.records, b, g)
  <1> DEFINE n == Len(rs)
  <1>1. n \in Nat /\ \A i \in 1 .. n : rs[i] \in Records
    OBVIOUS
  <1>2. PICK f : Builds(bad, rs, f)
                 /\ Policies!Built(bad, rs) = Policies!WithEntities(f[n])
    BY BuildsInSteps
  <1>3. /\ \A i \in 0 .. n : f[i] \in Bundles
        /\ f[0] = Policies!EmptyBundle
        /\ \A i \in 1 .. n : f[i] = Policies!MergeLenient(bad, f[i - 1], rs[i])
    BY <1>2 DEF Builds
  <1> HIDE DEF n
  <1> DEFINE S == {i \in 0 .. n : \E g : StrictlyBuilds(bad, f[i].records, f[i], g)}
  <1>4. 0 \in S
    <2> DEFINE e == Policies!EmptyBundle
               g == [k \in 0 .. 0 |-> e]
    <2>1. Len(e.records) = 0 /\ e \in Bundles
      BY EmptyIsBundle DEF Policies!EmptyBundle
    <2>2. g \in [0 .. 0 -> Bundles] /\ g[0] = e
      BY <2>1
    <2> HIDE DEF g
    <2>3. StrictlyBuilds(bad, e.records, e, g)
      BY <2>1, <2>2 DEF StrictlyBuilds
    <2> QED
      BY <1>1, <1>3, <2>3
  <1>5. ASSUME NEW i \in 1 .. n, i - 1 \in S PROVE i \in S
    <2>1. f[i - 1] \in Bundles /\ rs[i] \in Records
          /\ f[i] = Policies!MergeLenient(bad, f[i - 1], rs[i])
      BY <1>1, <1>3
    <2>2. \E g : StrictlyBuilds(bad, f[i - 1].records, f[i - 1], g)
      BY <1>5
    <2>3. \E g : StrictlyBuilds(bad, f[i].records, f[i], g)
      <3>1. CASE Policies!Mergeable(bad, f[i - 1], rs[i])
        BY <2>1, <2>2, <3>1, StrictBuildGrows DEF Policies!MergeLenient
      <3>2. CASE ~ Policies!Mergeable(bad, f[i - 1], rs[i])
        BY <2>1, <2>2, <3>2 DEF Policies!MergeLenient
      <3> QED
        BY <3>1, <3>2
    <2> QED
      BY <2>3
  <1>6. n \in S
    <2> HIDE DEF S
    <2>1. 0 .. n \subseteq S
      BY <1>1, <1>4, <1>5, InductionUpTo
    <2> QED
      BY <1>1, <2>1
  <1> QED
    BY <1>1, <1>2, <1>3, <1>6

\* Strictly, of a release that does not parse the texts of bad.
StrictlyOf(bad, records) ==
    LET upTo[i \in 0 .. Len(records)] ==
            IF i = 0 THEN Policies!EmptyBundle
            ELSE Policies!Merged(upTo[i - 1], records[i])
    IN IF \A i \in DOMAIN records : Policies!Mergeable(bad, upTo[i - 1], records[i])
       THEN {Policies!WithEntities(upTo[Len(records)])}
       ELSE {}

\* A strict build is the one that Strictly makes.
LEMMA StrictlyIsBuilt ==
    ASSUME NEW bad, NEW b \in Bundles, \E g : StrictlyBuilds(bad, b.records, b, g)
    PROVE  Policies!WithEntities(b)
              \in StrictlyOf(bad, Policies!WithEntities(b).records)
  <1> DEFINE rs == b.records
             n == Len(rs)
             Equals(g) == g = [i \in 0 .. n |->
                                  IF i = 0 THEN Policies!EmptyBundle
                                  ELSE Policies!Merged(g[i - 1], rs[i])]
             u == CHOOSE g : Equals(g)
  <1>1. PICK g : StrictlyBuilds(bad, rs, b, g)
    OBVIOUS
  <1>2. rs \in Seq(Records) /\ n \in Nat /\ DOMAIN rs = 1 .. n
    BY DEF Bundles
  <1>3. Policies!WithEntities(b).records = rs
    BY DEF Policies!WithEntities, Bundles
  <1>4. StrictlyOf(bad, rs) =
           IF \A i \in DOMAIN rs : Policies!Mergeable(bad, u[i - 1], rs[i])
           THEN {Policies!WithEntities(u[n])} ELSE {}
    BY DEF StrictlyOf
  <1>5. /\ g \in [0 .. n -> Bundles] /\ g[0] = Policies!EmptyBundle /\ g[n] = b
        /\ \A k \in 1 .. n : /\ Policies!Mergeable(bad, g[k - 1], rs[k])
                             /\ g[k] = Policies!Merged(g[k - 1], rs[k])
    BY <1>1 DEF StrictlyBuilds
  <1> HIDE DEF rs, n
  <1>6. Equals(g)
    <2> DEFINE h == [i \in 0 .. n |-> IF i = 0 THEN Policies!EmptyBundle
                                      ELSE Policies!Merged(g[i - 1], rs[i])]
    <2>1. \A i \in 0 .. n : h[i] = g[i]
      BY <1>2, <1>5
    <2>2. DOMAIN h = 0 .. n
      OBVIOUS
    <2> QED
      BY <1>5, <2>1, <2>2
  <1>7. Equals(u)
    <2> HIDE DEF Equals
    <2> QED
      BY <1>6
  <1> HIDE DEF u
  <1>8. \A i \in 0 .. n : u[i] = g[i]
    <2> DEFINE S == {i \in 0 .. n : u[i] = g[i]}
    <2>1. 0 \in S
      BY <1>2, <1>5, <1>7
    <2>2. ASSUME NEW i \in 1 .. n, i - 1 \in S PROVE i \in S
      <3>1. u[i] = Policies!Merged(u[i - 1], rs[i])
        BY <1>2, <1>7
      <3> QED
        BY <1>5, <2>2, <3>1
    <2> HIDE DEF S
    <2>3. 0 .. n \subseteq S
      BY <1>2, <2>1, <2>2, InductionUpTo
    <2> QED
      BY <2>3 DEF S
  <1>9. u[n] = b /\ \A i \in DOMAIN rs : Policies!Mergeable(bad, u[i - 1], rs[i])
    <2>1. \A i \in 1 .. n : i - 1 \in 0 .. n
      BY <1>2
    <2> QED
      BY <1>2, <1>5, <1>8, <2>1
  <1> QED
    BY <1>3, <1>4, <1>9

\* The rows that are enabled are rows of the store.
LEMMA EnabledAreStored ==
    ASSUME Policies!RowsAreWhole
    PROVE  Policies!Enabled \in Seq(StoredRows)
  <1> DEFINE n == Len(x2)
             B == Seq(StoredRows)
             rec(i) == [id |-> x2[i], content |-> x1[x2[i]].content]
             next(i, q) == IF x1[x2[i]].enabled THEN Append(q, rec(i)) ELSE q
             step == [p \in (1 .. n) \X B |-> next(p[1], p[2])]
             Equals(g) == g = [i \in 0 .. n |->
                                  IF i = 0 THEN << >>
                                  ELSE IF x1[x2[i]].enabled
                                  THEN Append(g[i - 1], [id |-> x2[i],
                                                         content |-> x1[x2[i]].content])
                                  ELSE g[i - 1]]
             u == CHOOSE g : Equals(g)
  <1>1. n \in Nat /\ \A i \in 1 .. n : x2[i] \in Id \ Reserved
    BY DEF Policies!RowsAreWhole
  <1>2. \A i \in 1 .. n : x1[x2[i]].enabled => rec(i) \in StoredRows
    BY <1>1 DEF Policies!RowsAreWhole, StoredRows
  <1>3. \A i \in 1 .. n : \A q \in B : next(i, q) \in B
    <2> SUFFICES ASSUME NEW i \in 1 .. n, NEW q \in B PROVE next(i, q) \in B
      OBVIOUS
    <2>1. CASE x1[x2[i]].enabled
      <3>1. rec(i) \in StoredRows
        BY <1>2, <2>1
      <3> HIDE DEF rec
      <3> QED
        BY <2>1, <3>1
    <2>2. CASE ~ x1[x2[i]].enabled
      BY <2>2
    <2> QED
      BY <2>1, <2>2
  <1>4. Equals(u) /\ \A i \in 0 .. n : u[i] \in B
    <2> HIDE DEF B, n, Equals
    <2>1. step \in [(1 .. n) \X B -> B]
      <3> HIDE DEF next
      <3> QED
        BY <1>3
    <2>2. \A i \in 1 .. n, q \in B : step[<<i, q>>] = next(i, q)
      <3> HIDE DEF next
      <3> QED
        OBVIOUS
    <2> HIDE DEF step
    <2>3. n \in Nat /\ << >> \in B
      BY <1>1 DEF B
    <2>4. Exists(n, B, << >>, step)
      BY <2>1, <2>3, RecursionUpTo
    <2>5. PICK f \in [0 .. n -> B] :
             f[0] = << >> /\ \A i \in 1 .. n : f[i] = step[<<i, f[i - 1]>>]
      BY <2>4 DEF Exists
    <2>6. \A i \in 1 .. n : f[i - 1] \in B /\ f[i] = next(i, f[i - 1])
      <3> SUFFICES ASSUME NEW i \in 1 .. n PROVE f[i - 1] \in B /\ f[i] = next(i, f[i - 1])
        OBVIOUS
      <3>1. i - 1 \in 0 .. n
        BY <1>1
      <3> HIDE DEF next
      <3> QED
        BY <2>2, <2>5, <3>1
    <2>7. Equals(f)
      <3> DEFINE h == [i \in 0 .. n |->
                          IF i = 0 THEN << >>
                          ELSE IF x1[x2[i]].enabled
                          THEN Append(f[i - 1], [id |-> x2[i],
                                                 content |-> x1[x2[i]].content])
                          ELSE f[i - 1]]
      <3>1. \A i \in 0 .. n : h[i] = f[i]
        <4> SUFFICES ASSUME NEW i \in 0 .. n PROVE h[i] = f[i]
          OBVIOUS
        <4>1. CASE i = 0
          BY <2>5, <4>1
        <4>2. CASE i # 0
          <5>1. i \in 1 .. n
            BY <1>1, <4>2
          <5> QED
            BY <2>6, <4>2, <5>1
        <4> QED
          BY <4>1, <4>2
      <3>2. h = [i \in 0 .. n |-> h[i]] /\ f = [i \in 0 .. n |-> f[i]]
        BY <2>5
      <3>3. f = h
        <4> HIDE DEF h
        <4> QED
          BY <3>1, <3>2
      <3> QED
        BY <3>3 DEF Equals
    <2>8. Equals(u)
      BY <2>7
    <2> HIDE DEF u
    <2>9. u[0] = << >> /\ \A i \in 1 .. n : u[i] = next(i, u[i - 1])
      <3>1. u[0] = << >>
        BY <1>1, <2>8 DEF Equals
      <3>2. ASSUME NEW i \in 1 .. n PROVE u[i] = next(i, u[i - 1])
        <4>1. i \in 0 .. n /\ i # 0
          BY <1>1
        <4> QED
          BY <2>8, <4>1 DEF Equals
      <3> QED
        BY <3>1, <3>2
    <2> DEFINE S == {i \in 0 .. n : u[i] \in B}
    <2>10. 0 \in S
      BY <2>3, <2>9
    <2>11. ASSUME NEW i \in 1 .. n, i - 1 \in S PROVE i \in S
      <3> HIDE DEF next
      <3> QED
        BY <1>1, <1>3, <2>9, <2>11
    <2> HIDE DEF S
    <2>12. 0 .. n \subseteq S
      BY <1>1, <2>10, <2>11, InductionUpTo
    <2> QED
      BY <2>8, <2>12 DEF S
  <1>5. Policies!Enabled = u[n]
    BY DEF Policies!Enabled
  <1> HIDE DEF u, Equals
  <1> QED
    BY <1>1, <1>4, <1>5

\* What a publication or a start builds has the overlay, and no trace of what it
\* skipped.
LEMMA BuiltIsWhole ==
    ASSUME NEW bad, \A i \in DOMAIN Sugar : Sugar[i].content.text \notin bad,
           NEW rows \in Seq(StoredRows)
    PROVE  LET b == Policies!Built(bad, rows \o Sugar)
           IN  /\ \A i \in DOMAIN Sugar : \E j \in DOMAIN b.records : b.records[j] = Sugar[i]
               /\ b \in StrictlyOf(bad, b.records)
  <1> DEFINE rs == rows \o Sugar
             b == Policies!Built(bad, rs)
  <1>1. rs \in Seq(Records)
    BY OverlayRecords
  <1>2. PICK c \in Bundles : /\ b = Policies!WithEntities(c)
                             /\ \E g : StrictlyBuilds(bad, c.records, c, g)
    BY <1>1, LenientIsStrict
  <1>3. Policies!WithEntities(c) \in StrictlyOf(bad, Policies!WithEntities(c).records)
    BY <1>2, StrictlyIsBuilt
  <1>4. b \in StrictlyOf(bad, b.records)
    <2> HIDE DEF b
    <2> QED
      BY <1>2, <1>3
  <1>5. \A i \in DOMAIN Sugar : \E j \in DOMAIN b.records : b.records[j] = Sugar[i]
    BY OverlayIsMerged
  <1> QED
    BY <1>4, <1>5

LEMMA PoliciesInitInv == Policies!Init => Policies!PoliciesInv
  <1> SUFFICES ASSUME Policies!Init PROVE Policies!PoliciesInv
    OBVIOUS
  <1>1. Policies!RowsAreWhole
    <2>1. /\ x1 = [id \in Id |-> Policies!NoRow] /\ x2 = << >>
          /\ x3 = [id \in Id |-> << >>]
      BY DEF Policies!Init
    <2>2. Policies!NoRow \in [content : Content \cup {Policies!NoContent}, enabled : BOOLEAN]
          /\ Policies!NoRow.enabled = FALSE
      BY DEF Policies!NoRow
    <2>3. << >> \in Seq(Content) /\ << >> \in Seq(Id \ Reserved)
      OBVIOUS
    <2>4. \A id \in Reserved : x3[id] = << >>
      BY <2>1, PoliciesAssumption
    <2> QED
      BY <2>1, <2>2, <2>3, <2>4 DEF Policies!RowsAreWhole
  <1>2. Policies!JobsAreValid
    BY DEF Policies!Init, Policies!JobsAreValid, Policies!Idle
  <1>3. Policies!OverlayIsServed /\ Policies!SkippedLeaveNoTrace
    <2> DEFINE rows == << >>
               b == Policies!Built({}, rows \o Sugar)
    <2>1. rows \in Seq(StoredRows) /\ rows \o Sugar = Sugar
      BY OverlayRecords
    <2>2. x4 = {} /\ x5 = Policies!Built({}, Sugar)
      BY DEF Policies!Init
    <2>3. x5 = b
      BY <2>1, <2>2
    <2>4. /\ \A i \in DOMAIN Sugar : \E j \in DOMAIN b.records : b.records[j] = Sugar[i]
          /\ b \in StrictlyOf({}, b.records)
      <3> HIDE DEF rows
      <3> QED
        BY <2>1, BuiltIsWhole
    <2> HIDE DEF b
    <2>5. Policies!OverlayIsServed
      BY <2>2, <2>3, <2>4 DEF Policies!OverlayIsServed
    <2>6. Policies!SkippedLeaveNoTrace
      BY ZenonT(40), <2>2, <2>3, <2>4 DEF Policies!SkippedLeaveNoTrace, Policies!Strictly, StrictlyOf
    <2> QED
      BY <2>5, <2>6
  <1>4. Policies!OnlyValidIsStored
    BY DEF Policies!Init, Policies!OnlyValidIsStored
  <1> QED
    BY <1>1, <1>2, <1>3, <1>4 DEF Policies!PoliciesInv

\* A bundle that is installed keeps the invariant's last parts.
LEMMA InstalledIsWhole ==
    ASSUME Policies!RowsAreWhole,
           \A i \in DOMAIN Sugar : Sugar[i].content.text \notin x4',
           x5' = Policies!Built(x4', Policies!Enabled \o Sugar)
    PROVE  Policies!OverlayIsServed' /\ Policies!SkippedLeaveNoTrace'
  <1> DEFINE rows == Policies!Enabled
             bad == x4'
             b == Policies!Built(bad, rows \o Sugar)
  <1>1. rows \in Seq(StoredRows)
    BY EnabledAreStored
  <1>2. \A i \in DOMAIN Sugar : Sugar[i].content.text \notin bad
    OBVIOUS
  <1>3. x5' = b
    OBVIOUS
  <1> HIDE DEF rows
  <1>4. /\ \A i \in DOMAIN Sugar : \E j \in DOMAIN b.records : b.records[j] = Sugar[i]
        /\ b \in StrictlyOf(bad, b.records)
    <2> HIDE DEF bad
    <2> QED
      BY <1>1, <1>2, BuiltIsWhole
  <1> HIDE DEF b
  <1>5. Policies!OverlayIsServed'
    BY <1>2, <1>3, <1>4 DEF Policies!OverlayIsServed
  <1>6. Policies!SkippedLeaveNoTrace'
    <2>1. x5' \in StrictlyOf(x4', x5'.records)
      BY <1>3, <1>4 DEF bad
    <2> QED
      BY <2>1 DEF Policies!SkippedLeaveNoTrace, Policies!Strictly, StrictlyOf
  <1> QED
    BY <1>5, <1>6

\* A request that is validated keeps the invariant.
LEMMA ValidatedIsValid ==
    ASSUME Policies!PoliciesInv, NEW j \in Admin, NEW id \in Id \ Reserved,
           NEW c \in Content, NEW enabled \in BOOLEAN,
           x6' = [x6 EXCEPT ![j] = Policies!Validated(id, c, enabled)],
           UNCHANGED <<x1, x2, x3, x4, x5, x7>>
    PROVE  Policies!PoliciesInv'
  <1>1. Policies!RowsAreWhole' /\ Policies!OverlayIsServed'
        /\ Policies!SkippedLeaveNoTrace' /\ Policies!OnlyValidIsStored'
    BY DEF Policies!PoliciesInv, Policies!RowsAreWhole, Policies!OverlayIsServed,
           Policies!SkippedLeaveNoTrace, Policies!Strictly, Policies!OnlyValidIsStored
  <1>2. DOMAIN x6 = Admin /\ x6'[j] = Policies!Validated(id, c, enabled)
        /\ DOMAIN x6' = Admin /\ \A i \in Admin : i # j => x6'[i] = x6[i]
    BY DEF Policies!PoliciesInv, Policies!JobsAreValid
  <1>3. \A d : Policies!Valid(d)' <=> Policies!Valid(d)
    BY DEF Policies!Valid, Policies!SchemaParses
  <1>4. Policies!JobsAreValid'
    <2>1. ASSUME x6'[j].pc = "valid"
          PROVE  /\ x6'[j].id = id /\ x6'[j].content = c
                 /\ x6'[j].enabled = enabled /\ Policies!Valid(c)
      BY <1>2, <2>1 DEF Policies!Validated, Policies!Idle
    <2> QED
      BY <1>2, <1>3, <2>1 DEF Policies!PoliciesInv, Policies!JobsAreValid
  <1> QED
    BY <1>1, <1>4 DEF Policies!PoliciesInv

\* The requests' steps, one by one.
LEMMA PoliciesUpsertInv ==
    ASSUME Policies!PoliciesInv, NEW j \in Admin, NEW id \in Id, NEW c \in Content,
           NEW enabled \in BOOLEAN, Policies!Upsert(j, id, c, enabled)
    PROVE  Policies!PoliciesInv'
  BY ValidatedIsValid DEF Policies!Upsert

LEMMA PoliciesToolScopeInv ==
    ASSUME Policies!PoliciesInv, NEW j \in Admin, NEW id \in Id, NEW text,
           Policies!ToolScope(j, id, text)
    PROVE  Policies!PoliciesInv'
  BY ValidatedIsValid DEF Policies!ToolScope

LEMMA PoliciesRollbackInv ==
    ASSUME Policies!PoliciesInv, NEW j \in Admin, NEW id \in Id, NEW v,
           Policies!Rollback(j, id, v)
    PROVE  Policies!PoliciesInv'
  <1>1. v \in DOMAIN x3[id] /\ x3[id] \in Seq(Content) /\ (id \in Reserved => x3[id] = << >>)
    BY DEF Policies!Rollback, Policies!PoliciesInv, Policies!RowsAreWhole
  <1>2. x3[id][v] \in Content /\ id \notin Reserved
    BY <1>1
  <1> QED
    BY <1>2, ValidatedIsValid DEF Policies!Rollback

LEMMA PoliciesWriteInv ==
    ASSUME Policies!PoliciesInv, NEW j \in Admin, Policies!Write(j)
    PROVE  Policies!PoliciesInv'
  <1> DEFINE id == x6[j].id
             c == x6[j].content
             update == [content |-> c, enabled |-> x6[j].enabled]
  <1>1. /\ id \in Id \ Reserved /\ c \in Content /\ x6[j].enabled \in BOOLEAN
        /\ Policies!Valid(c)
    BY DEF Policies!Write, Policies!PoliciesInv, Policies!JobsAreValid
  <1>2. /\ x1' = [x1 EXCEPT ![id] = update]
        /\ x2' = x2 \/ x2' = Append(x2, id)
        /\ x3' = [x3 EXCEPT ![id] = Append(@, c)]
        /\ x7' = Policies!Valid(c)
        /\ x6' = [x6 EXCEPT ![j].pc = "stored"]
        /\ x4' = x4 /\ x5' = x5
    BY DEF Policies!Write
  <1>3. update \in [content : Content \cup {Policies!NoContent}, enabled : BOOLEAN]
        /\ update.content = c
    BY <1>1
  <1> HIDE DEF update, c, id
  <1>4. Policies!RowsAreWhole'
    <2>1. Policies!RowsAreWhole
      BY DEF Policies!PoliciesInv
    <2>2. /\ x1' \in [Id -> [content : Content \cup {Policies!NoContent}, enabled : BOOLEAN]]
          /\ \A i \in Id : x1'[i] = IF i = id THEN update ELSE x1[i]
      BY <1>1, <1>2, <1>3, <2>1 DEF Policies!RowsAreWhole
    <2>3. \A i \in Id : x1'[i].enabled => x1'[i].content \in Content
      BY <1>1, <1>3, <2>1, <2>2 DEF Policies!RowsAreWhole
    <2>4. x2' \in Seq(Id \ Reserved)
      <3> DEFINE B == Id \ Reserved
      <3>1. x2 \in Seq(B) /\ id \in B
        BY <1>1, <2>1 DEF Policies!RowsAreWhole
      <3> HIDE DEF B
      <3>2. x2' \in Seq(B)
        BY <1>2, <3>1
      <3> QED
        BY <3>2 DEF B
    <2>5. /\ DOMAIN x3' = Id
          /\ \A i \in Id : x3'[i] = IF i = id THEN Append(x3[i], c) ELSE x3[i]
      BY <1>1, <1>2, <2>1 DEF Policies!RowsAreWhole
    <2>6. \A i \in Id : x3'[i] \in Seq(Content)
      <3>1. \A i \in Id : x3[i] \in Seq(Content)
        BY <2>1 DEF Policies!RowsAreWhole
      <3>2. \A q \in Seq(Content) : Append(q, c) \in Seq(Content)
        BY <1>1
      <3> QED
        BY <2>5, <3>1, <3>2
    <2>7. \A i \in Reserved : x3'[i] = << >>
      BY <1>1, <2>1, <2>5, PoliciesAssumption DEF Policies!RowsAreWhole
    <2> QED
      BY <2>2, <2>3, <2>4, <2>5, <2>6, <2>7 DEF Policies!RowsAreWhole, Policies!NoContent
  <1>5. Policies!JobsAreValid'
    <2>1. Policies!JobsAreValid
      BY DEF Policies!PoliciesInv
    <2>2. \A d : Policies!Valid(d)' <=> Policies!Valid(d)
      BY <1>2 DEF Policies!Valid, Policies!SchemaParses
    <2>3. DOMAIN x6' = Admin /\ \A i \in Admin : i # j => x6'[i] = x6[i]
      BY <1>2, <2>1 DEF Policies!JobsAreValid
    <2>4. x6'[j].pc # "valid"
      <3>1. x6[j].pc = "valid" /\ x6'[j] = [x6[j] EXCEPT !.pc = "stored"]
        BY <1>2, <2>1 DEF Policies!JobsAreValid, Policies!Write
      <3> QED
        BY <3>1
    <2> QED
      BY <2>1, <2>2, <2>3, <2>4 DEF Policies!JobsAreValid
  <1>6. Policies!OverlayIsServed' /\ Policies!SkippedLeaveNoTrace'
    BY <1>2 DEF Policies!PoliciesInv, Policies!OverlayIsServed,
                Policies!SkippedLeaveNoTrace, Policies!Strictly
  <1>7. Policies!OnlyValidIsStored'
    BY <1>1, <1>2 DEF Policies!OnlyValidIsStored
  <1> QED
    BY <1>4, <1>5, <1>6, <1>7 DEF Policies!PoliciesInv

LEMMA PoliciesDeleteInv ==
    ASSUME Policies!PoliciesInv, NEW j \in Admin, NEW id \in Id, Policies!Delete(j, id)
    PROVE  Policies!PoliciesInv'
  <1>1. Policies!RowsAreWhole /\ Policies!JobsAreValid
    BY DEF Policies!PoliciesInv
  <1>2. /\ x1' = [x1 EXCEPT ![id] = Policies!NoRow]
        /\ \E i \in DOMAIN x2 : x2[i] = id /\ x2' = Policies!RemoveAt(x2, i)
        /\ x3' = [x3 EXCEPT ![id] = << >>]
        /\ x6' = [x6 EXCEPT ![j] = [Policies!Idle EXCEPT !.pc = "stored"]]
        /\ x4' = x4 /\ x5' = x5 /\ x7' = x7
    BY DEF Policies!Delete
  <1>3. Policies!RowsAreWhole'
    <2>1. Policies!NoRow \in [content : Content \cup {Policies!NoContent}, enabled : BOOLEAN]
          /\ Policies!NoRow.enabled = FALSE
      BY DEF Policies!NoRow
    <2>2. /\ x1' \in [Id -> [content : Content \cup {Policies!NoContent}, enabled : BOOLEAN]]
          /\ \A i \in Id : x1'[i] = IF i = id THEN Policies!NoRow ELSE x1[i]
      BY <1>1, <1>2, <2>1 DEF Policies!RowsAreWhole
    <2>3. \A i \in Id : x1'[i].enabled => x1'[i].content \in Content
      BY <1>1, <2>1, <2>2 DEF Policies!RowsAreWhole
    <2>4. x2' \in Seq(Id \ Reserved)
      <3> DEFINE B == Id \ Reserved
      <3>1. x2 \in Seq(B) /\ Len(x2) \in Nat /\ DOMAIN x2 = 1 .. Len(x2)
        BY <1>1 DEF Policies!RowsAreWhole
      <3>2. PICK i \in DOMAIN x2 : x2' = Policies!RemoveAt(x2, i)
        BY <1>2
      <3>3. x2' = SubSeq(x2, 1, i - 1) \o SubSeq(x2, i + 1, Len(x2))
        BY <3>2 DEF Policies!RemoveAt
      <3> HIDE DEF B
      <3>4. SubSeq(x2, 1, i - 1) \in Seq(B) /\ SubSeq(x2, i + 1, Len(x2)) \in Seq(B)
        BY <3>1
      <3>5. x2' \in Seq(B)
        BY <3>3, <3>4
      <3> QED
        BY <3>5 DEF B
    <2>5. /\ DOMAIN x3' = Id
          /\ \A i \in Id : x3'[i] = IF i = id THEN << >> ELSE x3[i]
      BY <1>1, <1>2 DEF Policies!RowsAreWhole
    <2>6. \A i \in Id : x3'[i] \in Seq(Content)
      <3>1. << >> \in Seq(Content) /\ \A i \in Id : x3[i] \in Seq(Content)
        BY <1>1 DEF Policies!RowsAreWhole
      <3> QED
        BY <2>5, <3>1
    <2>7. \A i \in Reserved : x3'[i] = << >>
      BY <1>1, <2>5, PoliciesAssumption DEF Policies!RowsAreWhole
    <2> QED
      BY <2>2, <2>3, <2>4, <2>5, <2>6, <2>7 DEF Policies!RowsAreWhole, Policies!NoContent
  <1>4. Policies!JobsAreValid'
    <2>1. \A d : Policies!Valid(d)' <=> Policies!Valid(d)
      BY <1>2 DEF Policies!Valid, Policies!SchemaParses
    <2>2. DOMAIN x6' = Admin /\ \A i \in Admin : i # j => x6'[i] = x6[i]
      BY <1>1, <1>2 DEF Policies!JobsAreValid
    <2>3. x6'[j].pc # "valid"
      <3>1. x6'[j] = [Policies!Idle EXCEPT !.pc = "stored"]
        BY <1>1, <1>2 DEF Policies!JobsAreValid
      <3> QED
        BY <3>1 DEF Policies!Idle
    <2> QED
      BY <1>1, <2>1, <2>2, <2>3 DEF Policies!JobsAreValid
  <1>5. Policies!OverlayIsServed' /\ Policies!SkippedLeaveNoTrace'
    BY <1>2 DEF Policies!PoliciesInv, Policies!OverlayIsServed,
                Policies!SkippedLeaveNoTrace, Policies!Strictly
  <1>6. Policies!OnlyValidIsStored'
    BY <1>2 DEF Policies!PoliciesInv, Policies!OnlyValidIsStored
  <1> QED
    BY <1>3, <1>4, <1>5, <1>6 DEF Policies!PoliciesInv

LEMMA PoliciesPublishInv ==
    ASSUME Policies!PoliciesInv, NEW j \in Admin, Policies!Publish(j)
    PROVE  Policies!PoliciesInv'
  <1>1. /\ x6' = [x6 EXCEPT ![j] = Policies!Idle]
        /\ x5' = Policies!Built(x4, Policies!Enabled \o Sugar) \/ x5' = x5
        /\ x1' = x1 /\ x2' = x2 /\ x3' = x3 /\ x4' = x4 /\ x7' = x7
    BY DEF Policies!Publish
  <1>2. Policies!RowsAreWhole /\ Policies!RowsAreWhole' /\ Policies!OnlyValidIsStored'
    BY <1>1 DEF Policies!PoliciesInv, Policies!RowsAreWhole, Policies!OnlyValidIsStored
  <1>3. Policies!JobsAreValid'
    <2>1. Policies!JobsAreValid
      BY DEF Policies!PoliciesInv
    <2>2. \A d : Policies!Valid(d)' <=> Policies!Valid(d)
      BY <1>1 DEF Policies!Valid, Policies!SchemaParses
    <2>3. DOMAIN x6' = Admin /\ \A i \in Admin : i # j => x6'[i] = x6[i]
      BY <1>1, <2>1 DEF Policies!JobsAreValid
    <2>4. x6'[j].pc # "valid"
      BY <1>1, <2>1 DEF Policies!JobsAreValid, Policies!Idle
    <2> QED
      BY <2>1, <2>2, <2>3, <2>4 DEF Policies!JobsAreValid
  <1>4. Policies!OverlayIsServed' /\ Policies!SkippedLeaveNoTrace'
    <2>1. CASE x5' = Policies!Built(x4, Policies!Enabled \o Sugar)
      <3>1. /\ \A i \in DOMAIN Sugar : Sugar[i].content.text \notin x4'
            /\ x5' = Policies!Built(x4', Policies!Enabled \o Sugar)
        BY <1>1, <2>1 DEF Policies!PoliciesInv, Policies!OverlayIsServed
      <3> QED
        BY <1>2, <3>1, InstalledIsWhole
    <2>2. CASE x5' = x5
      BY <1>1, <2>2 DEF Policies!PoliciesInv, Policies!OverlayIsServed,
                        Policies!SkippedLeaveNoTrace, Policies!Strictly
    <2> QED
      BY <1>1, <2>1, <2>2
  <1> QED
    BY <1>2, <1>3, <1>4 DEF Policies!PoliciesInv

LEMMA PoliciesRestartInv ==
    ASSUME Policies!PoliciesInv, Policies!Restart
    PROVE  Policies!PoliciesInv'
  <1>1. PICK bad : /\ \A i \in DOMAIN Sugar : Sugar[i].content.text \notin bad
                   /\ x4' = bad
                   /\ x5' = Policies!Built(bad, Policies!Enabled \o Sugar)
                   /\ x6' = [j \in Admin |-> Policies!Idle]
                   /\ x1' = x1 /\ x2' = x2 /\ x3' = x3 /\ x7' = x7
    BY DEF Policies!Restart
  <1>2. Policies!RowsAreWhole /\ Policies!RowsAreWhole' /\ Policies!OnlyValidIsStored'
    BY <1>1 DEF Policies!PoliciesInv, Policies!RowsAreWhole, Policies!OnlyValidIsStored
  <1>3. Policies!JobsAreValid'
    BY <1>1 DEF Policies!JobsAreValid, Policies!Idle
  <1>4. Policies!OverlayIsServed' /\ Policies!SkippedLeaveNoTrace'
    BY <1>1, <1>2, InstalledIsWhole
  <1> QED
    BY <1>2, <1>3, <1>4 DEF Policies!PoliciesInv

LEMMA PoliciesStepInv == Policies!PoliciesInv /\ Policies!Next => Policies!PoliciesInv'
  <1> SUFFICES ASSUME Policies!PoliciesInv, Policies!Next PROVE Policies!PoliciesInv'
    OBVIOUS
  <1>1. ASSUME NEW j \in Admin, Policies!Write(j) PROVE Policies!PoliciesInv'
    BY <1>1, PoliciesWriteInv
  <1>2. ASSUME NEW j \in Admin, Policies!Publish(j) PROVE Policies!PoliciesInv'
    BY <1>2, PoliciesPublishInv
  <1>3. ASSUME NEW j \in Admin, NEW id \in Id, NEW c \in Content, NEW enabled \in BOOLEAN,
               Policies!Upsert(j, id, c, enabled)
        PROVE  Policies!PoliciesInv'
    BY <1>3, PoliciesUpsertInv
  <1>4. ASSUME NEW j \in Admin, NEW id \in Id, NEW text, Policies!ToolScope(j, id, text)
        PROVE  Policies!PoliciesInv'
    BY <1>4, PoliciesToolScopeInv
  <1>5. ASSUME NEW j \in Admin, NEW id \in Id, NEW v, Policies!Rollback(j, id, v)
        PROVE  Policies!PoliciesInv'
    BY <1>5, PoliciesRollbackInv
  <1>6. ASSUME NEW j \in Admin, NEW id \in Id, Policies!Delete(j, id)
        PROVE  Policies!PoliciesInv'
    BY <1>6, PoliciesDeleteInv
  <1>7. CASE Policies!Restart
    BY <1>7, PoliciesRestartInv
  <1> QED
    BY <1>1, <1>2, <1>3, <1>4, <1>5, <1>6, <1>7 DEF Policies!Next

\* A forbid of the overlay that is in the bundle decides.
LEMMA PoliciesInvHolds == Policies!PoliciesInv => Policies!PoliciesHold
  <1> SUFFICES ASSUME Policies!PoliciesInv PROVE Policies!PoliciesHold
    OBVIOUS
  <1>1. Policies!SugarDenies
    <2> SUFFICES ASSUME NEW i \in DOMAIN Sugar, Effect[Sugar[i].content.text] = "forbid"
                 PROVE  Policies!Decision(x5) = "deny"
      BY DEF Policies!SugarDenies
    <2>1. PICK k \in DOMAIN x5.records : x5.records[k] = Sugar[i]
      BY DEF Policies!PoliciesInv, Policies!OverlayIsServed
    <2>2. "forbid" \in Policies!Effects(x5)
      BY <2>1 DEF Policies!Effects
    <2> QED
      BY <2>2 DEF Policies!Decision
  <1> QED
    BY <1>1 DEF Policies!PoliciesInv, Policies!PoliciesHold

PoliciesHolds == part = "policies" => Policies!PoliciesInv

LEMMA PoliciesStay == Policies!PoliciesInv /\ UNCHANGED others => Policies!PoliciesInv'
  BY DEF others, Policies!PoliciesInv, Policies!RowsAreWhole, Policies!JobsAreValid,
         Policies!Valid, Policies!SchemaParses,
         Policies!OverlayIsServed, Policies!SkippedLeaveNoTrace,
         Policies!Strictly, Policies!OnlyValidIsStored

LEMMA PoliciesInvariant == MCSpec => []PoliciesHolds
  <1>1. MCInit => PoliciesHolds
    BY PoliciesInitInv DEF MCInit, PoliciesHolds
  <1>2. PoliciesHolds /\ [MCNext]_<<part, vars, others>> => PoliciesHolds'
    BY PoliciesStepInv, PoliciesStay DEF MCNext, PoliciesHolds
  <1> QED
    BY <1>1, <1>2, PTL DEF MCSpec

\* The policies in service are the valid rows and the overlay, whole: a tool
\* the configuration denies stays denied, a row that is skipped leaves no trace,
\* and nothing is stored that is not valid then.
THEOREM PoliciesAreWhole == MCSpec => []PoliciesHold
  <1>1. PoliciesHolds => PoliciesHold
    BY PoliciesInvHolds DEF PoliciesHolds, PoliciesHold
  <1> QED
    BY <1>1, PoliciesInvariant, PTL

-----------------------------------------------------------------------------
(* The watch over the configuration file.                                  *)

\* What one reads at a file, or where there is none.
At(t) == [target |-> t, content |-> IF t = None THEN 0 ELSE x2[t]]

\* Where the task looked last, the path once led, or a write was seen and comes;
\* and of what is new there the task knows, or will.
WatchInv ==
    /\ Watch!TypeOK
    /\ Watch!Yields \in x9
    /\ x4 \in {"wait", "match"} /\ At(x6) \notin x9 => Watch!Coming
    /\ x4 = "wait" /\ x7 = Watch!DirectoryOf(x6) /\ At(x6) \in x10 => x8 \/ Watch!Coming

LEMMA WatchInitInv == Watch!Init => WatchInv
  <1> SUFFICES ASSUME Watch!Init PROVE WatchInv
    OBVIOUS
  <1>1. Watch!TypeOK
    <2>1. x2 \in [File -> 0 .. MaxWrites] /\ 0 \in 0 .. MaxWrites /\ 0 \in 0 .. MaxSwaps
      BY WatchAssumption DEF Watch!Init
    <2>2. Watch!Yields = [target |-> x1, content |-> 0]
      BY WatchAssumption DEF Watch!Init, Watch!Yields
    <2>3. << >> \in Seq(File \cup {"here", None}) /\ Len(<< >>) <= MaxEvents
      BY WatchAssumption
    <2>4. x9 \subseteq [target : File \cup {None}, content : 0 .. MaxWrites] /\ x10 \subseteq x9
      BY <2>1, <2>2 DEF Watch!Init
    <2>5. x5 \in Seq(File \cup {"here", None}) /\ Len(x5) <= MaxEvents
      BY <2>3 DEF Watch!Init
    <2> QED
      BY <2>1, <2>4, <2>5, Zenon DEF Watch!Init, Watch!TypeOK
  <1> QED
    BY <1>1 DEF WatchInv, Watch!Init

\* What the path yields is what one reads at its target.
LEMMA YieldsAt == Watch!Yields = At(x1)
  BY DEF Watch!Yields, At

\* The disk changes: a change at the target of the task is one it has read before,
\* or an event of it comes.
LEMMA WatchDisk ==
    ASSUME WatchInv, Watch!TypeOK', x4' = x4, x6' = x6, x7' = x7, x8' = x8,
           Watch!Yields' \in x9', x9 \subseteq x9', x10' \subseteq x10 \cup ({Watch!Yields'} \ x9),
           Watch!Coming => Watch!Coming',
           At(x6)' = At(x6) \/ x4 \notin {"wait", "match"} \/ Watch!Coming'
             \/ (At(x6)' \in x9' /\ x7 # Watch!DirectoryOf(x6))
    PROVE  WatchInv'
  <1>1. ASSUME x4 \in {"wait", "match"}, At(x6)' \notin x9' PROVE Watch!Coming'
    BY <1>1 DEF WatchInv
  <1>2. ASSUME x4 = "wait", x7 = Watch!DirectoryOf(x6), At(x6)' \in x10'
        PROVE  x8 \/ Watch!Coming'
    <2>1. CASE At(x6)' = At(x6)
      <3>1. CASE At(x6) \in x10
        BY <1>2, <3>1 DEF WatchInv
      <3>2. CASE At(x6) \notin x10
        BY <1>2, <2>1, <3>2 DEF WatchInv
      <3> QED
        BY <3>1, <3>2
    <2> QED
      BY <1>2, <2>1
  <1>3. Watch!DirectoryOf(x6)' = Watch!DirectoryOf(x6)
    BY DEF Watch!DirectoryOf
  <1> QED
    BY <1>1, <1>2, <1>3 DEF WatchInv

\* An event that is queued hides none of those before it.
LEMMA QueuedStays ==
    ASSUME WatchInv, NEW dir, NEW file \in File \cup {"here", None}, Watch!Queue(dir, file), x6' = x6,
           Len(x5) < MaxEvents
    PROVE  /\ x5' \in Seq(File \cup {"here", None}) /\ Len(x5') <= MaxEvents
           /\ Watch!Coming => Watch!Coming'
           /\ Watch!Seen(dir) /\ x4 # "ended" /\ file = x6 /\ file \in File => Watch!Coming'
  <1>1. x5 \in Seq(File \cup {"here", None}) /\ Len(x5) <= MaxEvents /\ MaxEvents \in Nat
    BY WatchAssumption DEF WatchInv, Watch!TypeOK
  <1>2. CASE x5' = Append(x5, file)
    <2>1. /\ x5' \in Seq(File \cup {"here", None}) /\ Len(x5') = Len(x5) + 1
          /\ DOMAIN x5 \subseteq DOMAIN x5' /\ Len(x5) + 1 \in DOMAIN x5'
          /\ \A i \in DOMAIN x5 : x5'[i] = x5[i]
          /\ x5'[Len(x5) + 1] = file
      BY <1>1, <1>2
    <2>2. Len(x5') <= MaxEvents
      BY <1>1, <2>1
    <2> QED
      BY <2>1, <2>2 DEF Watch!Coming
  <1>3. CASE x5' = x5 /\ ~ (Watch!Seen(dir) /\ x4 # "ended")
    BY <1>1, <1>3 DEF Watch!Coming
  <1> QED
    BY <1>2, <1>3 DEF Watch!Queue

LEMMA WatchWriteInv ==
    ASSUME WatchInv, NEW t \in File, Watch!Write(t)
    PROVE  WatchInv'
  <1> DEFINE dirOf == [file \in File |-> IF file = "file" THEN "here" ELSE file]
  <1>1. /\ Len(x5) < MaxEvents /\ x2[t] < MaxWrites
        /\ x2' = [x2 EXCEPT ![t] = @ + 1]
        /\ Watch!Queue(dirOf[t], t)
        /\ x1' = x1 /\ x3' = x3 /\ x4' = x4 /\ x6' = x6 /\ x7' = x7 /\ x8' = x8
        /\ x9' = x9 \cup {Watch!Yields'} \cup
                   (IF Watch!Seen(dirOf[t]) THEN {} ELSE {[target |-> t, content |-> x2'[t]]})
        /\ x10' = x10 \cup ({Watch!Yields'} \ x9)
    BY DEF Watch!Write, Watch!Room
  <1> HIDE DEF dirOf
  <1>2. /\ x2 \in [File -> 0 .. MaxWrites] /\ x2' \in [File -> 0 .. MaxWrites]
        /\ x2'[t] = x2[t] + 1
        /\ \A u \in File : u # t => x2'[u] = x2[u]
    BY <1>1, WatchAssumption DEF WatchInv, Watch!TypeOK
  <1>3. /\ x5' \in Seq(File \cup {"here", None}) /\ Len(x5') <= MaxEvents
        /\ Watch!Coming => Watch!Coming'
        /\ Watch!Seen(dirOf[t]) /\ x4 # "ended" /\ t = x6 => Watch!Coming'
    BY <1>1, QueuedStays
  <1>4. Watch!TypeOK'
    <2>1. Watch!Yields' \in [target : File \cup {None}, content : 0 .. MaxWrites]
      BY <1>1, <1>2, WatchAssumption DEF WatchInv, Watch!TypeOK, Watch!Yields
    <2>2. [target |-> t, content |-> x2'[t]] \in [target : File \cup {None}, content : 0 .. MaxWrites]
      BY <1>2
    <2>3. x9' \subseteq [target : File \cup {None}, content : 0 .. MaxWrites]
      BY <1>1, <2>1, <2>2 DEF WatchInv, Watch!TypeOK
    <2>4. x10' \subseteq x9'
      BY <1>1 DEF WatchInv, Watch!TypeOK
    <2> QED
      BY <1>1, <1>2, <1>3, <2>3, <2>4 DEF WatchInv, Watch!TypeOK
  <1>5. \/ At(x6)' = At(x6) \/ x4 \notin {"wait", "match"} \/ Watch!Coming'
        \/ (At(x6)' \in x9' /\ x7 # Watch!DirectoryOf(x6))
    <2> SUFFICES ASSUME x6 = t, x4 \in {"wait", "match"}, ~ Watch!Seen(dirOf[t])
                 PROVE  At(x6)' \in x9' /\ x7 # Watch!DirectoryOf(x6)
      BY <1>1, <1>2, <1>3 DEF At, WatchInv, Watch!TypeOK
    <2>1. At(x6)' = [target |-> t, content |-> x2'[t]]
      BY <1>1, WatchAssumption DEF At
    <2>2. x7 # dirOf[t] /\ "here" # dirOf[t]
      BY DEF Watch!Seen
    <2>3. Watch!DirectoryOf(x6) = dirOf[t]
      BY <2>2 DEF Watch!DirectoryOf, dirOf
    <2> QED
      BY <1>1, <2>1, <2>2, <2>3
  <1> QED
    BY <1>1, <1>3, <1>4, <1>5, WatchDisk

LEMMA WatchSwapInv ==
    ASSUME WatchInv, NEW t \in File \cup {None}, Watch!Swap(t)
    PROVE  WatchInv'
  <1>1. /\ Len(x5) < MaxEvents /\ x3 < MaxSwaps /\ x3' = x3 + 1 /\ x1' = t
        /\ x2' = x2 /\ x4' = x4 /\ x6' = x6 /\ x7' = x7 /\ x8' = x8
        /\ x9' = x9 \cup {Watch!Yields'} /\ x10' = x10 \cup (x9' \ x9)
    BY DEF Watch!Swap, Watch!Room
  <1>2. /\ x5' \in Seq(File \cup {"here", None}) /\ Len(x5') <= MaxEvents
        /\ Watch!Coming => Watch!Coming'
    <2>1. PICK file \in {"here", None} : Watch!Queue("here", file)
      BY DEF Watch!Swap
    <2> QED
      BY <1>1, <2>1, QueuedStays
  <1>3. Watch!TypeOK'
    <2>1. Watch!Yields' \in [target : File \cup {None}, content : 0 .. MaxWrites]
      BY <1>1, WatchAssumption DEF WatchInv, Watch!TypeOK, Watch!Yields
    <2>2. x3' \in 0 .. MaxSwaps
      BY <1>1, WatchAssumption DEF WatchInv, Watch!TypeOK
    <2>3. x9' \subseteq [target : File \cup {None}, content : 0 .. MaxWrites] /\ x10' \subseteq x9'
      BY <1>1, <2>1 DEF WatchInv, Watch!TypeOK
    <2> QED
      BY <1>1, <1>2, <2>2, <2>3 DEF WatchInv, Watch!TypeOK
  <1>4. At(x6)' = At(x6)
    BY <1>1 DEF At
  <1> QED
    BY <1>1, <1>2, <1>3, <1>4, WatchDisk

LEMMA WatchSwapAfarInv ==
    ASSUME WatchInv, NEW t \in File, Watch!SwapAfar(t)
    PROVE  WatchInv'
  <1>1. /\ x3 < MaxSwaps /\ x3' = x3 + 1 /\ x1' = t
        /\ x2' = x2 /\ x4' = x4 /\ x5' = x5 /\ x6' = x6 /\ x7' = x7 /\ x8' = x8
        /\ x9' = x9 \cup {Watch!Yields'} /\ x10' = x10
    BY DEF Watch!SwapAfar
  <1>2. Watch!Coming => Watch!Coming'
    BY <1>1 DEF Watch!Coming
  <1>3. Watch!TypeOK'
    <2>1. Watch!Yields' \in [target : File \cup {None}, content : 0 .. MaxWrites]
      BY <1>1, WatchAssumption DEF WatchInv, Watch!TypeOK, Watch!Yields
    <2>2. x3' \in 0 .. MaxSwaps
      BY <1>1, WatchAssumption DEF WatchInv, Watch!TypeOK
    <2>3. x9' \subseteq [target : File \cup {None}, content : 0 .. MaxWrites] /\ x10' \subseteq x9'
      BY <1>1, <2>1 DEF WatchInv, Watch!TypeOK
    <2> QED
      BY <1>1, <2>2, <2>3 DEF WatchInv, Watch!TypeOK
  <1>4. At(x6)' = At(x6)
    BY <1>1 DEF At
  <1> QED
    BY <1>1, <1>2, <1>3, <1>4, WatchDisk

LEMMA WatchStartInv == WatchInv /\ Watch!Start => WatchInv'
  <1> SUFFICES ASSUME WatchInv, Watch!Start PROVE WatchInv'
    OBVIOUS
  <1>1. x1' = x1 /\ x2' = x2 /\ x3' = x3 /\ x5' = x5 /\ x8' = x8 /\ x9' = x9
    BY DEF Watch!Start, Watch!disk
  <1>2. Watch!Yields' = Watch!Yields
    BY <1>1 DEF Watch!Yields
  <1>3. CASE x4' = "wait" /\ x6' = x1 /\ x7' \in {Watch!DirectoryOf(x1), None} /\ x10' = {}
    <2>1. At(x6)' = Watch!Yields
      BY <1>1, <1>3, YieldsAt DEF At
    <2>2. x7' \in {IF file = "file" THEN "here" ELSE file : file \in File} \cup {None}
      BY <1>3 DEF Watch!DirectoryOf
    <2>3. Watch!TypeOK'
      BY <1>1, <1>3, <2>2 DEF WatchInv, Watch!TypeOK
    <2> QED
      BY <1>1, <1>2, <1>3, <2>1, <2>3 DEF WatchInv
  <1>4. CASE x4' = "ended" /\ x6' = x6 /\ x7' = x7 /\ x10' = x10
    <2>1. Watch!TypeOK'
      BY <1>1, <1>4 DEF WatchInv, Watch!TypeOK
    <2> QED
      BY <1>1, <1>2, <1>4, <2>1 DEF WatchInv
  <1> QED
    BY <1>3, <1>4 DEF Watch!Start

\* An event that does not match is of another file, and the target is the same.
LEMMA WatchTakeInv == WatchInv /\ Watch!Take => WatchInv'
  <1> SUFFICES ASSUME WatchInv, Watch!Take PROVE WatchInv'
    OBVIOUS
  <1>1. /\ x4 = "wait" /\ x5 # << >> /\ x5' = Tail(x5) /\ x6' = x1
        /\ x4' = (IF \/ Head(x5) \in {"here"} \cup (File \cap {x6, x1})
                     \/ x6 # x1
                  THEN "match" ELSE "wait")
        /\ x1' = x1 /\ x2' = x2 /\ x3' = x3 /\ x7' = x7 /\ x8' = x8 /\ x9' = x9 /\ x10' = x10
    BY DEF Watch!Take, Watch!disk
  <1>2. /\ x5 \in Seq(File \cup {"here", None})
        /\ x5' \in Seq(File \cup {"here", None}) /\ Len(x5') = Len(x5) - 1
        /\ Head(x5) = x5[1] /\ \A i \in DOMAIN x5 : i # 1 => i - 1 \in DOMAIN x5' /\ x5'[i - 1] = x5[i]
    BY <1>1 DEF WatchInv, Watch!TypeOK
  <1>3. Watch!TypeOK'
    BY <1>1, <1>2, WatchAssumption DEF WatchInv, Watch!TypeOK
  <1>4. Watch!Yields' = Watch!Yields /\ At(x6)' = Watch!Yields
    BY <1>1 DEF Watch!Yields, At
  <1>5. CASE x4' = "match"
    BY <1>1, <1>3, <1>4, <1>5 DEF WatchInv
  <1>6. CASE x4' # "match"
    <2>1. x4' = "wait" /\ x6 = x1 /\ (x6 \in File => x5[1] # x6)
      BY <1>1, <1>2, <1>6
    <2>2. Watch!Coming => Watch!Coming'
      BY <1>1, <1>2, <2>1 DEF Watch!Coming
    <2>3. Watch!DirectoryOf(x6)' = Watch!DirectoryOf(x6)
      BY <1>1, <2>1 DEF Watch!DirectoryOf
    <2>4. At(x6) = Watch!Yields
      BY <2>1, YieldsAt
    <2> QED
      BY <1>1, <1>3, <1>4, <2>1, <2>2, <2>3, <2>4 DEF WatchInv
  <1> QED
    BY <1>5, <1>6

LEMMA WatchMatchInv == WatchInv /\ Watch!Match => WatchInv'
  <1> SUFFICES ASSUME WatchInv, Watch!Match PROVE WatchInv'
    OBVIOUS
  <1>1. /\ x4 = "match" /\ x4' = "wait" /\ x8' = TRUE
        /\ x7' \in {Watch!DirectoryOf(x6), None}
        /\ x1' = x1 /\ x2' = x2 /\ x3' = x3 /\ x5' = x5 /\ x6' = x6 /\ x9' = x9 /\ x10' = x10
    BY DEF Watch!Match, Watch!disk
  <1>2. x7' \in {IF file = "file" THEN "here" ELSE file : file \in File} \cup {None}
    BY <1>1 DEF Watch!DirectoryOf
  <1>3. Watch!TypeOK'
    BY <1>1, <1>2 DEF WatchInv, Watch!TypeOK
  <1>4. Watch!Yields' = Watch!Yields /\ At(x6)' = At(x6) /\ (Watch!Coming <=> Watch!Coming')
    BY <1>1 DEF Watch!Yields, At, Watch!Coming
  <1> QED
    BY <1>1, <1>3, <1>4 DEF WatchInv

LEMMA WatchReportInv == WatchInv /\ Watch!Report => WatchInv'
  <1> SUFFICES ASSUME WatchInv, Watch!Report PROVE WatchInv'
    OBVIOUS
  <1>1. /\ x4' = x4 /\ x8' = FALSE /\ x10' = {} /\ x1' = x1 /\ x2' = x2 /\ x3' = x3
        /\ x5' = x5 /\ x6' = x6 /\ x7' = x7 /\ x9' = x9
    BY DEF Watch!Report, Watch!disk
  <1>2. Watch!TypeOK'
    BY <1>1 DEF WatchInv, Watch!TypeOK
  <1>3. Watch!Yields' = Watch!Yields /\ At(x6)' = At(x6) /\ (Watch!Coming <=> Watch!Coming')
    BY <1>1 DEF Watch!Yields, At, Watch!Coming
  <1> QED
    BY <1>1, <1>2, <1>3 DEF WatchInv

LEMMA WatchStepInv == WatchInv /\ Watch!Next => WatchInv'
  BY WatchWriteInv, WatchSwapInv, WatchSwapAfarInv, WatchStartInv, WatchTakeInv,
     WatchMatchInv, WatchReportInv DEF Watch!Next

WatchHolds == part = "watch" => WatchInv

LEMMA WatchInvariant == MCSpec => []WatchHolds
  <1>1. MCInit => WatchHolds
    BY WatchInitInv DEF MCInit, WatchHolds
  <1>2. WatchHolds /\ [MCNext]_<<part, vars, others>> => WatchHolds'
    <2> SUFFICES ASSUME WatchHolds, [MCNext]_<<part, vars, others>>, part' = "watch"
                 PROVE  WatchInv'
      BY DEF WatchHolds
    <2>1. CASE MCNext
      <3>1. part = "watch" /\ Watch!Next
        BY <2>1 DEF MCNext
      <3> QED
        BY <3>1, WatchStepInv DEF WatchHolds
    <2>2. CASE UNCHANGED <<part, vars, others>>
      <3>1. /\ x1' = x1 /\ x2' = x2 /\ x3' = x3 /\ x4' = x4 /\ x5' = x5 /\ x6' = x6
            /\ x7' = x7 /\ x8' = x8 /\ x9' = x9 /\ x10' = x10 /\ WatchInv
        BY <2>2 DEF others, WatchHolds
      <3> QED
        BY <3>1 DEF WatchInv, Watch!TypeOK, Watch!Yields, Watch!Coming, Watch!DirectoryOf, At
    <2> QED
      BY <2>1, <2>2
  <1> QED
    BY <1>1, <1>2, PTL DEF MCSpec

\* A change of the configuration file that the task can see is one it knows of,
\* or that an event which matches is queued for, however the links are swapped,
\* the watch moves and the events are taken one by one: the debounce never
\* swallows the last one.
THEOREM NoChangeIsMissed == MCSpec => [](part = "watch" => Watch!NothingIsMissed)
  <1>1. WatchHolds => (part = "watch" => Watch!NothingIsMissed)
    BY YieldsAt DEF WatchHolds, WatchInv, Watch!NothingIsMissed, Watch!Noticeable,
                    Watch!Sees, Watch!Unreported
  <1> QED
    BY <1>1, WatchInvariant, PTL

-----------------------------------------------------------------------------
(* The start and the end of the process.                                   *)

LEMMA StepNames ==
    {Life!Steps[i] : i \in DOMAIN Life!Steps} =
        {"compile", "connect", "migrate", "seed", "authority", "lint", "fence",
         "publish", "backend", "oauth", "proxy", "admin", "serve", "drain"}
  BY DEF Life!Steps

\* No server runs yet.
Starting == {"compile", "connect", "migrate", "seed", "authority", "lint", "fence",
             "publish", "backend", "oauth", "proxy"}

\* Published, and not ended.
Underway == {"backend", "oauth", "proxy", "admin", "serve", "drain", "asked"}

\* Once published the process stays so, and what serves was published.  Before,
\* a start that goes on past the database has it as it is needed.
LifeOrder ==
    /\ x2 \in Starting => x10 = << >>
    /\ x2 \in Underway \/ DOMAIN x10 # {} => Life!Published
    /\ x2 = "publish" => x7
    /\ x2 = "admin" => DOMAIN x10 = {"proxy"}
    /\ x2 \notin {"compile", "connect", "migrate", "seed"} \cup Life!Ended =>
           ~ x1.initOnly /\ (x1.needed => x5 = "current")
    /\ Life!NotLeftBehind

LifeInv == Life!TypeOK /\ LifeOrder

LEMMA LifeInitInv == Life!Init => LifeInv
  <1> SUFFICES ASSUME Life!Init PROVE LifeInv
    OBVIOUS
  <1>1. Life!TypeOK
    <2>1. 0 \in 0 .. MaxOutages /\ DOMAIN x10 = {}
      BY LifeAssumption DEF Life!Init
    <2>2. x9 \in [stored : BOOLEAN, served : BOOLEAN]
      BY DEF Life!Init
    <2> QED
      BY <2>1, <2>2, StepNames DEF Life!Init, Life!TypeOK
  <1>2. LifeOrder
    BY DEF Life!Init, LifeOrder, Life!NotLeftBehind, Underway
  <1> QED
    BY <1>1, <1>2 DEF LifeInv

LEMMA LifeCompileInv == LifeInv /\ Life!Compile => LifeInv'
  <1> SUFFICES ASSUME LifeInv, Life!Compile PROVE LifeInv'
    OBVIOUS
  <1>1. Life!TypeOK'
    BY SMTT(40), LifeAssumption, StepNames DEF LifeInv, Life!TypeOK, Life!Options, Life!Ended, Life!Server, Life!Compile, Life!world, Life!Step
  <1>2. LifeOrder'
    BY DEF LifeInv, LifeOrder, Life!Published, Life!NotLeftBehind, Life!Ended, Life!TypeOK, Life!Options, Life!Server, Underway, Starting, Life!Compile, Life!world, Life!Step
  <1> QED
    BY <1>1, <1>2 DEF LifeInv

LEMMA LifeConnectInv == LifeInv /\ Life!Connect => LifeInv'
  <1> SUFFICES ASSUME LifeInv, Life!Connect PROVE LifeInv'
    OBVIOUS
  <1>1. Life!TypeOK'
    BY SMTT(40), LifeAssumption, StepNames DEF LifeInv, Life!TypeOK, Life!Options, Life!Ended, Life!Server, Life!Connect, Life!world, Life!Step
  <1>2. LifeOrder'
    BY DEF LifeInv, LifeOrder, Life!Published, Life!NotLeftBehind, Life!Ended, Life!TypeOK, Life!Options, Life!Server, Underway, Starting, Life!Connect, Life!world, Life!Step
  <1> QED
    BY <1>1, <1>2 DEF LifeInv

LEMMA LifeMigrateInv == LifeInv /\ Life!Migrate => LifeInv'
  <1> SUFFICES ASSUME LifeInv, Life!Migrate PROVE LifeInv'
    OBVIOUS
  <1>1. Life!TypeOK'
    BY SMTT(40), LifeAssumption, StepNames DEF LifeInv, Life!TypeOK, Life!Options, Life!Ended, Life!Server, Life!Migrate, Life!world, Life!Step
  <1>2. LifeOrder'
    BY DEF LifeInv, LifeOrder, Life!Published, Life!NotLeftBehind, Life!Ended, Life!TypeOK, Life!Options, Life!Server, Underway, Starting, Life!Migrate, Life!world, Life!Step
  <1> QED
    BY <1>1, <1>2 DEF LifeInv

LEMMA LifeSeedInv == LifeInv /\ Life!Seed => LifeInv'
  <1> SUFFICES ASSUME LifeInv, Life!Seed PROVE LifeInv'
    OBVIOUS
  <1>1. Life!TypeOK'
    BY SMTT(40), LifeAssumption, StepNames DEF LifeInv, Life!TypeOK, Life!Options, Life!Ended, Life!Server, Life!Seed, Life!world, Life!Step
  <1>2. LifeOrder'
    BY DEF LifeInv, LifeOrder, Life!Published, Life!NotLeftBehind, Life!Ended, Life!TypeOK, Life!Options, Life!Server, Underway, Starting, Life!Seed, Life!world, Life!Step
  <1> QED
    BY <1>1, <1>2 DEF LifeInv

LEMMA LifeAuthorityInv == LifeInv /\ Life!Authority => LifeInv'
  <1> SUFFICES ASSUME LifeInv, Life!Authority PROVE LifeInv'
    OBVIOUS
  <1>1. Life!TypeOK'
    BY SMTT(40), LifeAssumption, StepNames DEF LifeInv, Life!TypeOK, Life!Options, Life!Ended, Life!Server, Life!Authority, Life!world, Life!Step
  <1>2. LifeOrder'
    BY DEF LifeInv, LifeOrder, Life!Published, Life!NotLeftBehind, Life!Ended, Life!TypeOK, Life!Options, Life!Server, Underway, Starting, Life!Authority, Life!world, Life!Step
  <1> QED
    BY <1>1, <1>2 DEF LifeInv

LEMMA LifeLintInv == LifeInv /\ Life!Lint => LifeInv'
  <1> SUFFICES ASSUME LifeInv, Life!Lint PROVE LifeInv'
    OBVIOUS
  <1>1. Life!TypeOK'
    BY SMTT(40), LifeAssumption, StepNames DEF LifeInv, Life!TypeOK, Life!Options, Life!Ended, Life!Server, Life!Lint, Life!world, Life!Step
  <1>2. LifeOrder'
    BY DEF LifeInv, LifeOrder, Life!Published, Life!NotLeftBehind, Life!Ended, Life!TypeOK, Life!Options, Life!Server, Underway, Starting, Life!Lint, Life!world, Life!Step
  <1> QED
    BY <1>1, <1>2 DEF LifeInv

LEMMA LifeFenceInv == LifeInv /\ Life!Fence => LifeInv'
  <1> SUFFICES ASSUME LifeInv, Life!Fence PROVE LifeInv'
    OBVIOUS
  <1>1. Life!TypeOK'
    BY SMTT(40), LifeAssumption, StepNames DEF LifeInv, Life!TypeOK, Life!Options, Life!Ended, Life!Server, Life!Fence, Life!world, Life!Step
  <1>2. /\ x2 = "fence" /\ x2' \in {"publish", "refused"} /\ (x2' = "publish" => x7')
        /\ x1' = x1 /\ x5' = x5 /\ x6' = x6 /\ x10' = x10
    BY DEF Life!Fence, Life!Step
  <1>3. LifeOrder'
    BY <1>2 DEF LifeInv, LifeOrder, Life!NotLeftBehind, Life!Ended, Life!TypeOK, Life!Options, Life!Server, Underway, Starting
  <1> QED
    BY <1>1, <1>3 DEF LifeInv

LEMMA LifePublishInv == LifeInv /\ Life!Publish => LifeInv'
  <1> SUFFICES ASSUME LifeInv, Life!Publish PROVE LifeInv'
    OBVIOUS
  <1>1. Life!TypeOK'
    BY SMTT(40), LifeAssumption, StepNames DEF LifeInv, Life!TypeOK, Life!Options, Life!Ended, Life!Server, Life!Publish, Life!world, Life!Step
  <1>2. LifeOrder'
    BY DEF LifeInv, LifeOrder, Life!Published, Life!NotLeftBehind, Life!Ended, Life!TypeOK, Life!Options, Life!Server, Underway, Starting, Life!Publish, Life!world, Life!Step
  <1> QED
    BY <1>1, <1>2 DEF LifeInv

LEMMA LifeBackendInv == LifeInv /\ Life!Backend => LifeInv'
  <1> SUFFICES ASSUME LifeInv, Life!Backend PROVE LifeInv'
    OBVIOUS
  <1>1. Life!TypeOK'
    BY SMTT(40), LifeAssumption, StepNames DEF LifeInv, Life!TypeOK, Life!Options, Life!Ended, Life!Server, Life!Backend, Life!world, Life!Step
  <1>2. LifeOrder'
    BY DEF LifeInv, LifeOrder, Life!Published, Life!NotLeftBehind, Life!Ended, Life!TypeOK, Life!Options, Life!Server, Underway, Starting, Life!Backend, Life!world, Life!Step
  <1> QED
    BY <1>1, <1>2 DEF LifeInv

LEMMA LifeOAuthInv == LifeInv /\ Life!OAuth => LifeInv'
  <1> SUFFICES ASSUME LifeInv, Life!OAuth PROVE LifeInv'
    OBVIOUS
  <1>1. Life!TypeOK'
    BY SMTT(40), LifeAssumption, StepNames DEF LifeInv, Life!TypeOK, Life!Options, Life!Ended, Life!Server, Life!OAuth, Life!world, Life!Step
  <1>2. LifeOrder'
    BY DEF LifeInv, LifeOrder, Life!Published, Life!NotLeftBehind, Life!Ended, Life!TypeOK, Life!Options, Life!Server, Underway, Starting, Life!OAuth, Life!world, Life!Step
  <1> QED
    BY <1>1, <1>2 DEF LifeInv

LEMMA LifeProxyInv == LifeInv /\ Life!Proxy => LifeInv'
  <1> SUFFICES ASSUME LifeInv, Life!Proxy PROVE LifeInv'
    OBVIOUS
  <1>1. Life!TypeOK'
    BY SMTT(40), LifeAssumption, StepNames DEF LifeInv, Life!TypeOK, Life!Options, Life!Ended, Life!Server, Life!Proxy, Life!world, Life!Step, Life!Opens, Life!Sound
  <1>2. LifeOrder'
    BY DEF LifeInv, LifeOrder, Life!Published, Life!NotLeftBehind, Life!Ended, Life!TypeOK, Life!Options, Life!Server, Underway, Starting, Life!Proxy, Life!world, Life!Step, Life!Opens, Life!Sound
  <1> QED
    BY <1>1, <1>2 DEF LifeInv

LEMMA LifeOpenAdminInv == LifeInv /\ Life!OpenAdmin => LifeInv'
  <1> SUFFICES ASSUME LifeInv, Life!OpenAdmin PROVE LifeInv'
    OBVIOUS
  <1>1. Life!TypeOK'
    <2>1. DOMAIN x10' \subseteq Life!Server /\ \A s \in DOMAIN x10' : x10'[s] \in 0 .. MaxOpen
      <3>1. x2 = "admin" => x10["proxy"] \in 0 .. MaxOpen
        BY DEF LifeInv, LifeOrder, Life!TypeOK
      <3>2. 0 \in 0 .. MaxOpen
        BY LifeAssumption
      <3> QED
        BY <3>1, <3>2 DEF LifeInv, Life!TypeOK, Life!OpenAdmin, Life!Server
    <2>2. x2' \in {Life!Steps[i] : i \in DOMAIN Life!Steps} \cup Life!Ended
      BY StepNames DEF Life!OpenAdmin, Life!Ended
    <2> QED
      BY <2>1, <2>2 DEF LifeInv, Life!TypeOK, Life!OpenAdmin, Life!world
  <1>2. LifeOrder'
    BY DEF LifeInv, LifeOrder, Life!Published, Life!NotLeftBehind, Life!Ended, Life!TypeOK, Life!Options, Life!Server, Underway, Starting, Life!OpenAdmin, Life!world
  <1> QED
    BY <1>1, <1>2 DEF LifeInv

LEMMA LifeTerminateInv == LifeInv /\ Life!Terminate => LifeInv'
  <1> SUFFICES ASSUME LifeInv, Life!Terminate PROVE LifeInv'
    OBVIOUS
  <1>1. Life!TypeOK'
    BY SMTT(40), LifeAssumption, StepNames DEF LifeInv, Life!TypeOK, Life!Options, Life!Ended, Life!Server, Life!Terminate, Life!world
  <1>2. LifeOrder'
    BY DEF LifeInv, LifeOrder, Life!Published, Life!NotLeftBehind, Life!Ended, Life!TypeOK, Life!Options, Life!Server, Underway, Starting, Life!Terminate, Life!world
  <1> QED
    BY <1>1, <1>2 DEF LifeInv

LEMMA LifeWatchEndsInv == LifeInv /\ Life!WatchEnds => LifeInv'
  <1> SUFFICES ASSUME LifeInv, Life!WatchEnds PROVE LifeInv'
    OBVIOUS
  <1>1. Life!TypeOK'
    BY SMTT(40), LifeAssumption, StepNames DEF LifeInv, Life!TypeOK, Life!Options, Life!Ended, Life!Server, Life!WatchEnds, Life!world
  <1>2. LifeOrder'
    BY DEF LifeInv, LifeOrder, Life!Published, Life!NotLeftBehind, Life!Ended, Life!TypeOK, Life!Options, Life!Server, Underway, Starting, Life!WatchEnds, Life!world
  <1> QED
    BY <1>1, <1>2 DEF LifeInv

LEMMA LifeDrainInv == LifeInv /\ Life!Drain => LifeInv'
  <1> SUFFICES ASSUME LifeInv, Life!Drain PROVE LifeInv'
    OBVIOUS
  <1>1. Life!TypeOK'
    BY SMTT(40), LifeAssumption, StepNames DEF LifeInv, Life!TypeOK, Life!Options, Life!Ended, Life!Server, Life!Drain, Life!world
  <1>2. LifeOrder'
    BY DEF LifeInv, LifeOrder, Life!Published, Life!NotLeftBehind, Life!Ended, Life!TypeOK, Life!Options, Life!Server, Underway, Starting, Life!Drain, Life!world
  <1> QED
    BY <1>1, <1>2 DEF LifeInv

LEMMA LifeDrainTimesOutInv == LifeInv /\ Life!DrainTimesOut => LifeInv'
  <1> SUFFICES ASSUME LifeInv, Life!DrainTimesOut PROVE LifeInv'
    OBVIOUS
  <1>1. Life!TypeOK'
    BY SMTT(40), LifeAssumption, StepNames DEF LifeInv, Life!TypeOK, Life!Options, Life!Ended, Life!Server, Life!DrainTimesOut, Life!world
  <1>2. LifeOrder'
    BY DEF LifeInv, LifeOrder, Life!Published, Life!NotLeftBehind, Life!Ended, Life!TypeOK, Life!Options, Life!Server, Underway, Starting, Life!DrainTimesOut, Life!world
  <1> QED
    BY <1>1, <1>2 DEF LifeInv

LEMMA LifeMigrateLateInv == LifeInv /\ Life!MigrateLate => LifeInv'
  <1> SUFFICES ASSUME LifeInv, Life!MigrateLate PROVE LifeInv'
    OBVIOUS
  <1>1. Life!TypeOK'
    BY DEF LifeInv, Life!TypeOK, Life!MigrateLate, Life!world
  <1>2. LifeOrder'
    BY DEF LifeInv, LifeOrder, Life!Published, Life!NotLeftBehind, Life!Ended, Life!TypeOK, Life!Options, Life!Server, Underway, Starting, Life!MigrateLate, Life!world
  <1> QED
    BY <1>1, <1>2 DEF LifeInv

LEMMA LifeOutageInv == LifeInv /\ Life!Outage => LifeInv'
  <1> SUFFICES ASSUME LifeInv, Life!Outage PROVE LifeInv'
    OBVIOUS
  <1>1. Life!TypeOK'
    <2>1. x4 \in 0 .. MaxOutages /\ x4 < MaxOutages /\ x4' = x4 + 1 /\ x3' = FALSE
      BY DEF LifeInv, Life!TypeOK, Life!Outage
    <2>2. x4' \in 0 .. MaxOutages
      BY <2>1, LifeAssumption
    <2> QED
      BY <2>1, <2>2 DEF LifeInv, Life!TypeOK, Life!Outage
  <1>2. LifeOrder'
    BY DEF LifeInv, LifeOrder, Life!Published, Life!NotLeftBehind, Life!Ended, Life!TypeOK, Life!Options, Life!Server, Underway, Starting, Life!Outage, Life!world
  <1> QED
    BY <1>1, <1>2 DEF LifeInv

LEMMA LifeRecoveryInv == LifeInv /\ Life!Recovery => LifeInv'
  <1> SUFFICES ASSUME LifeInv, Life!Recovery PROVE LifeInv'
    OBVIOUS
  <1>1. Life!TypeOK'
    BY SMTT(40), LifeAssumption, StepNames DEF LifeInv, Life!TypeOK, Life!Options, Life!Ended, Life!Server, Life!Recovery, Life!world
  <1>2. LifeOrder'
    BY DEF LifeInv, LifeOrder, Life!Published, Life!NotLeftBehind, Life!Ended, Life!TypeOK, Life!Options, Life!Server, Underway, Starting, Life!Recovery, Life!world
  <1> QED
    BY <1>1, <1>2 DEF LifeInv

LEMMA LifeStoredInv == LifeInv /\ Life!Stored => LifeInv'
  <1> SUFFICES ASSUME LifeInv, Life!Stored PROVE LifeInv'
    OBVIOUS
  <1>1. Life!TypeOK'
    BY DEF LifeInv, Life!TypeOK, Life!Stored, Life!world
  <1>2. LifeOrder'
    BY DEF LifeInv, LifeOrder, Life!Published, Life!NotLeftBehind, Life!Ended, Life!TypeOK, Life!Options, Life!Server, Underway, Starting, Life!Stored, Life!world
  <1> QED
    BY <1>1, <1>2 DEF LifeInv

LEMMA LifeAcceptInv ==
    ASSUME LifeInv, NEW s \in Life!Server, Life!Accept(s)
    PROVE  LifeInv'
  <1>1. Life!TypeOK'
    BY SMTT(40), LifeAssumption, StepNames DEF LifeInv, Life!TypeOK, Life!Options, Life!Ended, Life!Server, Life!Accept, Life!world
  <1>2. LifeOrder'
    BY DEF LifeInv, LifeOrder, Life!Published, Life!NotLeftBehind, Life!Ended, Life!TypeOK, Life!Options, Life!Server, Underway, Starting, Life!Accept, Life!world
  <1> QED
    BY <1>1, <1>2 DEF LifeInv

LEMMA LifeFinishInv ==
    ASSUME LifeInv, NEW s \in Life!Server, Life!Finish(s)
    PROVE  LifeInv'
  <1>1. Life!TypeOK'
    BY SMTT(40), LifeAssumption, StepNames DEF LifeInv, Life!TypeOK, Life!Options, Life!Ended, Life!Server, Life!Finish, Life!world
  <1>2. LifeOrder'
    BY DEF LifeInv, LifeOrder, Life!Published, Life!NotLeftBehind, Life!Ended, Life!TypeOK, Life!Options, Life!Server, Underway, Starting, Life!Finish, Life!world
  <1> QED
    BY <1>1, <1>2 DEF LifeInv

LEMMA LifeServerEndsInv ==
    ASSUME LifeInv, NEW s \in Life!Server, Life!ServerEnds(s)
    PROVE  LifeInv'
  <1>1. Life!TypeOK'
    BY SMTT(40), LifeAssumption, StepNames DEF LifeInv, Life!TypeOK, Life!Options, Life!Ended, Life!Server, Life!ServerEnds, Life!world
  <1>2. LifeOrder'
    BY DEF LifeInv, LifeOrder, Life!Published, Life!NotLeftBehind, Life!Ended, Life!TypeOK, Life!Options, Life!Server, Underway, Starting, Life!ServerEnds, Life!world
  <1> QED
    BY <1>1, <1>2 DEF LifeInv

LEMMA LifeStepInv == LifeInv /\ Life!Next => LifeInv'
  BY LifeCompileInv, LifeConnectInv, LifeMigrateInv, LifeSeedInv, LifeAuthorityInv, LifeLintInv,
     LifeFenceInv, LifePublishInv, LifeBackendInv, LifeOAuthInv, LifeProxyInv, LifeOpenAdminInv,
     LifeAcceptInv, LifeFinishInv, LifeServerEndsInv, LifeTerminateInv, LifeWatchEndsInv,
     LifeDrainInv, LifeDrainTimesOutInv, LifeMigrateLateInv, LifeOutageInv, LifeRecoveryInv,
     LifeStoredInv
  DEF Life!Next

LifeHolds == part = "life" => LifeInv

LEMMA LifeInvariant == MCSpec => []LifeHolds
  <1>1. MCInit => LifeHolds
    BY LifeInitInv DEF MCInit, LifeHolds
  <1>2. LifeHolds /\ [MCNext]_<<part, vars, others>> => LifeHolds'
    <2> SUFFICES ASSUME LifeHolds, [MCNext]_<<part, vars, others>>, part' = "life"
                 PROVE  LifeInv'
      BY DEF LifeHolds
    <2>1. CASE MCNext
      <3>1. part = "life" /\ Life!Next
        BY <2>1 DEF MCNext
      <3> QED
        BY <3>1, LifeStepInv DEF LifeHolds
    <2>2. CASE UNCHANGED <<part, vars, others>>
      <3>1. /\ x1' = x1 /\ x2' = x2 /\ x3' = x3 /\ x4' = x4 /\ x5' = x5 /\ x6' = x6
            /\ x7' = x7 /\ x8' = x8 /\ x9' = x9 /\ x10' = x10 /\ LifeInv
        BY <2>2 DEF others, LifeHolds
      <3> QED
        BY <3>1 DEF LifeInv, Life!TypeOK, LifeOrder, Life!Published, Life!NotLeftBehind
    <2> QED
      BY <2>1, <2>2
  <1> QED
    BY <1>1, <1>2, PTL DEF MCSpec

\* Whatever is down while the gateway starts, and whenever: no request comes in
\* before what has to be published is, and a database that was not there is left
\* to a task that migrates it.
THEOREM ServesWhatItPublished ==
    MCSpec => [](part = "life" => Life!ServedIsPublished /\ Life!NotLeftBehind)
  <1>1. LifeHolds => (part = "life" => Life!ServedIsPublished /\ Life!NotLeftBehind)
    BY DEF LifeHolds, LifeInv, LifeOrder, Life!ServedIsPublished
  <1> QED
    BY <1>1, LifeInvariant, PTL

-----------------------------------------------------------------------------
(* Types.                                                                  *)

\* What is built of the rows and the overlay is a bundle.
LEMMA BuiltIsBundle ==
    ASSUME NEW bad, NEW rows \in Seq(StoredRows)
    PROVE  Policies!Built(bad, rows \o Sugar) \in Policies!Bundle
  <1> DEFINE rs == rows \o Sugar
  <1>1. rs \in Seq(Records) /\ Len(rs) \in Nat
    BY OverlayRecords
  <1>2. PICK f : Builds(bad, rs, f) /\ Policies!Built(bad, rs) = Policies!WithEntities(f[Len(rs)])
    BY <1>1, BuildsInSteps
  <1>3. f[Len(rs)] \in Bundles
    BY <1>1, <1>2 DEF Builds
  <1>4. Bundles \subseteq Policies!Bundle
    BY PoliciesAssumption DEF Bundles, Policies!Bundle, Records, Policies!Record, Contents
  <1>5. \A b \in Policies!Bundle : Policies!WithEntities(b) \in Policies!Bundle
    BY DEF Policies!WithEntities, Policies!Bundle
  <1> HIDE DEF rs
  <1>6. Policies!Built(bad, rs) \in Policies!Bundle
    BY <1>2, <1>3, <1>4, <1>5
  <1> QED
    BY <1>6 DEF rs

\* What the invariant does not say already.
PoliciesTyped ==
    /\ x4 \subseteq Policies!Text \cup Schema
    /\ x5 \in Policies!Bundle
    /\ x6 \in [Admin -> [pc : {"idle", "valid", "stored"}, id : Id \cup {None},
                         content : Content \cup {Policies!NoContent}, enabled : BOOLEAN]]
    /\ x7 \in BOOLEAN
    /\ x8 \in 0 .. MaxFaults

LEMMA IdleIsJob ==
    Policies!Idle \in [pc : {"idle", "valid", "stored"}, id : Id \cup {None},
                       content : Content \cup {Policies!NoContent}, enabled : BOOLEAN]
  BY DEF Policies!Idle

LEMMA PoliciesTypedInit == Policies!Init => PoliciesTyped
  <1> SUFFICES ASSUME Policies!Init PROVE PoliciesTyped
    OBVIOUS
  <1>1. x5 \in Policies!Bundle
    <2> DEFINE rows == << >>
    <2>1. rows \in Seq(StoredRows) /\ rows \o Sugar = Sugar
      BY OverlayRecords
    <2>2. Policies!Built({}, rows \o Sugar) \in Policies!Bundle
      <3> HIDE DEF rows
      <3> QED
        BY <2>1, BuiltIsBundle
    <2> QED
      BY <2>1, <2>2 DEF Policies!Init
  <1>2. 0 \in 0 .. MaxFaults
    BY PoliciesAssumption
  <1> QED
    BY <1>1, <1>2, IdleIsJob DEF Policies!Init, PoliciesTyped

LEMMA PoliciesTypedNext ==
    Policies!PoliciesInv /\ PoliciesTyped /\ Policies!Next => PoliciesTyped'
  <1> SUFFICES ASSUME Policies!PoliciesInv, PoliciesTyped, Policies!Next PROVE PoliciesTyped'
    OBVIOUS
  <1> DEFINE aJob == [pc : {"idle", "valid", "stored"}, id : Id \cup {None},
                      content : Content \cup {Policies!NoContent}, enabled : BOOLEAN]
             Moves(j) == /\ \E new \in aJob : x6' = [x6 EXCEPT ![j] = new]
                         /\ x4' = x4 /\ x5' = x5 /\ x8' = x8 /\ x7' \in BOOLEAN
  <1>1. ASSUME NEW j \in Admin, Moves(j) PROVE PoliciesTyped'
    <2>1. x6 \in [Admin -> aJob]
      BY DEF PoliciesTyped
    <2>2. x6' \in [Admin -> aJob]
      <3> HIDE DEF aJob
      <3> QED
        BY <1>1, <2>1
    <2> QED
      BY <1>1, <2>2 DEF PoliciesTyped, Policies!Text, Policies!Bundle, Policies!Record
  <1>2. ASSUME NEW id \in Id, NEW c \in Content, NEW enabled \in BOOLEAN
        PROVE  Policies!Validated(id, c, enabled) \in aJob
    BY IdleIsJob DEF Policies!Validated
  <1>3. Policies!Enabled \in Seq(StoredRows)
    BY EnabledAreStored DEF Policies!PoliciesInv
  <1>4. ASSUME NEW j \in Admin, NEW id \in Id, NEW c \in Content, NEW enabled \in BOOLEAN,
               Policies!Upsert(j, id, c, enabled)
        PROVE  Moves(j)
    <2>1. x7 \in BOOLEAN
      BY DEF PoliciesTyped
    <2> QED
      BY <1>2, <1>4, <2>1 DEF Policies!Upsert
  <1>5. ASSUME NEW j \in Admin, NEW id \in Id, NEW text, Policies!ToolScope(j, id, text)
        PROVE  Moves(j)
    <2>1. x7 \in BOOLEAN
      BY DEF PoliciesTyped
    <2> QED
      BY <1>2, <1>5, <2>1 DEF Policies!ToolScope
  <1>6. ASSUME NEW j \in Admin, NEW id \in Id, NEW v, Policies!Rollback(j, id, v)
        PROVE  Moves(j)
    <2>1. v \in DOMAIN x3[id] /\ x3[id] \in Seq(Content)
      BY <1>6 DEF Policies!Rollback, Policies!PoliciesInv, Policies!RowsAreWhole
    <2>2. x3[id][v] \in Content /\ TRUE \in BOOLEAN
      BY <2>1
    <2>3. Policies!Validated(id, x3[id][v], TRUE) \in aJob
      BY <1>2, <2>2
    <2>4. x7 \in BOOLEAN
      BY DEF PoliciesTyped
    <2> QED
      BY <1>6, <2>3, <2>4 DEF Policies!Rollback
  <1>7. ASSUME NEW j \in Admin, Policies!Write(j) PROVE Moves(j)
    <2>1. x6[j] \in aJob /\ [x6[j] EXCEPT !.pc = "stored"] \in aJob
      BY DEF PoliciesTyped
    <2>2. x6' = [x6 EXCEPT ![j] = [x6[j] EXCEPT !.pc = "stored"]]
      BY <1>7 DEF Policies!Write
    <2>3. x7' \in BOOLEAN
      BY <1>7 DEF Policies!Write, Policies!Valid, Policies!SchemaParses
    <2> HIDE DEF aJob
    <2> QED
      BY <1>7, <2>1, <2>2, <2>3 DEF Policies!Write
  <1>8. ASSUME NEW j \in Admin, NEW id \in Id, Policies!Delete(j, id) PROVE Moves(j)
    <2>1. [Policies!Idle EXCEPT !.pc = "stored"] \in aJob
      BY IdleIsJob
    <2>2. x7 \in BOOLEAN
      BY DEF PoliciesTyped
    <2> HIDE DEF aJob
    <2> QED
      BY <1>8, <2>1, <2>2 DEF Policies!Delete
  <1>9. ASSUME NEW j \in Admin, Policies!Publish(j) PROVE PoliciesTyped'
    <2>1. x6 \in [Admin -> aJob] /\ Policies!Idle \in aJob
      BY IdleIsJob DEF PoliciesTyped
    <2>2. x6' \in [Admin -> aJob]
      <3> HIDE DEF aJob
      <3> QED
        BY <1>9, <2>1 DEF Policies!Publish
    <2>3. Policies!Built(x4, Policies!Enabled \o Sugar) \in Policies!Bundle
      BY <1>3, BuiltIsBundle
    <2>4. x5' \in Policies!Bundle
      BY <1>9, <2>3 DEF Policies!Publish, PoliciesTyped
    <2>5. x8' \in 0 .. MaxFaults
      BY <1>9, PoliciesAssumption DEF Policies!Publish, PoliciesTyped
    <2>6. x4' = x4 /\ x7' = x7
      BY <1>9 DEF Policies!Publish
    <2> QED
      BY <2>2, <2>4, <2>5, <2>6 DEF PoliciesTyped, Policies!Text, Policies!Bundle, Policies!Record
  <1>10. CASE Policies!Restart
    <2>1. PICK bad \in {{}} \cup {{unread} : unread \in Policies!Text \cup Schema} :
             /\ x4' = bad
             /\ x5' = Policies!Built(bad, Policies!Enabled \o Sugar)
             /\ x6' = [j \in Admin |-> Policies!Idle]
             /\ x7' = x7 /\ x8' = x8
      BY <1>10 DEF Policies!Restart
    <2>2. x5' \in Policies!Bundle
      BY <1>3, <2>1, BuiltIsBundle
    <2> QED
      BY <2>1, <2>2, IdleIsJob DEF PoliciesTyped, Policies!Text, Policies!Bundle, Policies!Record
  <1> HIDE DEF Moves
  <1> QED
    BY <1>1, <1>4, <1>5, <1>6, <1>7, <1>8, <1>9, <1>10 DEF Policies!Next

PoliciesTypesHold == part = "policies" => Policies!PoliciesInv /\ PoliciesTyped

LEMMA PoliciesTypesInvariant == MCSpec => []PoliciesTypesHold
  <1>1. MCInit => PoliciesTypesHold
    BY PoliciesInitInv, PoliciesTypedInit DEF MCInit, PoliciesTypesHold
  <1>2. PoliciesTyped /\ UNCHANGED others => PoliciesTyped'
    BY DEF others, PoliciesTyped, Policies!Text, Policies!Bundle, Policies!Record
  <1>3. PoliciesTypesHold /\ [MCNext]_<<part, vars, others>> => PoliciesTypesHold'
    BY <1>2, PoliciesStepInv, PoliciesStay, PoliciesTypedNext DEF MCNext, PoliciesTypesHold
  <1> QED
    BY <1>1, <1>3, PTL DEF MCSpec

LEMMA KeySetsInvariant == MCSpec => []KeySetsInv
  <1>1. MCInit => KeySetsInv
    BY KeySetsInit DEF MCInit
  <1>2. KeySetsInv /\ [MCNext]_<<part, vars, others>> => KeySetsInv'
    <2>1. [MCNext]_<<part, vars, others>> => [Next]_vars
      BY DEF MCNext
    <2> QED
      BY <2>1, KeySetsStep
  <1> QED
    BY <1>1, <1>2, PTL DEF MCSpec

\* In every part the variables have their types, of which the invariants of the
\* parts are most: key sets, keys, rows, bundles and tables are what they should be,
\* whatever is rotated, stored, broken, published, swapped or restarted.
THEOREM TypesAreRight == MCSpec => []TypesOK
  <1>1. KeySetsInv => TypeOK
    BY DEF KeySetsInv
  <1>2. SecretsHold => (part = "secrets" => Secrets!TypeOK)
    BY DEF SecretsHold, Secrets!KeysInv
  <1>3. SigningHolds => (part = "signing" => Signing!TypeOK)
    BY DEF SigningHolds, Signing!SigningInv
  <1>4. PoliciesTypesHold => (part = "policies" => Policies!TypeOK)
    <2> SUFFICES ASSUME Policies!PoliciesInv, PoliciesTyped PROVE Policies!TypeOK
      BY DEF PoliciesTypesHold
    <2>1. Policies!RowsAreWhole
      BY DEF Policies!PoliciesInv
    <2>2. x2 \in Seq(Id)
      <3>1. x2 \in Seq(Id \ Reserved) /\ Id \ Reserved \subseteq Id
        BY <2>1 DEF Policies!RowsAreWhole
      <3> QED
        BY <3>1, SeqMonotonic
    <2> QED
      BY <2>1, <2>2 DEF Policies!RowsAreWhole, PoliciesTyped, Policies!TypeOK
  <1>5. RoutesHold => (part = "routes" => Routes!TypeOK)
    <2> SUFFICES ASSUME Routes!RoutesInv PROVE Routes!TypeOK
      BY DEF RoutesHold
    <2>1. /\ x1 \in [RouteId -> Route \cup {None}] /\ Routes!TableIsBuilt
          /\ x3 \in [RouteId -> Route \cup {None}]
      BY DEF Routes!RoutesInv, Routes!TableIsBuilt
    <2>2. \A i \in DOMAIN x2 : x2[i] \in Standing
      BY <2>1, TableHolds
    <2>3. \A r \in Standing : r.id \in RouteId
      BY <2>1, BuiltStands
    <2> QED
      BY <2>1, <2>2, <2>3 DEF Routes!TypeOK
  <1>6. LifeHolds => (part = "life" => Life!TypeOK)
    BY DEF LifeHolds, LifeInv
  <1>7. WatchHolds => (part = "watch" => Watch!TypeOK)
    BY DEF WatchHolds, WatchInv
  <1>8. KeySetsInv /\ SecretsHold /\ SigningHolds /\ PoliciesTypesHold /\ RoutesHold
          /\ LifeHolds /\ WatchHolds => TypesOK
    BY <1>1, <1>2, <1>3, <1>4, <1>5, <1>6, <1>7 DEF TypesOK
  <1> QED
    BY <1>8, KeySetsInvariant, SecretsInvariant, SigningInvariant, PoliciesTypesInvariant,
       RoutesInvariant, LifeInvariant, WatchInvariant, PTL

=============================================================================
