----------------------------- MODULE SigningKeys -----------------------------
(***************************************************************************)
(* The keys the gateway signs its tokens with (auth/jwt_mint.rs), their    *)
(* table (db/mod.rs), the key set it publishes (auth/jwks_publish.rs), and *)
(* introspection (auth/introspect.rs, auth/oauth.rs).                      *)
(*                                                                         *)
(* Administrators rotate and deactivate keys, and so does the seed of a    *)
(* database (main.rs), under an id that is fixed; a rotation is a          *)
(* transaction of two statements at READ COMMITTED, so rotations that      *)
(* overlap do not see each other.  A key that is inserted under an id that *)
(* is there replaces it.  A process takes its key when it starts.  It      *)
(* answers introspection with the key of the configuration.                *)
(*                                                                         *)
(* A pair is an algorithm, a private key and a public one, which is taken  *)
(* to be that of the private key: nothing compares the two.                *)
(***************************************************************************)
EXTENDS Integers, Sequences, FiniteSets

CONSTANTS
    Process,
    Key,          \* ids of the signing keys of the database
    Pair,         \* what may be inserted under them
    Shared,       \* of these, the secrets of an HMAC algorithm
    Unreadable,   \* and those whose public part is no PEM
    ConfigKey,    \* the signing key of the configuration
    None,
    Life,         \* of a token
    MaxTime, MaxTokens   \* bounds

VARIABLES
    now,
    row,          \* table jwt_signing_keys
    born,         \* its created_at
    replaced,     \* history: keys that were replaced under their id
    rotation,     \* rotations under way: the rows each has deactivated
    minter,       \* the key each process signs with
    tokens        \* issued by the gateway

vars == <<now, row, born, replaced, rotation, minter, tokens>>

Row == [pair : Pair, active : BOOLEAN]

\* What a process signs with: an id, which the tokens name unless it is a secret
\* that is shared, and the private key.
Signer == [id : Key, pair : Pair]
Token == [by : Signer \cup {ConfigKey}, exp : 0..MaxTime + Life]

TypeOK ==
    /\ now \in 0..MaxTime
    /\ row \in [Key -> Row \cup {None}]
    /\ born \in Seq(Key)
    /\ replaced \subseteq Signer
    /\ rotation \in [Key -> (SUBSET Key) \cup {None}]
    /\ minter \in [Process -> Signer \cup {ConfigKey}]
    /\ tokens \in SUBSET Token

Init ==
    /\ now = 0
    /\ row = [k \in Key |-> None]
    /\ born = <<>>
    /\ replaced = {}
    /\ rotation = [k \in Key |-> None]
    /\ minter = [p \in Process |-> ConfigKey]
    /\ tokens = {}

-----------------------------------------------------------------------------
(* The table.                                                              *)

\* list_signing_keys.
Listed == {k \in Key : row[k] # None}

Active == {k \in Listed : row[k].active}

SignerOf(k) == [id |-> k, pair |-> row[k].pair]

\* insert_signing_key: its first statement sees the rows of its time,
Deactivate(k) ==
    /\ rotation[k] = None
    /\ rotation' = [rotation EXCEPT ![k] = Active]
    /\ UNCHANGED <<now, row, born, replaced, minter, tokens>>

\* and its second one is committed with it.  ON CONFLICT DO UPDATE: the row gets
\* another algorithm and other keys, and stays as old as it was.
Insert(k, pair) ==
    /\ rotation[k] # None
    /\ row' = [j \in Key |-> IF j = k THEN [pair |-> pair, active |-> TRUE]
                             ELSE IF j \in rotation[k] THEN [row[j] EXCEPT !.active = FALSE]
                             ELSE row[j]]
    /\ born' = IF row[k] = None THEN Append(born, k) ELSE born
    /\ replaced' = (replaced \cup (IF row[k] = None THEN {} ELSE {SignerOf(k)}))
                       \ {[id |-> k, pair |-> pair]}
    /\ rotation' = [rotation EXCEPT ![k] = None]
    /\ UNCHANGED <<now, minter, tokens>>

\* Either statement fails, and nothing has happened.
Rollback(k) ==
    /\ rotation[k] # None
    /\ rotation' = [rotation EXCEPT ![k] = None]
    /\ UNCHANGED <<now, row, born, replaced, minter, tokens>>

\* Variant: a key that no longer signs is deleted.
RetireDeletes(k) ==
    /\ k \in Active
    /\ \A j \in Key : rotation[j] # None => k \notin rotation[j]
    /\ row' = [row EXCEPT ![k] = None]
    /\ born' = SelectSeq(born, LAMBDA j : j # k)
    /\ UNCHANGED <<now, replaced, rotation, minter, tokens>>

\* deactivate_signing_key.
Retire(k) ==
    /\ k \in Active
    /\ row' = [row EXCEPT ![k].active = FALSE]
    /\ UNCHANGED <<now, born, replaced, rotation, minter, tokens>>

\* get_active_signing_key: of the active keys, the one created last.
Newest ==
    CHOOSE k \in Active : \A i, j \in DOMAIN born :
        born[i] = k /\ born[j] \in Active => j <= i

\* is_publishable: a secret that is shared is not published.
Publishable == {k \in Listed : row[k].pair \notin Shared}

\* build_jwks and jwks_handler: of the publishable keys one that is no PEM, and
\* there is no set.
Published ==
    IF \E k \in Publishable : row[k].pair \in Unreadable THEN {}
    ELSE {SignerOf(k) : k \in Publishable}

-----------------------------------------------------------------------------
(* A process.                                                              *)

\* from_db_or_config, at the start: the key of the database or, when that has
\* none or fails, of the configuration.
Restart(p) ==
    /\ \E signer \in {ConfigKey} \cup (IF Active = {} THEN {} ELSE {SignerOf(Newest)}) :
           minter' = [minter EXCEPT ![p] = signer]
    /\ UNCHANGED <<now, row, born, replaced, rotation, tokens>>

\* mint.
Mint(p) ==
    /\ Cardinality(tokens) < MaxTokens
    /\ tokens' = tokens \cup {[by |-> minter[p], exp |-> now + Life]}
    /\ UNCHANGED <<now, row, born, replaced, rotation, minter>>

\* TokenVerifier::introspect, with the key of the configuration.
Verified(t) == t.by = ConfigKey /\ now < t.exp

\* delegate_to_hydra, if there is one, which does not know the gateway's tokens;
\* a failure is no better.
KnownToHydra(t) == FALSE

\* introspect_endpoint, which changes nothing: whether the token is active.
Introspected(t) == Verified(t) \/ KnownToHydra(t)

Tick ==
    /\ now < MaxTime
    /\ now' = now + 1
    /\ UNCHANGED <<row, born, replaced, rotation, minter, tokens>>

Next ==
    \/ \E k \in Key :
        \/ Deactivate(k) \/ Rollback(k) \/ Retire(k)
        \/ \E pair \in Pair : Insert(k, pair)
    \/ \E p \in Process : Restart(p) \/ Mint(p)
    \/ Tick

Spec == Init /\ [][Next]_vars

-----------------------------------------------------------------------------
(* Properties.                                                             *)

\* A token signed with a key pair of the database can be verified by others all
\* its life, whatever rotations, races of rotations, deactivations and restarts
\* come after it (build_jwks lists inactive keys, and processes go on signing
\* with them), until its key is replaced under its id, and unless a publishable
\* key that is no PEM is inserted.  Then it can again when the key is put back.
StaysVerifiable ==
    (\A k \in Publishable : row[k].pair \notin Unreadable) =>
        \A t \in tokens :
            t.by # ConfigKey /\ now < t.exp =>
                t.by \in Published \/ t.by \in replaced \/ t.by.pair \in Shared

\* "A verifier that cached a token signed by the previous key must still be able
\* to resolve it during the overlap window" (jwks_publish.rs:23).
\* Not if the next key is inserted under the id of the previous one, as the seed
\* of the database does (main.rs:354-365); and processes that signed with the
\* previous one go on until they start anew.
PreviousKeyResolves ==
    (\A k \in Key : row[k] # None => row[k].pair \notin Shared \cup Unreadable) =>
        \A t \in tokens : t.by # ConfigKey /\ now < t.exp => t.by \in Published

\* "Verifies gateway-minted tokens locally": a token the gateway issued and that
\* has not expired is active (introspect_endpoint).
\* The verifier has the key of the configuration, the minter that of the
\* database when there is one.
LiveIsActive == \A t \in tokens : now < t.exp => Introspected(t)

\* "All prior signing keys deactivated": one key is active at a time.
OneActiveKey == Cardinality(Active) <= 1

-----------------------------------------------------------------------------
(* The inductive invariant behind StaysVerifiable.                         *)

\* Each row was created once, and is there.
BornOnce ==
    /\ \A i \in DOMAIN born : row[born[i]] # None
    /\ \A i, j \in DOMAIN born : born[i] = born[j] => i = j

\* A rotation has deactivated rows.
RotatedAreThere ==
    \A k \in Key : rotation[k] # None => \A j \in rotation[k] : row[j] # None

\* The key is that of its row, or was replaced there.
Accounted(signer) ==
    signer \in replaced \/ (row[signer.id] # None /\ row[signer.id].pair = signer.pair)

\* So are what signs, and what signed.
SignersAreAccounted ==
    /\ \A p \in Process : minter[p] = ConfigKey \/ Accounted(minter[p])
    /\ \A t \in tokens : t.by = ConfigKey \/ Accounted(t.by)

SigningInv == TypeOK /\ BornOnce /\ RotatedAreThere /\ SignersAreAccounted

=============================================================================
