--------------------------- MODULE TokenExchange ---------------------------
(***************************************************************************)
(* POST /oauth/token (auth/oauth.rs, auth/token_exchange.rs,               *)
(* auth/client_credentials.rs).                                            *)
(*                                                                         *)
(* A caller exchanges a token for one with at most its scopes, a session   *)
(* for a token that ends with it, or its own credentials for a token of    *)
(* its own; a client on the list acts for a person.  The provider of       *)
(* subject tokens may trust the gateway's own tokens, so an issued token   *)
(* can be exchanged in turn.  Each request waits for the client store, for *)
(* Kratos, or for the key set of the provider, while time passes and       *)
(* clients come and go.                                                    *)
(*                                                                         *)
(* A token is its actor, scopes and expiry; "root", which the program does *)
(* not keep, is the credential it descends from.  Other claims, and names  *)
(* of subjects and audiences, are left out; so are the keys (SigningKeys). *)
(***************************************************************************)
EXTENDS Integers, FiniteSets

CONSTANTS
    Request,
    Client,       \* of either kind
    Scope,
    None,
    Ttl,          \* delegated_ttl_seconds
    Until,        \* when the Kratos session ends, which the provider tells
    MaxTime, MaxTokens   \* bounds

VARIABLES
    now,
    policy,       \* token_exchange.clients, as the process started with it
    registered,   \* table oauth_clients: the scopes of active clients
    tokens,       \* issued by the gateway
    pc, form,     \* requests: the caller's form, and
    client        \* the client verified for it

requestVars == <<pc, form, client>>
vars == <<now, policy, registered, tokens, requestVars>>

-----------------------------------------------------------------------------
(* Forms, clients and tokens.                                              *)

\* The credential a token descends from: what it allows, and when it ends.
Root == [scopes : SUBSET Scope, ends : Nat]

Token == [act : Client \cup {"subject"}, scopes : SUBSET Scope, exp : Nat, root : Root]

\* A token of another issuer, trusted by the provider, with no end of interest.
Foreign == [act : {"subject"}, scopes : SUBSET Scope, exp : {MaxTime + Ttl},
            root : {None}]

\* Who calls (with a secret, or by name only), for whom (a subject token, a
\* Kratos session, or a person named outright), asking for scopes
\* and for a lifetime.  A claim asked for is one more reason to refuse.
Form == [caller : Client \cup {None}, secret : BOOLEAN, grant : {"exchange", "client"},
         subject : {"token", "session", "person"}, token : Token \cup Foreign \cup {None},
         scopes : (SUBSET Scope) \cup {None}, ttl : 1..Ttl]

Policy == [public : SUBSET Client,      \* clients without a secret
           persons : SUBSET Client,     \* may act for a person
           hydra : BOOLEAN,             \* the exchange is delegated
           own : BOOLEAN]               \* the provider trusts the gateway's tokens

\* validate_exchange_policy and validate_public_client, at start.
ValidPolicy(p) ==
    /\ p.hydra => p.public = {} /\ p.persons = {}
    /\ p.public \cap p.persons = {}

Await == {"idle", "client", "provider", "kratos", "session", "hydra"}

TypeOK ==
    /\ now \in 0..MaxTime
    /\ policy \in {p \in Policy : ValidPolicy(p)}
    /\ registered \in [Client -> (SUBSET Scope) \cup {None}]
    /\ tokens \in SUBSET Token
    /\ pc \in [Request -> Await]
    /\ form \in [Request -> Form \cup {None}]
    /\ client \in [Request -> [name : Client, scopes : SUBSET Scope] \cup {None}]

Init ==
    /\ now = 0
    /\ policy \in {p \in Policy : ValidPolicy(p)}
    /\ registered \in [Client -> {None, Scope}]
    /\ tokens = {}
    /\ pc = [r \in Request |-> "idle"]
    /\ form = [r \in Request |-> None]
    /\ client = [r \in Request |-> None]

Least(a, b) == IF a < b THEN a ELSE b

-----------------------------------------------------------------------------
(* What a request may ask for.                                             *)

\* downscope, restrict_scopes: no more than the grant; by default all of it.
Granted(f, grant) == IF f.scopes = None THEN grant ELSE f.scopes
Allowed(f, grant) == Granted(f, grant) \subseteq grant

NamesPublic(f) == f.caller \in policy.public /\ ~ f.secret

\* A session, or a public client, which can do nothing else.
SelectsSession(f) == f.subject = "session" \/ NamesPublic(f)

\* validate_session_token_request, and downscope to no scopes at all.
ValidSession(f) ==
    /\ NamesPublic(f)
    /\ f.subject = "session"
    /\ Allowed(f, {})

\* on_behalf_of_grant.
MayActFor(f, c) == c # None /\ c.name \in policy.persons /\ Allowed(f, c.scopes)

\* public_client_actor: a token issued to a public client is not exchanged.
Terminal(t) == t.act \in policy.public

\* verify_subject_token: the provider trusts the issuer, and the token has not
\* expired.
Verifies(t) == t.root = None \/ (policy.own /\ now < t.exp)

-----------------------------------------------------------------------------
(* token_endpoint.                                                         *)

\* A name that is no public client's, without a secret, is like none.
Credentials(f) ==
    /\ f.caller = None => ~ f.secret
    /\ f.secret \/ f.caller \in policy.public \cup {None}

\* validate_request: an exchange has a token, or says for whom it is.
Complete(f) ==
    /\ (f.subject = "token" /\ f.grant = "exchange") <=> (f.token # None)
    /\ f.grant = "client" => f.secret /\ f.subject = "person" /\ f.ttl = Ttl

Forms ==
    {f \in [caller : Client \cup {None}, secret : BOOLEAN, grant : {"exchange", "client"},
            subject : {"token", "session", "person"}, token : tokens \cup Foreign \cup {None},
            scopes : {None, {}, Scope}, ttl : {1, Ttl}] :
        Credentials(f) /\ Complete(f)}

Refuse(r) ==
    /\ pc' = [pc EXCEPT ![r] = "idle"]
    /\ form' = [form EXCEPT ![r] = None]
    /\ client' = [client EXCEPT ![r] = None]

Wait(r, await, f) ==
    /\ pc' = [pc EXCEPT ![r] = await]
    /\ form' = [form EXCEPT ![r] = f]

\* The exchange up to its first await: exchange_session_token,
\* delegate_exchange_to_hydra, authenticate_client or verify_subject_token.
\* A form refused at once leaves nothing.
Exchange(r, f) ==
    \/ SelectsSession(f) /\ ValidSession(f) /\ Wait(r, "kratos", f)
    \/ /\ ~ SelectsSession(f) /\ policy.hydra
       /\ f.subject = "token" /\ ~ f.secret /\ f.ttl = Ttl
       /\ Wait(r, "hydra", f)
    \/ /\ ~ SelectsSession(f) /\ ~ policy.hydra
       /\ f.secret /\ f.caller \notin policy.public
       /\ Wait(r, "client", f)
    \/ /\ ~ SelectsSession(f) /\ ~ policy.hydra
       /\ ~ f.secret /\ f.subject = "token"
       /\ Wait(r, "provider", f)

Submit(r) ==
    /\ pc[r] = "idle"
    /\ \E f \in Forms :
           \/ f.grant = "exchange" /\ Exchange(r, f)
           \/ /\ f.grant = "client" /\ f.caller \notin policy.public
              /\ Wait(r, "client", f)
    /\ UNCHANGED <<now, policy, registered, tokens, client>>

\* JwtMinter::mint and the answer.
Issue(r, act, scopes, ttl, root) ==
    /\ Cardinality(tokens) < MaxTokens
    /\ tokens' = tokens \cup
           {[act |-> act, scopes |-> scopes, exp |-> now + ttl, root |-> root]}
    /\ Refuse(r)

\* Of a token that is issued on the authority of scopes alone.
ByScopes(scopes) == [scopes |-> scopes, ends |-> MaxTime + Ttl]

\* client_credentials_grant.
ClientGranted(r, f, c) ==
    /\ f.grant = "client"
    /\ Allowed(f, c.scopes)
    /\ Issue(r, "subject", Granted(f, c.scopes), Ttl, ByScopes(c.scopes))

\* The client names the person it acts for.
ActsFor(r, f, c) ==
    /\ f.grant = "exchange" /\ f.subject = "person"
    /\ MayActFor(f, c)
    /\ Issue(r, c.name, Granted(f, c.scopes), Least(f.ttl, Ttl), ByScopes(c.scopes))

\* The client exchanges a token, which is verified next.
AsksForSubject(r, f, c) ==
    /\ f.grant = "exchange" /\ f.subject = "token"
    /\ Wait(r, "provider", f)
    /\ client' = [client EXCEPT ![r] = c]
    /\ UNCHANGED tokens

\* verify_client_credentials answers, with the client; what follows without a
\* further await is issued.
ClientVerified(r) ==
    LET f == form[r]
        c == [name |-> f.caller, scopes |-> registered[f.caller]]
    IN  /\ pc[r] = "client"
        /\ registered[f.caller] # None
        /\ ClientGranted(r, f, c) \/ ActsFor(r, f, c) \/ AsksForSubject(r, f, c)
        /\ UNCHANGED <<now, policy, registered>>

\* Variant: the caller's scopes are added to those of the subject.
ScopesOfBoth(r, f) ==
    f.token.scopes \cup IF client[r] = None THEN {} ELSE client[r].scopes

ScopesOf(r, f) == f.token.scopes

\* verify_subject_token answers, and the token is exchanged.
SubjectVerified(r) ==
    LET f == form[r]
        t == f.token
        grant == ScopesOf(r, f)
    IN  /\ pc[r] = "provider"
        /\ Verifies(t) /\ ~ Terminal(t)
        /\ Allowed(f, grant)
        /\ Issue(r, IF client[r] = None THEN "subject" ELSE client[r].name,
                 Granted(f, grant), Least(f.ttl, Ttl),
                 IF t.root = None THEN ByScopes(t.scopes) ELSE t.root)
        /\ UNCHANGED <<now, policy, registered>>

\* Kratos confirms the session, with its end; its answer takes its time.
SessionVerified(r) ==
    /\ pc[r] = "kratos"
    /\ now < Until
    /\ Wait(r, "session", form[r])
    /\ UNCHANGED <<now, policy, registered, tokens, client>>

\* Of the session's life; nothing when it is over.
Remaining == IF now < Until THEN Until - now ELSE 0

\* The rest of exchange_session_token.
SessionExchanged(r) ==
    LET f == form[r]
        ttl == Least(Least(f.ttl, Ttl), Remaining)
    IN  /\ pc[r] = "session"
        /\ ttl > 0
        /\ Issue(r, f.caller, {}, ttl, [scopes |-> {}, ends |-> Until])
        /\ UNCHANGED <<now, policy, registered>>

\* delegate_exchange_to_hydra: what Hydra answers is passed on, whatever it says,
\* and no token of the gateway's is issued.
HydraAnswers(r) ==
    /\ pc[r] = "hydra"
    /\ Refuse(r)
    /\ UNCHANGED <<now, policy, registered, tokens>>

\* A verifier, the store or Kratos refuses or fails, a claim that is asked for is
\* not the subject's, the client leaves, or the process stops.
Deny(r) ==
    /\ pc[r] \notin {"idle", "hydra"}
    /\ Refuse(r)
    /\ UNCHANGED <<now, policy, registered, tokens>>

-----------------------------------------------------------------------------
(* Clients and time.                                                       *)

\* create_oauth_client; without a function that does it, rows are deactivated
\* by hand.
Register(c) ==
    /\ registered' = [registered EXCEPT ![c] = IF @ = None THEN Scope ELSE None]
    /\ UNCHANGED <<now, policy, tokens, requestVars>>

Tick ==
    /\ now < MaxTime
    /\ now' = now + 1
    /\ UNCHANGED <<policy, registered, tokens, requestVars>>

Next ==
    \/ \E r \in Request :
           \/ Submit(r) \/ ClientVerified(r) \/ SubjectVerified(r)
           \/ SessionVerified(r) \/ SessionExchanged(r)
           \/ HydraAnswers(r) \/ Deny(r)
    \/ \E c \in Client : Register(c)
    \/ Tick

Spec == Init /\ [][Next]_vars

-----------------------------------------------------------------------------
(* Properties.                                                             *)

\* However often a token is exchanged, by whichever clients, it has no scope
\* its first credential did not have, and one that comes from a session has
\* ended when the session has (exchange_with_policy, exchange_session_token):
\* no chain of requests, nor waiting within one, launders either.
AuthorityShrinks ==
    \A t \in tokens :
        /\ t.scopes \subseteq t.root.scopes
        /\ t.exp <= t.root.ends

-----------------------------------------------------------------------------
(* The inductive invariant behind it.                                      *)

\* Only a token that cannot be exchanged ends with a session.
TokenShrinks(t) ==
    /\ t.scopes \subseteq t.root.scopes
    /\ t.exp <= t.root.ends
    /\ t.root.ends = MaxTime + Ttl \/ Terminal(t)

\* What a waiting request was let in with.
WaitsWith(r) ==
    pc[r] # "idle" =>
        /\ form[r] \in Form /\ Complete(form[r])
        /\ form[r].token \in tokens \cup Foreign \cup {None}
        /\ pc[r] = "client" => form[r].caller \in Client
        /\ pc[r] = "provider" => form[r].grant = "exchange" /\ form[r].subject = "token"
        /\ pc[r] \in {"kratos", "session"} => form[r].caller \in policy.public

ShrinkInv == (\A t \in tokens : TokenShrinks(t)) /\ (\A r \in Request : WaitsWith(r))

=============================================================================
