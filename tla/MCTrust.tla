------------------------------- MODULE MCTrust -------------------------------
(***************************************************************************)
(* What the gateway's decisions rest on, for TLC: the key sets it verifies *)
(* tokens with (JwksCache), API keys (ApiKeys), the keys it signs with     *)
(* (SigningKeys), the policies (PolicyStore) and the routes (RouteTable),  *)
(* and the process itself: its start and end (Lifecycle) and the watch     *)
(* over its configuration (ConfigWatch).  The models share nothing, so a   *)
(* behaviour is one of one of them (part), and the variables of the others *)
(* stay as they are.                                                       *)
(***************************************************************************)
EXTENDS JwksCache, Sequences, FiniteSets

CONSTANTS
    Part,                                 \* the models to check
    Key, Pair, Shared, Unreadable, Process, ConfigKey,  \* SigningKeys
    TokenLife, MaxAge, MaxTokens,
    Id, Reserved, Sugar, Content, Effect, Schema, Gateway, Admin,  \* PolicyStore
    MaxVersions, MaxFaults,
    RouteId, Route, RouteFile, Domains, NameOf, Path, Method, Override,  \* RouteTable
    Flaw, MaxOutages, MaxOpen,            \* Lifecycle
    File, MaxWrites, MaxSwaps, MaxEvents  \* ConfigWatch

ASSUME SecretsAssumption == "none" \notin Kid

\* Rows and signers are records, None and the configuration's key are neither.
ASSUME SigningAssumption ==
    /\ {TokenLife, MaxAge} \subseteq Nat
    /\ None \notin [pair : Pair, active : BOOLEAN]
    /\ ConfigKey \notin [id : Key, pair : Pair]

\* A route is a record, and no route is None.
ASSUME RoutesAssumption ==
    LET ofFile == {RouteFile[id] : id \in DOMAIN RouteFile}
        enabled == {[r EXCEPT !.enabled = TRUE] : r \in Route}
    IN  /\ IsFiniteSet(RouteId) /\ DOMAIN RouteFile \subseteq RouteId
        /\ \A r \in Route \cup ofFile :
               /\ DOMAIN r = {"site", "hosts", "length", "accepts", "methods", "priority",
                              "enabled", "readable"}
               /\ r.priority \in Int /\ r.length \in Nat
        /\ None \notin ofFile
        /\ None \notin [id : RouteId, route : Route \cup ofFile \cup enabled]

\* The overlay has identifiers of its own, and neither schemas nor entities.
ASSUME PoliciesAssumption ==
    /\ MaxFaults \in Nat
    /\ \A c \in Content \cup {Sugar[i].content : i \in DOMAIN Sugar} :
           c.schema \in Schema \cup {None} /\ c.entities \in Schema \cup {Gateway, None}
    /\ Reserved \subseteq Id
    /\ Sugar \in Seq([id : Reserved, content : {Sugar[i].content : i \in DOMAIN Sugar}])
    /\ \A i \in DOMAIN Sugar :
           Sugar[i].content.schema = None /\ Sugar[i].content.entities = None
    /\ \A i, j \in DOMAIN Sugar : Sugar[i].id = Sugar[j].id => i = j

\* There is no file at a path that leads nowhere.
ASSUME WatchAssumption == None \notin File /\ {MaxWrites, MaxSwaps, MaxEvents} \subseteq Nat

ASSUME LifeAssumption == {MaxOutages, MaxOpen} \subseteq Nat

\* x1, x2, ... are the variables of the model that runs, in its order; the
\* variables of JwksCache are its own.
VARIABLES part, x1, x2, x3, x4, x5, x6, x7, x8, x9, x10

others == <<x1, x2, x3, x4, x5, x6, x7, x8, x9, x10>>

Secrets == INSTANCE ApiKeys WITH
    now <- x1, row <- x2, cached <- x3, lookup <- x4, accepted <- x5, slowest <- x6,
    Key <- Kid

Signing == INSTANCE SigningKeys WITH
    now <- x1, row <- x2, born <- x3, replaced <- x4, rotation <- x5, minter <- x6,
    tokens <- x7, Life <- TokenLife, MaxTime <- MaxAge

Policies == INSTANCE PolicyStore WITH
    row <- x1, age <- x2, versions <- x3, broken <- x4, served <- x5, job <- x6,
    stored <- x7, faults <- x8, Job <- Admin

Routes == INSTANCE RouteTable WITH
    rows <- x1, table <- x2, loaded <- x3, Id <- RouteId, File <- RouteFile, Star <- "*"

Life == INSTANCE Lifecycle WITH
    options <- x1, pc <- x2, postgres <- x3, outages <- x4, schema <- x5, migrating <- x6,
    fenced <- x7, served <- x8, policies <- x9, open <- x10

\* The file may be at the configured path itself, or in a directory of its own.
Watch == INSTANCE ConfigWatch WITH
    leads <- x1, content <- x2, swaps <- x3, pc <- x4, events <- x5, observed <- x6,
    watched <- x7, deadline <- x8, past <- x9, news <- x10,
    Target <- File, Here <- "here",
    DirOf <- [file \in File |-> IF file = "file" THEN "here" ELSE file]

-----------------------------------------------------------------------------
(* Values for TLC.                                                         *)

\* A text says what it does.
SomeContents ==
    LET of(text, schema, entities) == [text |-> text, schema |-> schema, entities |-> entities]
    IN {of("permit", None, None), of("permit", "own", "own"), of("approve", "own", None),
        of("ban", None, Gateway)}

SaysWhatItDoes == [text \in {"permit", "approve", "forbid", "ban"} |-> text]

\* The overlay denies the tool, or there is none.
ForbiddingSugar ==
    << [id |-> CHOOSE id \in Reserved : TRUE,
        content |-> [text |-> "forbid", schema |-> None, entities |-> None]] >>

NoSugar == << >>

SomeRoutes ==
    LET of(site, hosts, length, accepts, methods, priority, enabled) ==
            [site |-> site, hosts |-> hosts, length |-> length, accepts |-> accepts,
             methods |-> methods, priority |-> priority, enabled |-> enabled, readable |-> TRUE]
        all == {"app", "else"}
    IN {of("app", {"app"}, 1, {"/x", "/y"}, {}, 1, TRUE), of("open", all, 3, {"/x"}, {"GET"}, 0, TRUE),
        of("app", all, 2, {"/x"}, {"GET"}, 2, FALSE), of("gone", all, 2, {"/x"}, {}, 2, TRUE),
        [of("app", all, 0, {}, {}, 0, TRUE) EXCEPT !.readable = FALSE]}

OneRouteInFile ==
    [id \in {"a"} |-> CHOOSE r \in SomeRoutes : r.site = "app" /\ r.length = 1]

TwoSites == [site \in {"app", "open"} |-> IF site = "app" THEN {"app"} ELSE {}]

HostsWithPorts ==
    [host \in {"app", "app:80", "else"} |-> IF host = "else" THEN host ELSE "app"]

-----------------------------------------------------------------------------

\* The variables from x1 on that a model of n variables leaves alone.
Idle(n) ==
    /\ n < 1 => x1 = 0 /\ x2 = 0 /\ x3 = 0
    /\ n < 4 => x4 = 0 /\ x5 = 0 /\ x6 = 0
    /\ n < 7 => x7 = 0
    /\ n < 8 => x8 = 0
    /\ n < 9 => x9 = 0 /\ x10 = 0

MCInit ==
    /\ part \in Part
    /\ Init
    /\ part # "keySets" => keys = {}
    /\ \/ part = "keySets" /\ Idle(0)
       \/ part = "routes" /\ Routes!Init /\ Idle(3)
       \/ part = "secrets" /\ Secrets!Init /\ Idle(6)
       \/ part = "signing" /\ Signing!Init /\ Idle(7)
       \/ part = "policies" /\ Policies!Init /\ Idle(8)
       \/ part = "life" /\ Life!Init
       \/ part = "watch" /\ Watch!Init

MCNext ==
    /\ UNCHANGED part
    /\ \/ part = "keySets" /\ Next /\ UNCHANGED others
       \/ part = "routes" /\ Routes!Next /\ UNCHANGED <<vars, x4, x5, x6, x7, x8, x9, x10>>
       \/ part = "secrets" /\ Secrets!Next /\ UNCHANGED <<vars, x7, x8, x9, x10>>
       \/ part = "signing" /\ Signing!Next /\ UNCHANGED <<vars, x8, x9, x10>>
       \/ part = "policies" /\ Policies!Next /\ UNCHANGED <<vars, x9, x10>>
       \/ part = "life" /\ Life!Next /\ UNCHANGED vars
       \/ part = "watch" /\ Watch!Next /\ UNCHANGED vars

MCSpec == MCInit /\ [][MCNext]_<<part, vars, others>>

\* The requests that wait for a key set are served, as in its FairSpec, and the
\* tasks and timers of the process run, as in theirs.
MCFairSpec ==
    /\ MCSpec
    /\ \A r \in Request : WF_vars(Work(r)) /\ SF_vars(Refresh(r))
    /\ WF_others(part = "watch" /\ Watch!Take)
    /\ WF_others(part = "watch" /\ Watch!Match)
    /\ WF_others(part = "watch" /\ Watch!Report)
    /\ WF_others(part = "life" /\ Life!MigrateLate)
    /\ WF_others(part = "life" /\ Life!DrainTimesOut)
    /\ WF_others(part = "life" /\ Life!Drain)
    /\ WF_others(part = "life" /\ Life!Recovery)

-----------------------------------------------------------------------------

\* Every model's variables have their types.
TypesOK ==
    /\ TypeOK
    /\ part = "secrets" => Secrets!TypeOK
    /\ part = "signing" => Signing!TypeOK
    /\ part = "policies" => Policies!TypeOK
    /\ part = "routes" => Routes!TypeOK
    /\ part = "life" => Life!TypeOK
    /\ part = "watch" => Watch!TypeOK

\* A key that has ended is accepted only for so long (ApiKeys).
EndedKeysStop == part = "secrets" => Secrets!EndedKeysStop

\* A token can be verified all its life (SigningKeys).
StaysVerifiable == part = "signing" => Signing!StaysVerifiable

\* The policies in service are the valid rows and the overlay (PolicyStore).
PoliciesHold == part = "policies" => Policies!PoliciesHold

\* A request is served by the best route (RouteTable).
ServedByTheBest == part = "routes" => Routes!ServedByTheBest

\* A process serves what it published, migrates and stops (Lifecycle).
LifeIsOrderly ==
    /\ [](part = "life" => Life!ServedIsPublished /\ Life!NotLeftBehind)
    /\ (part = "life" /\ x6) ~> (part = "life" => Life!Migrated)
    /\ (part = "life" /\ Life!Stopping) ~> (part = "life" => Life!Over)

\* A change that is seen is not left behind, and reported in the end (ConfigWatch).
ChangesAreReported ==
    /\ [](part = "watch" => Watch!NothingIsMissed)
    /\ (part = "watch" /\ Watch!Noticeable) ~> (part = "watch" => Watch!Settled)

\* Without its entities a bundle allows nothing more (PolicyStore).
FailsClosed == part = "policies" => Policies!FailsClosed

=============================================================================
