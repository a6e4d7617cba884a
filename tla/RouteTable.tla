------------------------------ MODULE RouteTable ------------------------------
(***************************************************************************)
(* The routes: those of the configuration file and the rows an             *)
(* administrator stores (admin/mod.rs, db/mod.rs), the table that is built *)
(* of both (proxy/router.rs), and the route a request finds in it.         *)
(*                                                                         *)
(* One process.  What is stored is the body of the request, whatever it    *)
(* is: one that is no route is stored too.  A route is of a site, and may  *)
(* ask for a host, a path and a method; its length is that of its pattern, *)
(* and what it accepts are the paths the pattern matches.  In which order  *)
(* publications are applied is ConfigPublication's subject: here the table *)
(* is loaded at any time.                                                  *)
(***************************************************************************)
EXTENDS Integers, FiniteSets, SequencesExt

CONSTANTS
    Id,           \* identifiers of routes
    Route,        \* what may be stored under them, with a priority
    File,         \* the routes of the file: of some identifiers, what they are
    Domains,      \* the configured sites, with the domains of each
    Star,         \* the domain "*"
    NameOf,       \* the host headers, with the name in each, without its port
    Path, Method,
    Override,     \* database.override_yaml
    None          \* no route

VARIABLES
    rows,         \* gate_routes
    table,        \* the router: routes in the order in which they are tried
    loaded        \* the rows it was built of

vars == <<rows, table, loaded>>

Query == [host : DOMAIN NameOf, path : Path, method : Method]

-----------------------------------------------------------------------------

(* The table                                                               *)

\* serde reads a route from the stored body, or not.
Reads(row) == row # None /\ row.readable

\* Variant: a route that is overridden stays.
MergeAll(stored) ==
    {[id |-> id, route |-> File[id]] : id \in DOMAIN File}
        \cup {[id |-> id, route |-> stored[id]] : id \in {i \in Id : Reads(stored[i])}}

\* merge_routes: a row that can be read replaces the route of the file, and is
\* enabled, whatever it says: the column says so, and no request writes it.
Merge(stored) ==
    LET read == {id \in Id : Reads(stored[id])}
    IN {[id |-> id, route |-> File[id]] : id \in DOMAIN File \ read}
        \cup {[id |-> id, route |-> [stored[id] EXCEPT !.enabled = TRUE]] : id \in read}

\* load_routes, where the database may override the file.
Effective(stored) ==
    IF Override THEN Merge(stored)
    ELSE {[id |-> id, route |-> File[id]] : id \in DOMAIN File}

\* Those that are tried: enabled, and of a site that is configured.
Compiled(routes) == {r \in routes : r.route.enabled /\ r.route.site \in DOMAIN Domains}

\* The sort: by priority, then by the length of the pattern.
Before(r, s) ==
    \/ r.route.priority > s.route.priority
    \/ r.route.priority = s.route.priority /\ r.route.length >= s.route.length

\* from_config_with_routes: routes that neither outranks the other are in the
\* order of a hash map, or of the rows, which is any.
Tables(routes) ==
    {t \in SetToSeqs(Compiled(routes)) :
        \A i, j \in DOMAIN t : i < j => Before(t[i], t[j])}

\* host_matches: what a route asks for, a host or those of a suffix, is the set
\* of the names it takes.  The port of the header is ignored.
HostMatches(hosts, header) == NameOf[header] \in hosts

\* The checks of match_route.  The domains of a site are compared with the
\* header as it is.
Matches(route, q) ==
    /\ Domains[route.site] = {} \/ Domains[route.site] \cap {Star, q.host} # {}
    /\ HostMatches(route.hosts, q.host)
    /\ q.path \in route.accepts
    /\ route.methods = {} \/ q.method \in route.methods

\* match_route: the first that matches.
MatchRoute(q) ==
    LET at == {i \in DOMAIN table : Matches(table[i].route, q)}
    IN IF at = {} THEN None ELSE table[CHOOSE i \in at : \A j \in at : i <= j]

-----------------------------------------------------------------------------

TypeOK ==
    /\ rows \in [Id -> Route \cup {None}]
    /\ loaded \in [Id -> Route \cup {None}]
    /\ \A i \in DOMAIN table : table[i].id \in Id

Init ==
    /\ rows = [id \in Id |-> None]
    /\ loaded = rows
    /\ table \in Tables(Effective(rows))

\* POST and PUT: the body is stored as it is, with its priority in a column.
Upsert(id, route) ==
    /\ rows' = [rows EXCEPT ![id] = route]
    /\ UNCHANGED <<table, loaded>>

Delete(id) ==
    /\ rows[id] # None
    /\ rows' = [rows EXCEPT ![id] = None]
    /\ UNCHANGED <<table, loaded>>

\* A publication, or a start: the table is built anew.
Load ==
    /\ table' \in Tables(Effective(rows))
    /\ loaded' = rows
    /\ UNCHANGED rows

Next ==
    \/ \E id \in Id : Delete(id) \/ \E route \in Route : Upsert(id, route)
    \/ Load

Spec == Init /\ [][Next]_vars

-----------------------------------------------------------------------------

\* The route an identifier stands for, by the documentation: that of its row,
\* and else that of the file.
Stands(id) ==
    IF Override /\ Reads(loaded[id]) THEN loaded[id]
    ELSE IF id \in DOMAIN File THEN File[id] ELSE None

\* Those that may serve a request: none that is disabled
\* (docs/configuration.md: "Whether the route is active").
Candidates(q) ==
    {id \in Id :
        LET route == Stands(id)
        IN  /\ route # None
            /\ route.enabled
            /\ route.site \in DOMAIN Domains
            /\ Matches(route, q)}

\* Rows that say they are disabled, and are served all the same.
Revived == {id \in Id : Override /\ Reads(loaded[id]) /\ ~ loaded[id].enabled}

Outranks(a, b) ==
    \/ a.priority > b.priority
    \/ a.priority = b.priority /\ a.length > b.length

(* A request is served by an enabled route that stands and matches it, and *)
(* by none that another such route outranks, whatever was stored,          *)
(* replaced, broken or deleted before; and by one if there is any.  So two *)
(* processes that loaded the same rows differ only where routes tie        *)
(* (router.rs:111-112, 188-195).  The exception are rows that say they are *)
(* disabled: they are served beside the others (DisabledIsNotServed).      *)
ServedByTheBest ==
    \A q \in Query :
        LET r == MatchRoute(q)
        IN  IF r = None THEN Candidates(q) = {}
            ELSE /\ r.id \in Candidates(q) \cup Revived
                 /\ \A id \in Candidates(q) : ~ Outranks(Stands(id), Stands(r.id))

(* "A disabled DB row removes the same-id YAML route" (router.rs:192, and  *)
(* the test db_route_disabled_removes_yaml_route): a route that is stored  *)
(* with enabled: false is not served.  But what merge_routes looks at is   *)
(* the column, which no request writes: what the body says is overwritten  *)
(* with it.                                                                *)
DisabledIsNotServed ==
    \A q \in Query : MatchRoute(q) # None => MatchRoute(q).id \notin Revived

-----------------------------------------------------------------------------
(* The inductive invariant behind it.                                      *)

\* The table is one of those that are built of the rows it was built of.
TableIsBuilt == loaded \in [Id -> Route \cup {None}] /\ table \in Tables(Effective(loaded))

RoutesInv == rows \in [Id -> Route \cup {None}] /\ TableIsBuilt

=============================================================================
