------------------------------ MODULE Lifecycle ------------------------------
(***************************************************************************)
(* One life of the gateway (flint-gate/src/main.rs): it is started, checks *)
(* its configuration step by step and refuses to go on where a step fails, *)
(* publishes its first routes and policies, opens the proxy and then the   *)
(* admin server, serves, and drains when it is asked to stop or when one   *)
(* of its tasks ends.  Postgres may be down at any step.                   *)
(*                                                                         *)
(* What the steps look at in the configuration is options: what is         *)
(* configured, and the flaw it has, which one step refuses.  What the      *)
(* tasks do that are started on the way is the subject of other modules.   *)
(***************************************************************************)
EXTENDS Naturals

CONSTANTS
    Flaw,          \* flaws a configuration may have: "sugar", "lint", "backend",
                   \* "oauth", "tls", "admin"
    None,          \* it has none
    MaxOutages,    \* bound: outages of Postgres
    MaxOpen        \* bound: requests a server has in flight

VARIABLES
    options,
    pc,            \* the step main is at
    postgres,      \* Postgres answers
    outages,
    schema,        \* "old" or "current"
    migrating,     \* the background task is trying
    fenced,        \* the shared fence was bootstrapped, or is not used
    served,        \* routes and policies: of the "file", or of the "rows"
    policies,      \* there are policies: in the rows, and in what is served
    open           \* requests in flight: of each server that runs

vars == <<options, pc, postgres, outages, schema, migrating, fenced, served, policies, open>>

world == <<postgres, outages>>

Server == {"proxy", "admin"}

\* What apply_overrides leaves of the file, the environment and the command line.
Options ==
    [database : BOOLEAN,   \* database.url
     needed : BOOLEAN,     \* --require-database
     initOnly : BOOLEAN,   \* --database-init-only
     authority : BOOLEAN,  \* authority.enabled
     redis : BOOLEAN,      \* cache.l2
     policies : BOOLEAN,   \* server.require_policies_at_startup
     flaw : Flaw \cup {None}]

Steps == <<"compile", "connect", "migrate", "seed", "authority", "lint", "fence",
           "publish", "backend", "oauth", "proxy", "admin", "serve", "drain">>

Ended == {"refused", "done", "killed", "drained", "cut", "panicked"}

TypeOK ==
    /\ options \in Options
    /\ pc \in {Steps[i] : i \in DOMAIN Steps} \cup {"asked"} \cup Ended
    /\ {postgres, migrating, fenced} \subseteq BOOLEAN
    /\ outages \in 0 .. MaxOutages
    /\ schema \in {"old", "current"}
    /\ served \in {"nothing", "file", "rows"}
    /\ policies \in [stored : BOOLEAN, served : BOOLEAN]
    /\ DOMAIN open \subseteq Server /\ \A s \in DOMAIN open : open[s] \in 0 .. MaxOpen

Init ==
    /\ options \in Options
    /\ pc = "compile"
    /\ postgres \in BOOLEAN
    /\ outages = 0
    /\ schema \in {"old", "current"}
    /\ migrating = FALSE
    /\ fenced = FALSE
    /\ served = "nothing"
    /\ \E some \in BOOLEAN : policies = [stored |-> some, served |-> FALSE]
    /\ open = << >>

-----------------------------------------------------------------------------

(* The start                                                               *)

\* The step at goes on to next if what it asks for holds, or refuses: main
\* returns an error, and the process ends with all its tasks.
Step(at, holds, next) ==
    /\ pc = at
    /\ pc' = IF holds THEN next ELSE "refused"

Sound(flaw) == options.flaw # flaw

Compile ==
    /\ Step("compile", Sound("sugar"), "connect")
    /\ UNCHANGED <<options, world, schema, migrating, fenced, served, policies, open>>

\* A database that has to be there refuses; one that is down is taken up
\* lazily, and the migrations are left to a task of their own.
Connect ==
    LET must == options.needed \/ options.initOnly
    IN  /\ \/ ~ options.database /\ Step("connect", ~ must, "authority") /\ UNCHANGED migrating
           \/ options.database /\ postgres /\ Step("connect", TRUE, "migrate")
              /\ UNCHANGED migrating
           \/ /\ options.database /\ ~ postgres
              /\ Step("connect", ~ must, "authority")
              /\ migrating' = ~ must
        /\ UNCHANGED <<options, world, schema, fenced, served, policies, open>>

\* After a connection the migrations have to succeed.
Migrate ==
    /\ Step("migrate", postgres, IF options.initOnly THEN "seed" ELSE "authority")
    /\ schema' = IF postgres THEN "current" ELSE schema
    /\ UNCHANGED <<options, world, migrating, fenced, served, policies, open>>

\* --database-init-only stores the signing key, if it can be read, and ends.
Seed ==
    /\ \E readable \in BOOLEAN : Step("seed", readable /\ postgres, "done")
    /\ UNCHANGED <<options, world, schema, migrating, fenced, served, policies, open>>

\* The authority needs the database for its cursor and the database it reads.
Authority ==
    /\ \E reads \in BOOLEAN :
        Step("authority", options.authority => options.database /\ reads, "lint")
    /\ UNCHANGED <<options, world, schema, migrating, fenced, served, policies, open>>

\* The strict lint of the routes of the file, which the first router is of.
Lint ==
    /\ Step("lint", Sound("lint"), "fence")
    /\ served' = "file"
    /\ UNCHANGED <<options, world, schema, migrating, fenced, policies, open>>

\* A Redis that is not there is done without; with it the authority's fence is
\* bootstrapped, which takes Postgres, or the process refuses.
Fence ==
    /\ \E connected \in {options.redis, FALSE}, succeeds \in BOOLEAN :
        LET shared == options.authority /\ connected
        IN  /\ Step("fence", shared => succeeds /\ postgres, "publish")
            /\ fenced' = (shared => succeeds /\ postgres)
    /\ UNCHANGED <<options, world, schema, migrating, served, policies, open>>

\* Variant: a configuration that cannot be published is left for later.
PublishOrNot ==
    /\ Step("publish", TRUE, "backend")
    /\ served' = IF options.database /\ postgres THEN "rows" ELSE served
    /\ policies' = [policies EXCEPT !.served = policies.stored]
    /\ UNCHANGED <<options, world, schema, migrating, fenced, open>>

\* initialize_configuration: routes and policies of the rows, which may fail
\* for any reason, and does while Postgres is down; an old schema may do.
Publish ==
    /\ \E published \in BOOLEAN :
        LET some == published /\ policies.stored
        IN  /\ published => options.database /\ postgres
            /\ served' = IF published THEN "rows" ELSE served
            /\ policies' = [policies EXCEPT !.served = some]
            /\ Step("publish",
                    options.database => published /\ (options.policies => some), "backend")
    /\ UNCHANGED <<options, world, schema, migrating, fenced, open>>

\* The store of the challenges: Postgres only with a database.
Backend ==
    /\ Step("backend", Sound("backend"), "oauth")
    /\ UNCHANGED <<options, world, schema, migrating, fenced, served, policies, open>>

\* The exposure of the OAuth endpoints, their providers and their clients.
OAuth ==
    /\ Step("oauth", Sound("oauth"), "proxy")
    /\ UNCHANGED <<options, world, schema, migrating, fenced, served, policies, open>>

\* A server that is opened takes requests at once.
Opens(s, holds) == open' = IF holds THEN [t \in (DOMAIN open) \cup {s} |-> 0] ELSE open

\* The certificate is loaded, or plain TCP is allowed instead, and the address
\* is bound.  With TLS it is bound by the task that serves: that it cannot be is
\* then the end of a server (ServerEnds).
Proxy ==
    /\ \E bound \in BOOLEAN :
        LET holds == Sound("tls") /\ bound
        IN Step("proxy", holds, "admin") /\ Opens("proxy", holds)
    /\ UNCHANGED <<options, world, schema, migrating, fenced, served, policies>>

\* The posture of the admin API is looked at when the proxy serves already.
OpenAdmin ==
    /\ pc = "admin"
    /\ \E bound \in BOOLEAN :
        LET holds == Sound("admin") /\ bound
        IN  /\ pc' = IF holds THEN "serve" ELSE "refused"
            /\ open' = IF holds THEN [t \in Server |-> IF t = "proxy" THEN open[t] ELSE 0] ELSE open
    /\ UNCHANGED <<options, world, schema, migrating, fenced, served, policies>>

-----------------------------------------------------------------------------

(* The service and its end                                                 *)

\* A request comes in, unless the servers are being closed.
Accept(s) ==
    /\ pc \in {"admin", "serve"}
    /\ s \in DOMAIN open
    /\ open[s] < MaxOpen
    /\ open' = [open EXCEPT ![s] = @ + 1]
    /\ UNCHANGED <<options, pc, world, schema, migrating, fenced, served, policies>>

Finish(s) ==
    /\ pc \notin Ended
    /\ s \in DOMAIN open
    /\ open[s] > 0
    /\ open' = [open EXCEPT ![s] = @ - 1]
    /\ UNCHANGED <<options, pc, world, schema, migrating, fenced, served, policies>>

\* The signal is handled only once main has come to wait for it.
Terminate ==
    /\ pc \notin Ended \cup {"drain", "asked"}
    /\ pc' = IF pc = "serve" THEN "asked" ELSE "killed"
    /\ UNCHANGED <<options, world, schema, migrating, fenced, served, policies, open>>

\* The watch over the configuration file has ended, which stops the gateway.
WatchEnds ==
    /\ pc = "serve"
    /\ pc' = "asked"
    /\ UNCHANGED <<options, world, schema, migrating, fenced, served, policies, open>>

\* A server has ended: its requests end with it.
ServerEnds(s) ==
    /\ pc = "serve"
    /\ pc' = "drain"
    /\ open' = [t \in DOMAIN open \ {s} |-> open[t]]
    /\ UNCHANGED <<options, world, schema, migrating, fenced, served, policies>>

\* Both servers have ended.  If main has seen one of them end before, it asks
\* for its result a second time, and panics.
Drain ==
    /\ \/ pc = "asked" /\ (\A s \in Server : open[s] = 0) /\ pc' = "drained"
       \/ pc = "drain" /\ pc' = "panicked"
    /\ UNCHANGED <<options, world, schema, migrating, fenced, served, policies, open>>

\* shutdown_timeout_secs have passed.
DrainTimesOut ==
    /\ pc = "asked"
    /\ pc' = "cut"
    /\ UNCHANGED <<options, world, schema, migrating, fenced, served, policies, open>>

-----------------------------------------------------------------------------

(* Postgres, and the background task                                       *)

\* The attempts before the one that succeeds change nothing.
MigrateLate ==
    /\ migrating /\ pc \notin Ended
    /\ postgres
    /\ migrating' = FALSE
    /\ schema' = "current"
    /\ UNCHANGED <<options, pc, world, fenced, served, policies, open>>

Outage ==
    /\ postgres
    /\ outages < MaxOutages
    /\ postgres' = FALSE
    /\ outages' = outages + 1
    /\ UNCHANGED <<options, pc, schema, migrating, fenced, served, policies, open>>

Recovery ==
    /\ ~ postgres
    /\ postgres' = TRUE
    /\ UNCHANGED <<options, pc, outages, schema, migrating, fenced, served, policies, open>>

\* Another process stores the first policy, or deletes the last.
Stored ==
    /\ postgres
    /\ pc \notin Ended
    /\ policies' = [policies EXCEPT !.stored = ~ policies.stored]
    /\ UNCHANGED <<options, pc, world, schema, migrating, fenced, served, open>>

Next ==
    \/ Compile \/ Connect \/ Migrate \/ Seed \/ Authority \/ Lint \/ Fence
    \/ Publish \/ Backend \/ OAuth \/ Proxy \/ OpenAdmin
    \/ \E s \in Server : Accept(s) \/ Finish(s) \/ ServerEnds(s)
    \/ Terminate \/ WatchEnds \/ Drain \/ DrainTimesOut
    \/ MigrateLate \/ Outage \/ Recovery \/ Stored

\* The tasks and timers run, and Postgres comes back.
Fairness == WF_vars(MigrateLate) /\ WF_vars(DrainTimesOut) /\ WF_vars(Drain) /\ WF_vars(Recovery)

Spec == Init /\ [][Next]_vars

FairSpec == Spec /\ Fairness

-----------------------------------------------------------------------------

(* Whatever was down while it started, a gateway with a database takes no  *)
(* request before the routes and policies of the rows are in service,      *)
(* there are policies if they are required, and the shared fence stands;   *)
(* one that needs its database serves on the current schema, and one that  *)
(* only initializes it serves nothing (main.rs:264-293, 325-349, 522-529,  *)
(* 562-604).                                                               *)
Published ==
    /\ options.database => served = "rows"
    /\ options.database /\ options.policies => policies.served
    /\ fenced
    /\ options.needed => schema = "current"
    /\ ~ options.initOnly

ServedIsPublished == (\E s \in DOMAIN open : open[s] > 0) => Published

(* Past the connection, a database with an old schema has a task that is   *)
(* going to migrate it (main.rs:288-323).                                  *)
NotLeftBehind ==
    options.database /\ pc \notin {"compile", "connect", "migrate"} \cup Ended =>
        schema = "current" \/ migrating

Over == pc \in Ended

Migrated == schema = "current" \/ Over

Stopping == pc \in {"asked", "drain"}

(* A gateway that started while Postgres was down migrates it when it is   *)
(* back, if it lives that long (main.rs:304-320).                          *)
MigrationsCatchUp == migrating ~> Migrated

(* Once asked to stop, by a signal or because a task of its own has ended, *)
(* the process ends, whatever its requests do (main.rs:1350-1365).         *)
StopsInTime == Stopping ~> Over

(* However long Postgres is away and whatever requests do, the gateway     *)
(* serves what was published, migrates in the end, and stops when asked.   *)
LifeIsOrderly ==
    /\ []ServedIsPublished
    /\ []NotLeftBehind
    /\ MigrationsCatchUp
    /\ StopsInTime

=============================================================================
