----------------------------- MODULE PolicyStore -----------------------------
(***************************************************************************)
(* The authorization policies: the table, its version history and the      *)
(* admin handlers that write them (admin/mod.rs, db/mod.rs), the bundle    *)
(* that is built of them (authz/bundle.rs), the overlay of the             *)
(* configuration's agent_tool_policies (authz/sugar.rs), and what the      *)
(* engine decides by the bundle (authz/engine.rs).                         *)
(*                                                                         *)
(* One process, one agent and one tool: what is decided is whether that    *)
(* agent may call that tool.  A policy is one statement that is about the  *)
(* call: a permit, a permit that asks for approval, a forbid, or a forbid  *)
(* for a group (ban) of which the entities say that the agent is a member. *)
(* A schema is a name, and entities are named for the schema they conform  *)
(* to.  A release of the gateway parses all texts and schemas but one, so  *)
(* that a row that was valid when it was written may be broken later.      *)
(* That publications are applied in the order of their revisions is        *)
(* ConfigPublication's.                                                    *)
(***************************************************************************)
EXTENDS Integers, FiniteSetsExt, SequencesExt

CONSTANTS
    Id,           \* identifiers of rows
    Reserved,     \* those of them with the prefix of the overlay
    Sugar,        \* the records of the overlay: a sequence of [id, content]
    Content,      \* contents of a row: records of a text, a schema and entities
    Effect,       \* what a text does: "permit", "approve", "forbid", or "ban"
    Schema,       \* schemas a row may bring
    Gateway,      \* the gateway's own schema, taken when a row brings none
    None,         \* no schema, no entities, no row
    Job,          \* admin requests under way
    MaxVersions,  \* bound: versions of the policies
    MaxFaults     \* bound: failed publications

VARIABLES
    row,          \* authz_policies
    age,          \* its rows by created_at
    versions,     \* cedar_policy_versions: the history of each policy
    broken,       \* texts and schemas this release of the gateway does not parse
    served,       \* the engine's bundle
    job,          \* the admin requests
    stored,       \* what the last write stored was valid then
    faults

vars == <<row, age, versions, broken, served, job, stored, faults>>

Text == {c.text : c \in Content \cup {Sugar[i].content : i \in DOMAIN Sugar}}

NoContent == [text |-> None, schema |-> None, entities |-> None]

NoRow == [content |-> NoContent, enabled |-> FALSE]

Idle == [pc |-> "idle", id |-> None, content |-> NoContent, enabled |-> TRUE]

Record == [id : Id, content : Content \cup {Sugar[i].content : i \in DOMAIN Sugar}]

Bundle == [records : Seq(Record),
           schema : Schema \cup {None}, entities : Schema \cup {Gateway, None}]

EmptyBundle == [records |-> << >>, schema |-> None, entities |-> None]

-----------------------------------------------------------------------------

(* The bundle                                                              *)

Or(x, y) == IF x = None THEN y ELSE x

\* Entities are read against a schema; without one, any will do.
Conforms(entities, schema) == None \in {entities, schema} \/ entities = schema

\* A row that brings no schema is held against the gateway's when it is written.
GatewaySchema(c) == Or(c.schema, Gateway)

\* None is no schema, and nothing to parse.
SchemaParses(bad, schema) == schema = None \/ schema \notin bad

\* validate_policy, as validate_policy_for_gateway calls it.
Valid(c) ==
    /\ c.text \notin broken
    /\ SchemaParses(broken, c.schema)
    /\ Conforms(c.entities, GatewaySchema(c))

\* A row merges if its text is none of those that do not parse (bad), nor its
\* schema, which is read only when none was met before it, if its entities
\* conform to the schema in effect, and if its identifier is new.
Mergeable(bad, b, r) ==
    /\ r.content.text \notin bad
    /\ b.schema = None => SchemaParses(bad, r.content.schema)
    /\ Conforms(r.content.entities, Or(b.schema, r.content.schema))
    /\ \A i \in DOMAIN b.records : b.records[i].id # r.id

Merged(b, r) ==
    [records  |-> Append(b.records, r),
     schema   |-> Or(b.schema, r.content.schema),
     entities |-> Or(b.entities, r.content.entities)]

\* Variant: the schema of a row is captured before its text is parsed.
MergeLenientEager(bad, b, r) ==
    IF Mergeable(bad, b, r) THEN Merged(b, r)
    ELSE [b EXCEPT !.schema = Or(b.schema, r.content.schema)]

\* merge_record as from_records_lenient uses it: a row that fails leaves nothing.
MergeLenient(bad, b, r) == IF Mergeable(bad, b, r) THEN Merged(b, r) ELSE b

\* The entities were read row by row and may not conform to a schema a later
\* row brought: then there are none.
WithEntities(b) ==
    IF Conforms(b.entities, b.schema) THEN b ELSE [b EXCEPT !.entities = None]

Built(bad, records) ==
    LET upTo[i \in 0 .. Len(records)] ==
            IF i = 0 THEN EmptyBundle ELSE MergeLenient(bad, upTo[i - 1], records[i])
    IN WithEntities(upTo[Len(records)])

\* The enabled rows, oldest first.
Enabled ==
    LET upTo[i \in 0 .. Len(age)] ==
            IF i = 0 THEN << >>
            ELSE IF row[age[i]].enabled
            THEN Append(upTo[i - 1], [id |-> age[i], content |-> row[age[i]].content])
            ELSE upTo[i - 1]
    IN upTo[Len(age)]

\* The statements that match: the members of a group are in the entities.
Effects(b) ==
    LET all == {Effect[b.records[i].content.text] : i \in DOMAIN b.records}
        forbids == IF b.entities = None THEN {"forbid"} ELSE {"forbid", "ban"}
    IN (all \cap {"permit", "approve"})
        \cup (IF all \cap forbids = {} THEN {} ELSE {"forbid"})

\* One permit that asks for approval makes the others ask for it too.
Asks(b) == "approve" \in Effects(b)

\* A forbid overrides every permit, and no permit is a denial.
Decision(b) ==
    IF "forbid" \in Effects(b) \/ Effects(b) = {} THEN "deny"
    ELSE IF Asks(b) THEN "approve" ELSE "allow"

\* What the structured tool scopes compile to: a text that is validated, and
\* neither schema nor entities.
Compiled(text) == [NoContent EXCEPT !.text = text]

-----------------------------------------------------------------------------

TypeOK ==
    /\ row \in [Id -> [content : Content \cup {NoContent}, enabled : BOOLEAN]]
    /\ age \in Seq(Id)
    /\ DOMAIN versions = Id /\ \A id \in Id : versions[id] \in Seq(Content)
    /\ broken \subseteq Text \cup Schema
    /\ served \in Bundle
    /\ job \in [Job -> [pc : {"idle", "valid", "stored"}, id : Id \cup {None},
                        content : Content \cup {NoContent}, enabled : BOOLEAN]]
    /\ stored \in BOOLEAN
    /\ faults \in 0 .. MaxFaults

Init ==
    /\ row = [id \in Id |-> NoRow]
    /\ age = << >>
    /\ versions = [id \in Id |-> << >>]
    /\ broken = {}
    /\ served = Built({}, Sugar)
    /\ job = [j \in Job |-> Idle]
    /\ stored = TRUE
    /\ faults = 0

Validated(id, c, enabled) ==
    IF Valid(c) THEN [pc |-> "valid", id |-> id, content |-> c, enabled |-> enabled] ELSE Idle

\* upsert_policy_inner up to the write.
Upsert(j, id, c, enabled) ==
    /\ job[j] = Idle
    /\ id \notin Reserved
    /\ job' = [job EXCEPT ![j] = Validated(id, c, enabled)]
    /\ UNCHANGED <<row, age, versions, broken, served, stored, faults>>

\* upsert_tool_scope_handler up to the write: a policy of an identifier of its
\* own, enabled.
ToolScope(j, id, text) ==
    /\ job[j] = Idle
    /\ id \notin Reserved
    /\ Compiled(text) \in Content
    /\ job' = [job EXCEPT ![j] = Validated(id, Compiled(text), TRUE)]
    /\ UNCHANGED <<row, age, versions, broken, served, stored, faults>>

\* rollback_policy_handler up to the write: the target is read and validated,
\* and will be enabled whatever the row is.
Rollback(j, id, v) ==
    /\ job[j] = Idle
    /\ v \in DOMAIN versions[id]
    /\ job' = [job EXCEPT ![j] = Validated(id, versions[id][v], TRUE)]
    /\ UNCHANGED <<row, age, versions, broken, served, stored, faults>>

\* The transaction: the row, under its lock, and the next version of it.  A row
\* that is updated keeps its age.
Write(j) ==
    LET id == job[j].id
        c == job[j].content
    IN  /\ job[j].pc = "valid"
        /\ MapThenSumSet(LAMBDA x : Len(versions[x]), Id) < MaxVersions
        /\ row' = [row EXCEPT ![id] = [content |-> c, enabled |-> job[j].enabled]]
        /\ age' = IF row[id] = NoRow THEN Append(age, id) ELSE age
        /\ versions' = [versions EXCEPT ![id] = Append(@, c)]
        /\ stored' = Valid(c)
        /\ job' = [job EXCEPT ![j].pc = "stored"]
        /\ UNCHANGED <<broken, served, faults>>

\* The history goes with the row.
Delete(j, id) ==
    /\ job[j] = Idle
    /\ row[id] # NoRow
    /\ row' = [row EXCEPT ![id] = NoRow]
    /\ \E i \in DOMAIN age : age[i] = id /\ age' = RemoveAt(age, i)
    /\ versions' = [versions EXCEPT ![id] = << >>]
    /\ job' = [job EXCEPT ![j] = [Idle EXCEPT !.pc = "stored"]]
    /\ UNCHANGED <<broken, served, stored, faults>>

\* The publication loads the rows again, whoever wrote them, and installs what
\* is built of them and of the overlay, or fails and leaves what is served.
Publish(j) ==
    /\ job[j].pc = "stored"
    /\ job' = [job EXCEPT ![j] = Idle]
    /\ \/ served' = Built(broken, Enabled \o Sugar) /\ UNCHANGED faults
       \/ faults < MaxFaults /\ faults' = faults + 1 /\ UNCHANGED served
    /\ UNCHANGED <<row, age, versions, broken, stored>>

\* The process is started again, of another release perhaps, with the overlay
\* of its configuration, which it validates or does not start.  It does not
\* serve either before the rows have been loaded and published.
Restart ==
    \E bad \in {{}} \cup {{unread} : unread \in Text \cup Schema} :
        /\ \A i \in DOMAIN Sugar : Sugar[i].content.text \notin bad
        /\ broken' = bad
        /\ served' = Built(bad, Enabled \o Sugar)
        /\ job' = [j \in Job |-> Idle]
        /\ UNCHANGED <<row, age, versions, stored, faults>>

Next ==
    \/ \E j \in Job :
        \/ Write(j) \/ Publish(j)
        \/ \E id \in Id :
            \/ \E c \in Content, enabled \in BOOLEAN : Upsert(j, id, c, enabled)
            \/ \E text \in Text : ToolScope(j, id, text)
            \/ \E v \in 1 .. MaxVersions : Rollback(j, id, v)
            \/ Delete(j, id)
    \/ Restart

Spec == Init /\ [][Next]_vars

-----------------------------------------------------------------------------

(* A tool the configuration denies to an agent stays denied to it,         *)
(* whatever policies are stored, broken, rolled back or not published      *)
(* (admin/mod.rs:1274-1287, engine.rs:336-380).                            *)
SugarDenies ==
    (\E i \in DOMAIN Sugar : Effect[Sugar[i].content.text] = "forbid")
        => Decision(served) = "deny"

\* from_records, all or nothing, on rows that all merge.
Strictly(records) ==
    LET upTo[i \in 0 .. Len(records)] ==
            IF i = 0 THEN EmptyBundle ELSE Merged(upTo[i - 1], records[i])
    IN IF \A i \in DOMAIN records : Mergeable(broken, upTo[i - 1], records[i])
       THEN {WithEntities(upTo[Len(records)])}
       ELSE {}

(* A row that is skipped leaves no trace: what is served is what the       *)
(* strict build, which skips nothing, makes of the rows that are served    *)
(* (bundle.rs:116-165, 168-172).                                           *)
SkippedLeaveNoTrace == served \in Strictly(served.records)

(* Nothing is stored that is not valid when it is written, neither an old  *)
(* version a newer release cannot read nor a policy whose validation was   *)
(* done before another request's write (admin/mod.rs:846-850, 1230-1236).  *)
OnlyValidIsStored == stored

\* The entities of the first row that is served and brings any.
FirstEntities ==
    LET brings(r) == r.content.entities # None
        with == SelectSeq(served.records, brings)
    IN IF with = << >> THEN None ELSE with[1].content.entities

(* "Fall back to empty entities (fail-closed, never fail-open)"            *)
(* (bundle.rs:149-151): without its entities the bundle allows nothing     *)
(* that it would deny with them.                                           *)
FailsClosed ==
    Decision([served EXCEPT !.entities = FirstEntities]) = "deny" => Decision(served) = "deny"

(* Whatever is stored, rolled back, broken by a release or not published,  *)
(* the policies in service are the valid rows and the overlay, whole.      *)
PoliciesHold == SugarDenies /\ SkippedLeaveNoTrace /\ OnlyValidIsStored

-----------------------------------------------------------------------------
(* The inductive invariant behind it.                                      *)

\* What is enabled has a content, and the overlay's identifiers have no rows.
RowsAreWhole ==
    /\ row \in [Id -> [content : Content \cup {NoContent}, enabled : BOOLEAN]]
    /\ \A id \in Id : row[id].enabled => row[id].content \in Content
    /\ age \in Seq(Id \ Reserved)
    /\ DOMAIN versions = Id
    /\ \A id \in Id : versions[id] \in Seq(Content)
    /\ \A id \in Reserved : versions[id] = << >>

\* What is about to be written is valid: no release changes under a request.
JobsAreValid ==
    /\ DOMAIN job = Job
    /\ \A j \in Job : job[j].pc = "valid" =>
            /\ job[j].id \in Id \ Reserved
            /\ job[j].content \in Content
            /\ job[j].enabled \in BOOLEAN
            /\ Valid(job[j].content)

\* The records of the overlay parse, and are in the bundle that is served.
OverlayIsServed ==
    /\ \A i \in DOMAIN Sugar : Sugar[i].content.text \notin broken
    /\ \A i \in DOMAIN Sugar : \E k \in DOMAIN served.records : served.records[k] = Sugar[i]

PoliciesInv ==
    /\ RowsAreWhole /\ JobsAreValid /\ OverlayIsServed
    /\ SkippedLeaveNoTrace /\ OnlyValidIsStored

=============================================================================
