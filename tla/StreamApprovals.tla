--------------------------- MODULE StreamApprovals ---------------------------
(***************************************************************************)
(* Tool calls of response streams that wait for a human                    *)
(* (middleware/pipeline.rs, stream/, approval/mod.rs).                     *)
(*                                                                         *)
(* A stream task reads chunks from upstream and hands their events to the  *)
(* AG-UI and A2UI processors.  A tool call is held from its START to its   *)
(* END and then released, replaced by an error, or held on for approval:   *)
(* it is registered in the ApprovalManager all streams share, and the task *)
(* reads no more until the operators, through the admin API, or its        *)
(* deadline decide.                                                        *)
(*                                                                         *)
(* Names and arguments are left out: what the policies say of a call, and  *)
(* whether its arguments are too long or unparseable, is any choice.  So   *)
(* is what goes to the client: only what is held of it is modelled.        *)
(***************************************************************************)
EXTENDS Integers, Sequences, FiniteSets

CONSTANTS
    Stream,
    ToolCall,    \* toolCallId, of a stream
    Approval,    \* approval_id, a UUID; bound: held calls in all
    Caller,      \* admin requests in flight
    Cap,         \* ApprovalManager.cap
    Ttl,         \* ticks from a request to its deadline
    None

ASSUME StreamAssumption ==
    /\ IsFiniteSet(Stream) /\ IsFiniteSet(Approval)
    /\ Cap \in Nat \ {0} /\ Ttl \in Nat \ {0}
    /\ None \notin Stream \cup Approval

VARIABLES
    pc,          \* where each stream task is
    calls,       \* AgUiProcessor.tool_calls, those not blocked
    pending,     \* AgUiProcessor.pending_approvals
    intent,      \* A2UiProcessor.pending_approval
    asking,      \* what a task is registering
    queue,       \* the decision channel of each stream
    over,        \* cancelled by the session watchdog, or closed by the client
    entries,     \* ApprovalManager.inner: the stream each entry sends to
    deciding,    \* calls of decide past their first look: for which approval
    left,        \* ticks to expires_at; -1 once it is over
    fate,        \* history: what became of each held call
    said         \* history: the decisions that were answered Ok

taskVars == <<pc, calls, pending, intent, asking>>
managerVars == <<entries, deciding, queue, said>>
vars == <<taskVars, managerVars, over, left, fate>>

Holding(s) == pending[s] \cup ({intent[s]} \ {None})

Fresh == {a \in Approval : fate[a] = "fresh" /\ \A s \in Stream : asking[s].approval # a}

Registered == {a \in Approval : entries[a] # None}

NotAsking == [approval |-> None, by |-> "ag_ui"]

Message == [approval : Approval, decision : {"approve", "deny"}]

TypeOK ==
    /\ pc \in [Stream -> {"select", "chunk", "register", "done"}]
    /\ calls \in [Stream -> SUBSET ToolCall]
    /\ pending \in [Stream -> SUBSET Approval]
    /\ intent \in [Stream -> Approval \cup {None}]
    /\ asking \in [Stream -> [approval : Approval \cup {None}, by : {"ag_ui", "a2ui"}]]
    /\ queue \in [Stream -> Seq(Message)]
    /\ over \in [Stream -> BOOLEAN]
    /\ entries \in [Approval -> Stream \cup {None}]
    /\ deciding \in [Caller -> Approval \cup {None}]
    /\ left \in [Approval -> -1 .. Ttl]
    /\ fate \in [Approval -> {"fresh", "held", "released", "denied", "dropped"}]
    /\ said \in [Approval -> {"nothing", "approve", "deny", "late approve"}]

Init ==
    /\ pc = [s \in Stream |-> "select"]
    /\ calls = [s \in Stream |-> {}]
    /\ pending = [s \in Stream |-> {}]
    /\ intent = [s \in Stream |-> None]
    /\ asking = [s \in Stream |-> NotAsking]
    /\ queue = [s \in Stream |-> <<>>]
    /\ over = [s \in Stream |-> FALSE]
    /\ entries = [a \in Approval |-> None]
    /\ deciding = [k \in Caller |-> None]
    /\ left = [a \in Approval |-> Ttl]
    /\ fate = [a \in Approval |-> "fresh"]
    /\ said = [a \in Approval |-> "nothing"]

-----------------------------------------------------------------------------
(* The processors, event by event.                                         *)

Unheld(s) == UNCHANGED <<managerVars, over, left, fate>>

InChunk(s) == pc[s] = "chunk"

\* TOOL_CALL_START: held.  When it is answered by an error it is marked as
\* blocked, or taken away if it was held, and nothing more comes of it.
StartCall(s, c) ==
    /\ InChunk(s)
    /\ \E new \in {{}, {c}} : calls' = [calls EXCEPT ![s] = (@ \ {c}) \cup new]
    /\ UNCHANGED <<pc, pending, intent, asking>> /\ Unheld(s)

\* Variant: an off-by-one test of the cap.
AskForOneMore(s, by) ==
    IF Cardinality(Registered) > Cap THEN UNCHANGED <<pc, asking>>
    ELSE /\ Fresh # {}
         /\ LET a == CHOOSE a \in Fresh : TRUE IN
               asking' = [asking EXCEPT ![s] = [approval |-> a, by |-> by]]
         /\ pc' = [pc EXCEPT ![s] = "register"]

\* request, up to the insert.  At capacity an AG-UI call is answered by an
\* error, an intent with nothing.
AskFor(s, by) ==
    IF Cardinality(Registered) >= Cap THEN UNCHANGED <<pc, asking>>
    ELSE /\ Fresh # {}
         /\ LET a == CHOOSE a \in Fresh : TRUE IN
               asking' = [asking EXCEPT ![s] = [approval |-> a, by |-> by]]
         /\ pc' = [pc EXCEPT ![s] = "register"]

\* TOOL_CALL_ARGS that exceed the cap, or TOOL_CALL_END: the call is released
\* or refused, or a human asked.
EndCall(s, c) ==
    /\ InChunk(s) /\ c \in calls[s]
    /\ calls' = [calls EXCEPT ![s] = @ \ {c}]
    /\ UNCHANGED <<pc, asking>> \/ AskFor(s, "ag_ui")
    /\ UNCHANGED <<pending, intent>> /\ Unheld(s)

\* An intent with a tool call that needs approval.  It is dropped while another
\* one is held.
AskIntent(s) ==
    /\ InChunk(s) /\ intent[s] = None
    /\ AskFor(s, "a2ui")
    /\ UNCHANGED <<calls, pending, intent>> /\ Unheld(s)

\* The rest of register, and the event that asks.
Register(s) ==
    LET a == asking[s].approval IN
    /\ pc[s] = "register"
    /\ entries' = [entries EXCEPT ![a] = s]
    /\ IF asking[s].by = "ag_ui"
          THEN pending' = [pending EXCEPT ![s] = @ \cup {a}] /\ UNCHANGED intent
          ELSE intent' = [intent EXCEPT ![s] = a] /\ UNCHANGED pending
    /\ fate' = [fate EXCEPT ![a] = "held"]
    /\ asking' = [asking EXCEPT ![s] = NotAsking]
    /\ pc' = [pc EXCEPT ![s] = "chunk"]
    /\ UNCHANGED <<calls, deciding, queue, said, over, left>>

-----------------------------------------------------------------------------
(* forward_streaming_response.                                             *)

\* The task ends; what it holds is dropped with the processors, and the
\* receiver, the token and the sender with it.
Finish(s) ==
    /\ pc' = [pc EXCEPT ![s] = "done"]
    /\ calls' = [calls EXCEPT ![s] = {}]
    /\ fate' = [a \in Approval |-> IF a \in Holding(s) THEN "dropped" ELSE fate[a]]
    /\ pending' = [pending EXCEPT ![s] = {}]
    /\ intent' = [intent EXCEPT ![s] = None]
    /\ queue' = [queue EXCEPT ![s] = <<>>]
    /\ over' = [over EXCEPT ![s] = FALSE]
    /\ UNCHANGED <<asking, entries, deciding, said, left>>

Waits(s) == pc[s] = "select" /\ ~over[s]

\* A chunk comes from upstream; the limits are not reached.
Read(s) ==
    /\ Waits(s) /\ Holding(s) = {}
    /\ pc' = [pc EXCEPT ![s] = "chunk"]
    /\ UNCHANGED <<calls, pending, intent, asking>> /\ Unheld(s)

\* process_chunk has returned, and its output was sent.
EndChunk(s) ==
    /\ InChunk(s)
    /\ pc' = [pc EXCEPT ![s] = "select"]
    /\ UNCHANGED <<calls, pending, intent, asking>> /\ Unheld(s)

\* A limit is exceeded, and the chunk lost; or upstream fails or ends.
EndStream(s) ==
    /\ InChunk(s) \/ (Waits(s) /\ Holding(s) = {})
    /\ Finish(s)

\* The session is over, or the client gone; or sending to it has failed.
Stop(s) == pc[s] \in {"select", "chunk"} /\ over[s] /\ Finish(s)

\* resolve_approval of those in A.
Resolve(s, A, decision) ==
    /\ fate' = [a \in Approval |->
          IF a \notin A THEN fate[a]
          ELSE IF decision = "approve" THEN "released" ELSE "denied"]
    /\ pending' = [pending EXCEPT ![s] = @ \ A]
    /\ intent' = [intent EXCEPT ![s] = IF @ \in A THEN None ELSE @]

\* Variant: the deadline is looked at first.
HeardAnything(s) == TRUE

\* The select is biased.
HeardAll(s) == queue[s] = <<>>

\* approval_rx.recv(), while something is held.  What is not held any more is
\* ignored.
TakeDecision(s) ==
    /\ Waits(s) /\ Holding(s) # {} /\ queue[s] # <<>>
    /\ LET m == Head(queue[s]) IN Resolve(s, Holding(s) \cap {m.approval}, m.decision)
    /\ queue' = [queue EXCEPT ![s] = Tail(@)]
    /\ UNCHANGED <<pc, calls, asking, entries, deciding, said, over, left>>

\* Variant: the deadline is taken from the manager's entries, as it once was.
DenyAllByEntries(s) ==
    /\ Waits(s) /\ HeardAll(s) /\ \E a \in Holding(s) : entries[a] = s /\ left[a] <= 0
    /\ Resolve(s, Holding(s), "deny")
    /\ UNCHANGED <<pc, calls, asking, managerVars, over, left>>

\* The nearest deadline: all that is held is denied.
DenyAll(s) ==
    /\ Waits(s) /\ HeardAll(s) /\ \E a \in Holding(s) : left[a] <= 0
    /\ Resolve(s, Holding(s), "deny")
    /\ UNCHANGED <<pc, calls, asking, managerVars, over, left>>

-----------------------------------------------------------------------------
(* ApprovalManager.                                                        *)

\* decide finds the entry, and it is not over.
Peek(k) ==
    /\ deciding[k] = None
    /\ \E a \in Registered :
           left[a] >= 0 /\ deciding' = [deciding EXCEPT ![k] = a]
    /\ UNCHANGED <<taskVars, entries, queue, said, over, left, fate>>

Late(s, a) == left[a] <= 0 \/ pc[s] = "done" \/ over[s]

\* What a caller is told Ok for.
Told(s, m) ==
    IF m.decision = "approve" /\ Late(s, m.approval) THEN "late approve" ELSE m.decision

\* It removes the entry and sends, if nobody else has.
Decide(k) ==
    LET a == deciding[k]
        s == entries[a]
    IN
    /\ deciding[k] # None
    /\ deciding' = [deciding EXCEPT ![k] = None]
    /\ IF s = None THEN UNCHANGED <<entries, queue, said>>
       ELSE \E m \in Message :
           /\ m.approval = a
           /\ entries' = [entries EXCEPT ![a] = None]
           /\ queue' = IF pc[s] = "done" THEN queue
                       ELSE [queue EXCEPT ![s] = Append(@, m)]
           /\ said' = [said EXCEPT ![a] = Told(s, m)]
    /\ UNCHANGED <<taskVars, over, left, fate>>

\* purge_expired, by the janitor.
Purge ==
    /\ \E a \in Registered : left[a] < 0
    /\ entries' = [a \in Approval |-> IF left[a] < 0 THEN None ELSE entries[a]]
    /\ UNCHANGED <<taskVars, queue, deciding, said, over, left, fate>>

-----------------------------------------------------------------------------
(* The rest of the world.                                                  *)

End(s) ==
    /\ pc[s] # "done" /\ ~over[s]
    /\ over' = [over EXCEPT ![s] = TRUE]
    /\ UNCHANGED <<taskVars, managerVars, left, fate>>

\* The deadlines somebody will look at.
Running == {a \in Approval : (fate[a] = "held" \/ entries[a] # None) /\ left[a] >= 0}

\* The rest of a chunk that has asked takes no time.
Tick ==
    /\ Running # {}
    /\ \A s \in Stream : pc[s] \in {"chunk", "register"} => Holding(s) = {}
    /\ left' = [a \in Approval |-> IF a \in Running THEN left[a] - 1 ELSE left[a]]
    /\ UNCHANGED <<taskVars, managerVars, over, fate>>

-----------------------------------------------------------------------------

Step(s) == Register(s) \/ EndChunk(s) \/ Stop(s) \/ TakeDecision(s) \/ DenyAll(s)

Next ==
    \/ \E s \in Stream :
        \/ AskIntent(s) \/ Read(s) \/ EndStream(s) \/ Step(s) \/ End(s)
        \/ \E c \in ToolCall : StartCall(s, c) \/ EndCall(s, c)
    \/ \E k \in Caller : Peek(k) \/ Decide(k)
    \/ Purge \/ Tick

Spec == Init /\ [][Next]_vars

\* The task of a stream, the janitor and time go on; upstream and the
\* operators need not.
FairSpec ==
    /\ Spec
    /\ \A s \in Stream : WF_vars(Step(s))
    /\ WF_vars(Purge) /\ WF_vars(Tick)

-----------------------------------------------------------------------------
(* Properties.                                                             *)

\* A held call is released only on a human's approval, its request takes one
\* decision, and an approval that was answered Ok before the deadline is not
\* overtaken by it, whatever decisions, deadlines, cancellations and the
\* janitor race.
Promise == INSTANCE HumanApproval WITH state <- fate
ImplementsApproval == Promise!Spec

\* README.md: "a tool call never hangs forever waiting on a human".
EveryHoldEnds == Promise!EveryHoldEnds

\* "so ended streams' entries do not accumulate".
EntriesAreReaped ==
    \A a \in Approval : entries[a] # None ~> entries[a] = None

\* Entries that send to a stream.
Of(s) == {a \in Approval : entries[a] = s}

\* register, "Maximum concurrent pending approvals": the cap is tested and the
\* entry inserted later.  Streams that register at once exceed the cap by one
\* each at most, the last by none, and no stream exceeds it by its own calls.
PendingIsBounded ==
    /\ Cardinality(Registered) <= Cap + Cardinality(Stream) - 1
    /\ \A s \in Stream : Cardinality(Of(s)) <= Cap

(* Neither a stream nor a place in the manager waits for ever on a human   *)
(* who does not decide (pipeline.rs:143-176, main.rs:653).                 *)
NothingWaitsForever == EveryHoldEnds /\ EntriesAreReaped

=============================================================================
