---------------------------- MODULE StreamFrames ----------------------------
(***************************************************************************)
(* What a filtered stream writes to its client (stream/processor.rs,       *)
(* stream/ndjson.rs), and what a client reads of it.                       *)
(*                                                                         *)
(* The processor takes a chunk, line by line, and decides at the end of an *)
(* event what comes of it; the output of the chunk is sent when the whole  *)
(* of it was taken.  Between chunks a human decides on the calls that are  *)
(* held.  What is written is a sequence of texts and ends of lines; the    *)
(* client splits it by the rules of the protocol.  In an SSE stream these  *)
(* are not the processor's: to the client a lone CR ends a line, "data"    *)
(* needs no colon, and a byte order mark at the start is no text.  So what *)
(* passes as it came may hold ends of lines, and data, that nobody judged. *)
(*                                                                         *)
(* What the filters say of an event is any choice.  When a decision comes, *)
(* and who else may end the stream, is StreamApprovals.                    *)
(***************************************************************************)
EXTENDS Integers, Sequences, FiniteSets, SequencesExt

CONSTANTS
    Protocol,     \* "sse", "ndjson"
    MaxEvents,    \* bound: events
    MaxLines      \* bound: ends of lines a chunk adds without an event

VARIABLES
    protocol,
    pc,           \* between chunks, inside one, or over
    event,        \* the event that is being assembled: data lines, event line
    count,        \* events so far; each is known by its number
    calls,        \* tool calls held from their START
    pending,      \* calls and intents a human is asked about
    output,       \* what the chunk has produced: text, and the frames meant
    released,     \* history: the frames sent
    client,       \* the line and the event it reads, the events it has read,
                  \* and of which frames it has seen a piece
    slipped       \* history: a line has passed, as no data, that is data to it

processor == <<event, count, calls, pending>>
vars == <<protocol, pc, processor, output, released, client, slipped>>

NoEvent == [lines |-> 0, name |-> <<>>]
NoOutput == [text |-> <<>>, frames |-> <<>>]

Event == 0 .. MaxEvents
Meant == {"own", "args", "error", "ask"}

\* A frame says something of an event, in a data line; what passes as it came
\* may go on in a second line, of any text: of no data (or empty), of data, or of
\* data after a blank line.
Rest == {"none", "raw", "data", "event"}
Frame == [of : Event, as : Meant, rest : Rest, by : {"chunk", "decision"}]

\* Pieces of text.
Text(k, f, i) == [kind |-> k, of |-> f.of, as |-> f.as, line |-> i]
Data(f) == Text("data", f, 1)
\* An end of line, as the client knows it.
Eol == [kind |-> "eol", of |-> 0, as |-> "own", line |-> 0]
Other(k) == [kind |-> k, of |-> 0, as |-> "ask", line |-> 0]

\* Data in a line that was taken for something else, and not judged.
Unjudged == Other("unjudged")

\* A comment, an id or the like, of which the client may read a part as data, and
\* ignores the others; an event's name, if it has one.
Lines == {<<Other("field")>>, <<Unjudged>>}
Names == {<<>>, <<Other("event")>>, <<Other("event"), Eol, Unjudged>>}
Plain == {<<>>, <<Other("event")>>}

TypeOK ==
    /\ protocol \in Protocol
    /\ pc \in {"select", "chunk", "over"}
    /\ event \in [lines : 0 .. 2, name : Names]
    /\ count \in Event
    /\ calls \subseteq 1 .. MaxEvents
    /\ \A p \in pending :
        p.ask \in 1 .. MaxEvents /\ p.by \in {"ag_ui", "a2ui"} /\ p.frames \in Seq(Frame)
    /\ output.frames \in Seq(Frame)
    /\ released \in Seq(Frame)
    /\ slipped \in BOOLEAN

Init ==
    /\ protocol \in Protocol
    /\ pc = "select"
    /\ event = NoEvent
    /\ count = 0
    /\ calls = {}
    /\ pending = {}
    /\ output = NoOutput
    /\ released = <<>>
    /\ client = [line |-> <<>>, event |-> <<>>, read |-> <<>>, seen |-> {}]
    /\ slipped = FALSE

-----------------------------------------------------------------------------
(* The wire, and the client *)

\* Texts, one after the other.
InARow(texts) ==
    LET row[i \in 0 .. Len(texts)] == IF i = 0 THEN <<>> ELSE row[i - 1] \o texts[i]
    IN  row[Len(texts)]

\* What follows a frame's first line, but for the end of the last one.
After(f) ==
    LET more == [none  |-> <<>>,
                 raw   |-> <<Eol, Text("raw", f, 2)>>,
                 data  |-> <<Eol, Text("data", f, 2)>>,
                 event |-> <<Eol, Eol, Text("data", f, 2)>>]
    IN  more[f.rest]

Body(f, name) ==
    (IF name = <<>> THEN <<>> ELSE name \o <<Eol>>) \o <<Data(f)>> \o After(f)

\* The name of the event goes to the last of its frames.
NameOf(i, frames, name) == IF i = Len(frames) THEN name ELSE <<>>

\* Variant: one end of line between two frames.
JoinedByOne(frames, name) ==
    InARow([i \in DOMAIN frames |->
        Body(frames[i], NameOf(i, frames, name)) \o (IF i < Len(frames) THEN <<Eol>> ELSE <<>>)])

\* Frames, with a blank line between two.
Joined(frames, name) ==
    InARow([i \in DOMAIN frames |->
        Body(frames[i], NameOf(i, frames, name))
            \o (IF i < Len(frames) THEN <<Eol, Eol>> ELSE <<>>)])

ByLine == protocol = "ndjson"

InLines(frames) == InARow([i \in DOMAIN frames |-> <<Data(frames[i]), Eol>>])

Written(frames, name) ==
    IF frames = <<>> THEN <<>>
    ELSE IF ByLine THEN InLines(frames)
    ELSE Joined(frames, name) \o <<Eol, Eol>>

\* A line that begins with data: is data, other lines are not; the event ends at
\* a blank line, or is a line (by_line).
EndLine(by_line, c) ==
    LET got == IF by_line THEN <<c.line>> ELSE c.event
    IN  IF c.line = <<>> \/ by_line
        THEN [c EXCEPT !.line = <<>>, !.event = <<>>,
                       !.read = IF got \in {<<>>, << <<>> >>} THEN @ ELSE Append(@, got)]
        ELSE [c EXCEPT !.line = <<>>,
                       !.event = IF c.line[1].kind \in {"data", "unjudged"}
                                 THEN Append(@, c.line) ELSE @]

Take(by_line, c, t) ==
    IF t = Eol THEN EndLine(by_line, c)
    ELSE [c EXCEPT !.line = Append(@, t),
                   !.seen = IF t.kind \in {"data", "raw"} THEN @ \cup {<<t.of, t.as>>} ELSE @]

Reads(by_line, c, text) ==
    LET reader[i \in 0 .. Len(text)] ==
            IF i = 0 THEN c ELSE Take(by_line, reader[i - 1], text[i])
    IN  reader[Len(text)]

Deliver(text, frames) ==
    /\ client' = Reads(ByLine, client, text)
    /\ released' = released \o frames

\* What a client should read of a frame: its data lines.
Proper(f) == [i \in 1 .. (IF f.rest = "none" THEN 1 ELSE 2) |-> <<Text("data", f, i)>>]

-----------------------------------------------------------------------------
(* process_chunk *)

Read ==
    /\ pc = "select" /\ pending = {}
    /\ pc' = "chunk"
    /\ UNCHANGED <<protocol, processor, output, released, client, slipped>>

\* The chunk ends, perhaps within an event or a line.
EndChunk ==
    /\ pc = "chunk"
    /\ pc' = "select"
    /\ output' = NoOutput
    /\ Deliver(output.text, output.frames)
    /\ UNCHANGED <<protocol, processor, slipped>>

Stopped == [of |-> 0, as |-> "error", rest |-> "none", by |-> "chunk"]

\* A limit: of events or of time, when a chunk comes, of bytes, in any line.
\* What the chunk has produced is lost; or the session is over.
Terminate ==
    /\ pc # "over"
    /\ pc' = "over"
    /\ output' = NoOutput
    /\ Deliver(Written(<<Stopped>>, <<>>), <<Stopped>>)
    /\ UNCHANGED <<protocol, processor, slipped>>

EndStream ==
    /\ pc = "select" /\ pending = {}
    /\ pc' = "over"
    /\ UNCHANGED <<protocol, processor, output, released, client, slipped>>

Put(text, frames) ==
    output' = [text |-> output.text \o text, frames |-> output.frames \o frames]

InEvent == pc = "chunk" /\ protocol = "sse"

Single(frames) == \A i \in DOMAIN frames : frames[i].rest = "none"
Sent == released \o output.frames

\* Bound: a stream holds one of these, a line that slips or a frame that goes on.
Odd == slipped \/ ~ Single(Sent)

\* Room for the lines that carry no event.
Room == Cardinality({i \in DOMAIN output.text : output.text[i] = Eol}) < MaxLines

\* Variant: a data line is forwarded before its event is judged.
DataLineAtOnce ==
    LET f == [of |-> count + 1, as |-> "own"] IN
    /\ InEvent
    /\ count < MaxEvents /\ event.lines < 2
    /\ event' = [event EXCEPT !.lines = @ + 1]
    /\ Put(<<Data(f), Eol>>, <<>>)
    /\ UNCHANGED <<protocol, pc, count, calls, pending, released, client, slipped>>

DataLine ==
    /\ InEvent
    /\ count < MaxEvents
    /\ event.lines < IF Odd THEN 1 ELSE 2
    /\ event' = [event EXCEPT !.lines = @ + 1]
    /\ UNCHANGED <<protocol, pc, count, calls, pending, output, released, client, slipped>>

\* The last name counts.
EventLine ==
    /\ InEvent
    /\ \E name \in (IF Odd THEN Plain ELSE Names) \ {<<>>} : event' = [event EXCEPT !.name = name]
    /\ UNCHANGED <<protocol, pc, count, calls, pending, output, released, client, slipped>>

\* Comments, id:, retry: are not kept for the event they stand in.
OtherLine ==
    /\ InEvent /\ Room
    /\ \E line \in IF Odd THEN {<<Other("field")>>} ELSE Lines :
          /\ Put(line \o <<Eol>>, <<>>)
          /\ slipped' = (slipped \/ line # <<Other("field")>>)
    /\ UNCHANGED <<protocol, pc, processor, released, client>>

\* A blank line after no data.
Separator ==
    /\ InEvent /\ Room
    /\ event.lines = 0
    /\ event' = NoEvent
    /\ Put(<<Eol, Eol>>, <<>>)
    /\ UNCHANGED <<protocol, pc, count, calls, pending, released, client, slipped>>

-----------------------------------------------------------------------------
(* The end of an event, and the filters *)

Number == count + 1

\* An event is complete: a blank line after data, or a line by itself.
Complete ==
    /\ pc = "chunk"
    /\ count < MaxEvents
    /\ protocol = "sse" => event.lines > 0
    /\ count' = Number
    /\ event' = NoEvent
    /\ UNCHANGED <<protocol, pc, released, client>>

Says(n, as) == [of |-> n, as |-> as, rest |-> "none", by |-> "chunk"]

Emit(frames) ==
    /\ Put(Written(frames, event.name), frames)
    /\ slipped' = (slipped \/ (frames # <<>> /\ event.name \notin Plain))

Intents == {p \in pending : p.by = "a2ui"}

\* It passes as it came, be it no event the filters know: data of two lines, or
\* a line that the client ends earlier, is not marked as data throughout.
PassAsItCame ==
    /\ Complete
    /\ \E rest \in IF event.lines = 2 THEN Rest \ {"none"}
                  ELSE IF ByLine \/ Odd THEN {"none"} ELSE Rest :
          Emit(<<[Says(Number, "own") EXCEPT !.rest = rest]>>)
    /\ UNCHANGED <<calls, pending>>

\* In one line, as a listing of tools does that names only those that are allowed.
PassListing ==
    /\ protocol = "sse"
    /\ Complete
    /\ Emit(<<Says(Number, "own")>>)
    /\ UNCHANGED <<calls, pending>>

\* process_multi: an event on the list that belongs to no call passes, with the
\* metadata; others are dropped, as those of a call that was refused are.
JudgeEvent ==
    /\ Complete
    /\ \E frames \in {<<>>, <<Says(Number, "own")>>} : Emit(frames)
    /\ UNCHANGED <<calls, pending>>

\* An intent passes, or it is dropped.  If it is dropped while another one is
\* held, the request for that one is repeated.
JudgeIntent ==
    /\ Complete
    /\ \E frames \in {<<Says(Number, "own")>>}
                       \cup (IF Intents = {} THEN {<<>>} ELSE {<<Says(p.ask, "ask")>> : p \in Intents}) :
          Emit(frames)
    /\ UNCHANGED <<calls, pending>>

\* TOOL_CALL_START: the call is held, or an error stands for it.  A call of the
\* same id (c) that is held is forgotten.
Hold(c) ==
    /\ Complete
    /\ calls' = (calls \ {c}) \cup {Number}
    /\ Emit(<<>>)
    /\ UNCHANGED pending

RefuseStart(c) ==
    /\ Complete
    /\ calls' = calls \ {c}
    /\ Emit(<<Says(Number, "error")>>)
    /\ UNCHANGED pending

\* The call's frames, in order; no arguments, no frame of them.
Frames(c) ==
    {<<Says(c, "own")>> \o args \o <<Says(Number, "own")>> :
        args \in {<<>>, <<Says(c, "args")>>}}

Ask(frames, by) ==
    /\ pending' = pending \cup {[ask |-> Number, by |-> by, frames |-> frames]}
    /\ Emit(<<Says(Number, "ask")>>)

\* TOOL_CALL_ARGS: arguments that are too long end the call, others are kept.
Overflow(c) ==
    /\ Complete
    /\ calls' = calls \ {c}
    /\ Emit(<<Says(Number, "error")>>)
    /\ UNCHANGED pending

\* TOOL_CALL_END: the call is released, asked about, or an error stands for it.
EndCall(c) ==
    /\ c \in calls
    /\ Complete
    /\ calls' = calls \ {c}
    /\ \E frames \in Frames(c) :
        \/ Emit(frames) /\ UNCHANGED pending
        \/ Ask(frames, "ag_ui")
        \/ Emit(<<Says(Number, "error")>>) /\ UNCHANGED pending

\* An intent with a tool call that needs approval.
AskIntent ==
    /\ Intents = {}
    /\ Complete
    /\ Ask(<<Says(Number, "own")>>, "a2ui")
    /\ UNCHANGED calls

-----------------------------------------------------------------------------
(* resolve_approval *)

\* The frames of a call are joined and nothing is added; an intent is a frame.
WrittenLater(frames, by) ==
    IF protocol = "sse" /\ by = "ag_ui" THEN Joined(frames, <<>>) ELSE Written(frames, <<>>)

\* A human decides, or the deadline: then all that is held is denied in turn.
\* The denial of a call is an error, that of an intent nothing.
Resolve(p) ==
    LET later == [i \in DOMAIN p.frames |-> [p.frames[i] EXCEPT !.by = "decision"]]
        denial == [Says(p.ask, "error") EXCEPT !.by = "decision"]
    IN  /\ pc = "select"
        /\ p \in pending
        /\ pending' = pending \ {p}
        /\ \E frames \in {later, IF p.by = "ag_ui" THEN <<denial>> ELSE <<>>} :
              Deliver(WrittenLater(frames, p.by), frames)
        /\ UNCHANGED <<protocol, pc, event, count, calls, output, slipped>>

-----------------------------------------------------------------------------

Next ==
    \/ Read \/ EndChunk \/ Terminate \/ EndStream
    \/ DataLine \/ EventLine \/ OtherLine \/ Separator
    \/ PassAsItCame \/ PassListing \/ JudgeEvent \/ JudgeIntent \/ AskIntent
    \/ \E c \in calls \cup {0} : Hold(c) \/ RefuseStart(c)
    \/ \E c \in calls : Overflow(c) \/ EndCall(c)
    \/ \E p \in pending : Resolve(p)

Spec == Init /\ [][Next]_vars

-----------------------------------------------------------------------------

SeenFrames == client.read = [i \in DOMAIN released |-> Proper(released[i])]

NothingResolved == \A i \in DOMAIN released : released[i].by = "chunk"
SingleLines == Single(released)

(* However upstream cuts its bytes into chunks, wherever a limit ends the  *)
(* stream, and whatever is dropped, held and released between: the client  *)
(* reads the frames the filters released, each as an event of its own, in  *)
(* their order, and nothing else (processor.rs:200, ndjson.rs:269).  This  *)
(* is so while no SSE line has passed as no data that is data to the       *)
(* client (OnlyJudged), for frames of one line (PassedAsIs), and until a   *)
(* decision releases a frame into an SSE stream (OwnFrames).               *)
FramesAreEvents ==
    (protocol = "ndjson" \/ NothingResolved) /\ SingleLines /\ ~ slipped => SeenFrames

(* Of what is dropped, denied, or still held nothing reaches the client,   *)
(* not even in a line it would ignore: "Emitting the raw data: line here   *)
(* would leak the original payload" (processor.rs:299).                    *)
WithheldIsUnread ==
    client.seen \subseteq {<<f.of, f.as>> : f \in ToSet(released)}

(* The filters see every event: what the client reads as data they judged  *)
(* ("This is the seam that makes a Deny actually suppress the tool-call    *)
(* event", processor.rs:301).  The processor ends a line at LF alone and   *)
(* knows data by its colon, so an SSE client reads as data what passed as  *)
(* a comment, an id or the name of an event.                               *)
OnlyJudged ==
    \A i \in DOMAIN client.read : \A j \in DOMAIN client.read[i] :
        Unjudged \notin ToSet(client.read[i][j])

(* "Each released event becomes its own SSE frame" (processor.rs:369).     *)
(* What a decision releases has no blank line at its end: the last frame   *)
(* of it and the next one of the stream are one line to the client.        *)
OwnFrames ==
    SingleLines /\ ~ slipped =>
        ToSet(client.read) \subseteq {Proper(f) : f \in ToSet(released)}

(* "No AI processing or couldn't parse -- pass through as-is"              *)
(* (processor.rs:447).  Of data of two lines, or with a lone CR in it,     *)
(* only the first is marked as data: the client ignores the second, or it  *)
(* ends the event, or is data of this event or of the next, as it happens  *)
(* to read, and no filter has judged it by itself.                         *)
PassedAsIs == NothingResolved /\ ~ slipped => SeenFrames

-----------------------------------------------------------------------------
(* The inductive invariant behind FramesAreEvents and WithheldIsUnread.    *)

Piece == [kind : {"data", "raw", "eol", "event", "field", "unjudged"}, of : Event, as : Meant, line : 0 .. 2]

Reader ==
    [line : Seq(Piece), event : Seq(Seq(Piece)), read : Seq(Seq(Seq(Piece))),
     seen : SUBSET (Event \X Meant)]

\* Of whom the frames speak, and whether a text speaks of nobody else.
Tells(frames) == {<<frames[i].of, frames[i].as>> : i \in DOMAIN frames}

Only(text, told) ==
    \A i \in DOMAIN text :
        text[i].kind \in {"data", "raw"} => <<text[i].of, text[i].as>> \in told

\* A client that has read the first n of the frames as it should, and is between
\* two events.
AtRest(c, frames, n) ==
    /\ c.line = <<>> /\ c.event = <<>>
    /\ Len(c.read) = n
    /\ \A i \in 1 .. n : c.read[i] = Proper(frames[i])

\* Between chunks the client is between two events, and will be when it has read
\* what the chunk has produced so far.
ClientRests ==
    (ByLine \/ NothingResolved) /\ SingleLines /\ ~ slipped =>
        /\ AtRest(client, released, Len(released))
        /\ Single(output.frames) =>
              AtRest(Reads(ByLine, client, output.text), Sent, Len(Sent))

FramesInv ==
    /\ TypeOK
    /\ client \in Reader
    /\ output.text \in Seq(Piece)
    /\ pc # "chunk" => output = NoOutput
    /\ Only(output.text, Tells(output.frames))
    /\ WithheldIsUnread
    /\ ClientRests

=============================================================================
