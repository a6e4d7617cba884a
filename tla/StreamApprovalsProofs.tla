------------------------ MODULE StreamApprovalsProofs ------------------------
(***************************************************************************)
(* Streams.                                                                *)
(*                                                                         *)
(* Held calls: types, the cap, and the refinement of HumanApproval.  A     *)
(* decision that was answered Ok has removed the entry, so there is no     *)
(* second one, and its message is in the queue of the stream that holds    *)
(* the call until the task takes it.  The deadline is only looked at when  *)
(* the queue is empty.                                                     *)
(*                                                                         *)
(* What is written: a client that is between two events and reads what is  *)
(* written of frames of one line is between two events again and has read  *)
(* those frames, each by itself.  Texts are read one after the other, and  *)
(* what is seen of a text is what it speaks of.                            *)
(***************************************************************************)
EXTENDS MCStreams, FiniteSetTheorems, SequenceTheorems, WellFoundedInduction, TLAPS

Asking == {s \in Stream : pc[s] = "register"}

\* What PendingIsBounded needs: a stream has passed the test of the cap, and
\* has not registered yet.
CapInv ==
    Cardinality(Registered) + Cardinality(Asking) <= Cap + Cardinality(Stream) - 1

\* The same of each stream by itself.
OwnInv ==
    \A s \in Stream :
        Cardinality(Of(s)) + (IF pc[s] = "register" THEN 1 ELSE 0) <= Cap

\* A stream asks for one new approval at a time, and nobody else for that one.
AskingInv ==
    /\ \A s \in Stream : pc[s] = "register" <=> asking[s].approval # None
    /\ \A s \in Stream : asking[s].approval # None => fate[asking[s].approval] = "fresh"
    /\ \A s, t \in Stream :
           asking[s].approval # None /\ asking[s].approval = asking[t].approval => s = t
    /\ \A s \in Stream :
           asking[s].approval # None /\ asking[s].by # "ag_ui" => intent[s] = None

\* Each held call has one holder, and its stream is not done.
HoldingInv ==
    /\ \A s \in Stream, a \in Approval : a \in Holding(s) => fate[a] = "held"
    /\ \A s, t \in Stream, a \in Approval : a \in Holding(s) /\ a \in Holding(t) => s = t
    /\ \A s \in Stream : pc[s] = "done" => Holding(s) = {}

\* Registered requests are undecided, and known to the stream they decide for.
EntriesInv ==
    \A a \in Approval : entries[a] # None =>
        /\ fate[a] # "fresh" /\ said[a] = "nothing"
        /\ fate[a] = "held" => a \in Holding(entries[a])

\* The messages tell what was said.
QueueInv ==
    \A s \in Stream : \A i \in 1 .. Len(queue[s]) :
        LET m == queue[s][i] IN
        /\ m.decision = "approve" => said[m.approval] \in {"approve", "late approve"}
        /\ m.decision = "deny" => said[m.approval] = "deny"

\* A timely approval of a call that is held still waits for its stream.
HeardInv ==
    \A s \in Stream, a \in Approval :
        a \in Holding(s) /\ said[a] = "approve" =>
            \E i \in 1 .. Len(queue[s]) : queue[s][i] = [approval |-> a, decision |-> "approve"]

\* Nothing is said of a fresh one.
SaidInv == \A a \in Approval : said[a] # "nothing" => fate[a] # "fresh"

IInv == AskingInv /\ HoldingInv /\ EntriesInv /\ QueueInv /\ HeardInv /\ SaidInv

-----------------------------------------------------------------------------

\* The disjuncts of Next.
LEMMA NextCases ==
    ASSUME Next
    PROVE  \/ \E s \in Stream : AskIntent(s) \/ Read(s) \/ EndStream(s) \/ Step(s) \/ End(s)
           \/ \E s \in Stream, c \in ToolCall : StartCall(s, c) \/ EndCall(s, c)
           \/ \E k \in Caller : Peek(k) \/ Decide(k)
           \/ Purge \/ Tick
  BY DEF Next

\* The end of a task keeps the types.
LEMMA FinishTypes ==
    ASSUME TypeOK, NEW s \in Stream, Finish(s)
    PROVE  TypeOK'
<1>1. pc' \in [Stream -> {"select", "chunk", "register", "done"}]
  BY DEF TypeOK, Finish
<1>2. calls' \in [Stream -> SUBSET ToolCall] /\ pending' \in [Stream -> SUBSET Approval]
  BY DEF TypeOK, Finish
<1>3. queue' \in [Stream -> Seq(Message)]
  <2>1. <<>> \in Seq(Message)
    OBVIOUS
  <2> QED
    BY <2>1 DEF TypeOK, Finish
<1>4. fate' \in [Approval -> {"fresh", "held", "released", "denied", "dropped"}]
  BY DEF TypeOK, Finish
<1> QED
  BY <1>1, <1>2, <1>3, <1>4 DEF TypeOK, Finish

\* A stream that registers has something to register.
Asks == \A s \in Stream : pc[s] = "register" => asking[s].approval # None

\* What is asked is of the right type.
LEMMA AskForTypes ==
    ASSUME TypeOK, NEW s \in Stream, NEW by \in {"ag_ui", "a2ui"}, AskFor(s, by)
    PROVE  /\ pc' \in [Stream -> {"select", "chunk", "register", "done"}]
           /\ asking' \in [Stream -> [approval : Approval \cup {None}, by : {"ag_ui", "a2ui"}]]
           /\ Asks => Asks'
<1>1. CASE UNCHANGED <<pc, asking>>
  BY <1>1 DEF TypeOK, Asks
<1>2. ASSUME NEW a \in Approval,
             asking' = [asking EXCEPT ![s] = [approval |-> a, by |-> by]],
             pc' = [pc EXCEPT ![s] = "register"]
      PROVE  /\ pc' \in [Stream -> {"select", "chunk", "register", "done"}]
             /\ asking' \in [Stream -> [approval : Approval \cup {None}, by : {"ag_ui", "a2ui"}]]
             /\ Asks => Asks'
  BY <1>2, StreamAssumption DEF TypeOK, Asks
<1>3. Fresh # {} => (CHOOSE a \in Fresh : TRUE) \in Approval
  BY DEF Fresh
<1> QED
  BY <1>1, <1>2, <1>3 DEF AskFor

\* Every step keeps the types.
LEMMA TypesKept ==
    ASSUME TypeOK, Asks, [Next]_vars
    PROVE  TypeOK' /\ Asks'
<1>1. CASE UNCHANGED vars
  BY <1>1 DEF TypeOK, Asks, vars, taskVars, managerVars
<1>2. ASSUME NEW s \in Stream, AskIntent(s) PROVE TypeOK' /\ Asks'
  BY <1>2, AskForTypes DEF TypeOK, Asks, AskIntent, Unheld, managerVars
<1>3. ASSUME NEW s \in Stream, Read(s) PROVE TypeOK' /\ Asks'
  BY <1>3 DEF TypeOK, Asks, Read, Unheld, managerVars
<1>4. ASSUME NEW s \in Stream, EndStream(s) \/ Stop(s) PROVE TypeOK' /\ Asks'
  BY ZenonT(60), <1>4, FinishTypes DEF EndStream, Stop, Finish, Asks, TypeOK
<1>5. ASSUME NEW s \in Stream, End(s) PROVE TypeOK' /\ Asks'
  BY <1>5 DEF TypeOK, Asks, End, taskVars, managerVars
<1>6. ASSUME NEW s \in Stream, NEW c \in ToolCall, StartCall(s, c) PROVE TypeOK' /\ Asks'
  <2>1. calls' \in [Stream -> SUBSET ToolCall]
    <3>1. PICK new \in {{}, {c}} : calls' = [calls EXCEPT ![s] = (@ \ {c}) \cup new]
      BY <1>6 DEF StartCall
    <3>2. (calls[s] \ {c}) \cup new \in SUBSET ToolCall
      BY DEF TypeOK
    <3> QED
      BY <3>1, <3>2 DEF TypeOK
  <2> QED
    BY <1>6, <2>1 DEF TypeOK, Asks, StartCall, Unheld, managerVars
<1>7. ASSUME NEW s \in Stream, NEW c \in ToolCall, EndCall(s, c) PROVE TypeOK' /\ Asks'
  <2>1. calls' \in [Stream -> SUBSET ToolCall]
    BY <1>7 DEF TypeOK, EndCall
  <2>2. /\ pc' \in [Stream -> {"select", "chunk", "register", "done"}]
        /\ asking' \in [Stream -> [approval : Approval \cup {None}, by : {"ag_ui", "a2ui"}]]
    BY <1>7, AskForTypes DEF TypeOK, EndCall
  <2>3. Asks'
    BY <1>7, AskForTypes DEF TypeOK, Asks, EndCall
  <2> QED
    BY <1>7, <2>1, <2>2, <2>3 DEF TypeOK, EndCall, Unheld, managerVars
<1>8. ASSUME NEW s \in Stream, Register(s) PROVE TypeOK' /\ Asks'
  <2> DEFINE a == asking[s].approval
  <2>1. a \in Approval \cup {None} /\ None \notin Approval
    BY StreamAssumption DEF TypeOK
  <2>2. a # None
    BY <1>8 DEF Register, Asks
  <2>3. Asks'
    BY <1>8 DEF TypeOK, Asks, Register, NotAsking
  <2>4. /\ entries' \in [Approval -> Stream \cup {None}]
        /\ fate' \in [Approval -> {"fresh", "held", "released", "denied", "dropped"}]
    BY <1>8, <2>1, <2>2 DEF TypeOK, Register
  <2>5. pending' \in [Stream -> SUBSET Approval]
    <3>1. pending[s] \cup {a} \in SUBSET Approval
      BY <2>1, <2>2 DEF TypeOK
    <3>2. pending' \in {pending, [pending EXCEPT ![s] = pending[s] \cup {a}]}
      BY <1>8 DEF TypeOK, Register
    <3> QED
      BY ZenonT(60), <3>1, <3>2 DEF TypeOK
  <2>6. intent' \in [Stream -> Approval \cup {None}]
    BY <1>8, <2>1, <2>2 DEF TypeOK, Register
  <2>7. /\ asking' \in [Stream -> [approval : Approval \cup {None}, by : {"ag_ui", "a2ui"}]]
        /\ pc' \in [Stream -> {"select", "chunk", "register", "done"}]
    BY <1>8 DEF TypeOK, Register, NotAsking
  <2> QED
    BY <1>8, <2>3, <2>4, <2>5, <2>6, <2>7 DEF TypeOK, Register
<1>9. ASSUME NEW s \in Stream, EndChunk(s) PROVE TypeOK' /\ Asks'
  BY <1>9 DEF TypeOK, Asks, EndChunk, Unheld, managerVars
<1>10. ASSUME NEW s \in Stream, TakeDecision(s) PROVE TypeOK' /\ Asks'
  <2>1. queue[s] \in Seq(Message) /\ queue[s] # <<>>
    BY <1>10 DEF TypeOK, TakeDecision
  <2>2. Tail(queue[s]) \in Seq(Message)
    BY <2>1, HeadTailProperties
  <2>3. queue' \in [Stream -> Seq(Message)]
    BY <1>10, <2>2 DEF TypeOK, TakeDecision
  <2> QED
    BY <1>10, <2>3 DEF TypeOK, Asks, TakeDecision, Resolve
<1>11. ASSUME NEW s \in Stream, DenyAll(s) PROVE TypeOK' /\ Asks'
  BY <1>11 DEF TypeOK, Asks, DenyAll, Resolve, managerVars
<1>12. ASSUME NEW k \in Caller, Peek(k) PROVE TypeOK' /\ Asks'
  BY <1>12 DEF TypeOK, Asks, Peek, Registered, taskVars
<1>13. ASSUME NEW k \in Caller, Decide(k) PROVE TypeOK' /\ Asks'
  <2> DEFINE a == deciding[k]
             s == entries[a]
  <2>1. a \in Approval /\ s \in Stream \cup {None}
    BY <1>13 DEF TypeOK, Decide
  <2>2. CASE s = None
    BY <1>13, <2>1, <2>2 DEF TypeOK, Asks, Decide, taskVars
  <2>3. CASE s # None
    <3>1. PICK m \in Message :
            /\ m.approval = a
            /\ entries' = [entries EXCEPT ![a] = None]
            /\ queue' = IF pc[s] = "done" THEN queue
                        ELSE [queue EXCEPT ![s] = Append(@, m)]
            /\ said' = [said EXCEPT ![a] = Told(s, m)]
      BY <1>13, <2>3 DEF Decide
    <3>2. Told(s, m) \in {"approve", "deny", "late approve"}
      BY DEF Told, Message
    <3>3. queue' \in [Stream -> Seq(Message)]
      <4>1. queue \in [Stream -> Seq(Message)] /\ s \in Stream
        BY <2>1, <2>3 DEF TypeOK
      <4>2. Append(queue[s], m) \in Seq(Message)
        BY <4>1, AppendProperties
      <4> QED
        BY <3>1, <4>1, <4>2
    <3> QED
      BY <1>13, <2>1, <3>1, <3>2, <3>3 DEF TypeOK, Asks, Decide, taskVars
  <2> QED BY <2>2, <2>3
<1>14. CASE Purge
  BY <1>14 DEF TypeOK, Asks, Purge, taskVars
<1>15. CASE Tick
  <2>1. ASSUME NEW a \in Approval PROVE left'[a] \in -1 .. Ttl
    <3>1. left[a] \in -1 .. Ttl /\ Ttl \in Nat
      BY StreamAssumption DEF TypeOK
    <3>2. left'[a] = IF a \in Running THEN left[a] - 1 ELSE left[a]
      BY <1>15 DEF Tick
    <3>3. a \in Running => left[a] >= 0
      BY DEF Running
    <3> QED
      BY <3>1, <3>2, <3>3
  <2>2. left' \in [Approval -> -1 .. Ttl]
    BY <1>15, <2>1 DEF Tick
  <2> QED
    BY <1>15, <2>2 DEF TypeOK, Asks, Tick, taskVars, managerVars
<1> QED
  BY <1>1, <1>2, <1>3, <1>4, <1>5, <1>6, <1>7, <1>8, <1>9, <1>10, <1>11, <1>12,
     <1>13, <1>14, <1>15, NextCases DEF Step

\* Types (the state of the stream tasks, the processors and the manager).
THEOREM TypeCorrect == Spec => []TypeOK
<1>1. Init => TypeOK /\ Asks
  BY StreamAssumption DEF Init, TypeOK, NotAsking, Asks
<1> QED
  BY <1>1, TypesKept, PTL DEF Spec

-----------------------------------------------------------------------------
(* The cap.                                                                *)

\* Counting is sound: what is counted is finite.
LEMMA Finite ==
    ASSUME TypeOK
    PROVE  /\ IsFiniteSet(Registered) /\ Cardinality(Registered) \in Nat
           /\ IsFiniteSet(Asking) /\ Cardinality(Asking) \in Nat
           /\ Cardinality(Stream) \in Nat /\ Cardinality(Asking) <= Cardinality(Stream)
<1>1. Registered \subseteq Approval /\ Asking \subseteq Stream
  BY DEF Registered, Asking
<1> QED
  BY <1>1, StreamAssumption, FS_Subset, FS_CardinalityType

\* To give entries back, or to stop asking, keeps the cap.
LEMMA CapKept ==
    ASSUME TypeOK, CapInv, Registered' \subseteq Registered, Asking' \subseteq Asking
    PROVE  CapInv'
<1>1. /\ Cardinality(Registered') <= Cardinality(Registered)
      /\ Cardinality(Asking') <= Cardinality(Asking)
      /\ Cardinality(Registered') \in Nat /\ Cardinality(Asking') \in Nat
  BY Finite, FS_Subset, FS_CardinalityType
<1> QED
  BY <1>1, Finite, StreamAssumption DEF CapInv

\* To ask takes a place, and there was one.
LEMMA CapAsked ==
    ASSUME TypeOK, TypeOK', CapInv, NEW s \in Stream, NEW by \in {"ag_ui", "a2ui"},
           AskFor(s, by), UNCHANGED entries
    PROVE  CapInv'
<1>1. Registered' = Registered
  BY DEF Registered
<1>2. CASE UNCHANGED <<pc, asking>>
  <2>1. Asking' = Asking
    BY <1>2 DEF Asking
  <2> QED
    BY <1>1, <2>1, CapKept
<1>3. CASE ~(Cardinality(Registered) >= Cap)
  <2>1. Cardinality(Asking') <= Cardinality(Stream) /\ Cardinality(Asking') \in Nat
    BY Finite, FS_Subset, FS_CardinalityType, StreamAssumption DEF Asking
  <2>2. /\ Cardinality(Registered') = Cardinality(Registered)
        /\ Cardinality(Registered) <= Cap - 1
    BY <1>1, <1>3, Finite, StreamAssumption
  <2> QED
    BY <2>1, <2>2, Finite, StreamAssumption DEF CapInv
<1> QED
  BY <1>2, <1>3 DEF AskFor

\* Every step keeps the cap.
LEMMA CapStep ==
    ASSUME TypeOK, TypeOK', CapInv, [Next]_vars
    PROVE  CapInv'
<1>1. ASSUME NEW s \in Stream, AskIntent(s) PROVE CapInv'
  BY <1>1, CapAsked DEF AskIntent, Unheld, managerVars
<1>2. ASSUME NEW s \in Stream, NEW c \in ToolCall, EndCall(s, c) PROVE CapInv'
  <2>1. CASE AskFor(s, "ag_ui")
    BY <1>2, <2>1, CapAsked DEF EndCall, Unheld, managerVars
  <2>2. CASE UNCHANGED <<pc, asking>>
    BY <1>2, <2>2, CapKept DEF EndCall, Unheld, managerVars, Registered, Asking
  <2> QED
    BY <1>2, <2>1, <2>2 DEF EndCall
<1>3. ASSUME NEW s \in Stream, Register(s) PROVE CapInv'
  <2> DEFINE a == asking[s].approval
  <2>1. Registered' \subseteq Registered \cup {a}
    <3>1. ASSUME NEW b \in Approval, b # a PROVE entries'[b] = entries[b]
      <4>1. entries' = [entries EXCEPT ![a] = s]
        BY <1>3 DEF Register
      <4> QED
        BY <3>1, <4>1 DEF TypeOK
    <3> QED
      BY <3>1 DEF Registered
  <2>2. Asking' = Asking \ {s} /\ s \in Asking
    BY ZenonT(60), <1>3 DEF TypeOK, Register, Asking
  <2>3. Cardinality(Registered') <= Cardinality(Registered) + 1
    <3>1. /\ IsFiniteSet(Registered \cup {a})
          /\ Cardinality(Registered \cup {a}) \in {Cardinality(Registered), Cardinality(Registered) + 1}
      BY Finite, FS_AddElement
    <3> QED
      BY <2>1, <3>1, Finite, FS_Subset, FS_CardinalityType
  <2>4. Cardinality(Asking') = Cardinality(Asking) - 1
    BY <2>2, Finite, FS_RemoveElement
  <2>5. Cardinality(Registered') \in Nat
    BY <2>1, Finite, FS_AddElement, FS_Subset, FS_CardinalityType
  <2> QED
    BY <2>3, <2>4, <2>5, Finite, StreamAssumption DEF CapInv
<1>4. ASSUME NEW s \in Stream, Read(s) \/ EndChunk(s) PROVE CapInv'
  BY <1>4, CapKept DEF TypeOK, Read, EndChunk, Unheld, managerVars, Registered, Asking
<1>5. ASSUME NEW s \in Stream, Finish(s) PROVE CapInv'
  BY <1>5, CapKept DEF TypeOK, Finish, Registered, Asking
<1>6. ASSUME NEW s \in Stream, TakeDecision(s) \/ DenyAll(s) PROVE CapInv'
  BY <1>6, CapKept DEF TakeDecision, DenyAll, managerVars, Registered, Asking
<1>7. ASSUME NEW s \in Stream, NEW c \in ToolCall, StartCall(s, c) PROVE CapInv'
  BY <1>7, CapKept DEF StartCall, Unheld, managerVars, Registered, Asking
<1>8. ASSUME NEW k \in Caller, Decide(k) PROVE CapInv'
  <2>1. Registered' \subseteq Registered
    BY ZenonT(60), <1>8 DEF TypeOK, Decide, Registered
  <2> QED
    BY <1>8, <2>1, CapKept DEF Decide, taskVars, Asking
<1>9. CASE Purge
  BY <1>9, CapKept DEF Purge, taskVars, Registered, Asking
<1>10. CASE UNCHANGED <<pc, entries>>
  BY <1>10, CapKept DEF Registered, Asking
<1> QED
  BY <1>1, <1>2, <1>3, <1>4, <1>5, <1>6, <1>7, <1>8, <1>9, <1>10, NextCases
  DEF Step, EndStream, Stop, End, Peek, Tick, vars, taskVars, managerVars

\* A stream's entries are some of all.
LEMMA OwnFinite ==
    ASSUME TypeOK, NEW s \in Stream
    PROVE  /\ IsFiniteSet(Of(s)) /\ Cardinality(Of(s)) \in Nat
           /\ Cardinality(Of(s)) <= Cardinality(Registered)
<1>1. Of(s) \subseteq Registered
  BY StreamAssumption DEF Of, Registered
<1> QED
  BY <1>1, Finite, FS_Subset, FS_CardinalityType

\* To give entries back, or to stop asking, leaves a stream within the cap.
LEMMA OwnKept ==
    ASSUME TypeOK, OwnInv, NEW s \in Stream, Of(s)' \subseteq Of(s),
           pc'[s] = "register" => pc[s] = "register"
    PROVE  Cardinality(Of(s)') + (IF pc'[s] = "register" THEN 1 ELSE 0) <= Cap
<1>1. Cardinality(Of(s)') <= Cardinality(Of(s)) /\ Cardinality(Of(s)') \in Nat
  BY OwnFinite, FS_Subset, FS_CardinalityType
<1>2. Cardinality(Of(s)) + (IF pc[s] = "register" THEN 1 ELSE 0) <= Cap
  BY DEF OwnInv
<1> QED
  BY <1>1, <1>2, OwnFinite, StreamAssumption

\* A stream that passes the test of the cap has a place of its own.
LEMMA OwnAsked ==
    ASSUME TypeOK, OwnInv, NEW s \in Stream, NEW by \in {"ag_ui", "a2ui"},
           AskFor(s, by), UNCHANGED entries
    PROVE  OwnInv'
<1> SUFFICES ASSUME NEW t \in Stream
             PROVE  Cardinality(Of(t)') + (IF pc'[t] = "register" THEN 1 ELSE 0) <= Cap
  BY DEF OwnInv
<1>1. Of(t)' = Of(t)
  BY DEF Of
<1>2. CASE UNCHANGED pc
  BY <1>1, <1>2, OwnKept
<1>3. CASE /\ ~(Cardinality(Registered) >= Cap)
           /\ pc' = [pc EXCEPT ![s] = "register"]
  <2>1. CASE t = s
    <3>1. Cardinality(Of(t)') \in Nat /\ Cardinality(Of(t)') <= Cap - 1
      BY <1>1, <1>3, OwnFinite, Finite, StreamAssumption
    <3> QED
      BY <3>1, StreamAssumption
  <2>2. CASE t # s
    BY <1>1, <1>3, <2>2, OwnKept DEF TypeOK
  <2> QED
    BY <2>1, <2>2
<1> QED
  BY <1>2, <1>3 DEF AskFor

\* A stream that registers takes the place it has.
LEMMA OwnRegistered ==
    ASSUME TypeOK, OwnInv, NEW s \in Stream, Register(s)
    PROVE  OwnInv'
<1> DEFINE a == asking[s].approval
<1> SUFFICES ASSUME NEW t \in Stream
             PROVE  Cardinality(Of(t)') + (IF pc'[t] = "register" THEN 1 ELSE 0) <= Cap
  BY DEF OwnInv
<1>1. \A b \in Approval : entries'[b] = IF b = a THEN s ELSE entries[b]
  BY DEF TypeOK, Register
<1>2. CASE t # s
  <2>1. Of(t)' \subseteq Of(t) /\ pc'[t] = pc[t]
    BY <1>1, <1>2 DEF Of, TypeOK, Register
  <2> QED
    BY <2>1, OwnKept
<1>3. CASE t = s
  <2>1. Of(s)' \subseteq Of(s) \cup {a}
    BY <1>1 DEF Of
  <2>2. /\ IsFiniteSet(Of(s) \cup {a})
        /\ Cardinality(Of(s) \cup {a}) \in {Cardinality(Of(s)), Cardinality(Of(s)) + 1}
    BY OwnFinite, FS_AddElement
  <2>3. Cardinality(Of(s)') <= Cardinality(Of(s)) + 1 /\ Cardinality(Of(s)') \in Nat
    BY <2>1, <2>2, OwnFinite, FS_Subset, FS_CardinalityType
  <2>4. pc[s] = "register" /\ pc'[s] = "chunk"
    BY DEF TypeOK, Register
  <2>5. Cardinality(Of(s)) + 1 <= Cap
    BY <2>4 DEF OwnInv
  <2> QED
    BY <1>3, <2>3, <2>4, <2>5, OwnFinite, StreamAssumption
<1> QED
  BY <1>2, <1>3

\* No stream exceeds the cap by itself.
LEMMA OwnStep ==
    ASSUME TypeOK, OwnInv, [Next]_vars
    PROVE  OwnInv'
<1>1. ASSUME NEW s \in Stream, AskIntent(s) PROVE OwnInv'
  BY <1>1, OwnAsked DEF AskIntent, Unheld, managerVars
<1>2. ASSUME /\ \A s \in Stream : Of(s)' \subseteq Of(s)
             /\ \A s \in Stream : pc'[s] = "register" => pc[s] = "register"
      PROVE  OwnInv'
  BY <1>2, OwnKept DEF OwnInv
<1>3. ASSUME NEW s \in Stream, NEW c \in ToolCall, EndCall(s, c) PROVE OwnInv'
  <2>1. CASE AskFor(s, "ag_ui")
    BY <1>3, <2>1, OwnAsked DEF EndCall, Unheld, managerVars
  <2>2. CASE UNCHANGED <<pc, asking>>
    BY <1>2, <1>3, <2>2 DEF EndCall, Unheld, managerVars, Of
  <2> QED
    BY <1>3, <2>1, <2>2 DEF EndCall
<1>4. ASSUME NEW s \in Stream, Register(s) PROVE OwnInv'
  BY <1>4, OwnRegistered
<1>5. ASSUME NEW s \in Stream, Read(s) \/ EndChunk(s) PROVE OwnInv'
  BY <1>2, <1>5 DEF TypeOK, Read, EndChunk, Unheld, managerVars, Of
<1>6. ASSUME NEW s \in Stream, Finish(s) PROVE OwnInv'
  BY <1>2, <1>6 DEF TypeOK, Finish, Of
<1>7. ASSUME NEW k \in Caller, Decide(k) PROVE OwnInv'
  <2>1. \A s \in Stream : Of(s)' \subseteq Of(s)
    <3>1. CASE UNCHANGED entries
      BY <3>1 DEF Of
    <3>2. CASE entries' = [entries EXCEPT ![deciding[k]] = None]
      BY <3>2, StreamAssumption DEF TypeOK, Of
    <3> QED
      BY <1>7, <3>1, <3>2 DEF Decide
  <2> QED
    BY <1>2, <1>7, <2>1 DEF Decide, taskVars
<1>8. CASE Purge
  BY <1>2, <1>8, StreamAssumption DEF Purge, taskVars, Of
<1>9. CASE UNCHANGED <<pc, entries>>
  BY <1>2, <1>9 DEF Of
<1> QED
  BY <1>1, <1>3, <1>4, <1>5, <1>6, <1>7, <1>8, <1>9, NextCases
  DEF Step, EndStream, Stop, StartCall, TakeDecision, DenyAll, End, Peek, Tick,
      Unheld, vars, taskVars, managerVars

\* PendingIsBounded (approval/mod.rs, register): however many streams register
\* at once, each exceeds the cap by one request at most, the last by none; and
\* no stream by its own requests.
THEOREM PendingBounded == Spec => []PendingIsBounded
<1>1. Init => TypeOK /\ Asks /\ CapInv /\ OwnInv
  <2>1. ASSUME Init PROVE TypeOK /\ Asks
    BY <2>1, StreamAssumption DEF Init, TypeOK, NotAsking, Asks
  <2>2. ASSUME Init PROVE Registered = {} /\ Asking = {}
    BY <2>2 DEF Init, Registered, Asking
  <2>3. Cardinality({}) = 0 /\ Cardinality(Stream) \in Nat /\ Cap >= 1
    BY FS_EmptySet, FS_CardinalityType, StreamAssumption
  <2>4. ASSUME Init PROVE CapInv
    <3>1. Cardinality(Registered) = 0 /\ Cardinality(Asking) = 0
      BY <2>2, <2>3, <2>4
    <3>2. Cap \in Nat
      BY StreamAssumption
    <3> QED
      BY <2>3, <3>1, <3>2 DEF CapInv
  <2>5. ASSUME Init PROVE OwnInv
    <3>1. ASSUME NEW s \in Stream PROVE Of(s) = {} /\ pc[s] = "select"
      BY <2>5, <3>1, StreamAssumption DEF Init, Of
    <3> QED
      BY <2>3, <3>1, StreamAssumption DEF OwnInv
  <2> QED
    BY <2>1, <2>4, <2>5
<1>2. TypeOK /\ Asks /\ CapInv /\ OwnInv /\ [Next]_vars
        => TypeOK' /\ Asks' /\ CapInv' /\ OwnInv'
  BY TypesKept, CapStep, OwnStep
<1>3. TypeOK /\ CapInv /\ OwnInv => PendingIsBounded
  <2>1. TypeOK /\ CapInv => Cardinality(Registered) <= Cap + Cardinality(Stream) - 1
    BY Finite, StreamAssumption DEF CapInv
  <2>2. ASSUME TypeOK, OwnInv, NEW s \in Stream PROVE Cardinality(Of(s)) <= Cap
    <3>1. Cardinality(Of(s)) + (IF pc[s] = "register" THEN 1 ELSE 0) <= Cap
      BY <2>2 DEF OwnInv
    <3> QED
      BY <2>2, <3>1, OwnFinite, StreamAssumption
  <2> QED
    BY <2>1, <2>2 DEF PendingIsBounded
<1> QED
  BY <1>1, <1>2, <1>3, PTL DEF Spec

-----------------------------------------------------------------------------
(* The refinement.  First the invariant, action by action.                 *)

HeldVars == <<pending, intent>>

\* What a stream holds are approvals.
LEMMA HoldingTypes ==
    ASSUME TypeOK, NEW s \in Stream
    PROVE  Holding(s) \subseteq Approval
<1>1. pending[s] \subseteq Approval /\ intent[s] \in Approval \cup {None}
  BY DEF TypeOK
<1> QED
  BY <1>1 DEF Holding

\* At first nothing is asked, held or said.
LEMMA InvInit == Init => IInv
<1> SUFFICES ASSUME Init PROVE IInv
  OBVIOUS
<1>1. \A s \in Stream : Holding(s) = {}
  BY DEF Init, Holding
<1>2. AskingInv
  BY DEF Init, AskingInv, NotAsking
<1>3. \A s \in Stream : Len(queue[s]) = 0
  BY DEF Init
<1>4. QueueInv
  <2> SUFFICES ASSUME NEW s \in Stream, NEW i \in 1 .. Len(queue[s]) PROVE FALSE
    BY DEF QueueInv
  <2> QED
    BY <1>3
<1> QED
  BY <1>1, <1>2, <1>4 DEF Init, IInv, HoldingInv, EntriesInv, HeardInv, SaidInv

\* Steps that neither ask nor hold nor decide.
LEMMA QuietKeeps ==
    ASSUME IInv, UNCHANGED <<HeldVars, asking, entries, queue, fate, said>>,
           \A s \in Stream : /\ pc'[s] = "register" <=> pc[s] = "register"
                             /\ pc'[s] = "done" => pc[s] = "done"
    PROVE  IInv'
<1>1. \A s : Holding(s)' = Holding(s)
  BY DEF Holding, HeldVars
<1>2. AskingInv'
  BY DEF IInv, AskingInv, HeldVars
<1>3. HoldingInv'
  BY <1>1 DEF IInv, HoldingInv
<1>4. EntriesInv' /\ SaidInv'
  BY <1>1 DEF IInv, EntriesInv, SaidInv
<1>5. QueueInv' /\ HeardInv'
  BY <1>1 DEF IInv, QueueInv, HeardInv
<1> QED
  BY <1>2, <1>3, <1>4, <1>5 DEF IInv

\* To ask for a fresh approval.
LEMMA AskKeeps ==
    ASSUME TypeOK, IInv, NEW s \in Stream, InChunk(s), NEW by \in {"ag_ui", "a2ui"},
           AskFor(s, by), UNCHANGED <<HeldVars, entries, queue, fate, said>>,
           by = "ag_ui" \/ intent[s] = None
    PROVE  IInv'
<1>1. CASE UNCHANGED <<pc, asking>>
  BY <1>1, QuietKeeps
<1>2. CASE ~UNCHANGED <<pc, asking>>
  <2>1. PICK a \in Fresh : /\ asking' = [asking EXCEPT ![s] = [approval |-> a, by |-> by]]
                           /\ pc' = [pc EXCEPT ![s] = "register"]
    BY <1>2 DEF AskFor
  <2>2. /\ a \in Approval /\ a # None /\ fate[a] = "fresh"
        /\ \A t \in Stream : asking[t].approval # a
    BY <2>1, StreamAssumption DEF Fresh
  <2>3. /\ asking'[s].approval = a /\ asking'[s].by = by
        /\ \A t \in Stream : t # s => asking'[t] = asking[t] /\ pc'[t] = pc[t]
        /\ pc'[s] = "register" /\ pc[s] = "chunk"
    BY <2>1 DEF TypeOK, InChunk
  <2>4. AskingInv'
    BY <2>2, <2>3 DEF IInv, AskingInv, HeldVars
  <2>5. \A t : Holding(t)' = Holding(t)
    BY DEF Holding, HeldVars
  <2>6. HoldingInv'
    BY <2>3, <2>5 DEF IInv, HoldingInv
  <2>7. EntriesInv' /\ SaidInv'
    BY <2>5 DEF IInv, EntriesInv, SaidInv
  <2>8. QueueInv' /\ HeardInv'
    BY <2>5 DEF IInv, QueueInv, HeardInv
  <2> QED
    BY <2>4, <2>6, <2>7, <2>8 DEF IInv
<1> QED
  BY <1>1, <1>2

\* What register leaves: the asking stream holds the approval it asked for.
LEMMA RegisterFacts ==
    ASSUME TypeOK, IInv, NEW s \in Stream, Register(s)
    PROVE  LET a == asking[s].approval IN
           /\ a \in Approval /\ fate[a] = "fresh" /\ entries[a] = None /\ said[a] = "nothing"
           /\ \A t \in Stream : a \notin Holding(t)
           /\ Holding(s)' = Holding(s) \cup {a}
           /\ \A t \in Stream : t # s => Holding(t)' = Holding(t)
           /\ entries' = [entries EXCEPT ![a] = s]
           /\ fate' = [fate EXCEPT ![a] = "held"]
<1> DEFINE a == asking[s].approval
<1>1. a \in Approval /\ a # None /\ fate[a] = "fresh"
  <2>1. a \in Approval \cup {None}
    BY DEF TypeOK
  <2>2. a # None /\ fate[a] = "fresh"
    BY DEF IInv, AskingInv, Register
  <2> QED
    BY <2>1, <2>2
<1>2. entries[a] = None /\ said[a] = "nothing" /\ \A t \in Stream : a \notin Holding(t)
  BY <1>1 DEF IInv, EntriesInv, SaidInv, HoldingInv
<1>3. intent[s] # None => intent[s] # a
  BY <1>2 DEF Holding
<1>4. CASE asking[s].by = "ag_ui"
  <2>1. pending' = [pending EXCEPT ![s] = pending[s] \cup {a}] /\ intent' = intent
    BY <1>4 DEF Register
  <2>2. \A t \in Stream : t # s => Holding(t)' = Holding(t)
    BY <2>1 DEF TypeOK, Holding
  <2>3. Holding(s)' = Holding(s) \cup {a}
    BY <2>1 DEF TypeOK, Holding
  <2> QED
    BY <1>1, <1>2, <2>2, <2>3 DEF Register
<1>5. CASE asking[s].by # "ag_ui"
  <2>1. intent' = [intent EXCEPT ![s] = a] /\ pending' = pending
    BY <1>5 DEF Register
  <2>2. \A t \in Stream : t # s => Holding(t)' = Holding(t)
    BY <2>1 DEF TypeOK, Holding
  <2>3. Holding(s)' = Holding(s) \cup {a}
    <3>1. intent[s] = None
      BY <1>1, <1>5 DEF IInv, AskingInv
    <3> QED
      BY <1>1, <2>1, <3>1 DEF TypeOK, Holding
  <2> QED
    BY <1>1, <1>2, <2>2, <2>3 DEF Register
<1> QED
  BY <1>4, <1>5

\* Register: the approval was fresh, so nobody holds, queues or has decided it.
LEMMA RegisterKeeps ==
    ASSUME TypeOK, IInv, NEW s \in Stream, Register(s)
    PROVE  IInv'
<1> DEFINE a == asking[s].approval
<1>1. /\ a \in Approval /\ fate[a] = "fresh" /\ said[a] = "nothing"
      /\ \A t \in Stream : a \notin Holding(t)
      /\ Holding(s)' = Holding(s) \cup {a}
      /\ \A t \in Stream : t # s => Holding(t)' = Holding(t)
      /\ entries' = [entries EXCEPT ![a] = s]
      /\ fate' = [fate EXCEPT ![a] = "held"]
  BY RegisterFacts
<1>2. /\ fate'[a] = "held" /\ entries'[a] = s
      /\ \A b \in Approval : b # a => fate'[b] = fate[b] /\ entries'[b] = entries[b]
  BY <1>1 DEF TypeOK
<1>3. said' = said /\ queue' = queue
  BY DEF Register
<1>4. /\ asking'[s].approval = None
      /\ \A t \in Stream : t # s => asking'[t] = asking[t]
      /\ pc'[s] = "chunk" /\ pc[s] = "register"
      /\ \A t \in Stream : t # s => pc'[t] = pc[t]
  BY DEF TypeOK, Register, NotAsking
<1>5. AskingInv'
  <2>1. \A t \in Stream : t # s => asking[t].approval # a
    BY <1>1, StreamAssumption DEF IInv, AskingInv
  <2>2. \A t \in Stream : asking[t].approval \in Approval \cup {None}
    BY DEF TypeOK
  <2>3. \A t \in Stream : t # s => intent'[t] = intent[t]
    BY DEF TypeOK, Register
  <2> QED
    BY <1>2, <1>4, <2>1, <2>2, <2>3 DEF IInv, AskingInv
<1>6. HoldingInv'
  BY <1>1, <1>2, <1>4 DEF IInv, HoldingInv
<1>7. EntriesInv'
  <2> SUFFICES ASSUME NEW b \in Approval, entries'[b] # None
               PROVE  /\ fate'[b] # "fresh" /\ said'[b] = "nothing"
                      /\ fate'[b] = "held" => (b \in Holding(entries[b]))'
    BY DEF EntriesInv
  <2> DEFINE HeldBy(t) == b \in Holding(t)
  <2>1. CASE b = a
    <3>1. HeldBy(s)' /\ entries'[b] = s
      BY <1>1, <1>2, <2>1
    <3> QED
      BY <1>1, <1>2, <1>3, <2>1, <3>1
  <2>2. CASE b # a
    <3>1. entries[b] \in Stream /\ entries'[b] = entries[b]
      BY <1>2, <2>2 DEF TypeOK
    <3>2. \A t \in Stream : HeldBy(t) => HeldBy(t)'
      BY <1>1
    <3>3. HeldBy(entries[b]) => HeldBy(entries[b])'
      BY <3>1, <3>2
    <3> QED
      BY <1>2, <1>3, <2>2, <3>1, <3>3 DEF IInv, EntriesInv
  <2> QED BY <2>1, <2>2
<1>8. QueueInv' /\ SaidInv'
  BY <1>2, <1>3 DEF IInv, QueueInv, SaidInv
<1>9. HeardInv'
  BY <1>1, <1>3 DEF IInv, HeardInv
<1> QED
  BY <1>5, <1>6, <1>7, <1>8, <1>9 DEF IInv

\* The end of a task: what it held is dropped.
LEMMA FinishKeeps ==
    ASSUME TypeOK, IInv, NEW s \in Stream, Finish(s), pc[s] # "register"
    PROVE  IInv'
<1>1. /\ Holding(s)' = {}
      /\ \A t \in Stream : t # s => Holding(t)' = Holding(t)
  BY DEF TypeOK, Finish, Holding
<1>2. /\ entries' = entries /\ said' = said /\ asking' = asking
      /\ \A a \in Approval : fate'[a] = IF a \in Holding(s) THEN "dropped" ELSE fate[a]
  BY DEF Finish
<1>3. /\ pc'[s] = "done"
      /\ \A t \in Stream : t # s => pc'[t] = pc[t] /\ queue'[t] = queue[t]
      /\ queue'[s] = <<>>
  BY DEF TypeOK, Finish
<1>4. AskingInv'
  <2>1. \A t \in Stream : asking[t].approval \in Approval \cup {None}
    BY DEF TypeOK
  <2>2. \A t \in Stream : asking[t].approval # None =>
            asking[t].approval \notin Holding(s)
    BY <2>1 DEF IInv, AskingInv, HoldingInv
  <2>3. \A t \in Stream : intent'[t] = IF t = s THEN None ELSE intent[t]
    BY DEF TypeOK, Finish
  <2> QED
    BY <1>2, <1>3, <2>1, <2>2, <2>3 DEF IInv, AskingInv
<1>5. HoldingInv'
  BY <1>1, <1>2, <1>3 DEF IInv, HoldingInv
<1>6. EntriesInv'
  <2> SUFFICES ASSUME NEW a \in Approval, entries[a] # None
               PROVE  /\ fate'[a] # "fresh" /\ said[a] = "nothing"
                      /\ fate'[a] = "held" => a \in Holding(entries[a])'
    BY <1>2 DEF EntriesInv
  <2>1. entries[a] \in Stream
    BY DEF TypeOK
  <2> QED
    BY <1>1, <1>2, <2>1 DEF IInv, EntriesInv
<1>7. QueueInv'
  <2> SUFFICES ASSUME NEW t \in Stream, NEW i \in 1 .. Len(queue'[t])
               PROVE  LET m == queue'[t][i] IN
                      /\ m.decision = "approve" => said[m.approval] \in {"approve", "late approve"}
                      /\ m.decision = "deny" => said[m.approval] = "deny"
    BY <1>2 DEF QueueInv
  <2>1. t # s
    BY <1>3
  <2>2. queue'[t] = queue[t]
    BY <1>3, <2>1
  <2>3. i \in 1 .. Len(queue[t])
    BY <2>2
  <2> QED
    BY <2>2, <2>3 DEF IInv, QueueInv
<1>8. HeardInv' /\ SaidInv'
  BY <1>1, <1>2, <1>3 DEF IInv, HeardInv, SaidInv
<1> QED
  BY <1>4, <1>5, <1>6, <1>7, <1>8 DEF IInv

\* The janitor forgets entries, and touches nothing a stream knows.
LEMMA PurgeKeeps ==
    ASSUME TypeOK, IInv, Purge
    PROVE  IInv'
<1>1. \A t : Holding(t)' = Holding(t)
  BY DEF Purge, taskVars, Holding
<1>2. \A a \in Approval : entries'[a] # None => entries'[a] = entries[a]
  BY DEF Purge
<1>3. AskingInv' /\ HoldingInv'
  BY <1>1 DEF IInv, AskingInv, HoldingInv, Purge, taskVars
<1>4. EntriesInv' /\ SaidInv'
  BY <1>1, <1>2 DEF IInv, EntriesInv, SaidInv, Purge, taskVars
<1>5. QueueInv' /\ HeardInv'
  BY <1>1 DEF IInv, QueueInv, HeardInv, Purge, taskVars
<1> QED
  BY <1>3, <1>4, <1>5 DEF IInv

\* What resolve_approval leaves: all but what the queues tell.
LEMMA ResolveKeeps ==
    ASSUME TypeOK, IInv, NEW s \in Stream, NEW A \in SUBSET Holding(s),
           NEW decision \in {"approve", "deny"}, Resolve(s, A, decision),
           UNCHANGED <<pc, asking, entries, said>>
    PROVE  /\ Holding(s)' = Holding(s) \ A
           /\ \A t \in Stream : t # s => Holding(t)' = Holding(t)
           /\ \A a \in Approval : fate'[a] = IF a \notin A THEN fate[a]
                 ELSE IF decision = "approve" THEN "released" ELSE "denied"
           /\ AskingInv' /\ HoldingInv' /\ EntriesInv' /\ SaidInv'
<1>1. /\ pending' = [pending EXCEPT ![s] = pending[s] \ A]
      /\ intent' = [intent EXCEPT ![s] = IF intent[s] \in A THEN None ELSE intent[s]]
  BY DEF Resolve
<1>2. None \notin A
  BY HoldingTypes, StreamAssumption
<1>3. Holding(s)' = Holding(s) \ A
  <2>1. /\ pending'[s] = pending[s] \ A
        /\ intent'[s] = IF intent[s] \in A THEN None ELSE intent[s]
    BY <1>1 DEF TypeOK
  <2> QED
    BY <1>2, <2>1 DEF Holding
<1>4. \A t \in Stream : t # s => Holding(t)' = Holding(t)
  BY <1>1 DEF TypeOK, Holding
<1>5. \A a \in Approval : fate'[a] = IF a \notin A THEN fate[a]
                 ELSE IF decision = "approve" THEN "released" ELSE "denied"
  BY DEF Resolve
<1>6. \A a \in A : fate[a] = "held"
  BY HoldingTypes DEF IInv, HoldingInv
<1>7. AskingInv'
  <2>1. \A t \in Stream : asking[t].approval \in Approval \cup {None}
    BY DEF TypeOK
  <2>2. \A t \in Stream : asking[t].approval # None => fate'[asking[t].approval] = "fresh"
    BY <1>5, <1>6, <2>1 DEF IInv, AskingInv
  <2>3. \A t \in Stream : intent[t] = None => intent'[t] = None
    BY <1>1 DEF TypeOK
  <2> QED
    BY <2>2, <2>3 DEF IInv, AskingInv
<1>8. HoldingInv'
  BY <1>3, <1>4, <1>5 DEF IInv, HoldingInv
<1>9. EntriesInv'
  <2> SUFFICES ASSUME NEW b \in Approval, entries[b] # None
               PROVE  /\ fate'[b] # "fresh" /\ said[b] = "nothing"
                      /\ fate'[b] = "held" => (b \in Holding(entries[b]))'
    BY DEF EntriesInv
  <2> DEFINE HeldBy(t) == b \in Holding(t)
  <2>1. entries[b] \in Stream
    BY DEF TypeOK
  <2>2. fate'[b] = "held" => b \notin A
    BY <1>5
  <2>3. b \notin A => \A t \in Stream : HeldBy(t) => HeldBy(t)'
    BY <1>3, <1>4
  <2>4. fate'[b] = "held" /\ HeldBy(entries[b]) => HeldBy(entries[b])'
    BY <2>1, <2>2, <2>3
  <2> QED
    BY <1>5, <2>4 DEF IInv, EntriesInv
<1>10. SaidInv'
  BY <1>5 DEF IInv, SaidInv
<1> QED
  BY <1>3, <1>4, <1>5, <1>7, <1>8, <1>9, <1>10

\* The deadline: the queue is empty, so no timely approval is waiting.
LEMMA DenyAllKeeps ==
    ASSUME TypeOK, IInv, NEW s \in Stream, DenyAll(s)
    PROVE  IInv'
<1>1. /\ Holding(s)' = {}
      /\ \A t \in Stream : t # s => Holding(t)' = Holding(t)
      /\ AskingInv' /\ HoldingInv' /\ EntriesInv' /\ SaidInv'
  BY ResolveKeeps DEF DenyAll, managerVars
<1>2. queue' = queue /\ said' = said
  BY DEF DenyAll, managerVars
<1>3. QueueInv'
  BY <1>2 DEF IInv, QueueInv
<1>4. HeardInv'
  BY <1>1, <1>2 DEF IInv, HeardInv
<1> QED
  BY <1>1, <1>3, <1>4 DEF IInv

\* The head of the queue is resolved, the rest is still waiting.
LEMMA TakeDecisionKeeps ==
    ASSUME TypeOK, IInv, NEW s \in Stream, TakeDecision(s)
    PROVE  IInv'
<1> DEFINE m == Head(queue[s])
<1>1. queue[s] \in Seq(Message) /\ queue[s] # <<>>
  BY DEF TypeOK, TakeDecision
<1>2. /\ m \in Message /\ m = queue[s][1]
      /\ Len(Tail(queue[s])) = Len(queue[s]) - 1 /\ Len(queue[s]) \in Nat
      /\ \A i \in 1 .. Len(Tail(queue[s])) : Tail(queue[s])[i] = queue[s][i + 1]
  BY <1>1, HeadTailProperties
<1>3. /\ Holding(s)' = Holding(s) \ {m.approval}
      /\ \A t \in Stream : t # s => Holding(t)' = Holding(t)
      /\ AskingInv' /\ HoldingInv' /\ EntriesInv' /\ SaidInv'
  <2>1. Resolve(s, Holding(s) \cap {m.approval}, m.decision)
    BY DEF TakeDecision
  <2>2. m.decision \in {"approve", "deny"}
    BY <1>2 DEF Message
  <2>3. UNCHANGED <<pc, asking, entries, said>>
    BY DEF TakeDecision
  <2>4. Holding(s) \ (Holding(s) \cap {m.approval}) = Holding(s) \ {m.approval}
    OBVIOUS
  <2> QED
    BY <2>1, <2>2, <2>3, <2>4, ResolveKeeps
<1>4. /\ said' = said /\ queue'[s] = Tail(queue[s])
      /\ \A t \in Stream : t # s => queue'[t] = queue[t]
  BY DEF TypeOK, TakeDecision
<1>5. QueueInv'
  <2> SUFFICES ASSUME NEW t \in Stream, NEW i \in 1 .. Len(queue'[t])
               PROVE  LET n == queue'[t][i] IN
                      /\ n.decision = "approve" => said[n.approval] \in {"approve", "late approve"}
                      /\ n.decision = "deny" => said[n.approval] = "deny"
    BY <1>4 DEF QueueInv
  <2>1. PICK j \in 1 .. Len(queue[t]) : queue'[t][i] = queue[t][j]
    <3>1. CASE t = s
      <4>1. i \in 1 .. Len(Tail(queue[s])) /\ queue'[s][i] = Tail(queue[s])[i]
        BY <1>4, <3>1
      <4>2. i + 1 \in 1 .. Len(queue[s])
        BY <1>2, <4>1
      <4>3. queue'[s][i] = queue[s][i + 1]
        BY <1>2, <4>1
      <4> QED
        BY <3>1, <4>2, <4>3
    <3>2. CASE t # s
      BY <1>4, <3>2
    <3> QED BY <3>1, <3>2
  <2> QED
    BY <2>1 DEF IInv, QueueInv
<1>6. HeardInv'
  <2> SUFFICES ASSUME NEW t \in Stream, NEW a \in Approval, a \in Holding(t)', said[a] = "approve"
               PROVE  \E i \in 1 .. Len(queue'[t]) :
                         queue'[t][i] = [approval |-> a, decision |-> "approve"]
    BY <1>4 DEF HeardInv
  <2>1. a \in Holding(t)
    BY <1>3
  <2>2. PICK j \in 1 .. Len(queue[t]) : queue[t][j] = [approval |-> a, decision |-> "approve"]
    BY <2>1 DEF IInv, HeardInv
  <2>3. CASE t = s
    <3>1. a # m.approval
      BY <1>3, <2>3
    <3>2. j # 1
      BY <1>2, <2>2, <2>3, <3>1
    <3>3. j - 1 \in 1 .. Len(Tail(queue[s])) /\ (j - 1) + 1 = j
      BY <1>2, <2>3, <3>2
    <3>4. Tail(queue[s])[j - 1] = queue[s][j]
      BY <1>2, <3>3
    <3> QED
      BY <1>4, <2>2, <2>3, <3>3, <3>4
  <2>4. CASE t # s
    BY <1>4, <2>2, <2>4
  <2> QED BY <2>3, <2>4
<1> QED
  BY <1>3, <1>5, <1>6 DEF IInv

\* decide is answered Ok.
LEMMA DecideFacts ==
    ASSUME TypeOK, IInv, NEW k \in Caller, Decide(k), entries[deciding[k]] # None
    PROVE  \E m \in Message :
              LET a == m.approval
                  s == entries[a]
              IN
              /\ a \in Approval /\ s \in Stream
              /\ entries' = [entries EXCEPT ![a] = None]
              /\ queue' = IF pc[s] = "done" THEN queue ELSE [queue EXCEPT ![s] = Append(@, m)]
              /\ said' = [said EXCEPT ![a] = Told(s, m)]
              /\ said[a] = "nothing" /\ fate[a] # "fresh"
              /\ fate[a] = "held" => a \in Holding(s)
              /\ Told(s, m) = "deny" <=> m.decision = "deny"
              /\ Told(s, m) = "approve" => m.decision = "approve" /\ pc[s] # "done"
              /\ Told(s, m) \in {"approve", "late approve", "deny"}
<1>1. PICK m \in Message :
         /\ m.approval = deciding[k]
         /\ entries' = [entries EXCEPT ![deciding[k]] = None]
         /\ queue' = IF pc[entries[deciding[k]]] = "done" THEN queue
                     ELSE [queue EXCEPT ![entries[deciding[k]]] = Append(@, m)]
         /\ said' = [said EXCEPT ![deciding[k]] = Told(entries[deciding[k]], m)]
  BY DEF Decide
<1>2. m.approval \in Approval /\ m.decision \in {"approve", "deny"}
  BY DEF Message
<1>3. entries[m.approval] \in Stream
  BY <1>1, <1>2 DEF TypeOK
<1>4. /\ said[m.approval] = "nothing" /\ fate[m.approval] # "fresh"
      /\ fate[m.approval] = "held" => m.approval \in Holding(entries[m.approval])
  BY <1>1, <1>2 DEF IInv, EntriesInv
<1> DEFINE told == Told(entries[m.approval], m)
<1>5. /\ told = "deny" <=> m.decision = "deny"
      /\ told = "approve" => m.decision = "approve" /\ pc[entries[m.approval]] # "done"
      /\ told \in {"approve", "late approve", "deny"}
  BY <1>2 DEF Told, Late
<1> QED
  BY <1>1, <1>2, <1>3, <1>4, <1>5

\* The entry is still there, so nothing has been said of the approval.
LEMMA DecideKeeps ==
    ASSUME TypeOK, IInv, NEW k \in Caller, Decide(k)
    PROVE  IInv'
<1>1. CASE entries[deciding[k]] = None
  BY <1>1, QuietKeeps DEF Decide, taskVars, HeldVars
<1>2. CASE entries[deciding[k]] # None
  <2>1. PICK m \in Message :
              LET a == m.approval
                  s == entries[a]
              IN
              /\ a \in Approval /\ s \in Stream
              /\ entries' = [entries EXCEPT ![a] = None]
              /\ queue' = IF pc[s] = "done" THEN queue ELSE [queue EXCEPT ![s] = Append(@, m)]
              /\ said' = [said EXCEPT ![a] = Told(s, m)]
              /\ said[a] = "nothing" /\ fate[a] # "fresh"
              /\ fate[a] = "held" => a \in Holding(s)
              /\ Told(s, m) = "deny" <=> m.decision = "deny"
              /\ Told(s, m) = "approve" => m.decision = "approve" /\ pc[s] # "done"
              /\ Told(s, m) \in {"approve", "late approve", "deny"}
    BY <1>2, DecideFacts
  <2> DEFINE a == m.approval
  <2>2. PICK s \in Stream : s = entries[a]
    BY <2>1
  <2>3. /\ entries'[a] = None /\ said[a] = "nothing" /\ fate[a] # "fresh" /\ a \in Approval
        /\ \A b \in Approval : b # a => entries'[b] = entries[b] /\ said'[b] = said[b]
        /\ said'[a] = Told(s, m)
        /\ m.decision = "deny" => said'[a] = "deny"
        /\ m.decision = "approve" => said'[a] \in {"approve", "late approve"}
    BY <2>1, <2>2 DEF TypeOK
  <2>4. /\ UNCHANGED <<pc, calls, pending, intent, asking, fate>>
        /\ \A t : Holding(t)' = Holding(t)
    BY DEF Decide, taskVars, Holding
  <2>5. AskingInv' /\ HoldingInv'
    BY <2>4 DEF IInv, AskingInv, HoldingInv
  <2>6. EntriesInv'
    <3> SUFFICES ASSUME NEW b \in Approval, entries'[b] # None
                 PROVE  /\ fate[b] # "fresh" /\ said'[b] = "nothing"
                        /\ fate[b] = "held" => b \in Holding(entries[b])
      BY <2>3, <2>4 DEF EntriesInv
    <3> QED
      BY <2>3 DEF IInv, EntriesInv
  <2>7. SaidInv'
    BY <2>3, <2>4 DEF IInv, SaidInv
  <2>8. queue[s] \in Seq(Message) /\ Len(queue[s]) \in Nat
    <3>1. queue[s] \in Seq(Message)
      BY DEF TypeOK
    <3> QED
      BY <3>1, LenProperties
  <2>9. \A t \in Stream : \A i \in 1 .. Len(queue'[t]) :
            queue'[t][i] = m \/ (i \in 1 .. Len(queue[t]) /\ queue'[t][i] = queue[t][i])
    <3> SUFFICES ASSUME NEW t \in Stream, NEW i \in 1 .. Len(queue'[t])
                 PROVE  queue'[t][i] = m \/ (i \in 1 .. Len(queue[t]) /\ queue'[t][i] = queue[t][i])
      OBVIOUS
    <3>1. CASE queue'[t] = queue[t]
      BY <3>1
    <3>2. CASE t = s /\ queue'[t] = Append(queue[s], m)
      BY <2>8, <3>2, AppendProperties
    <3> QED
      BY <2>1, <2>2, <3>1, <3>2 DEF TypeOK
  <2>10. QueueInv'
    <3> SUFFICES ASSUME NEW t \in Stream, NEW i \in 1 .. Len(queue'[t])
                 PROVE  LET n == queue'[t][i] IN
                        /\ n.decision = "approve" => said'[n.approval] \in {"approve", "late approve"}
                        /\ n.decision = "deny" => said'[n.approval] = "deny"
      BY DEF QueueInv
    <3>1. CASE queue'[t][i] = m
      BY <2>3, <3>1
    <3>2. CASE i \in 1 .. Len(queue[t]) /\ queue'[t][i] = queue[t][i]
      <4> DEFINE n == queue[t][i]
      <4>1. n \in Message /\ n.approval \in Approval /\ n.decision \in {"approve", "deny"}
        <5>1. queue[t] \in Seq(Message)
          BY DEF TypeOK
        <5>2. n \in Message
          BY <3>2, <5>1, ElementOfSeq
        <5> QED
          BY <5>2 DEF Message
      <4>2. n.approval # a
        BY <2>3, <3>2, <4>1 DEF IInv, QueueInv
      <4> QED
        BY <2>3, <3>2, <4>1, <4>2 DEF IInv, QueueInv
    <3> QED
      BY <2>9, <3>1, <3>2
  <2>11. HeardInv'
    <3> SUFFICES ASSUME NEW t \in Stream, NEW b \in Approval, b \in Holding(t), said'[b] = "approve"
                 PROVE  \E i \in 1 .. Len(queue'[t]) :
                           queue'[t][i] = [approval |-> b, decision |-> "approve"]
      BY <2>4 DEF HeardInv
    <3>1. CASE b = a
      <4>1. fate[a] = "held" /\ a \in Holding(s) /\ t = s
        BY <2>1, <2>2, <3>1 DEF IInv, HoldingInv
      <4>2. m.decision = "approve" /\ pc[s] # "done"
        BY <2>1, <2>2, <2>3, <3>1
      <4>3. queue'[s] = Append(queue[s], m)
        BY <2>1, <2>2, <4>2 DEF TypeOK
      <4>4. m = [approval |-> b, decision |-> "approve"]
        BY <3>1, <4>2 DEF Message
      <4>5. /\ Len(queue'[s]) = Len(queue[s]) + 1
            /\ queue'[s][Len(queue[s]) + 1] = m
        BY <2>8, <4>3, AppendProperties
      <4>6. Len(queue[s]) + 1 \in 1 .. Len(queue'[s])
        BY <2>8, <4>5
      <4> QED
        BY <4>1, <4>4, <4>5, <4>6
    <3>2. CASE b # a
      <4>1. PICK j \in 1 .. Len(queue[t]) :
               queue[t][j] = [approval |-> b, decision |-> "approve"]
        BY <2>3, <3>2 DEF IInv, HeardInv
      <4>2. CASE queue'[t] = queue[t]
        BY <4>1, <4>2
      <4>3. CASE t = s /\ queue'[t] = Append(queue[s], m)
        <5>1. j \in 1 .. Len(queue'[t]) /\ queue'[t][j] = queue[t][j]
          BY <2>8, <4>1, <4>3, AppendProperties
        <5> QED
          BY <4>1, <5>1
      <4> QED
        BY <2>1, <2>2, <4>2, <4>3 DEF TypeOK
    <3> QED BY <3>1, <3>2
  <2> QED
    BY <2>5, <2>6, <2>7, <2>10, <2>11 DEF IInv
<1> QED
  BY <1>1, <1>2

\* Every step keeps the invariant.
LEMMA InvStep ==
    ASSUME TypeOK, IInv, [Next]_vars
    PROVE  IInv'
<1>1. ASSUME NEW s \in Stream, AskIntent(s) PROVE IInv'
  BY <1>1, AskKeeps DEF AskIntent, Unheld, managerVars, HeldVars
<1>2. ASSUME NEW s \in Stream, NEW c \in ToolCall, EndCall(s, c) PROVE IInv'
  <2>1. UNCHANGED <<HeldVars, entries, queue, fate, said>> /\ InChunk(s)
    BY <1>2 DEF EndCall, Unheld, managerVars, HeldVars
  <2>2. CASE AskFor(s, "ag_ui")
    BY <2>1, <2>2, AskKeeps
  <2>3. CASE UNCHANGED <<pc, asking>>
    BY <2>1, <2>3, QuietKeeps
  <2> QED
    BY <1>2, <2>2, <2>3 DEF EndCall
<1>3. ASSUME NEW s \in Stream, Register(s) PROVE IInv'
  BY <1>3, RegisterKeeps
<1>4. ASSUME NEW s \in Stream, Read(s) \/ EndChunk(s) PROVE IInv'
  <2>1. \A t \in Stream : /\ pc'[t] = "register" <=> pc[t] = "register"
                          /\ pc'[t] = "done" => pc[t] = "done"
    BY <1>4 DEF TypeOK, Read, EndChunk, Waits, InChunk
  <2> QED
    BY <1>4, <2>1, QuietKeeps DEF Read, EndChunk, Unheld, managerVars, HeldVars
<1>5. ASSUME NEW s \in Stream, EndStream(s) \/ Stop(s) PROVE IInv'
  BY <1>5, FinishKeeps DEF EndStream, Stop, InChunk, Waits
<1>6. ASSUME NEW s \in Stream, TakeDecision(s) PROVE IInv'
  BY <1>6, TakeDecisionKeeps
<1>7. ASSUME NEW s \in Stream, DenyAll(s) PROVE IInv'
  BY <1>7, DenyAllKeeps
<1>8. ASSUME NEW s \in Stream, NEW c \in ToolCall, StartCall(s, c) PROVE IInv'
  BY <1>8, QuietKeeps DEF StartCall, Unheld, managerVars, HeldVars
<1>9. ASSUME NEW k \in Caller, Decide(k) PROVE IInv'
  BY <1>9, DecideKeeps
<1>10. CASE Purge
  BY <1>10, PurgeKeeps
<1>11. CASE UNCHANGED <<taskVars, entries, queue, fate, said>>
  BY <1>11, QuietKeeps DEF taskVars, HeldVars
<1> QED
  BY <1>1, <1>2, <1>3, <1>4, <1>5, <1>6, <1>7, <1>8, <1>9, <1>10, <1>11, NextCases
  DEF Step, End, Peek, Tick, vars, taskVars, managerVars

\* The step of the promise that a step of the streams is.
LEMMA StepImplements ==
    ASSUME TypeOK, IInv, [Next]_vars
    PROVE  [Promise!Next]_(Promise!vars)
<1> USE DEF Promise!vars, Promise!Next
<1>1. CASE UNCHANGED <<fate, said>>
  BY <1>1
<1>2. ASSUME NEW s \in Stream, Register(s) PROVE Promise!Next
  <2>1. PICK a \in Approval : fate[a] = "fresh" /\ fate' = [fate EXCEPT ![a] = "held"]
    BY <1>2, RegisterFacts
  <2>2. said' = said
    BY <1>2 DEF Register
  <2>3. Promise!Hold(a)
    BY <2>1, <2>2 DEF Promise!Hold, Promise!Move
  <2> QED BY <2>3
<1>3. ASSUME NEW s \in Stream, Finish(s) PROVE Promise!Next
  <2>1. Promise!Drop(Holding(s))
    BY <1>3, HoldingTypes DEF Finish, Promise!Drop, IInv, HoldingInv
  <2>2. Holding(s) \in SUBSET Approval
    BY HoldingTypes
  <2> QED BY <2>1, <2>2
<1>4. ASSUME NEW s \in Stream, TakeDecision(s) PROVE [Promise!Next]_(Promise!vars)
  <2> DEFINE m == Head(queue[s])
             A == Holding(s) \cap {m.approval}
  <2>1. queue[s] \in Seq(Message) /\ queue[s] # <<>>
    BY <1>4 DEF TypeOK, TakeDecision
  <2>2. m \in Message /\ m = queue[s][1] /\ 1 \in 1 .. Len(queue[s])
    BY <2>1, HeadTailProperties, LenProperties
  <2>3. /\ m.approval \in Approval /\ m.decision \in {"approve", "deny"}
        /\ m.decision = "approve" => said[m.approval] \in {"approve", "late approve"}
        /\ m.decision = "deny" => said[m.approval] = "deny"
    BY <2>2 DEF Message, IInv, QueueInv
  <2>4. /\ fate' = [a \in Approval |->
              IF a \notin A THEN fate[a]
              ELSE IF m.decision = "approve" THEN "released" ELSE "denied"]
        /\ said' = said
    BY <1>4 DEF TakeDecision, Resolve
  <2>5. CASE m.approval \notin Holding(s)
    <3>1. fate' = fate
      BY <2>4, <2>5 DEF TypeOK
    <3> QED
      BY <2>4, <3>1
  <2>6. CASE m.approval \in Holding(s)
    <3>1. A = {m.approval} /\ fate[m.approval] = "held"
      BY <2>3, <2>6 DEF IInv, HoldingInv
    <3>2. CASE m.decision = "approve"
      <4>1. fate' = [fate EXCEPT ![m.approval] = "released"]
        BY <2>3, <2>4, <3>1, <3>2 DEF TypeOK
      <4>2. Promise!Release(m.approval)
        BY <2>3, <2>4, <3>1, <3>2, <4>1 DEF Promise!Release, Promise!Move
      <4> QED
        BY <2>3, <4>2
    <3>3. CASE m.decision = "deny"
      <4>1. fate' = [a \in Approval |-> IF a \in {m.approval} THEN "denied" ELSE fate[a]]
        BY <2>4, <3>1, <3>3
      <4>2. Promise!Deny({m.approval})
        BY <2>3, <2>4, <3>1, <3>3, <4>1 DEF Promise!Deny
      <4> QED
        BY <2>3, <4>2
    <3> QED
      BY <2>3, <3>2, <3>3
  <2> QED BY <2>5, <2>6
<1>5. ASSUME NEW s \in Stream, DenyAll(s) PROVE Promise!Next
  <2>1. \A a \in Holding(s) : fate[a] = "held"
    BY HoldingTypes DEF IInv, HoldingInv
  <2>2. \A a \in Holding(s) : said[a] # "approve"
    <3>1. Len(queue[s]) = 0
      BY <1>5 DEF DenyAll, HeardAll
    <3>2. \A i \in 1 .. Len(queue[s]) : FALSE
      BY <3>1
    <3> QED
      BY <3>2, HoldingTypes DEF IInv, HeardInv
  <2>3. /\ fate' = [a \in Approval |-> IF a \in Holding(s) THEN "denied" ELSE fate[a]]
        /\ said' = said
    BY <1>5 DEF DenyAll, Resolve, managerVars
  <2>4. Promise!Deny(Holding(s))
    BY <2>1, <2>2, <2>3 DEF Promise!Deny
  <2>5. Holding(s) \in SUBSET Approval
    BY HoldingTypes
  <2> QED BY <2>4, <2>5
<1>6. ASSUME NEW k \in Caller, Decide(k) PROVE [Promise!Next]_(Promise!vars)
  <2>1. fate' = fate
    BY <1>6 DEF Decide
  <2>2. CASE entries[deciding[k]] = None
    BY <1>6, <2>1, <2>2 DEF Decide
  <2>3. CASE entries[deciding[k]] # None
    <3>1. PICK a \in Approval, what \in {"approve", "late approve", "deny"} :
             /\ said[a] = "nothing" /\ fate[a] # "fresh"
             /\ said' = [said EXCEPT ![a] = what]
      BY <1>6, <2>3, DecideFacts
    <3>2. Promise!Say(a, what)
      BY <2>1, <3>1 DEF Promise!Say
    <3> QED BY <3>2
  <2> QED BY <2>2, <2>3
<1> QED
  BY <1>1, <1>2, <1>3, <1>4, <1>5, <1>6, NextCases
  DEF Step, EndStream, Stop, AskIntent, Read, EndChunk, End, StartCall, EndCall, Peek, Purge,
      Tick, Unheld, vars, managerVars

\* ImplementsApproval (middleware/pipeline.rs, forward_streaming_response, and
\* approval/mod.rs, decide): however many streams, callers, decisions, deadlines
\* and disconnections race, what is released was approved, a request is decided
\* once, and no deadline overtakes an approval that was given in time.
THEOREM Implements == Spec => ImplementsApproval
<1>1. Init => TypeOK /\ Asks /\ IInv
  BY InvInit, StreamAssumption DEF Init, TypeOK, NotAsking, Asks
<1>2. TypeOK /\ Asks /\ IInv /\ [Next]_vars => TypeOK' /\ Asks' /\ IInv'
  BY TypesKept, InvStep
<1>3. Init => Promise!Init
  BY DEF Init, Promise!Init
<1>4. TypeOK /\ IInv /\ [Next]_vars => [Promise!Next]_(Promise!vars)
  BY StepImplements
<1> QED
  BY <1>1, <1>2, <1>3, <1>4, PTL DEF Spec, ImplementsApproval, Promise!Spec

-----------------------------------------------------------------------------
(* Recursion up to a number. *)

Less == {p \in Nat \X Nat : p[1] < p[2]}

LEMMA LessIsWellFounded == IsWellFoundedOn(Less, Nat)
  <1>1. OpToRel(<, Nat) = Less
    BY DEF OpToRel, Less
  <1> QED
    BY <1>1, NatLessThanWellFounded

\* A set of natural numbers has a least one.
LEMMA LeastNatural ==
    ASSUME NEW S, S \subseteq Nat, S # {}
    PROVE  \E m \in S : \A k \in S : m <= k
  <1>1. PICK m \in S : \A k \in S : ~ (<<k, m>> \in Less)
    BY LessIsWellFounded, WFMin
  <1>2. ASSUME NEW k \in S PROVE m <= k
    <2>1. k \in Nat /\ m \in Nat
      OBVIOUS
    <2>2. ~ (<<k, m>> \in Less)
      BY <1>1
    <2>3. ~ (k < m)
      BY <2>1, <2>2 DEF Less
    <2> QED
      BY <2>1, <2>3
  <1> QED
    BY <1>2

\* Induction, as a statement about sets.
LEMMA InductionOnSets ==
    ASSUME NEW S, 0 \in S, \A n \in Nat : n \in S => n + 1 \in S
    PROVE  Nat \subseteq S
  <1> SUFFICES ASSUME Nat \ S # {} PROVE FALSE
    OBVIOUS
  <1>1. PICK m \in Nat \ S : \A k \in Nat \ S : m <= k
    BY LeastNatural
  <1>2. m # 0 /\ m - 1 \in Nat
    BY <1>1
  <1>3. m - 1 \in S
    BY <1>1, <1>2
  <1> QED
    BY <1>2, <1>3

\* Induction up to a bound.
LEMMA InductionUpTo ==
    ASSUME NEW n \in Nat, NEW S, 0 \in S, \A i \in 1 .. n : i - 1 \in S => i \in S
    PROVE  0 .. n \subseteq S
  <1> DEFINE T == {i \in Nat : i <= n => i \in S}
  <1>1. 0 \in T
    OBVIOUS
  <1>2. ASSUME NEW i \in Nat, i \in T PROVE i + 1 \in T
    <2> SUFFICES ASSUME i + 1 <= n PROVE i + 1 \in S
      OBVIOUS
    <2>1. i \in S /\ i + 1 \in 1 .. n /\ (i + 1) - 1 = i
      BY <1>2
    <2> QED
      BY <2>1
  <1>3. Nat \subseteq T
    BY <1>1, <1>2, InductionOnSets
  <1> QED
    BY <1>3

\* Recursion: what is defined step by step exists.
Exists(n, B, first, step) ==
    \E f \in [0 .. n -> B] :
        f[0] = first /\ \A i \in 1 .. n : f[i] = step[<<i, f[i - 1]>>]

LEMMA RecursionUpTo ==
    ASSUME NEW n \in Nat, NEW B, NEW first \in B, NEW step \in [(1 .. n) \X B -> B]
    PROVE  Exists(n, B, first, step)
  <1> DEFINE Upto(m, f) == /\ f \in [0 .. m -> B]
                           /\ f[0] = first
                           /\ \A i \in 1 .. m : f[i] = step[<<i, f[i - 1]>>]
             S == {m \in 0 .. n : \E f : Upto(m, f)}
  <1>1. 0 \in S
    <2> DEFINE base == [i \in 0 .. 0 |-> first]
    <2>1. base \in [0 .. 0 -> B] /\ base[0] = first
      OBVIOUS
    <2> HIDE DEF base
    <2>2. Upto(0, base)
      BY <2>1
    <2> QED
      BY <2>2
  <1>2. ASSUME NEW m \in 1 .. n, m - 1 \in S PROVE m \in S
    <2>1. PICK f : Upto(m - 1, f)
      BY <1>2
    <2> DEFINE last == step[<<m, f[m - 1]>>]
               g == [i \in 0 .. m |-> IF i = m THEN last ELSE f[i]]
    <2>2. f[m - 1] \in B /\ last \in B
      BY <2>1
    <2>3. g \in [0 .. m -> B]
      <3> HIDE DEF last
      <3> QED
        BY <2>1, <2>2
    <2>4. g[0] = first
      BY <2>1
    <2>5. ASSUME NEW i \in 1 .. m PROVE g[i] = step[<<i, g[i - 1]>>]
      <3>1. i - 1 \in 0 .. m /\ i - 1 # m /\ g[i - 1] = f[i - 1]
        OBVIOUS
      <3>2. CASE i = m
        BY <3>1, <3>2
      <3>3. CASE i # m
        <4>1. i \in 1 .. m - 1 /\ g[i] = f[i]
          BY <3>3
        <4> QED
          BY <2>1, <3>1, <4>1
      <3> QED
        BY <3>2, <3>3
    <2> HIDE DEF g
    <2>6. Upto(m, g)
      BY <2>3, <2>4, <2>5
    <2> QED
      BY <2>6
  <1>3. n \in S
    <2> HIDE DEF S
    <2>1. 0 .. n \subseteq S
      BY <1>1, <1>2, InductionUpTo
    <2> QED
      BY <2>1
  <1> QED
    BY <1>3 DEF Exists

-----------------------------------------------------------------------------
(* What a client reads.                                                    *)

LEMMA PieceFacts ==
    /\ Written!Eol \in Written!Piece /\ Written!Eol.kind = "eol"
    /\ \A k \in {"event", "field", "unjudged"} :
          /\ Written!Other(k) \in Written!Piece /\ Written!Other(k).kind = k
          /\ Written!Other(k) # Written!Eol
  BY FramesAssumption
  DEF Written!Eol, Written!Other, Written!Piece, Written!Event, Written!Meant

LEMMA FramePieces ==
    ASSUME NEW f \in Written!Frame
    PROVE  /\ \A k \in {"data", "raw"}, i \in 1 .. 2 :
                 /\ Written!Text(k, f, i) \in Written!Piece
                 /\ Written!Text(k, f, i).kind = k
                 /\ Written!Text(k, f, i).of = f.of /\ Written!Text(k, f, i).as = f.as
                 /\ Written!Text(k, f, i) # Written!Eol
           /\ Written!Data(f) = Written!Text("data", f, 1)
           /\ <<f.of, f.as>> \in Written!Event \X Written!Meant
           /\ f.rest \in Written!Rest
  BY DEF Written!Eol, Written!Text, Written!Data, Written!Piece, Written!Frame

LEMMA OneMore ==
    ASSUME NEW t
    PROVE  /\ Append(<<>>, t) = <<t>> /\ <<t>> # <<>>
           /\ Len(<<t>>) = 1 /\ <<t>>[1] = t
  OBVIOUS

LEMMA InThreeParts ==
    /\ \A s, t, u \in Seq(Written!Piece) : (s \o t) \o u = s \o (t \o u)
    /\ \A s, t, u \in Seq(Written!Frame) : (s \o t) \o u = s \o (t \o u)
  BY ConcatAssociative

LEMMA TwoInARow ==
    ASSUME NEW s, NEW t
    PROVE  <<s, t>> = <<s>> \o <<t>>
  <1> DEFINE S == {s, t}
             a == <<s>>
             b == <<t>>
             p == a \o b
             q == <<s, t>>
  <1>1. a \in Seq(S) /\ b \in Seq(S) /\ Len(a) = 1 /\ Len(b) = 1 /\ a[1] = s /\ b[1] = t
    OBVIOUS
  <1>2. q \in Seq(S) /\ Len(q) = 2 /\ q[1] = s /\ q[2] = t
    OBVIOUS
  <1> HIDE DEF a, b, q, S
  <1>3. p \in Seq(S) /\ Len(p) = 2 /\ p[1] = s /\ p[2] = t
    <2>1. /\ p \in Seq(S) /\ Len(p) = Len(a) + Len(b)
          /\ \A i \in 1 .. Len(a) + Len(b) :
                 p[i] = IF i <= Len(a) THEN a[i] ELSE b[i - Len(a)]
      BY <1>1, ConcatProperties
    <2>2. 1 + 1 = 2 /\ 1 \in 1 .. 2 /\ 2 \in 1 .. 2 /\ 1 <= 1 /\ ~ (2 <= 1) /\ 2 - 1 = 1
      OBVIOUS
    <2> HIDE DEF p
    <2> QED
      BY <1>1, <2>1, <2>2
  <1> HIDE DEF p
  <1>4. \A i \in 1 .. 2 : p[i] = q[i]
    BY <1>2, <1>3
  <1>5. p = q
    BY <1>2, <1>3, <1>4
  <1> QED
    BY <1>5 DEF p, a, b, q

LEMMA DataPiece ==
    ASSUME NEW f \in Written!Frame
    PROVE  /\ Written!Data(f) \in Written!Piece /\ Written!Data(f).kind = "data"
           /\ Written!Data(f) # Written!Eol
           /\ <<Written!Data(f)>> \in Seq(Written!Piece)
           /\ <<Written!Data(f), Written!Eol>> \in Seq(Written!Piece)
           /\ <<Written!Eol>> \in Seq(Written!Piece)
           /\ <<Written!Eol, Written!Eol>> \in Seq(Written!Piece)
  <1> DEFINE t == Written!Data(f)
             e == Written!Eol
  <1>1. t \in Written!Piece /\ t.kind = "data" /\ t # e
    <2>1. \A k \in {"data", "raw"}, i \in 1 .. 2 :
              /\ Written!Text(k, f, i) \in Written!Piece
              /\ Written!Text(k, f, i).kind = k
              /\ Written!Text(k, f, i) # Written!Eol
      BY FramePieces
    <2>2. t = Written!Text("data", f, 1)
      BY DEF Written!Data
    <2>3. "data" \in {"data", "raw"} /\ 1 \in 1 .. 2
      OBVIOUS
    <2> HIDE DEF t
    <2> QED
      BY <2>1, <2>2, <2>3
  <1>2. e \in Written!Piece
    BY PieceFacts
  <1> HIDE DEF t, e
  <1>3. <<t>> \in Seq(Written!Piece) /\ <<t, e>> \in Seq(Written!Piece)
    BY <1>1, <1>2
  <1>4. <<e>> \in Seq(Written!Piece) /\ <<e, e>> \in Seq(Written!Piece)
    BY <1>2
  <1> QED
    BY <1>1, <1>3, <1>4 DEF t, e

\* A piece of a line.
LEMMA TakePiece ==
    ASSUME NEW b \in BOOLEAN, NEW c \in Written!Reader, NEW t \in Written!Piece,
           t # Written!Eol
    PROVE  /\ Written!Take(b, c, t) \in Written!Reader
           /\ Written!Take(b, c, t).line = Append(c.line, t)
           /\ Written!Take(b, c, t).event = c.event
           /\ Written!Take(b, c, t).read = c.read
           /\ Written!Take(b, c, t).seen =
                 IF t.kind \in {"data", "raw"} THEN c.seen \cup {<<t.of, t.as>>} ELSE c.seen
  <1> DEFINE L == Seq(Written!Piece)
             E == Seq(L)
             R == Seq(E)
             S == SUBSET (Written!Event \X Written!Meant)
             seen == IF t.kind \in {"data", "raw"} THEN c.seen \cup {<<t.of, t.as>>} ELSE c.seen
             d == [c EXCEPT !.line = Append(c.line, t), !.seen = seen]
  <1>1. Append(c.line, t) \in L
    BY DEF Written!Reader
  <1>2. seen \in S
    BY DEF Written!Reader, Written!Piece
  <1>3. Written!Take(b, c, t) = d
    BY DEF Written!Take
  <1>4. c \in [line : L, event : E, read : R, seen : S]
    BY DEF Written!Reader
  <1>5. Written!Reader = [line : L, event : E, read : R, seen : S]
    BY DEF Written!Reader
  <1> HIDE DEF L, E, R, S, seen
  <1>6. /\ d \in [line : L, event : E, read : R, seen : S]
        /\ d.line = Append(c.line, t) /\ d.event = c.event /\ d.read = c.read
        /\ d.seen = seen
    BY <1>1, <1>2, <1>4
  <1> HIDE DEF d
  <1> QED
    BY <1>3, <1>5, <1>6 DEF seen

\* The end of a line.
LEMMA TakeEol ==
    ASSUME NEW b \in BOOLEAN, NEW c \in Written!Reader
    PROVE  LET d == Written!Take(b, c, Written!Eol)
               got == IF b THEN <<c.line>> ELSE c.event
           IN  /\ d \in Written!Reader
               /\ d.line = <<>> /\ d.seen = c.seen
               /\ c.line = <<>> \/ b =>
                     /\ d.event = <<>>
                     /\ got \in {<<>>, << <<>> >>} => d.read = c.read
                     /\ got \notin {<<>>, << <<>> >>} => d.read = Append(c.read, got)
               /\ c.line # <<>> /\ ~ b =>
                     /\ d.read = c.read
                     /\ d.event = IF c.line[1].kind \in {"data", "unjudged"}
                                  THEN Append(c.event, c.line) ELSE c.event
  <1> DEFINE L == Seq(Written!Piece)
             E == Seq(L)
             R == Seq(E)
             S == SUBSET (Written!Event \X Written!Meant)
             got == IF b THEN <<c.line>> ELSE c.event
             read == IF got \in {<<>>, << <<>> >>} THEN c.read ELSE Append(c.read, got)
             event == IF c.line[1].kind \in {"data", "unjudged"}
                      THEN Append(c.event, c.line) ELSE c.event
             d == Written!Take(b, c, Written!Eol)
             blank == [c EXCEPT !.line = <<>>, !.event = <<>>, !.read = read]
             full == [c EXCEPT !.line = <<>>, !.event = event]
  <1>1. d = IF c.line = <<>> \/ b THEN blank ELSE full
    BY DEF Written!Take, Written!EndLine
  <1>2. /\ c \in [line : L, event : E, read : R, seen : S]
        /\ Written!Reader = [line : L, event : E, read : R, seen : S]
    BY DEF Written!Reader
  <1>3. c.line \in L /\ c.event \in E /\ c.read \in R
    BY <1>2
  <1>4. <<>> \in L /\ <<>> \in E
    OBVIOUS
  <1>5. got \in E
    BY <1>3
  <1>6. event \in E
    BY <1>3
  <1>7. read \in R
    <2> HIDE DEF E, got
    <2> QED
      BY <1>3, <1>5
  <1> HIDE DEF L, E, R, S, read, event
  <1>8. /\ blank \in [line : L, event : E, read : R, seen : S]
        /\ blank.line = <<>> /\ blank.event = <<>> /\ blank.read = read /\ blank.seen = c.seen
    BY <1>2, <1>4, <1>7
  <1>9. /\ full \in [line : L, event : E, read : R, seen : S]
        /\ full.line = <<>> /\ full.event = event /\ full.read = c.read /\ full.seen = c.seen
    BY <1>2, <1>4, <1>6
  <1> HIDE DEF blank, full, d, got
  <1> QED
    BY <1>1, <1>2, <1>8, <1>9 DEF read, event, d, got

\* Whatever is taken.
LEMMA TakeAny ==
    ASSUME NEW b \in BOOLEAN, NEW c \in Written!Reader, NEW t \in Written!Piece
    PROVE  /\ Written!Take(b, c, t) \in Written!Reader
           /\ Written!Take(b, c, t).seen =
                 IF t.kind \in {"data", "raw"} THEN c.seen \cup {<<t.of, t.as>>} ELSE c.seen
  <1>1. CASE t = Written!Eol
    <2>1. /\ Written!Take(b, c, Written!Eol) \in Written!Reader
          /\ Written!Take(b, c, Written!Eol).seen = c.seen
      BY TakeEol
    <2>2. Written!Eol.kind = "eol"
      BY PieceFacts
    <2> QED
      BY <1>1, <2>1, <2>2
  <1>2. CASE t # Written!Eol
    BY <1>2, TakePiece
  <1> QED
    BY <1>1, <1>2

\* What is read of a text, piece by piece.
Runs(b, c, text, f) ==
    /\ f \in [0 .. Len(text) -> Written!Reader]
    /\ f[0] = c
    /\ \A i \in 1 .. Len(text) : f[i] = Written!Take(b, f[i - 1], text[i])

LEMMA RunsExist ==
    ASSUME NEW b \in BOOLEAN, NEW c \in Written!Reader, NEW text \in Seq(Written!Piece)
    PROVE  \E f : Runs(b, c, text, f)
  <1> DEFINE n == Len(text)
             B == Written!Reader
             next(i, d) == Written!Take(b, d, text[i])
             step == [p \in (1 .. n) \X B |-> next(p[1], p[2])]
  <1>1. n \in Nat /\ \A i \in 1 .. n : text[i] \in Written!Piece
    OBVIOUS
  <1>2. \A i \in 1 .. n : \A d \in B : next(i, d) \in B
    BY <1>1, TakePiece, TakeEol
  <1> HIDE DEF B, n, next
  <1>3. step \in [(1 .. n) \X B -> B]
    BY <1>2
  <1>4. \A i \in 1 .. n, d \in B : step[<<i, d>>] = next(i, d)
    OBVIOUS
  <1> HIDE DEF step
  <1>5. c \in B
    BY DEF B
  <1>6. Exists(n, B, c, step)
    BY <1>1, <1>3, <1>5, RecursionUpTo
  <1>7. PICK f \in [0 .. n -> B] : f[0] = c /\ \A i \in 1 .. n : f[i] = step[<<i, f[i - 1]>>]
    BY <1>6 DEF Exists
  <1>8. \A i \in 1 .. n : f[i] = next(i, f[i - 1])
    <2> SUFFICES ASSUME NEW i \in 1 .. n PROVE f[i] = next(i, f[i - 1])
      OBVIOUS
    <2>1. i - 1 \in 0 .. n
      BY <1>1
    <2> QED
      BY <1>4, <1>7, <2>1
  <1> QED
    BY <1>7, <1>8 DEF Runs, n, B, next

LEMMA RunsEnd ==
    ASSUME NEW b, NEW c, NEW text, Len(text) \in Nat, NEW f, Runs(b, c, text, f)
    PROVE  Written!Reads(b, c, text) = f[Len(text)]
  <1> DEFINE n == Len(text)
             Equals(g) == g = [i \in 0 .. n |->
                                  IF i = 0 THEN c ELSE Written!Take(b, g[i - 1], text[i])]
             u == CHOOSE g : Equals(g)
  <1>1. Written!Reads(b, c, text) = u[n]
    BY DEF Written!Reads
  <1>2. /\ n \in Nat
        /\ f \in [0 .. n -> Written!Reader] /\ f[0] = c
        /\ \A i \in 1 .. n : f[i] = Written!Take(b, f[i - 1], text[i])
    BY DEF Runs
  <1> HIDE DEF n
  <1>3. Equals(f)
    <2> DEFINE h == [i \in 0 .. n |-> IF i = 0 THEN c ELSE Written!Take(b, f[i - 1], text[i])]
    <2>1. \A i \in 0 .. n : h[i] = f[i]
      BY <1>2
    <2>2. DOMAIN h = 0 .. n
      OBVIOUS
    <2> QED
      BY <1>2, <2>1, <2>2
  <1>4. Equals(u)
    <2> HIDE DEF Equals
    <2> QED
      BY <1>3
  <1> HIDE DEF u
  <1>5. \A i \in 0 .. n : u[i] = f[i]
    <2> DEFINE S == {i \in 0 .. n : u[i] = f[i]}
    <2>1. 0 \in S
      BY <1>2, <1>4
    <2>2. ASSUME NEW i \in 1 .. n, i - 1 \in S PROVE i \in S
      <3>1. u[i] = Written!Take(b, u[i - 1], text[i])
        BY <1>2, <1>4
      <3> QED
        BY <1>2, <2>2, <3>1
    <2> HIDE DEF S
    <2>3. 0 .. n \subseteq S
      BY <1>2, <2>1, <2>2, InductionUpTo
    <2> QED
      BY <2>3 DEF S
  <1> QED
    BY <1>1, <1>2, <1>5 DEF n

LEMMA ReadsNone ==
    ASSUME NEW b \in BOOLEAN, NEW c \in Written!Reader
    PROVE  Written!Reads(b, c, <<>>) = c
  <1>1. <<>> \in Seq(Written!Piece) /\ Len(<<>>) = 0
    OBVIOUS
  <1>2. PICK f : Runs(b, c, <<>>, f)
    BY <1>1, RunsExist
  <1> QED
    BY <1>1, <1>2, RunsEnd DEF Runs

LEMMA ReadsOne ==
    ASSUME NEW b \in BOOLEAN, NEW c \in Written!Reader, NEW t \in Written!Piece
    PROVE  Written!Reads(b, c, <<t>>) = Written!Take(b, c, t)
  <1>1. <<t>> \in Seq(Written!Piece) /\ Len(<<t>>) = 1 /\ <<t>>[1] = t
    OBVIOUS
  <1>2. PICK f : Runs(b, c, <<t>>, f)
    BY <1>1, RunsExist
  <1>3. f[1] = Written!Take(b, f[1 - 1], <<t>>[1]) /\ f[0] = c
    BY <1>1, <1>2 DEF Runs
  <1>4. Len(<<t>>) \in Nat
    BY <1>1
  <1>5. Written!Reads(b, c, <<t>>) = f[Len(<<t>>)]
    BY <1>2, <1>4, RunsEnd
  <1>6. 1 - 1 = 0
    OBVIOUS
  <1> QED
    BY <1>1, <1>3, <1>5, <1>6

\* A text is read after another one.
LEMMA ReadsBoth ==
    ASSUME NEW b \in BOOLEAN, NEW c \in Written!Reader,
           NEW s \in Seq(Written!Piece), NEW t \in Seq(Written!Piece)
    PROVE  /\ Written!Reads(b, c, s) \in Written!Reader
           /\ Written!Reads(b, c, s \o t) = Written!Reads(b, Written!Reads(b, c, s), t)
  <1> DEFINE m == Len(s)
             k == Len(t)
             st == s \o t
  <1>1. /\ m \in Nat /\ k \in Nat
        /\ Len(st) = m + k
        /\ \A i \in 1 .. m : st[i] = s[i]
        /\ \A i \in 1 .. k : st[m + i] = t[i]
    OBVIOUS
  <1>2. PICK f : Runs(b, c, s, f)
    BY RunsExist
  <1>3. f \in [0 .. m -> Written!Reader] /\ f[m] = Written!Reads(b, c, s)
    <2>1. Written!Reads(b, c, s) = f[Len(s)]
      BY <1>1, <1>2, RunsEnd
    <2> QED
      BY <1>2, <2>1 DEF Runs
  <1>4. f[m] \in Written!Reader
    BY <1>1, <1>3
  <1>5. PICK g : Runs(b, f[m], t, g)
    BY <1>4, RunsExist
  <1>6. /\ g \in [0 .. k -> Written!Reader] /\ g[0] = f[m]
        /\ g[k] = Written!Reads(b, f[m], t)
        /\ \A i \in 1 .. k : g[i] = Written!Take(b, g[i - 1], t[i])
    <2>1. g[Len(t)] = Written!Reads(b, f[m], t)
      BY <1>1, <1>5, RunsEnd
    <2> HIDE DEF m
    <2> QED
      BY <1>5, <2>1 DEF Runs
  <1>7. /\ f[0] = c
        /\ \A i \in 1 .. m : f[i] = Written!Take(b, f[i - 1], s[i])
    BY <1>2 DEF Runs
  <1> DEFINE h == [i \in 0 .. m + k |-> IF i <= m THEN f[i] ELSE g[i - m]]
  <1> HIDE DEF m, k, st
  <1>8. /\ h \in [0 .. m + k -> Written!Reader]
        /\ \A i \in 0 .. m : h[i] = f[i]
        /\ \A i \in 0 .. k : h[m + i] = g[i]
    <2>1. \A i \in 0 .. m + k : i <= m => i \in 0 .. m
      BY <1>1
    <2>2. \A i \in 0 .. m + k : ~ (i <= m) => i - m \in 0 .. k
      BY <1>1
    <2>3. h \in [0 .. m + k -> Written!Reader]
      BY <1>3, <1>6, <2>1, <2>2
    <2>4. \A i \in 0 .. m : i \in 0 .. m + k /\ i <= m
      BY <1>1
    <2>5. \A i \in 0 .. k : m + i \in 0 .. m + k /\ (m + i) - m = i /\ (m + i <= m => i = 0)
      BY <1>1
    <2>6. \A i \in 0 .. k : h[m + i] = g[i]
      <3> SUFFICES ASSUME NEW i \in 0 .. k PROVE h[m + i] = g[i]
        OBVIOUS
      <3>1. CASE i = 0
        BY <1>1, <1>6, <3>1
      <3>2. CASE i # 0
        BY <2>5, <3>2
      <3> QED
        BY <3>1, <3>2
    <2> QED
      BY <2>3, <2>4, <2>6
  <1> HIDE DEF h
  <1>9. \A i \in 1 .. m + k : h[i] = Written!Take(b, h[i - 1], st[i])
    <2> SUFFICES ASSUME NEW i \in 1 .. m + k PROVE h[i] = Written!Take(b, h[i - 1], st[i])
      OBVIOUS
    <2>1. CASE i <= m
      <3>1. i \in 1 .. m /\ i - 1 \in 0 .. m /\ i \in 0 .. m
        BY <1>1, <2>1
      <3> QED
        BY <1>1, <1>7, <1>8, <3>1
    <2>2. CASE ~ (i <= m)
      <3>1. PICK j \in 1 .. k : i = m + j
        <4>1. i - m \in 1 .. k /\ i = m + (i - m)
          BY <1>1, <2>2
        <4> QED
          BY <4>1
      <3>2. j - 1 \in 0 .. k /\ j \in 0 .. k /\ i - 1 = m + (j - 1)
        BY <1>1, <3>1
      <3>3. h[i] = g[j] /\ h[i - 1] = g[j - 1] /\ st[i] = t[j]
        BY <1>1, <1>8, <3>1, <3>2
      <3> QED
        BY <1>6, <3>3
    <2> QED
      BY <2>1, <2>2
  <1>10. h[0] = c
    <2>1. 0 \in 0 .. m
      BY <1>1
    <2> QED
      BY <1>7, <1>8, <2>1
  <1>11. Runs(b, c, st, h)
    BY <1>1, <1>8, <1>9, <1>10 DEF Runs
  <1>12. Written!Reads(b, c, st) = h[m + k]
    BY <1>1, <1>11, RunsEnd
  <1>13. h[m + k] = g[k]
    BY <1>1, <1>8
  <1> QED
    BY <1>3, <1>4, <1>6, <1>12, <1>13 DEF st

LEMMA ReadsTwo ==
    ASSUME NEW b \in BOOLEAN, NEW c \in Written!Reader,
           NEW s \in Written!Piece, NEW t \in Written!Piece
    PROVE  Written!Reads(b, c, <<s, t>>) = Written!Take(b, Written!Take(b, c, s), t)
  <1> DEFINE S == <<s>>
             T == <<t>>
             d == Written!Take(b, c, s)
  <1>1. S \in Seq(Written!Piece) /\ T \in Seq(Written!Piece)
    OBVIOUS
  <1>6. <<s, t>> = S \o T
    BY TwoInARow
  <1>2. d \in Written!Reader
    BY TakeAny
  <1>3. Written!Reads(b, c, S) = d
    BY ReadsOne
  <1> HIDE DEF d
  <1>4. Written!Reads(b, d, T) = Written!Take(b, d, t)
    BY <1>2, ReadsOne
  <1> HIDE DEF S, T
  <1>5. Written!Reads(b, c, S \o T) = Written!Reads(b, d, T)
    BY <1>1, <1>3, ReadsBoth
  <1> QED
    BY <1>4, <1>5, <1>6 DEF d

\* What is seen of a text is of those it speaks of.
LEMMA ReadsSeen ==
    ASSUME NEW b \in BOOLEAN, NEW c \in Written!Reader, NEW text \in Seq(Written!Piece),
           NEW told, Written!Only(text, told)
    PROVE  Written!Reads(b, c, text).seen \subseteq c.seen \cup told
  <1> DEFINE n == Len(text)
             S == {i \in 0 .. n : TRUE}
  <1>1. n \in Nat /\ DOMAIN text = 1 .. n /\ \A i \in 1 .. n : text[i] \in Written!Piece
    OBVIOUS
  <1>2. PICK f : Runs(b, c, text, f)
    BY RunsExist
  <1>3. /\ f \in [0 .. n -> Written!Reader] /\ f[0] = c
        /\ f[n] = Written!Reads(b, c, text)
        /\ \A i \in 1 .. n : f[i] = Written!Take(b, f[i - 1], text[i])
    BY <1>1, <1>2, RunsEnd DEF Runs
  <1> HIDE DEF n
  <1> DEFINE T == {i \in 0 .. n : f[i].seen \subseteq c.seen \cup told}
  <1>4. 0 \in T
    BY <1>1, <1>3
  <1>5. ASSUME NEW i \in 1 .. n, i - 1 \in T PROVE i \in T
    <2>1. f[i - 1] \in Written!Reader /\ f[i - 1].seen \subseteq c.seen \cup told
      BY <1>1, <1>3, <1>5
    <2>2. f[i].seen = IF text[i].kind \in {"data", "raw"}
                      THEN f[i - 1].seen \cup {<<text[i].of, text[i].as>>} ELSE f[i - 1].seen
      <3>1. f[i] = Written!Take(b, f[i - 1], text[i]) /\ text[i] \in Written!Piece
        BY <1>1, <1>3
      <3> DEFINE x == f[i - 1]
                 y == f[i]
                 t == text[i]
      <3>2. y = Written!Take(b, x, t) /\ t \in Written!Piece /\ x \in Written!Reader
        BY <2>1, <3>1
      <3> HIDE DEF x, y, t
      <3>3. y.seen = IF t.kind \in {"data", "raw"}
                     THEN x.seen \cup {<<t.of, t.as>>} ELSE x.seen
        BY <3>2, TakeAny
      <3> QED
        BY <3>3 DEF x, y, t
    <2>3. text[i].kind \in {"data", "raw"} => <<text[i].of, text[i].as>> \in told
      BY <1>1 DEF Written!Only
    <2>4. f[i].seen \subseteq c.seen \cup told
      BY <2>1, <2>2, <2>3
    <2> QED
      BY <1>1, <2>4
  <1> HIDE DEF T
  <1>6. 0 .. n \subseteq T
    BY <1>1, <1>4, <1>5, InductionUpTo
  <1> QED
    BY <1>1, <1>3, <1>6 DEF T
-----------------------------------------------------------------------------
(* What is written of frames.                                              *)

LEMMA OnlyBoth ==
    ASSUME NEW s \in Seq(Written!Piece), NEW t \in Seq(Written!Piece), NEW told,
           Written!Only(s, told), Written!Only(t, told)
    PROVE  s \o t \in Seq(Written!Piece) /\ Written!Only(s \o t, told)
  <1> DEFINE m == Len(s)
             k == Len(t)
             st == s \o t
  <1>1. /\ m \in Nat /\ k \in Nat /\ DOMAIN s = 1 .. m /\ DOMAIN t = 1 .. k
        /\ DOMAIN st = 1 .. m + k /\ st \in Seq(Written!Piece)
        /\ \A i \in 1 .. m : st[i] = s[i]
        /\ \A i \in 1 .. k : st[m + i] = t[i]
    OBVIOUS
  <1> HIDE DEF m, k, st
  <1>2. ASSUME NEW i \in DOMAIN st, st[i].kind \in {"data", "raw"}
        PROVE  <<st[i].of, st[i].as>> \in told
    <2>1. CASE i \in 1 .. m
      BY <1>1, <1>2, <2>1 DEF Written!Only
    <2>2. CASE i \notin 1 .. m
      <3>1. i - m \in 1 .. k /\ i = m + (i - m)
        BY <1>1, <2>2
      <3>2. st[i] = t[i - m]
        BY <1>1, <3>1
      <3> QED
        BY <1>1, <1>2, <3>1, <3>2 DEF Written!Only
    <2> QED
      BY <2>1, <2>2
  <1> QED
    BY <1>1, <1>2 DEF Written!Only, st

\* A piece may stand in a text that speaks of these only.
Fits(t, told) == t.kind \in {"data", "raw"} => <<t.of, t.as>> \in told

LEMMA ShortTexts ==
    ASSUME NEW told,
           NEW s \in Written!Piece, Fits(s, told), NEW t \in Written!Piece, Fits(t, told)
    PROVE  /\ <<>> \in Seq(Written!Piece) /\ Written!Only(<<>>, told)
           /\ <<s>> \in Seq(Written!Piece) /\ Written!Only(<<s>>, told)
           /\ <<s, t>> \in Seq(Written!Piece) /\ Written!Only(<<s, t>>, told)
  <1>1. <<>> \in Seq(Written!Piece) /\ DOMAIN <<>> = {}
    OBVIOUS
  <1>2. <<s>> \in Seq(Written!Piece) /\ DOMAIN <<s>> = {1} /\ <<s>>[1] = s
    OBVIOUS
  <1>3. /\ <<s, t>> \in Seq(Written!Piece) /\ DOMAIN <<s, t>> = {1, 2}
        /\ <<s, t>>[1] = s /\ <<s, t>>[2] = t
    OBVIOUS
  <1>4. Written!Only(<<>>, told)
    BY <1>1 DEF Written!Only
  <1>5. Written!Only(<<s>>, told)
    BY <1>2 DEF Written!Only, Fits
  <1>6. Written!Only(<<s, t>>, told)
    BY <1>3 DEF Written!Only, Fits
  <1> QED
    BY <1>1, <1>2, <1>3, <1>4, <1>5, <1>6

\* Texts in a row, text by text.
Rows(texts, g) ==
    /\ g \in [0 .. Len(texts) -> Seq(Written!Piece)]
    /\ g[0] = <<>>
    /\ \A i \in 1 .. Len(texts) : g[i] = g[i - 1] \o texts[i]

LEMMA RowsInSteps ==
    ASSUME NEW texts \in Seq(Seq(Written!Piece))
    PROVE  \E g : Rows(texts, g) /\ Written!InARow(texts) = g[Len(texts)]
  <1> DEFINE n == Len(texts)
             B == Seq(Written!Piece)
             next(i, q) == q \o texts[i]
             step == [p \in (1 .. n) \X B |-> next(p[1], p[2])]
             Equals(g) == g = [i \in 0 .. n |-> IF i = 0 THEN <<>> ELSE g[i - 1] \o texts[i]]
             u == CHOOSE g : Equals(g)
  <1>1. n \in Nat /\ \A i \in 1 .. n : texts[i] \in B
    OBVIOUS
  <1>2. \A i \in 1 .. n : \A q \in B : next(i, q) \in B
    BY <1>1
  <1>3. <<>> \in B
    OBVIOUS
  <1>4. Written!InARow(texts) = u[n]
    BY DEF Written!InARow
  <1> HIDE DEF B, n
  <1>5. PICK g \in [0 .. n -> B] : g[0] = <<>> /\ \A i \in 1 .. n : g[i] = g[i - 1] \o texts[i]
    <2> HIDE DEF next
    <2>1. step \in [(1 .. n) \X B -> B]
      BY <1>2
    <2>2. \A i \in 1 .. n, q \in B : step[<<i, q>>] = next(i, q)
      OBVIOUS
    <2> HIDE DEF step
    <2>3. Exists(n, B, <<>>, step)
      BY <1>1, <1>3, <2>1, RecursionUpTo
    <2>4. PICK g \in [0 .. n -> B] :
              g[0] = <<>> /\ \A i \in 1 .. n : g[i] = step[<<i, g[i - 1]>>]
      BY <2>3 DEF Exists
    <2>5. ASSUME NEW i \in 1 .. n PROVE g[i] = next(i, g[i - 1])
      <3>1. i - 1 \in 0 .. n
        BY <1>1
      <3> QED
        BY <2>2, <2>4, <3>1
    <2> QED
      BY <2>4, <2>5 DEF next
  <1>6. Equals(g)
    <2> DEFINE h == [i \in 0 .. n |-> IF i = 0 THEN <<>> ELSE g[i - 1] \o texts[i]]
    <2>1. ASSUME NEW i \in 0 .. n PROVE h[i] = g[i]
      <3>1. CASE i = 0
        BY <1>5, <3>1
      <3>2. CASE i # 0
        <4>1. i \in 1 .. n
          BY <1>1, <3>2
        <4>2. h[i] = g[i - 1] \o texts[i]
          BY <3>2
        <4> QED
          BY <1>5, <4>1, <4>2
      <3> QED
        BY <3>1, <3>2
    <2>2. DOMAIN h = 0 .. n
      OBVIOUS
    <2> QED
      BY <1>5, <2>1, <2>2
  <1>7. Equals(u)
    <2> HIDE DEF Equals
    <2> QED
      BY <1>6
  <1> HIDE DEF u
  <1>8. \A i \in 0 .. n : u[i] = g[i]
    <2> DEFINE S == {i \in 0 .. n : u[i] = g[i]}
    <2>1. 0 \in S
      BY <1>1, <1>5, <1>7
    <2>2. ASSUME NEW i \in 1 .. n, i - 1 \in S PROVE i \in S
      <3>1. u[i] = u[i - 1] \o texts[i]
        <4>1. i \in 0 .. n /\ i # 0
          BY <1>1
        <4> DEFINE v == [j \in 0 .. n |-> IF j = 0 THEN <<>> ELSE u[j - 1] \o texts[j]]
        <4>2. v[i] = u[i - 1] \o texts[i]
          BY <4>1
        <4>3. u = v
          BY <1>7
        <4> QED
          BY <4>2, <4>3
      <3>2. g[i] = g[i - 1] \o texts[i]
        BY <1>5
      <3>3. u[i - 1] = g[i - 1]
        BY <2>2
      <3>4. i \in 0 .. n
        BY <1>1
      <3> QED
        BY <3>1, <3>2, <3>3, <3>4
    <2> HIDE DEF S
    <2>3. 0 .. n \subseteq S
      BY <1>1, <2>1, <2>2, InductionUpTo
    <2> QED
      BY <2>3 DEF S
  <1>9. u[n] = g[n]
    BY <1>1, <1>8
  <1> QED
    BY <1>4, <1>5, <1>9 DEF Rows, n, B

LEMMA RowOnly ==
    ASSUME NEW texts \in Seq(Seq(Written!Piece)), NEW told,
           \A i \in 1 .. Len(texts) : Written!Only(texts[i], told)
    PROVE  /\ Written!InARow(texts) \in Seq(Written!Piece)
           /\ Written!Only(Written!InARow(texts), told)
  <1> DEFINE n == Len(texts)
  <1>1. n \in Nat /\ \A i \in 1 .. n : texts[i] \in Seq(Written!Piece)
    OBVIOUS
  <1>2. PICK g : Rows(texts, g) /\ Written!InARow(texts) = g[n]
    BY RowsInSteps
  <1>3. /\ g \in [0 .. n -> Seq(Written!Piece)] /\ g[0] = <<>>
        /\ \A i \in 1 .. n : g[i] = g[i - 1] \o texts[i]
    BY <1>2 DEF Rows
  <1>4. \A i \in 1 .. n : Written!Only(texts[i], told)
    OBVIOUS
  <1> HIDE DEF n
  <1> DEFINE S == {i \in 0 .. n : Written!Only(g[i], told)}
  <1>5. 0 \in S
    BY <1>1, <1>3 DEF Written!Only
  <1>6. ASSUME NEW i \in 1 .. n, i - 1 \in S PROVE i \in S
    <2>1. g[i - 1] \in Seq(Written!Piece) /\ Written!Only(g[i - 1], told)
      BY <1>1, <1>3, <1>6
    <2>2. Written!Only(g[i - 1] \o texts[i], told)
      BY <1>1, <1>4, <2>1, OnlyBoth
    <2>3. g[i] = g[i - 1] \o texts[i]
      BY <1>3
    <2>4. i \in 0 .. n
      BY <1>1
    <2> QED
      BY <2>2, <2>3, <2>4
  <1> HIDE DEF S
  <1>7. 0 .. n \subseteq S
    BY <1>1, <1>5, <1>6, InductionUpTo
  <1> QED
    BY <1>1, <1>2, <1>3, <1>7 DEF S

\* The text of a frame, in the parts it is read by.
NameLine(name) == IF name = <<>> THEN <<>> ELSE name \o <<Written!Eol>>
Blank == <<Written!Eol, Written!Eol>>

LEMMA NameFacts ==
    /\ <<>> \in Written!Plain /\ Written!Plain \subseteq Written!Names
    /\ \A name \in Written!Names : \A frames, i :
          Written!NameOf(i, frames, name) \in Written!Names
    /\ \A name \in Written!Plain : \A frames, i :
          Written!NameOf(i, frames, name) \in Written!Plain
    /\ \A name \in Written!Plain :
          NameLine(name) \in {<<>>, <<Written!Other("event"), Written!Eol>>}
    /\ \A name \in Written!Names : \A told :
          NameLine(name) \in Seq(Written!Piece) /\ Written!Only(NameLine(name), told)
  <1> DEFINE e == Written!Other("event")
             l == Written!Eol
             u == Written!Unjudged
             long == <<e, l, u>>
  <1>1. <<>> \in Written!Plain /\ Written!Plain \subseteq Written!Names
    BY DEF Written!Plain, Written!Names
  <1>2. /\ e \in Written!Piece /\ e.kind = "event" /\ l \in Written!Piece /\ l.kind = "eol"
        /\ u \in Written!Piece /\ u.kind = "unjudged"
    BY PieceFacts DEF Written!Unjudged
  <1>3. Written!Plain = {<<>>, <<e>>} /\ Written!Names = {<<>>, <<e>>, long}
    BY DEF Written!Plain, Written!Names
  <1> HIDE DEF e, l, u
  <1>4. <<e>> # <<>> /\ long # <<>>
    OBVIOUS
  <1>5. <<e>> \o <<l>> = <<e, l>>
    BY TwoInARow
  <1>6. NameLine(<<>>) = <<>> /\ NameLine(<<e>>) = <<e, l>> /\ NameLine(long) = long \o <<l>>
    BY <1>4, <1>5 DEF NameLine, l
  <1>7. ASSUME NEW told
        PROVE  /\ <<>> \in Seq(Written!Piece) /\ Written!Only(<<>>, told)
               /\ <<e, l>> \in Seq(Written!Piece) /\ Written!Only(<<e, l>>, told)
               /\ long \o <<l>> \in Seq(Written!Piece) /\ Written!Only(long \o <<l>>, told)
    <2>1. Fits(e, told) /\ Fits(l, told)
      BY <1>2 DEF Fits
    <2>2. /\ long \in Seq(Written!Piece) /\ DOMAIN long = 1 .. 3
          /\ long[1] = e /\ long[2] = l /\ long[3] = u
      BY <1>2
    <2> HIDE DEF long
    <2>3. Written!Only(long, told)
      BY <1>2, <2>2 DEF Written!Only
    <2>4. /\ <<>> \in Seq(Written!Piece) /\ Written!Only(<<>>, told)
          /\ <<l>> \in Seq(Written!Piece) /\ Written!Only(<<l>>, told)
          /\ <<e, l>> \in Seq(Written!Piece) /\ Written!Only(<<e, l>>, told)
      BY <1>2, <2>1, ShortTexts
    <2> QED
      BY <2>2, <2>3, <2>4, OnlyBoth
  <1> HIDE DEF long
  <1>8. /\ \A name \in Written!Names : \A frames, i :
              Written!NameOf(i, frames, name) \in Written!Names
        /\ \A name \in Written!Plain : \A frames, i :
              Written!NameOf(i, frames, name) \in Written!Plain
    BY <1>1 DEF Written!NameOf
  <1>9. \A name \in Written!Plain : NameLine(name) \in {<<>>, <<e, l>>}
    BY <1>3, <1>6
  <1>10. \A name \in Written!Names : \A told :
            NameLine(name) \in Seq(Written!Piece) /\ Written!Only(NameLine(name), told)
    BY <1>3, <1>6, <1>7
  <1> QED
    BY <1>1, <1>8, <1>9, <1>10 DEF e, l

LEMMA AfterFacts ==
    ASSUME NEW f \in Written!Frame, NEW told, <<f.of, f.as>> \in told
    PROVE  /\ Written!After(f) \in Seq(Written!Piece) /\ Written!Only(Written!After(f), told)
           /\ f.rest = "none" => Written!After(f) = <<>>
  <1> DEFINE l == Written!Eol
             raw == Written!Text("raw", f, 2)
             data == Written!Text("data", f, 2)
             more == [none |-> <<>>, raw |-> <<l, raw>>, data |-> <<l, data>>,
                      event |-> <<l, l, data>>]
  <1>1. l \in Written!Piece /\ l.kind = "eol" /\ Fits(l, told)
    BY PieceFacts DEF Fits
  <1>2. /\ raw \in Written!Piece /\ Fits(raw, told)
        /\ data \in Written!Piece /\ Fits(data, told)
    BY FramePieces DEF Fits
  <1>3. f.rest \in {"none", "raw", "data", "event"}
    BY FramePieces DEF Written!Rest
  <1>4. Written!After(f) = more[f.rest]
    BY DEF Written!After
  <1> HIDE DEF l, raw, data
  <1>5. /\ f.rest = "none" => Written!After(f) = <<>>
        /\ f.rest = "raw" => Written!After(f) = <<l, raw>>
        /\ f.rest = "data" => Written!After(f) = <<l, data>>
        /\ f.rest = "event" => Written!After(f) = <<l, l, data>>
    BY <1>4
  <1>6. /\ <<>> \in Seq(Written!Piece) /\ Written!Only(<<>>, told)
        /\ <<l, raw>> \in Seq(Written!Piece) /\ Written!Only(<<l, raw>>, told)
        /\ <<l, data>> \in Seq(Written!Piece) /\ Written!Only(<<l, data>>, told)
    BY <1>1, <1>2, ShortTexts
  <1> DEFINE long == <<l, l, data>>
  <1>7. /\ long \in Seq(Written!Piece) /\ DOMAIN long = 1 .. 3
        /\ long[1] = l /\ long[2] = l /\ long[3] = data
    BY <1>1, <1>2
  <1> HIDE DEF long, more
  <1>8. Written!Only(long, told)
    BY <1>1, <1>2, <1>7 DEF Written!Only, Fits
  <1> QED
    BY <1>3, <1>5, <1>6, <1>7, <1>8 DEF long

LEMMA Parts ==
    ASSUME NEW f \in Written!Frame, NEW told, <<f.of, f.as>> \in told
    PROVE  /\ <<Written!Data(f)>> \in Seq(Written!Piece)
           /\ Written!Only(<<Written!Data(f)>>, told)
           /\ Written!After(f) \in Seq(Written!Piece) /\ Written!Only(Written!After(f), told)
           /\ Blank \in Seq(Written!Piece) /\ Written!Only(Blank, told)
           /\ <<Written!Data(f), Written!Eol>> \in Seq(Written!Piece)
           /\ Written!Only(<<Written!Data(f), Written!Eol>>, told)
  <1>1. Written!Eol \in Written!Piece /\ Fits(Written!Eol, told)
    BY PieceFacts DEF Fits
  <1>2. Written!Data(f) \in Written!Piece /\ Fits(Written!Data(f), told)
    BY FramePieces DEF Fits
  <1>3. Written!After(f) \in Seq(Written!Piece) /\ Written!Only(Written!After(f), told)
    BY AfterFacts
  <1> QED
    BY <1>1, <1>2, <1>3, ShortTexts DEF Blank

LEMMA BodyIsText ==
    ASSUME NEW f \in Written!Frame, NEW name \in Written!Names, NEW told, <<f.of, f.as>> \in told
    PROVE  /\ Written!Body(f, name) \in Seq(Written!Piece)
           /\ Written!Only(Written!Body(f, name), told)
           /\ Written!Body(f, name) = (NameLine(name) \o <<Written!Data(f)>>) \o Written!After(f)
  <1>1. Written!Body(f, name) = (NameLine(name) \o <<Written!Data(f)>>) \o Written!After(f)
    BY DEF Written!Body, NameLine
  <1>2. /\ NameLine(name) \o <<Written!Data(f)>> \in Seq(Written!Piece)
        /\ Written!Only(NameLine(name) \o <<Written!Data(f)>>, told)
    <2>1. NameLine(name) \in Seq(Written!Piece) /\ Written!Only(NameLine(name), told)
      BY NameFacts
    <2> QED
      BY <2>1, Parts, OnlyBoth
  <1>3. Written!After(f) \in Seq(Written!Piece) /\ Written!Only(Written!After(f), told)
    BY Parts
  <1> QED
    BY <1>1, <1>2, <1>3, OnlyBoth

\* The texts that are joined.
Pieces(frames, name) ==
    [i \in DOMAIN frames |->
        Written!Body(frames[i], Written!NameOf(i, frames, name))
            \o (IF i < Len(frames) THEN Blank ELSE <<>>)]

LEMMA PiecesAreTexts ==
    ASSUME NEW frames \in Seq(Written!Frame), NEW name \in Written!Names
    PROVE  /\ Pieces(frames, name) \in Seq(Seq(Written!Piece))
           /\ Len(Pieces(frames, name)) = Len(frames)
           /\ \A i \in 1 .. Len(frames) :
                 Written!Only(Pieces(frames, name)[i], Written!Tells(frames))
           /\ Written!Joined(frames, name) = Written!InARow(Pieces(frames, name))
  <1> DEFINE n == Len(frames)
             told == Written!Tells(frames)
             e(i) == Written!Body(frames[i], Written!NameOf(i, frames, name)) \o (IF i < n THEN Blank ELSE <<>>)
             ps == [i \in 1 .. n |-> e(i)]
  <1>1. n \in Nat /\ DOMAIN frames = 1 .. n /\ \A i \in 1 .. n : frames[i] \in Written!Frame
    OBVIOUS
  <1>2. \A i \in 1 .. n : <<frames[i].of, frames[i].as>> \in told
    BY <1>1 DEF Written!Tells
  <1>3. Pieces(frames, name) = ps
    BY <1>1 DEF Pieces
  <1>4. Written!Joined(frames, name) = Written!InARow(ps)
    BY <1>1 DEF Written!Joined, Blank
  <1> HIDE DEF n, told
  <1>5. ASSUME NEW i \in 1 .. n PROVE e(i) \in Seq(Written!Piece) /\ Written!Only(e(i), told)
    <2> DEFINE body == Written!Body(frames[i], Written!NameOf(i, frames, name))
               tail == IF i < n THEN Blank ELSE <<>>
    <2>1. body \in Seq(Written!Piece) /\ Written!Only(body, told)
      <3>1. Written!NameOf(i, frames, name) \in Written!Names
        BY NameFacts
      <3> QED
        BY <1>1, <1>2, <3>1, BodyIsText
    <2>2. tail \in Seq(Written!Piece) /\ Written!Only(tail, told)
      <3>1. <<>> \in Seq(Written!Piece) /\ Written!Only(<<>>, told)
        BY DEF Written!Only
      <3>2. Blank \in Seq(Written!Piece) /\ Written!Only(Blank, told)
        BY <1>1, <1>2, Parts
      <3> QED
        BY <3>1, <3>2
    <2> HIDE DEF body, tail
    <2>3. body \o tail \in Seq(Written!Piece) /\ Written!Only(body \o tail, told)
      BY <2>1, <2>2, OnlyBoth
    <2> QED
      BY <2>3 DEF body, tail
  <1> DEFINE B == Seq(Written!Piece)
  <1> HIDE DEF e, B
  <1>6. ps \in Seq(B) /\ Len(ps) = n /\ \A i \in 1 .. n : ps[i] = e(i)
    <2>1. \A i \in 1 .. n : e(i) \in B
      BY <1>5 DEF B
    <2>2. ps \in [1 .. n -> B]
      BY <2>1
    <2> QED
      BY <1>1, <2>2
  <1> QED
    BY <1>3, <1>4, <1>5, <1>6 DEF n, told, B

LEMMA JoinedIsText ==
    ASSUME NEW frames \in Seq(Written!Frame), NEW name \in Written!Names
    PROVE  /\ Written!Joined(frames, name) \in Seq(Written!Piece)
           /\ Written!Only(Written!Joined(frames, name), Written!Tells(frames))
  <1> DEFINE ps == Pieces(frames, name)
  <1> HIDE DEF ps
  <1>1. /\ ps \in Seq(Seq(Written!Piece))
        /\ \A i \in 1 .. Len(ps) : Written!Only(ps[i], Written!Tells(frames))
        /\ Written!Joined(frames, name) = Written!InARow(ps)
    BY PiecesAreTexts DEF ps
  <1> QED
    BY <1>1, RowOnly

\* Lines of NDJSON.
DataLines(frames) == [i \in DOMAIN frames |-> <<Written!Data(frames[i]), Written!Eol>>]

LEMMA DataLinesAreTexts ==
    ASSUME NEW frames \in Seq(Written!Frame)
    PROVE  /\ DataLines(frames) \in Seq(Seq(Written!Piece))
           /\ Len(DataLines(frames)) = Len(frames)
           /\ \A i \in 1 .. Len(frames) :
                 /\ DataLines(frames)[i] = <<Written!Data(frames[i]), Written!Eol>>
                 /\ Written!Only(DataLines(frames)[i], Written!Tells(frames))
           /\ Written!InLines(frames) = Written!InARow(DataLines(frames))
           /\ Written!InLines(frames) \in Seq(Written!Piece)
           /\ Written!Only(Written!InLines(frames), Written!Tells(frames))
  <1> DEFINE n == Len(frames)
             told == Written!Tells(frames)
             B == Seq(Written!Piece)
             e(i) == <<Written!Data(frames[i]), Written!Eol>>
             ps == [i \in 1 .. n |-> e(i)]
  <1>1. n \in Nat /\ DOMAIN frames = 1 .. n /\ \A i \in 1 .. n : frames[i] \in Written!Frame
    OBVIOUS
  <1>2. \A i \in 1 .. n : <<frames[i].of, frames[i].as>> \in told
    BY <1>1 DEF Written!Tells
  <1>3. DataLines(frames) = ps /\ Written!InLines(frames) = Written!InARow(ps)
    BY <1>1 DEF DataLines, Written!InLines
  <1> HIDE DEF n, told
  <1>4. \A i \in 1 .. n : e(i) \in B /\ Written!Only(e(i), told)
    BY <1>1, <1>2, Parts
  <1>5. \A i \in 1 .. n : e(i) = <<Written!Data(frames[i]), Written!Eol>>
    OBVIOUS
  <1> HIDE DEF e, B
  <1>6. ps \in Seq(B) /\ Len(ps) = n /\ \A i \in 1 .. n : ps[i] = e(i)
    <2>1. ps \in [1 .. n -> B]
      BY <1>4
    <2> QED
      BY <1>1, <2>1
  <1> HIDE DEF ps
  <1>7. Written!InARow(ps) \in Seq(Written!Piece) /\ Written!Only(Written!InARow(ps), told)
    BY <1>4, <1>6, RowOnly DEF B
  <1> QED
    BY <1>3, <1>4, <1>5, <1>6, <1>7 DEF n, told, B

LEMMA WrittenIsText ==
    ASSUME NEW frames \in Seq(Written!Frame), NEW name \in Written!Names
    PROVE  /\ Written!Written(frames, name) \in Seq(Written!Piece)
           /\ Written!Only(Written!Written(frames, name), Written!Tells(frames))
  <1> DEFINE told == Written!Tells(frames)
  <1>1. CASE frames = <<>>
    BY <1>1 DEF Written!Written, Written!Only
  <1>2. CASE frames # <<>> /\ Written!ByLine
    BY <1>2, DataLinesAreTexts DEF Written!Written
  <1>3. CASE frames # <<>> /\ ~ Written!ByLine
    <2>1. Blank \in Seq(Written!Piece) /\ Written!Only(Blank, told)
      <3>1. Written!Eol \in Written!Piece /\ Fits(Written!Eol, told)
        BY PieceFacts DEF Fits
      <3> QED
        BY <3>1, ShortTexts DEF Blank
    <2>2. Written!Written(frames, name) = Written!Joined(frames, name) \o Blank
      BY <1>3 DEF Written!Written, Blank
    <2> QED
      BY <2>1, <2>2, JoinedIsText, OnlyBoth
  <1> QED
    BY <1>1, <1>2, <1>3
-----------------------------------------------------------------------------
(* What is read of frames.                                                 *)

\* A client between two events.
LEMMA RestReads ==
    ASSUME NEW c \in Written!Reader, NEW all, NEW n \in Nat, Written!AtRest(c, all, n)
    PROVE  /\ Written!Reads(FALSE, c, Blank) \in Written!Reader
           /\ Written!AtRest(Written!Reads(FALSE, c, Blank), all, n)
           /\ \A k \in {"event", "field"} :
                 LET d == Written!Reads(FALSE, c, <<Written!Other(k), Written!Eol>>)
                 IN  d \in Written!Reader /\ Written!AtRest(d, all, n)
  <1>1. c.line = <<>> /\ c.event = <<>>
    BY DEF Written!AtRest
  <1>2. Written!Eol \in Written!Piece /\ <<Written!Eol>> \in Seq(Written!Piece)
    BY PieceFacts
  <1> DEFINE c1 == Written!Take(FALSE, c, Written!Eol)
             c2 == Written!Take(FALSE, c1, Written!Eol)
  <1>3. c1 \in Written!Reader /\ c1.line = <<>> /\ c1.event = <<>> /\ c1.read = c.read
    BY <1>1, TakeEol
  <1> HIDE DEF c1
  <1>4. c2 \in Written!Reader /\ c2.line = <<>> /\ c2.event = <<>> /\ c2.read = c.read
    BY <1>3, TakeEol
  <1> HIDE DEF c2
  <1>5. Written!Reads(FALSE, c, Blank) = c2
    BY <1>2, ReadsTwo DEF c1, c2, Blank
  <1>9. ASSUME NEW k \in {"event", "field"}
        PROVE  LET d == Written!Reads(FALSE, c, <<Written!Other(k), Written!Eol>>)
               IN  d \in Written!Reader /\ Written!AtRest(d, all, n)
    <2> DEFINE t == Written!Other(k)
               d1 == Written!Take(FALSE, c, t)
               d2 == Written!Take(FALSE, d1, Written!Eol)
    <2>1. t \in Written!Piece /\ t.kind = k /\ t # Written!Eol /\ <<t>> \in Seq(Written!Piece)
      BY PieceFacts
    <2> HIDE DEF t
    <2>2. /\ d1 \in Written!Reader /\ d1.line = Append(c.line, t)
          /\ d1.event = <<>> /\ d1.read = c.read
      BY <1>1, <2>1, TakePiece
    <2>3. d1.line = <<t>> /\ d1.line # <<>> /\ d1.line[1] = t
      <3>1. d1.line = Append(<<>>, t)
        BY <1>1, <2>2
      <3> QED
        BY <3>1, OneMore
    <2> HIDE DEF d1
    <2>4. d2 \in Written!Reader /\ d2.line = <<>> /\ d2.event = <<>> /\ d2.read = c.read
      BY <2>1, <2>2, <2>3, TakeEol
    <2> HIDE DEF d2
    <2>5. Written!Reads(FALSE, c, <<t, Written!Eol>>) = d2
      BY <1>2, <2>1, ReadsTwo DEF d1, d2
    <2> QED
      BY <2>4, <2>5 DEF t, Written!AtRest
  <1> QED
    BY <1>4, <1>5, <1>9 DEF Written!AtRest

\* One data line is one piece to read.
LEMMA ProperIsLine ==
    ASSUME NEW f \in Written!Frame, f.rest = "none"
    PROVE  Written!Proper(f) = << <<Written!Data(f)>> >>
  <1>1. Written!Proper(f) = [i \in 1 .. 1 |-> <<Written!Text("data", f, i)>>]
    BY DEF Written!Proper
  <1>2. Written!Data(f) = Written!Text("data", f, 1)
    BY DEF Written!Data
  <1> QED
    BY <1>1, <1>2

\* Whoever reads the frame that comes next has read one more.
LEMMA ReadsNext ==
    ASSUME NEW c \in Written!Reader, NEW all, NEW n \in Nat, Written!AtRest(c, all, n),
           all[n + 1] \in Written!Frame, all[n + 1].rest = "none",
           NEW d, d.line = <<>>, d.event = <<>>,
           d.read = Append(c.read, << <<Written!Data(all[n + 1])>> >>)
    PROVE  Written!AtRest(d, all, n + 1)
  <1>1. Written!Proper(all[n + 1]) = << <<Written!Data(all[n + 1])>> >>
    BY ProperIsLine
  <1> DEFINE p == Written!Proper(all[n + 1])
             R == Seq(Seq(Seq(Written!Piece)))
  <1>2. c.read \in R /\ Len(c.read) = n /\ \A i \in 1 .. n : c.read[i] = Written!Proper(all[i])
    BY DEF Written!AtRest, Written!Reader
  <1>3. d.read = Append(c.read, p)
    BY <1>1
  <1>a. p \in Seq(Seq(Written!Piece))
    BY <1>1, DataPiece
  <1> HIDE DEF p
  <1>4. Len(d.read) = n + 1 /\ d.read[n + 1] = p /\ \A i \in 1 .. n : d.read[i] = c.read[i]
    <2> DEFINE r == c.read
               S == Seq(Seq(Written!Piece))
    <2>1. r \in Seq(S) /\ Len(r) = n /\ p \in S /\ d.read = Append(r, p)
      BY <1>2, <1>3, <1>a
    <2> HIDE DEF r, S
    <2>2. /\ Len(Append(r, p)) = n + 1 /\ Append(r, p)[n + 1] = p
          /\ \A i \in 1 .. n : Append(r, p)[i] = r[i]
      BY <2>1
    <2> QED
      BY <2>1, <2>2 DEF r
  <1>5. \A i \in 1 .. n + 1 : i \in 1 .. n \/ i = n + 1
    OBVIOUS
  <1> QED
    BY <1>2, <1>4, <1>5 DEF Written!AtRest, p

\* One frame, in SSE: a name, a line of data, its end and a blank line.
LEMMA ReadsFrame ==
    ASSUME NEW c \in Written!Reader, NEW all, NEW n \in Nat, Written!AtRest(c, all, n),
           NEW f \in Written!Frame, f = all[n + 1], f.rest = "none", NEW name \in Written!Plain
    PROVE  LET d == Written!Reads(FALSE, c, Written!Body(f, name) \o Blank)
           IN  d \in Written!Reader /\ Written!AtRest(d, all, n + 1)
  <1> DEFINE N == NameLine(name)
             t == Written!Data(f)
             c1 == Written!Reads(FALSE, c, N)
             c2 == Written!Take(FALSE, c1, t)
             c3 == Written!Take(FALSE, c2, Written!Eol)
             c4 == Written!Take(FALSE, c3, Written!Eol)
  <1>1. /\ N \in Seq(Written!Piece) /\ <<t>> \in Seq(Written!Piece)
        /\ t \in Written!Piece /\ t.kind = "data" /\ t # Written!Eol
        /\ Written!Eol \in Written!Piece /\ <<Written!Eol>> \in Seq(Written!Piece)
        /\ Blank \in Seq(Written!Piece)
    <2>1. <<f.of, f.as>> \in {<<f.of, f.as>>}
      OBVIOUS
    <2>2. N \in Seq(Written!Piece)
      BY NameFacts
    <2> HIDE DEF N
    <2> QED
      BY <2>2, DataPiece, PieceFacts DEF Blank
  <1>2. c1 \in Written!Reader /\ Written!AtRest(c1, all, n)
    <2>1. N = <<>> \/ N = <<Written!Other("event"), Written!Eol>>
      BY NameFacts
    <2> HIDE DEF N
    <2>2. CASE N = <<>>
      BY <2>2, ReadsNone
    <2>3. CASE N = <<Written!Other("event"), Written!Eol>>
      BY <2>3, RestReads
    <2> QED
      BY <2>1, <2>2, <2>3
  <1>3. Written!Body(f, name) \o Blank = N \o (<<t>> \o (<<Written!Eol>> \o <<Written!Eol>>))
    <2>1. Written!After(f) = <<>>
      <3>1. <<f.of, f.as>> \in {<<f.of, f.as>>}
        OBVIOUS
      <3> QED
        BY <3>1, AfterFacts
    <2>2. Written!Body(f, name) = (N \o <<t>>) \o <<>>
      BY <2>1 DEF Written!Body, NameLine
    <2>3. Blank = <<Written!Eol>> \o <<Written!Eol>>
      BY DEF Blank
    <2> DEFINE X == N \o <<t>>
               P == Seq(Written!Piece)
    <2> HIDE DEF N, t
    <2>4. X \in P /\ X \o <<>> = X
      BY <1>1
    <2>5. (N \o <<t>>) \o Blank = N \o (<<t>> \o Blank)
      <3> HIDE DEF X
      <3> DEFINE T == <<t>>
                 V == Blank
      <3>1. N \in P /\ T \in P /\ V \in P
        BY <1>1
      <3> HIDE DEF T, V
      <3>2. (N \o T) \o V = N \o (T \o V)
        BY <3>1, InThreeParts
      <3> QED
        BY <3>2 DEF T, V
    <2> QED
      BY <2>2, <2>3, <2>4, <2>5
  <1> HIDE DEF N, t, c1
  <1>4. c1.line = <<>> /\ c1.event = <<>>
    BY <1>2 DEF Written!AtRest
  <1>5. /\ c2 \in Written!Reader /\ c2.line = Append(c1.line, t)
        /\ c2.event = <<>> /\ c2.read = c1.read
    BY <1>1, <1>2, <1>4, TakePiece
  <1>6. c2.line = <<t>> /\ c2.line # <<>> /\ c2.line[1].kind = "data"
    <2>1. c2.line = Append(<<>>, t)
      BY <1>4, <1>5
    <2>2. c2.line = <<t>> /\ c2.line # <<>> /\ c2.line[1] = t
      BY <2>1, OneMore
    <2> QED
      BY <1>1, <2>2
  <1> HIDE DEF c2
  <1>7. /\ c3 \in Written!Reader /\ c3.line = <<>> /\ c3.read = c1.read
        /\ c3.event = Append(c2.event, c2.line)
    BY <1>5, <1>6, TakeEol
  <1>8. c3.event = << <<t>> >>
    <2>1. c3.event = Append(<<>>, <<t>>)
      BY <1>5, <1>6, <1>7
    <2> QED
      BY <2>1, OneMore
  <1> HIDE DEF c3
  <1>9. << <<t>> >> \notin {<<>>, << <<>> >>}
    <2>1. Len(<< <<t>> >>) = 1 /\ Len(<<>>) = 0 /\ << <<t>> >>[1] = <<t>> /\ << <<>> >>[1] = <<>>
      OBVIOUS
    <2>2. <<t>> # <<>>
      OBVIOUS
    <2> QED
      BY <2>1, <2>2
  <1>10. /\ c4 \in Written!Reader /\ c4.line = <<>> /\ c4.event = <<>>
         /\ c4.read = Append(c1.read, << <<t>> >>)
    BY ZenonT(40), <1>7, <1>8, <1>9, TakeEol
  <1> HIDE DEF c4
  <1>11. Written!Reads(FALSE, c, Written!Body(f, name) \o Blank) = c4
    <2>1. Written!Reads(FALSE, c3, <<Written!Eol>>) = c4
      BY <1>1, <1>7, ReadsOne DEF c4
    <2>2. Written!Reads(FALSE, c2, <<Written!Eol>>) = c3
      BY <1>1, <1>5, ReadsOne DEF c3
    <2>3. Written!Reads(FALSE, c2, <<Written!Eol>> \o <<Written!Eol>>) = c4
      BY <1>1, <1>5, <2>1, <2>2, ReadsBoth
    <2>4. Written!Reads(FALSE, c1, <<t>>) = c2
      BY <1>1, <1>2, ReadsOne DEF c2
    <2> DEFINE E2 == <<Written!Eol>> \o <<Written!Eol>>
               T == <<t>>
    <2>5. E2 \in Seq(Written!Piece) /\ T \in Seq(Written!Piece)
      BY <1>1
    <2> HIDE DEF E2, T
    <2>6. Written!Reads(FALSE, c1, T \o E2) = c4
      BY <1>2, <2>3, <2>4, <2>5, ReadsBoth DEF E2, T
    <2>7. T \o E2 \in Seq(Written!Piece)
      BY <2>5
    <2>8. Written!Reads(FALSE, c, N \o (T \o E2)) = c4
      BY <1>1, <2>6, <2>7, ReadsBoth DEF c1
    <2> QED
      BY <1>3, <2>8 DEF E2, T
  <1>12. Written!AtRest(c4, all, n + 1)
    BY <1>2, <1>10, ReadsNext DEF t
  <1> QED
    BY <1>10, <1>11, <1>12

\* One frame, in NDJSON.
LEMMA ReadsLine ==
    ASSUME NEW c \in Written!Reader, NEW all, NEW n \in Nat, Written!AtRest(c, all, n),
           NEW f \in Written!Frame, f = all[n + 1], f.rest = "none"
    PROVE  LET d == Written!Reads(TRUE, c, <<Written!Data(f), Written!Eol>>)
           IN  d \in Written!Reader /\ Written!AtRest(d, all, n + 1)
  <1> DEFINE t == Written!Data(f)
             c1 == Written!Take(TRUE, c, t)
             c2 == Written!Take(TRUE, c1, Written!Eol)
  <1>1. /\ t \in Written!Piece /\ t # Written!Eol /\ <<t>> \in Seq(Written!Piece)
        /\ Written!Eol \in Written!Piece /\ <<Written!Eol>> \in Seq(Written!Piece)
    BY PieceFacts, DataPiece
  <1> HIDE DEF t
  <1>2. c.line = <<>>
    BY DEF Written!AtRest
  <1>3. c1 \in Written!Reader /\ c1.line = Append(c.line, t) /\ c1.read = c.read
    BY <1>1, TakePiece
  <1>4. c1.line = <<t>>
    BY <1>2, <1>3, OneMore
  <1> HIDE DEF c1
  <1>5. << <<t>> >> \notin {<<>>, << <<>> >>}
    <2>1. Len(<< <<t>> >>) = 1 /\ Len(<<>>) = 0 /\ << <<t>> >>[1] = <<t>> /\ << <<>> >>[1] = <<>>
      OBVIOUS
    <2>2. <<t>> # <<>>
      OBVIOUS
    <2> QED
      BY <2>1, <2>2
  <1>6. /\ c2 \in Written!Reader /\ c2.line = <<>> /\ c2.event = <<>>
        /\ c2.read = Append(c.read, << <<t>> >>)
    BY ZenonT(40), <1>3, <1>4, <1>5, TakeEol
  <1> HIDE DEF c2
  <1>7. Written!Reads(TRUE, c, <<t, Written!Eol>>) = c2
    BY <1>1, ReadsTwo DEF c1, c2
  <1>8. Written!AtRest(c2, all, n + 1)
    BY <1>6, ReadsNext DEF t
  <1> QED
    BY <1>6, <1>7, <1>8 DEF t

\* Frames in SSE, with a blank line after each.
LEMMA ReadsJoined ==
    ASSUME NEW c \in Written!Reader, NEW all, NEW n \in Nat, Written!AtRest(c, all, n),
           NEW frames \in Seq(Written!Frame), frames # <<>>, Written!Single(frames),
           \A i \in 1 .. Len(frames) : all[n + i] = frames[i], NEW name \in Written!Plain
    PROVE  Written!AtRest(Written!Reads(FALSE, c, Written!Joined(frames, name) \o Blank),
                          all, n + Len(frames))
  <1> DEFINE m == Len(frames)
             ps == Pieces(frames, name)
             body(i) == Written!Body(frames[i], Written!NameOf(i, frames, name))
             P == Seq(Written!Piece)
  <1>1. /\ m \in Nat /\ m # 0 /\ DOMAIN frames = 1 .. m
        /\ \A i \in 1 .. m : /\ frames[i] \in Written!Frame /\ frames[i].rest = "none"
                             /\ all[n + i] = frames[i]
    BY DEF Written!Single
  <1>2. \A i \in 1 .. m : ps[i] = body(i) \o (IF i < m THEN Blank ELSE <<>>)
    BY <1>1 DEF Pieces
  <1>3. ps \in Seq(P) /\ Len(ps) = m /\ Written!Joined(frames, name) = Written!InARow(ps)
    BY NameFacts, PiecesAreTexts
  <1>4. PICK g : Rows(ps, g) /\ Written!InARow(ps) = g[Len(ps)]
    BY <1>3, RowsInSteps
  <1>5. /\ g \in [0 .. m -> P] /\ g[0] = <<>> /\ Written!Joined(frames, name) = g[m]
        /\ \A i \in 1 .. m : g[i] = g[i - 1] \o ps[i]
    BY <1>3, <1>4 DEF Rows
  <1>6. Blank \in P /\ \A i \in 1 .. m : body(i) \in P
    <2>1. Blank \in P
      BY PieceFacts DEF Blank
    <2>2. ASSUME NEW i \in 1 .. m PROVE body(i) \in P
      <3>1. <<frames[i].of, frames[i].as>> \in {<<frames[i].of, frames[i].as>>}
        OBVIOUS
      <3> QED
        BY <1>1, <3>1, NameFacts, BodyIsText
    <2> QED
      BY <2>1, <2>2
  <1>7. ASSUME NEW i \in 1 .. m, NEW d \in Written!Reader, Written!AtRest(d, all, n + (i - 1))
        PROVE  /\ Written!Reads(FALSE, d, body(i) \o Blank) \in Written!Reader
               /\ Written!AtRest(Written!Reads(FALSE, d, body(i) \o Blank), all, n + i)
    <2>1. n + (i - 1) \in Nat /\ (n + (i - 1)) + 1 = n + i
      BY <1>1
    <2> DEFINE k == n + (i - 1)
    <2> HIDE DEF k
    <2>2. /\ k \in Nat /\ k + 1 = n + i /\ Written!AtRest(d, all, k)
          /\ frames[i] = all[k + 1] /\ frames[i] \in Written!Frame /\ frames[i].rest = "none"
      BY <1>1, <1>7, <2>1 DEF k
    <2>3. Written!NameOf(i, frames, name) \in Written!Plain
      BY NameFacts
    <2> QED
      BY <2>2, <2>3, ReadsFrame
  <1> HIDE DEF m, ps, body, P
  <1> DEFINE Ok(i) == /\ Written!Reads(FALSE, c, g[i]) \in Written!Reader
                      /\ Written!AtRest(Written!Reads(FALSE, c, g[i]), all, n + i)
             S == {i \in 0 .. m : i < m => Ok(i)}
  <1>8. 0 \in S
    <2>1. Written!Reads(FALSE, c, g[0]) = c
      BY <1>5, ReadsNone
    <2>2. n + 0 = n /\ 0 \in 0 .. m
      BY <1>1
    <2>3. Ok(0)
      BY <2>1, <2>2
    <2> HIDE DEF Ok
    <2> QED
      BY <2>2, <2>3
  <1>9. ASSUME NEW i \in 1 .. m, i - 1 \in S PROVE i \in S
    <2>1. Ok(i - 1) /\ i \in 0 .. m
      <3> HIDE DEF Ok
      <3> QED  BY <1>1, <1>9
    <2>2. ASSUME i < m PROVE Ok(i)
      <3> DEFINE d == Written!Reads(FALSE, c, g[i - 1])
                 w == body(i) \o Blank
      <3>1. d \in Written!Reader /\ Written!AtRest(d, all, n + (i - 1))
        BY <2>1
      <3>2. g[i] = g[i - 1] \o w
        BY <1>2, <1>5, <2>2
      <3>3. g[i - 1] \in Seq(Written!Piece) /\ w \in Seq(Written!Piece)
        <4>1. i - 1 \in 0 .. m
          BY <1>1
        <4>2. g[i - 1] \in P
          BY <1>5, <4>1
        <4>3. body(i) \in P /\ Blank \in P
          BY <1>6
        <4> HIDE DEF w
        <4>4. w \in Seq(Written!Piece)
          BY <4>3 DEF P, w
        <4> QED
          BY <4>2, <4>4 DEF P
      <3>4. /\ Written!Reads(FALSE, d, w) \in Written!Reader
            /\ Written!AtRest(Written!Reads(FALSE, d, w), all, n + i)
        <4> HIDE DEF d
        <4> QED  BY <1>7, <3>1
      <3> HIDE DEF w
      <3>5. Written!Reads(FALSE, c, g[i]) = Written!Reads(FALSE, d, w)
        <4> DEFINE q == g[i - 1]
        <4>1. q \in Seq(Written!Piece) /\ g[i] = q \o w /\ d = Written!Reads(FALSE, c, q)
          BY <3>2, <3>3
        <4> HIDE DEF q, d
        <4>2. Written!Reads(FALSE, c, q \o w) = Written!Reads(FALSE, Written!Reads(FALSE, c, q), w)
          BY <3>3, <4>1, ReadsBoth
        <4> QED
          BY <4>1, <4>2
      <3> QED
        BY <3>4, <3>5
    <2> HIDE DEF Ok
    <2> QED
      BY <2>1, <2>2
  <1> HIDE DEF S, Ok
  <1>10. 0 .. m \subseteq S
    BY <1>1, <1>8, <1>9, InductionUpTo
  <1> DEFINE d == Written!Reads(FALSE, c, g[m - 1])
  <1>11. d \in Written!Reader /\ Written!AtRest(d, all, n + (m - 1))
    <2>1. m - 1 \in 0 .. m /\ m - 1 < m
      BY <1>1
    <2> QED
      BY <1>10, <2>1 DEF S, Ok
  <1>12. m \in 1 .. m /\ m - 1 \in 0 .. m
    BY <1>1
  <1> DEFINE x == g[m - 1]
             y == body(m)
             z == Blank
  <1>13. /\ x \in Seq(Written!Piece) /\ y \in Seq(Written!Piece)
         /\ z \in Seq(Written!Piece)
    BY <1>5, <1>6, <1>12 DEF P
  <1>14. g[m] = x \o y
    <2>1. ps[m] = y \o <<>>
      <3>1. ~ (m < m)
        BY <1>1
      <3>2. ps[m] = body(m) \o (IF m < m THEN Blank ELSE <<>>)
        BY <1>2, <1>12
      <3> QED
        BY <3>1, <3>2
    <2>2. g[m] = x \o ps[m]
      BY <1>5, <1>12
    <2> HIDE DEF y
    <2>3. y \o <<>> = y
      BY <1>13
    <2> QED
      BY <2>1, <2>2, <2>3
  <1> HIDE DEF x, y, z
  <1>15. (x \o y) \o z = x \o (y \o z)
    BY <1>13, InThreeParts
  <1> DEFINE w == y \o z
  <1>16. w \in Seq(Written!Piece)
    BY <1>13
  <1>17. Written!Reads(FALSE, c, g[m] \o Blank) = Written!Reads(FALSE, d, body(m) \o Blank)
    <2>1. Written!Reads(FALSE, c, x \o w) = Written!Reads(FALSE, Written!Reads(FALSE, c, x), w)
      <3> HIDE DEF w
      <3> QED  BY <1>13, <1>16, ReadsBoth
    <2>2. g[m] \o Blank = x \o w
      BY <1>14, <1>15 DEF z
    <2>3. w = body(m) \o Blank /\ d = Written!Reads(FALSE, c, x)
      BY DEF x, y, z
    <2> HIDE DEF w, d
    <2> QED
      BY <2>1, <2>2, <2>3
  <1> HIDE DEF d
  <1>18. Written!AtRest(Written!Reads(FALSE, d, body(m) \o Blank), all, n + m)
    BY <1>7, <1>11, <1>12
  <1> QED
    BY <1>5, <1>17, <1>18 DEF m

\* Frames in NDJSON.
LEMMA ReadsInLines ==
    ASSUME NEW c \in Written!Reader, NEW all, NEW n \in Nat, Written!AtRest(c, all, n),
           NEW frames \in Seq(Written!Frame), Written!Single(frames),
           \A i \in 1 .. Len(frames) : all[n + i] = frames[i]
    PROVE  Written!AtRest(Written!Reads(TRUE, c, Written!InLines(frames)),
                          all, n + Len(frames))
  <1> DEFINE m == Len(frames)
             ps == DataLines(frames)
             P == Seq(Written!Piece)
  <1>1. /\ m \in Nat /\ DOMAIN frames = 1 .. m
        /\ \A i \in 1 .. m : /\ frames[i] \in Written!Frame /\ frames[i].rest = "none"
                             /\ all[n + i] = frames[i]
    BY DEF Written!Single
  <1>2. /\ ps \in Seq(P) /\ Len(ps) = m /\ Written!InLines(frames) = Written!InARow(ps)
        /\ \A i \in 1 .. m : ps[i] = <<Written!Data(frames[i]), Written!Eol>>
    BY DataLinesAreTexts
  <1>3. PICK g : Rows(ps, g) /\ Written!InARow(ps) = g[Len(ps)]
    BY <1>2, RowsInSteps
  <1>4. /\ g \in [0 .. m -> P] /\ g[0] = <<>> /\ Written!InLines(frames) = g[m]
        /\ \A i \in 1 .. m : g[i] = g[i - 1] \o ps[i]
    BY <1>2, <1>3 DEF Rows
  <1> HIDE DEF m, ps, P
  <1> DEFINE Ok(i) == /\ Written!Reads(TRUE, c, g[i]) \in Written!Reader
                      /\ Written!AtRest(Written!Reads(TRUE, c, g[i]), all, n + i)
             S == {i \in 0 .. m : Ok(i)}
  <1>5. 0 \in S
    <2>1. Written!Reads(TRUE, c, g[0]) = c
      BY <1>4, ReadsNone
    <2>2. n + 0 = n /\ 0 \in 0 .. m
      BY <1>1
    <2>3. Ok(0)
      BY <2>1, <2>2
    <2> HIDE DEF Ok
    <2> QED
      BY <2>2, <2>3
  <1>6. ASSUME NEW i \in 1 .. m, i - 1 \in S PROVE i \in S
    <2> DEFINE d == Written!Reads(TRUE, c, g[i - 1])
               k == n + (i - 1)
               line == <<Written!Data(frames[i]), Written!Eol>>
    <2>1. d \in Written!Reader /\ Written!AtRest(d, all, k)
      BY <1>6
    <2>2. k \in Nat /\ k + 1 = n + i /\ i - 1 \in 0 .. m /\ i \in 0 .. m
      BY <1>1
    <2>3. g[i - 1] \in Seq(Written!Piece) /\ g[i] = g[i - 1] \o line
      BY <1>2, <1>4, <2>2 DEF P
    <2>4. line \in Seq(Written!Piece)
      BY <1>1, DataPiece
    <2>5. Written!Reads(TRUE, c, g[i]) = Written!Reads(TRUE, d, line)
      <3> HIDE DEF k, line
      <3> DEFINE q == g[i - 1]
      <3>1. q \in Seq(Written!Piece) /\ g[i] = q \o line /\ d = Written!Reads(TRUE, c, q)
        BY <2>3
      <3> HIDE DEF q, d
      <3>2. Written!Reads(TRUE, c, q \o line) = Written!Reads(TRUE, Written!Reads(TRUE, c, q), line)
        BY <2>4, <3>1, ReadsBoth
      <3> QED
        BY <3>1, <3>2
    <2>6. frames[i] \in Written!Frame /\ frames[i].rest = "none" /\ frames[i] = all[k + 1]
      BY <1>1, <2>2
    <2> HIDE DEF d, k
    <2>7. /\ Written!Reads(TRUE, d, line) \in Written!Reader
          /\ Written!AtRest(Written!Reads(TRUE, d, line), all, k + 1)
      BY <2>1, <2>2, <2>6, ReadsLine
    <2> HIDE DEF line
    <2>8. Ok(i)
      BY <2>2, <2>5, <2>7
    <2> HIDE DEF Ok
    <2> QED
      BY <2>2, <2>8
  <1> HIDE DEF S, Ok
  <1>7. 0 .. m \subseteq S
    BY <1>1, <1>5, <1>6, InductionUpTo
  <1> QED
    <2>1. m \in 0 .. m
      BY <1>1
    <2>2. Ok(m)
      BY <1>7, <2>1 DEF S
    <2> QED
      BY <1>4, <2>2 DEF m, Ok

LEMMA ReadsWritten ==
    ASSUME NEW c \in Written!Reader, NEW all, NEW n \in Nat, Written!AtRest(c, all, n),
           NEW frames \in Seq(Written!Frame), Written!Single(frames),
           \A i \in 1 .. Len(frames) : all[n + i] = frames[i], NEW name \in Written!Plain
    PROVE  Written!AtRest(Written!Reads(Written!ByLine, c, Written!Written(frames, name)),
                          all, n + Len(frames))
  <1>0. Written!ByLine \in BOOLEAN
    BY DEF Written!ByLine
  <1>1. CASE frames = <<>>
    <2>1. Written!Written(frames, name) = <<>> /\ n + Len(frames) = n
      BY <1>1 DEF Written!Written
    <2> QED
      BY <1>0, <2>1, ReadsNone
  <1>2. CASE frames # <<>> /\ Written!ByLine
    <2>1. Written!Written(frames, name) = Written!InLines(frames) /\ Written!ByLine = TRUE
      BY <1>0, <1>2 DEF Written!Written
    <2> QED
      BY <2>1, ReadsInLines
  <1>3. CASE frames # <<>> /\ ~ Written!ByLine
    <2>1. /\ Written!Written(frames, name) = Written!Joined(frames, name) \o Blank
          /\ Written!ByLine = FALSE
      BY <1>0, <1>3 DEF Written!Written, Blank
    <2> QED
      BY <1>3, <2>1, ReadsJoined
  <1> QED
    BY <1>1, <1>2, <1>3
-----------------------------------------------------------------------------
(* What a filtered stream writes (StreamFrames): the invariant, of values.  *)

\* Whoever is between two events, and reads the text, has read its frames.
Follows(all, n, frames) == \A i \in 1 .. Len(frames) : all[n + i] = frames[i]

Passes(b, text, frames) ==
    \A c \in Written!Reader, n \in Nat : \A all :
        Written!AtRest(c, all, n) /\ Written!Single(frames) /\ Follows(all, n, frames) =>
            Written!AtRest(Written!Reads(b, c, text), all, n + Len(frames))

\* ClientRests, of these values.
Rests(b, out, rel, c, slip) ==
    slip = FALSE /\ (b \/ (\A i \in DOMAIN rel : rel[i].by = "chunk")) /\ Written!Single(rel) =>
        /\ Written!AtRest(c, rel, Len(rel))
        /\ Written!Single(out.frames) =>
              Written!AtRest(Written!Reads(b, c, out.text), rel \o out.frames,
                             Len(rel \o out.frames))

\* The rest of FramesInv, but for the types of the processor's variables.
Good(b, at, out, rel, c, slip) ==
    /\ out.frames \in Seq(Written!Frame) /\ out.text \in Seq(Written!Piece)
    /\ rel \in Seq(Written!Frame)
    /\ c \in Written!Reader
    /\ at # "chunk" => out = Written!NoOutput
    /\ Written!Only(out.text, Written!Tells(out.frames))
    /\ c.seen \subseteq Written!Tells(rel)
    /\ Rests(b, out, rel, c, slip)

LEMMA BothFrames ==
    ASSUME NEW s \in Seq(Written!Frame), NEW t \in Seq(Written!Frame)
    PROVE  /\ s \o t \in Seq(Written!Frame)
           /\ Len(s \o t) = Len(s) + Len(t) /\ Len(s) \in Nat /\ Len(t) \in Nat
           /\ DOMAIN s = 1 .. Len(s) /\ DOMAIN t = 1 .. Len(t)
           /\ DOMAIN (s \o t) = 1 .. Len(s) + Len(t)
           /\ \A i \in 1 .. Len(s) : (s \o t)[i] = s[i] /\ i \in 1 .. Len(s) + Len(t)
           /\ \A i \in 1 .. Len(t) :
                 (s \o t)[Len(s) + i] = t[i] /\ Len(s) + i \in 1 .. Len(s) + Len(t)
  <1>1. /\ s \o t \in Seq(Written!Frame)
        /\ Len(s \o t) = Len(s) + Len(t) /\ Len(s) \in Nat /\ Len(t) \in Nat
    OBVIOUS
  <1>2. \A i \in 1 .. Len(s) : (s \o t)[i] = s[i] /\ i \in 1 .. Len(s) + Len(t)
    OBVIOUS
  <1>3. \A i \in 1 .. Len(t) :
           (s \o t)[Len(s) + i] = t[i] /\ Len(s) + i \in 1 .. Len(s) + Len(t)
    OBVIOUS
  <1>4. /\ DOMAIN s = 1 .. Len(s) /\ DOMAIN t = 1 .. Len(t)
        /\ DOMAIN (s \o t) = 1 .. Len(s \o t)
    BY <1>1
  <1> QED
    BY <1>1, <1>2, <1>3, <1>4

LEMMA TellsBoth ==
    ASSUME NEW s \in Seq(Written!Frame), NEW t \in Seq(Written!Frame)
    PROVE  Written!Tells(s) \cup Written!Tells(t) \subseteq Written!Tells(s \o t)
  <1> DEFINE st == s \o t
             m == Len(s)
             k == Len(t)
  <1>1. /\ DOMAIN s = 1 .. m /\ DOMAIN t = 1 .. k /\ DOMAIN st = 1 .. m + k
        /\ \A i \in 1 .. m : st[i] = s[i] /\ i \in 1 .. m + k
        /\ \A i \in 1 .. k : st[m + i] = t[i] /\ m + i \in 1 .. m + k
    BY BothFrames
  <1> HIDE DEF st, m, k
  <1>2. ASSUME NEW x \in Written!Tells(s) PROVE x \in Written!Tells(st)
    <2>1. PICK i \in 1 .. m : x = <<s[i].of, s[i].as>>
      BY <1>1 DEF Written!Tells
    <2>2. i \in DOMAIN st /\ x = <<st[i].of, st[i].as>>
      BY <1>1, <2>1
    <2> QED
      BY <2>2 DEF Written!Tells
  <1>3. ASSUME NEW x \in Written!Tells(t) PROVE x \in Written!Tells(st)
    <2>1. PICK i \in 1 .. k : x = <<t[i].of, t[i].as>>
      BY <1>1 DEF Written!Tells
    <2>2. m + i \in DOMAIN st /\ x = <<st[m + i].of, st[m + i].as>>
      BY <1>1, <2>1
    <2> QED
      BY <2>2 DEF Written!Tells
  <1> QED
    BY <1>2, <1>3 DEF st

\* What holds of frames one by one, holds of both.
LEMMA SingleBoth ==
    ASSUME NEW s \in Seq(Written!Frame), NEW t \in Seq(Written!Frame)
    PROVE  /\ Written!Single(s \o t) => Written!Single(s) /\ Written!Single(t)
           /\ (\A i \in DOMAIN (s \o t) : (s \o t)[i].by = "chunk") =>
                 /\ \A i \in DOMAIN s : s[i].by = "chunk"
                 /\ \A i \in DOMAIN t : t[i].by = "chunk"
  <1> DEFINE st == s \o t
             m == Len(s)
             k == Len(t)
  <1>1. /\ DOMAIN s = 1 .. m /\ DOMAIN t = 1 .. k /\ DOMAIN st = 1 .. m + k
        /\ \A i \in 1 .. m : st[i] = s[i] /\ i \in 1 .. m + k
        /\ \A i \in 1 .. k : st[m + i] = t[i] /\ m + i \in 1 .. m + k
    BY BothFrames
  <1> HIDE DEF st, m, k
  <1>2. Written!Single(st) => Written!Single(s) /\ Written!Single(t)
    BY <1>1 DEF Written!Single
  <1>3. (\A i \in DOMAIN st : st[i].by = "chunk") =>
           /\ \A i \in DOMAIN s : s[i].by = "chunk"
           /\ \A i \in DOMAIN t : t[i].by = "chunk"
    BY <1>1
  <1> QED
    BY <1>2, <1>3 DEF st

\* A client at rest reads on, whatever comes behind what it has read.
LEMMA PassesOn ==
    ASSUME NEW b, NEW text, NEW frames \in Seq(Written!Frame), Passes(b, text, frames),
           NEW c \in Written!Reader, NEW all \in Seq(Written!Frame),
           Written!AtRest(c, all, Len(all)), Written!Single(frames)
    PROVE  Written!AtRest(Written!Reads(b, c, text), all \o frames, Len(all \o frames))
  <1> DEFINE more == all \o frames
             m == Len(all)
             k == Len(frames)
  <1>1. /\ Len(more) = m + k /\ m \in Nat
        /\ \A i \in 1 .. m : more[i] = all[i]
        /\ \A i \in 1 .. k : more[m + i] = frames[i]
    BY BothFrames
  <1> HIDE DEF more
  <1>2. Written!AtRest(c, more, m)
    BY <1>1 DEF Written!AtRest
  <1>3. Written!AtRest(Written!Reads(b, c, text), more, m + k)
    <2> HIDE DEF m
    <2>1. \A a : Written!AtRest(c, a, m) /\ Written!Single(frames) /\ Follows(a, m, frames) =>
                    Written!AtRest(Written!Reads(b, c, text), a, m + k)
      BY <1>1 DEF Passes
    <2>2. Follows(more, m, frames)
      BY <1>1 DEF Follows
    <2> QED
      BY <1>2, <2>1, <2>2
  <1> QED
    BY <1>1, <1>3 DEF more

\* A chunk produces text, and the frames that are meant by it.
LEMMA PutGood ==
    ASSUME NEW b \in BOOLEAN, NEW out, NEW rel, NEW c, NEW slip, NEW slips,
           Good(b, "chunk", out, rel, c, slip),
           NEW text \in Seq(Written!Piece), NEW frames \in Seq(Written!Frame),
           Written!Only(text, Written!Tells(frames)),
           slips = FALSE => slip = FALSE /\ Passes(b, text, frames),
           NEW o, o.text = out.text \o text, o.frames = out.frames \o frames
    PROVE  Good(b, "chunk", o, rel, c, slips)
  <1> DEFINE T == out.text
             F == out.frames
             d == Written!Reads(b, c, T)
  <1>1. /\ F \in Seq(Written!Frame) /\ T \in Seq(Written!Piece)
        /\ rel \in Seq(Written!Frame) /\ c \in Written!Reader
        /\ Written!Only(T, Written!Tells(F)) /\ c.seen \subseteq Written!Tells(rel)
    BY DEF Good
  <1>2. o.text = T \o text /\ o.frames = F \o frames
    OBVIOUS
  <1>3. Rests(b, out, rel, c, slip)
    BY DEF Good
  <1>4. d \in Written!Reader /\ Written!Reads(b, c, T \o text) = Written!Reads(b, d, text)
    BY <1>1, ReadsBoth
  <1>5. F \o frames \in Seq(Written!Frame)
    BY <1>1, BothFrames
  <1>6. /\ T \o text \in Seq(Written!Piece)
        /\ Written!Only(T \o text, Written!Tells(F \o frames))
    <2>1. Written!Tells(F) \cup Written!Tells(frames) \subseteq Written!Tells(F \o frames)
      BY <1>1, TellsBoth
    <2> DEFINE told == Written!Tells(F \o frames)
    <2>2. Written!Only(T, told) /\ Written!Only(text, told)
      BY <1>1, <2>1 DEF Written!Only
    <2> HIDE DEF told, T
    <2>3. T \o text \in Seq(Written!Piece) /\ Written!Only(T \o text, told)
      BY <1>1, <2>2, OnlyBoth
    <2> QED
      BY <2>3 DEF told
  <1>7. Rests(b, o, rel, c, slips)
    <2> SUFFICES ASSUME b \/ (\A i \in DOMAIN rel : rel[i].by = "chunk"), Written!Single(rel),
                        slips = FALSE
                 PROVE  /\ Written!AtRest(c, rel, Len(rel))
                        /\ Written!Single(o.frames) =>
                              Written!AtRest(Written!Reads(b, c, o.text), rel \o o.frames,
                                             Len(rel \o o.frames))
      BY DEF Rests
    <2>1. /\ Written!AtRest(c, rel, Len(rel))
          /\ Written!Single(F) => Written!AtRest(d, rel \o F, Len(rel \o F))
          /\ Passes(b, text, frames)
      BY <1>3 DEF Rests
    <2>2. ASSUME Written!Single(F \o frames)
          PROVE  Written!AtRest(Written!Reads(b, d, text), rel \o (F \o frames),
                                Len(rel \o (F \o frames)))
      <3> HIDE DEF F, d
      <3>1. Written!Single(F) /\ Written!Single(frames)
        BY <1>1, <2>2, SingleBoth
      <3>2. Written!AtRest(d, rel \o F, Len(rel \o F)) /\ rel \o F \in Seq(Written!Frame)
        BY <1>1, <2>1, <3>1, BothFrames
      <3> DEFINE all == rel \o F
      <3> HIDE DEF all
      <3>3. Written!AtRest(Written!Reads(b, d, text), all \o frames, Len(all \o frames))
        BY <1>4, <2>1, <3>1, <3>2, PassesOn DEF all
      <3>4. (rel \o F) \o frames = rel \o (F \o frames)
        BY <1>1, InThreeParts
      <3> QED
        BY <3>3, <3>4 DEF all
    <2> HIDE DEF d, F, T
    <2> QED
      BY <1>2, <1>4, <2>1, <2>2
  <1> HIDE DEF F, T, d
  <1> QED
    BY <1>1, <1>2, <1>5, <1>6, <1>7 DEF Good

\* A text is sent to a client that is at rest when it has read it.
LEMMA DeliveredGood ==
    ASSUME NEW b \in BOOLEAN, NEW at, NEW out, NEW rel, NEW c, NEW slip,
           Good(b, at, out, rel, c, slip),
           NEW text \in Seq(Written!Piece), NEW frames \in Seq(Written!Frame),
           Written!Only(text, Written!Tells(frames)),
           NEW more, more = rel \o frames, NEW d, d = Written!Reads(b, c, text),
           (b \/ (\A i \in DOMAIN more : more[i].by = "chunk"))
               /\ Written!Single(more) /\ slip = FALSE => Written!AtRest(d, more, Len(more)),
           NEW next
    PROVE  Good(b, next, Written!NoOutput, more, d, slip)
  <1>1. rel \in Seq(Written!Frame) /\ c \in Written!Reader /\ c.seen \subseteq Written!Tells(rel)
    BY DEF Good
  <1>2. d \in Written!Reader
    BY <1>1, ReadsBoth
  <1>3. d.seen \subseteq Written!Tells(more)
    <2>1. d.seen \subseteq c.seen \cup Written!Tells(frames)
      BY <1>1, ReadsSeen
    <2>2. Written!Tells(rel) \cup Written!Tells(frames) \subseteq Written!Tells(more)
      BY <1>1, TellsBoth
    <2> QED
      BY <1>1, <2>1, <2>2
  <1>4. more \in Seq(Written!Frame) /\ more \o <<>> = more
    <2>1. more \in Seq(Written!Frame)
      BY <1>1, BothFrames
    <2> QED
      BY <2>1, ConcatEmptySeq
  <1>5. Written!NoOutput.text = <<>> /\ Written!NoOutput.frames = <<>>
    BY DEF Written!NoOutput
  <1>6. Written!Reads(b, d, <<>>) = d
    BY <1>2, ReadsNone
  <1>7. Rests(b, Written!NoOutput, more, d, slip)
    BY <1>4, <1>5, <1>6 DEF Rests
  <1>8. Written!Only(<<>>, Written!Tells(<<>>))
    BY DEF Written!Only
  <1>9. <<>> \in Seq(Written!Frame) /\ <<>> \in Seq(Written!Piece)
    OBVIOUS
  <1> QED
    BY <1>2, <1>3, <1>4, <1>5, <1>7, <1>8, <1>9 DEF Good

\* A text of its own is sent, whatever the chunk had produced.
LEMMA SentGood ==
    ASSUME NEW b \in BOOLEAN, NEW at, NEW out, NEW rel, NEW c, NEW slip,
           Good(b, at, out, rel, c, slip),
           NEW text \in Seq(Written!Piece), NEW frames \in Seq(Written!Frame),
           Written!Only(text, Written!Tells(frames)),
           b \/ (\A i \in DOMAIN frames : frames[i].by = "chunk") => Passes(b, text, frames),
           NEW next
    PROVE  Good(b, next, Written!NoOutput, rel \o frames, Written!Reads(b, c, text), slip)
  <1> DEFINE more == rel \o frames
             d == Written!Reads(b, c, text)
  <1>1. rel \in Seq(Written!Frame) /\ c \in Written!Reader /\ Rests(b, out, rel, c, slip)
    BY DEF Good
  <1>2. ASSUME b \/ (\A i \in DOMAIN more : more[i].by = "chunk"), Written!Single(more),
               slip = FALSE
        PROVE  Written!AtRest(d, more, Len(more))
    <2>1. /\ Written!Single(rel) /\ Written!Single(frames)
          /\ b \/ (\A i \in DOMAIN rel : rel[i].by = "chunk")
          /\ b \/ (\A i \in DOMAIN frames : frames[i].by = "chunk")
      BY <1>1, <1>2, SingleBoth
    <2>2. Written!AtRest(c, rel, Len(rel)) /\ Passes(b, text, frames)
      BY <1>1, <1>2, <2>1 DEF Rests
    <2> QED
      BY <1>1, <2>1, <2>2, PassesOn
  <1> HIDE DEF more, d
  <1>3. Good(b, next, Written!NoOutput, more, d, slip)
    <2>1. more = rel \o frames /\ d = Written!Reads(b, c, text)
      BY DEF more, d
    <2> QED
      BY <1>2, <2>1, DeliveredGood
  <1> QED
    BY <1>3 DEF more, d
-----------------------------------------------------------------------------
(* What a filtered stream writes: the actions.                              *)

Waiting(p) ==
    p.ask \in 1 .. MaxEvents /\ p.by \in {"ag_ui", "a2ui"} /\ p.frames \in Seq(Written!Frame)

\* The types of the processor's variables.
Processor ==
    /\ x1 \in Protocol
    /\ x2 \in {"select", "chunk", "over"}
    /\ x3 \in [lines : 0 .. 2, name : Written!Names]
    /\ x4 \in Written!Event
    /\ x5 \subseteq 1 .. MaxEvents
    /\ \A p \in x6 : Waiting(p)

Holds == Processor /\ x10 \in BOOLEAN /\ Good(Written!ByLine, x2, x7, x8, x9, x10)

\* Of the frames that were sent, one by one or as a set.
LEMMA TellsOfSet ==
    ASSUME NEW s
    PROVE  Written!Tells(s) = {<<f.of, f.as>> : f \in Written!ToSet(s)}
  BY DEF Written!Tells, Written!ToSet

LEMMA InvIsHolds == Written!FramesInv <=> Holds
  <1>1. Written!WithheldIsUnread <=> x9.seen \subseteq Written!Tells(x8)
    BY TellsOfSet DEF Written!WithheldIsUnread
  <1>2. Written!ClientRests <=> Rests(Written!ByLine, x7, x8, x9, x10)
    BY DEF Written!ClientRests, Rests, Written!NothingResolved, Written!SingleLines,
           Written!Single, Written!Sent
  <1>3. Written!TypeOK <=> Processor /\ x7.frames \in Seq(Written!Frame)
                                     /\ x8 \in Seq(Written!Frame) /\ x10 \in BOOLEAN
    BY DEF Written!TypeOK, Processor, Waiting
  <1> QED
    BY <1>1, <1>2, <1>3 DEF Written!FramesInv, Holds, Good

\* The action produces text within a chunk.
LEMMA PutKept ==
    ASSUME Holds, x2 = "chunk", Processor', UNCHANGED <<x1, x2, x8, x9>>,
           NEW text \in Seq(Written!Piece), NEW frames \in Seq(Written!Frame),
           Written!Only(text, Written!Tells(frames)), x10' \in BOOLEAN,
           ~ x10' => ~ x10 /\ Passes(Written!ByLine, text, frames), Written!Put(text, frames)
    PROVE  Holds'
  <1>1. Good(Written!ByLine, "chunk", x7, x8, x9, x10) /\ Written!ByLine \in BOOLEAN
    BY DEF Holds, Written!ByLine
  <1>2. x7' = [text |-> x7.text \o text, frames |-> x7.frames \o frames]
    BY DEF Written!Put
  <1> DEFINE b == Written!ByLine
  <1>3. Written!ByLine' = b
    BY DEF Written!ByLine
  <1>a. ~ x10' => ~ x10 /\ Passes(b, text, frames)
    OBVIOUS
  <1> HIDE DEF b
  <1>b. b \in BOOLEAN /\ Good(b, "chunk", x7, x8, x9, x10)
    BY <1>1 DEF b
  <1> DEFINE slips == x10'
             o == x7'
  <1>c. slips = FALSE => x10 = FALSE /\ Passes(b, text, frames)
    BY <1>a DEF Holds
  <1>d. o.text = x7.text \o text /\ o.frames = x7.frames \o frames
    BY <1>2
  <1> HIDE DEF slips, o
  <1>4. Good(b, "chunk", x7', x8, x9, x10')
    <2>1. Good(b, "chunk", o, x8, x9, slips)
      BY <1>b, <1>c, <1>d, PutGood
    <2> QED
      BY <2>1 DEF slips, o
  <1>5. Good(Written!ByLine', x2', x7', x8', x9', x10')
    BY <1>3, <1>4
  <1> QED
    BY <1>5 DEF Holds

\* The action sends a text of its own.
LEMMA SentKept ==
    ASSUME Holds, Processor', UNCHANGED <<x1, x10>>, x7' = Written!NoOutput,
           NEW text \in Seq(Written!Piece), NEW frames \in Seq(Written!Frame),
           Written!Only(text, Written!Tells(frames)),
           Written!ByLine \/ (\A i \in DOMAIN frames : frames[i].by = "chunk") =>
               Passes(Written!ByLine, text, frames),
           Written!Deliver(text, frames)
    PROVE  Holds'
  <1>1. Good(Written!ByLine, x2, x7, x8, x9, x10) /\ Written!ByLine \in BOOLEAN
    BY DEF Holds, Written!ByLine
  <1>2. x8' = x8 \o frames /\ x9' = Written!Reads(Written!ByLine, x9, text)
    BY DEF Written!Deliver
  <1> DEFINE b == Written!ByLine
  <1>3. Written!ByLine' = b
    BY DEF Written!ByLine
  <1> HIDE DEF b
  <1>4. Good(b, x2', Written!NoOutput, x8 \o frames, Written!Reads(b, x9, text), x10)
    BY <1>1, SentGood DEF b
  <1>5. Good(Written!ByLine', x2', x7', x8', x9', x10')
    BY <1>2, <1>3, <1>4 DEF b
  <1> QED
    BY <1>5 DEF Holds

\* The action writes nothing.
LEMMA QuietKept ==
    ASSUME Holds, Processor', UNCHANGED <<x1, x7, x8, x9, x10>>,
           x2' # "chunk" => x7 = Written!NoOutput
    PROVE  Holds'
  <1> DEFINE b == Written!ByLine
  <1>1. Good(b, x2, x7, x8, x9, x10)
    BY DEF Holds
  <1>2. Written!ByLine' = b
    BY DEF Written!ByLine
  <1> HIDE DEF b
  <1>3. Good(b, x2', x7, x8, x9, x10)
    BY <1>1 DEF Good
  <1>4. Good(Written!ByLine', x2', x7', x8', x9', x10')
    BY <1>2, <1>3
  <1> QED
    BY <1>4 DEF Holds

\* What is written passes, of an event with a plain name.
LEMMA WrittenPasses ==
    ASSUME NEW frames \in Seq(Written!Frame), NEW name \in Written!Plain
    PROVE  /\ Written!Written(frames, name) \in Seq(Written!Piece)
           /\ Written!Only(Written!Written(frames, name), Written!Tells(frames))
           /\ Passes(Written!ByLine, Written!Written(frames, name), frames)
  <1>1. ASSUME NEW c \in Written!Reader, NEW n \in Nat, NEW all,
               Written!AtRest(c, all, n), Written!Single(frames), Follows(all, n, frames)
        PROVE  Written!AtRest(Written!Reads(Written!ByLine, c, Written!Written(frames, name)),
                              all, n + Len(frames))
    <2>1. \A i \in 1 .. Len(frames) : all[n + i] = frames[i]
      BY <1>1 DEF Follows
    <2> QED
      BY <1>1, <2>1, ReadsWritten
  <1>2. Passes(Written!ByLine, Written!Written(frames, name), frames)
    BY <1>1 DEF Passes
  <1> QED
    BY <1>2, NameFacts, WrittenIsText

\* Nothing is written of no frames.
LEMMA NothingPasses ==
    ASSUME NEW b \in BOOLEAN
    PROVE  /\ <<>> \in Seq(Written!Piece) /\ Written!Only(<<>>, Written!Tells(<<>>))
           /\ Passes(b, <<>>, <<>>)
  <1>1. <<>> \in Seq(Written!Piece) /\ Written!Only(<<>>, Written!Tells(<<>>))
    BY DEF Written!Only
  <1>2. ASSUME NEW c \in Written!Reader, NEW n \in Nat, NEW all, Written!AtRest(c, all, n)
        PROVE  Written!AtRest(Written!Reads(b, c, <<>>), all, n + Len(<<>>))
    <2>1. Written!Reads(b, c, <<>>) = c
      BY ReadsNone
    <2>2. n + Len(<<>>) = n
      OBVIOUS
    <2> QED
      BY <1>2, <2>1, <2>2
  <1> QED
    BY <1>1, <1>2 DEF Passes

-----------------------------------------------------------------------------

LEMMA FramesInit == Written!Init => Holds
  <1> SUFFICES ASSUME Written!Init PROVE Holds
    OBVIOUS
  <1>1. Processor
    <2>1. x3 \in [lines : 0 .. 2, name : Written!Names]
      <3>1. <<>> \in Written!Names
        BY NameFacts
      <3> QED
        BY <3>1 DEF Written!Init, Written!NoEvent
    <2> QED
      BY <2>1, FramesAssumption DEF Written!Init, Processor, Written!Event
  <1>a. x10 \in BOOLEAN
    BY DEF Written!Init
  <1>2. x7 = Written!NoOutput /\ x8 = <<>> /\ x7.text = <<>> /\ x7.frames = <<>>
    BY DEF Written!Init, Written!NoOutput
  <1>3. x9 = [line |-> <<>>, event |-> <<>>, read |-> <<>>, seen |-> {}]
    BY DEF Written!Init
  <1>4. x9 \in Written!Reader
    BY <1>3 DEF Written!Reader
  <1>5. Written!AtRest(x9, <<>>, 0)
    BY <1>3 DEF Written!AtRest
  <1>6. Written!ByLine \in BOOLEAN
    BY DEF Written!ByLine
  <1>7. Written!Reads(Written!ByLine, x9, <<>>) = x9
    BY <1>4, <1>6, ReadsNone
  <1>8. x8 \o x7.frames = <<>> /\ Len(<<>>) = 0
    BY <1>2
  <1>9. Rests(Written!ByLine, x7, x8, x9, x10)
    BY <1>2, <1>5, <1>7, <1>8 DEF Rests
  <1>10. x9.seen = {}
    BY <1>3
  <1>11. <<>> \in Seq(Written!Frame) /\ <<>> \in Seq(Written!Piece)
    OBVIOUS
  <1>12. Written!Only(x7.text, Written!Tells(x7.frames))
    BY <1>2 DEF Written!Only
  <1>13. Good(Written!ByLine, x2, x7, x8, x9, x10)
    BY <1>2, <1>4, <1>9, <1>10, <1>11, <1>12 DEF Good
  <1> QED
    BY <1>1, <1>a, <1>13 DEF Holds

\* An event is complete, and frames come of it.
LEMMA EmitKept ==
    ASSUME Holds, Written!Complete, NEW frames \in Seq(Written!Frame), Written!Emit(frames),
           x5' \subseteq 1 .. MaxEvents, \A p \in x6' : Waiting(p)
    PROVE  Holds'
  <1>1. /\ x2 = "chunk" /\ UNCHANGED <<x1, x2, x8, x9>>
        /\ x4 < MaxEvents /\ x4' = x4 + 1 /\ x3' = Written!NoEvent
    BY DEF Written!Complete, Written!Number
  <1>2. x3 \in [lines : 0 .. 2, name : Written!Names] /\ x4 \in 0 .. MaxEvents /\ x1 \in Protocol
    BY DEF Holds, Processor, Written!Event
  <1>3. x4' \in 0 .. MaxEvents
    BY <1>1, <1>2, FramesAssumption
  <1>4. x3' \in [lines : 0 .. 2, name : Written!Names]
    BY <1>1 DEF Written!NoEvent, Written!Names
  <1>5. Processor'
    BY <1>1, <1>2, <1>3, <1>4 DEF Processor, Written!Event
  <1> DEFINE name == x3.name
             text == Written!Written(frames, name)
  <1>6. /\ Written!Put(text, frames)
        /\ x10' = (x10 \/ (frames # <<>> /\ name \notin Written!Plain))
    BY DEF Written!Emit
  <1>7. name \in Written!Names
    BY <1>2
  <1>8. x10 \in BOOLEAN /\ x10' \in BOOLEAN
    BY <1>6 DEF Holds
  <1> HIDE DEF name
  <1>9. text \in Seq(Written!Piece) /\ Written!Only(text, Written!Tells(frames))
    BY <1>7, WrittenIsText
  <1>10. ASSUME ~ x10' PROVE ~ x10 /\ Passes(Written!ByLine, text, frames)
    <2>1. ~ x10 /\ (frames = <<>> \/ name \in Written!Plain)
      BY <1>6, <1>8, <1>10
    <2>2. CASE frames = <<>>
      <3>1. text = <<>> /\ Written!ByLine \in BOOLEAN
        BY <2>2 DEF Written!Written, Written!ByLine
      <3> HIDE DEF text
      <3> QED
        BY <2>1, <2>2, <3>1, NothingPasses
    <2>3. CASE name \in Written!Plain
      BY <2>1, <2>3, WrittenPasses
    <2> QED
      BY <2>1, <2>2, <2>3
  <1> HIDE DEF text
  <1> QED
    BY <1>1, <1>5, <1>6, <1>8, <1>9, <1>10, PutKept

LEMMA SaysIsFrame ==
    ASSUME NEW n \in 1 .. MaxEvents, NEW as \in {"own", "args", "error", "ask"}
    PROVE  Written!Says(n, as) \in Written!Frame /\ <<Written!Says(n, as)>> \in Seq(Written!Frame)
  <1> DEFINE f == Written!Says(n, as)
  <1>1. n \in Written!Event /\ as \in Written!Meant
    <2>1. n \in 0 .. MaxEvents
      BY FramesAssumption
    <2> QED
      BY <2>1 DEF Written!Event, Written!Meant
  <1>2. f \in Written!Frame
    <2>1. f = [of |-> n, as |-> as, rest |-> "none", by |-> "chunk"]
      BY DEF Written!Says
    <2>2. "none" \in Written!Rest /\ "chunk" \in {"chunk", "decision"}
      BY DEF Written!Rest
    <2> HIDE DEF f
    <2> QED
      BY <1>1, <2>1, <2>2 DEF Written!Frame
  <1> HIDE DEF f
  <1>3. <<f>> \in Seq(Written!Frame)
    BY <1>2
  <1> QED
    BY <1>2, <1>3 DEF f

LEMMA NumberIsEvent ==
    ASSUME Holds, Written!Complete
    PROVE  Written!Number \in 1 .. MaxEvents
  BY FramesAssumption DEF Holds, Processor, Written!Complete, Written!Number, Written!Event

\* The call's frames.
LEMMA FramesOfCall ==
    ASSUME Holds, Written!Complete, NEW c \in x5, NEW frames \in Written!Frames(c)
    PROVE  frames \in Seq(Written!Frame)
  <1>1. c \in 1 .. MaxEvents /\ Written!Number \in 1 .. MaxEvents
    BY NumberIsEvent DEF Holds, Processor
  <1>2. PICK args \in {<<>>, <<Written!Says(c, "args")>>} :
            frames = <<Written!Says(c, "own")>> \o args \o <<Written!Says(Written!Number, "own")>>
    BY DEF Written!Frames
  <1> DEFINE first == <<Written!Says(c, "own")>>
             last == <<Written!Says(Written!Number, "own")>>
  <1>3. /\ first \in Seq(Written!Frame) /\ last \in Seq(Written!Frame)
        /\ <<Written!Says(c, "args")>> \in Seq(Written!Frame)
    BY <1>1, SaysIsFrame
  <1>4. args \in Seq(Written!Frame)
    <2>1. <<>> \in Seq(Written!Frame)
      OBVIOUS
    <2> HIDE DEF first, last
    <2> DEFINE some == <<Written!Says(c, "args")>>
    <2>2. args = <<>> \/ args = some
      BY <1>2
    <2>3. some \in Seq(Written!Frame)
      BY <1>3
    <2> HIDE DEF some
    <2> QED
      BY <2>1, <2>2, <2>3
  <1>5. frames = (first \o args) \o last
    BY <1>2
  <1> HIDE DEF first, last
  <1>6. first \o args \in Seq(Written!Frame)
    BY <1>3, <1>4
  <1> QED
    BY <1>3, <1>5, <1>6

\* A human is asked.
LEMMA AskKept ==
    ASSUME Holds, Written!Complete, NEW frames \in Seq(Written!Frame),
           NEW by \in {"ag_ui", "a2ui"}, Written!Ask(frames, by),
           x5' \subseteq 1 .. MaxEvents
    PROVE  Holds'
  <1>1. Written!Number \in 1 .. MaxEvents
    BY NumberIsEvent
  <1>2. <<Written!Says(Written!Number, "ask")>> \in Seq(Written!Frame)
    BY <1>1, SaysIsFrame
  <1> DEFINE p == [ask |-> Written!Number, by |-> by, frames |-> frames]
  <1>3. Waiting(p)
    BY <1>1 DEF Waiting
  <1>4. x6' = x6 \cup {p} /\ Written!Emit(<<Written!Says(Written!Number, "ask")>>)
    BY DEF Written!Ask
  <1> HIDE DEF p
  <1>5. \A q \in x6' : Waiting(q)
    BY <1>3, <1>4 DEF Holds, Processor
  <1> QED
    BY <1>2, <1>4, <1>5, EmitKept

\* A human decides, or the deadline.
LEMMA ResolveKept ==
    ASSUME Holds, NEW p \in x6, Written!Resolve(p)
    PROVE  Holds'
  <1> DEFINE later == [i \in DOMAIN p.frames |-> [p.frames[i] EXCEPT !.by = "decision"]]
             denial == [Written!Says(p.ask, "error") EXCEPT !.by = "decision"]
  <1>1. /\ x2 = "select" /\ x6' = x6 \ {p} /\ UNCHANGED <<x1, x2, x3, x4, x5, x7, x10>>
    BY DEF Written!Resolve
  <1>2. PICK frames \in {later, IF p.by = "ag_ui" THEN <<denial>> ELSE <<>>} :
            Written!Deliver(Written!WrittenLater(frames, p.by), frames)
    BY DEF Written!Resolve
  <1>3. Waiting(p) /\ x7 = Written!NoOutput
    BY <1>1 DEF Holds, Processor, Good
  <1>4. Processor'
    BY <1>1 DEF Holds, Processor
  <1>5. later \in Seq(Written!Frame) /\ \A i \in DOMAIN later : later[i].by = "decision"
    <2> DEFINE n == Len(p.frames)
               e(i) == [p.frames[i] EXCEPT !.by = "decision"]
    <2>1. /\ n \in Nat /\ DOMAIN p.frames = 1 .. n
          /\ \A i \in 1 .. n : p.frames[i] \in Written!Frame
      BY <1>3 DEF Waiting
    <2>2. \A i \in 1 .. n : e(i) \in Written!Frame /\ e(i).by = "decision"
      BY <2>1 DEF Written!Frame
    <2>3. later = [i \in 1 .. n |-> e(i)]
      BY <2>1
    <2> HIDE DEF n, e, later
    <2>4. later \in [1 .. n -> Written!Frame]
      BY <2>2, <2>3
    <2>5. DOMAIN later = 1 .. n /\ \A i \in 1 .. n : later[i] = e(i)
      BY <2>3
    <2> QED
      BY <2>1, <2>2, <2>4, <2>5
  <1>6. denial \in Written!Frame /\ denial.by = "decision"
    <2>1. Written!Says(p.ask, "error") \in Written!Frame
      BY <1>3, SaysIsFrame DEF Waiting
    <2> QED
      BY <2>1 DEF Written!Frame
  <1> HIDE DEF later, denial
  <1>7. frames \in Seq(Written!Frame) /\ \A i \in DOMAIN frames : frames[i].by = "decision"
    <2>1. CASE frames = later
      BY <1>5, <2>1
    <2>2. CASE frames = <<denial>>
      BY <1>6, <2>2
    <2>3. CASE frames = <<>>
      BY <2>3
    <2> QED
      BY <1>2, <2>1, <2>2, <2>3
  <1> DEFINE text == Written!WrittenLater(frames, p.by)
  <1>8. /\ text \in Seq(Written!Piece) /\ Written!Only(text, Written!Tells(frames))
        /\ Written!ByLine \/ (\A i \in DOMAIN frames : frames[i].by = "chunk") =>
               Passes(Written!ByLine, text, frames)
    <2>1. CASE text = Written!Written(frames, <<>>)
      <3> HIDE DEF text
      <3> QED  BY <1>7, <2>1, NameFacts, WrittenPasses
    <2>2. CASE x1 = "sse" /\ text = Written!Joined(frames, <<>>)
      <3>1. ~ Written!ByLine
        BY <2>2 DEF Written!ByLine
      <3>2. text \in Seq(Written!Piece) /\ Written!Only(text, Written!Tells(frames))
        <4> HIDE DEF text
        <4> QED  BY <1>7, <2>2, NameFacts, JoinedIsText
      <3>3. ASSUME \A i \in DOMAIN frames : frames[i].by = "chunk"
            PROVE  Passes(Written!ByLine, text, frames)
        <4>1. frames = <<>>
          <5>1. \A i \in DOMAIN frames : FALSE
            BY <1>7, <3>3
          <5> QED
            BY <1>7, <5>1
        <4>2. Written!Joined(frames, <<>>) = <<>>
          <5> DEFINE ps == Pieces(frames, <<>>)
          <5>1. /\ ps \in Seq(Seq(Written!Piece)) /\ Len(ps) = Len(frames)
                /\ Written!Joined(frames, <<>>) = Written!InARow(ps)
            BY <1>7, NameFacts, PiecesAreTexts
          <5>2. Len(frames) = 0
            BY <4>1
          <5> HIDE DEF ps
          <5>3. PICK g : Rows(ps, g) /\ Written!InARow(ps) = g[Len(ps)]
            BY <5>1, RowsInSteps
          <5>4. g[0] = <<>>
            BY <5>3 DEF Rows
          <5>5. Len(ps) = 0
            BY <5>1, <5>2
          <5> QED
            BY <5>1, <5>3, <5>4, <5>5
        <4>3. Written!ByLine \in BOOLEAN
          BY DEF Written!ByLine
        <4> HIDE DEF text
        <4> QED
          BY <2>2, <4>1, <4>2, <4>3, NothingPasses
      <3> QED
        BY <3>1, <3>2, <3>3
    <2> QED
      BY <2>1, <2>2 DEF Written!WrittenLater
  <1>9. Written!Deliver(text, frames) /\ x7' = Written!NoOutput
    BY <1>1, <1>2, <1>3
  <1> HIDE DEF text
  <1> QED
    BY <1>1, <1>4, <1>7, <1>8, <1>9, SentKept

\* A limit.
LEMMA TerminateKept ==
    ASSUME Holds, Written!Terminate
    PROVE  Holds'
  <1> DEFINE frames == <<Written!Stopped>>
             text == Written!Written(frames, <<>>)
  <1>1. Written!Stopped \in Written!Frame
    BY FramesAssumption DEF Written!Stopped, Written!Frame, Written!Event, Written!Meant,
                              Written!Rest
  <1>2. frames \in Seq(Written!Frame)
    BY <1>1
  <1>3. x2' = "over" /\ x7' = Written!NoOutput /\ UNCHANGED <<x1, x3, x4, x5, x6, x10>>
    BY DEF Written!Terminate, Written!processor
  <1>4. Written!Deliver(text, frames)
    BY DEF Written!Terminate
  <1>5. Processor'
    BY <1>3 DEF Holds, Processor
  <1> HIDE DEF frames
  <1>6. /\ text \in Seq(Written!Piece) /\ Written!Only(text, Written!Tells(frames))
        /\ Passes(Written!ByLine, text, frames)
    BY <1>2, NameFacts, WrittenPasses
  <1> HIDE DEF text
  <1> QED
    BY <1>2, <1>3, <1>4, <1>5, <1>6, SentKept

\* The output of a chunk is sent.
LEMMA EndChunkKept ==
    ASSUME Holds, Written!EndChunk
    PROVE  Holds'
  <1>1. /\ x2' = "select" /\ x7' = Written!NoOutput /\ UNCHANGED <<x1, x3, x4, x5, x6, x10>>
        /\ x8' = x8 \o x7.frames /\ x9' = Written!Reads(Written!ByLine, x9, x7.text)
    BY DEF Written!EndChunk, Written!processor, Written!Deliver
  <1>2. Processor'
    BY <1>1 DEF Holds, Processor
  <1> DEFINE b == Written!ByLine
             text == x7.text
             frames == x7.frames
             more == x8 \o frames
             d == Written!Reads(b, x9, text)
  <1>3. Good(b, x2, x7, x8, x9, x10)
    BY DEF Holds
  <1>4. b \in BOOLEAN /\ Written!ByLine' = b
    BY <1>1 DEF Written!ByLine
  <1>5. /\ text \in Seq(Written!Piece) /\ frames \in Seq(Written!Frame)
        /\ x8 \in Seq(Written!Frame)
        /\ Written!Only(text, Written!Tells(frames)) /\ Rests(b, x7, x8, x9, x10)
    BY <1>3 DEF Good
  <1>6. ASSUME b \/ (\A i \in DOMAIN more : more[i].by = "chunk"), Written!Single(more),
               x10 = FALSE
        PROVE  Written!AtRest(d, more, Len(more))
    <2>1. /\ Written!Single(x8) /\ Written!Single(frames)
          /\ b \/ (\A i \in DOMAIN x8 : x8[i].by = "chunk")
      <3> HIDE DEF b, frames
      <3> QED  BY <1>5, <1>6, SingleBoth
    <2> HIDE DEF b
    <2> QED
      BY <1>5, <1>6, <2>1 DEF Rests
  <1>7. Good(b, "select", Written!NoOutput, more, d, x10)
    <2>1. more = x8 \o frames /\ d = Written!Reads(b, x9, text)
      OBVIOUS
    <2> HIDE DEF b, text, frames, more, d
    <2> QED
      BY <1>3, <1>4, <1>5, <1>6, <2>1, DeliveredGood
  <1>8. x8' = more /\ x9' = d
    BY <1>1
  <1> HIDE DEF b, more, d
  <1>9. Good(Written!ByLine', x2', x7', x8', x9', x10')
    BY <1>1, <1>4, <1>7, <1>8
  <1> QED
    BY <1>1, <1>2, <1>9 DEF Holds

LEMMA FramesStep == Holds /\ [Written!Next]_(Written!vars) => Holds'
  <1> SUFFICES ASSUME Holds, [Written!Next]_(Written!vars) PROVE Holds'
    OBVIOUS
  <1>a. /\ Processor /\ x5 \subseteq 1 .. MaxEvents /\ \A p \in x6 : Waiting(p)
        /\ x3 \in [lines : 0 .. 2, name : Written!Names]
        /\ x2 # "chunk" => x7 = Written!NoOutput
        /\ x10 \in BOOLEAN
    BY DEF Holds, Processor, Good
  <1>b. /\ <<>> \in Seq(Written!Frame)
        /\ Written!Complete => Written!Number \in 1 .. MaxEvents
    BY NumberIsEvent
  <1>c. ASSUME Written!Complete, NEW as \in {"own", "args", "error", "ask"}
        PROVE  /\ Written!Says(Written!Number, as) \in Written!Frame
               /\ <<Written!Says(Written!Number, as)>> \in Seq(Written!Frame)
    BY <1>b, <1>c, SaysIsFrame
  <1>1. CASE UNCHANGED Written!vars
    <2>1. UNCHANGED <<x1, x2, x3, x4, x5, x6, x7, x8, x9, x10>>
      BY <1>1 DEF Written!vars, Written!processor
    <2>2. Processor'
      BY <1>a, <2>1 DEF Processor
    <2> QED
      BY <1>a, <2>1, <2>2, QuietKept
  <1>2. CASE Written!Read \/ Written!EndStream
    <2>1. /\ x2 = "select" /\ x2' \in {"chunk", "over"}
          /\ UNCHANGED <<x1, x3, x4, x5, x6, x7, x8, x9, x10>>
      BY <1>2 DEF Written!Read, Written!EndStream, Written!processor
    <2>2. Processor'
      BY <1>a, <2>1 DEF Processor
    <2> QED
      BY <1>a, <2>1, <2>2, QuietKept
  <1>3. CASE Written!DataLine \/ Written!EventLine
    <2>1. x2 = "chunk" /\ UNCHANGED <<x1, x2, x4, x5, x6, x7, x8, x9, x10>>
      BY <1>3 DEF Written!DataLine, Written!EventLine, Written!InEvent
    <2>2. x3' \in [lines : 0 .. 2, name : Written!Names]
      <3>1. CASE Written!DataLine
        <4>1. x3.lines < 2 /\ x3' = [x3 EXCEPT !.lines = x3.lines + 1]
          BY <1>a, <3>1 DEF Written!DataLine
        <4>2. x3.lines + 1 \in 0 .. 2
          BY <1>a, <4>1
        <4> QED
          BY <1>a, <4>1, <4>2
      <3>2. CASE Written!EventLine
        <4>1. PICK name \in Written!Names : x3' = [x3 EXCEPT !.name = name]
          BY <3>2, NameFacts DEF Written!EventLine
        <4> QED
          BY <1>a, <4>1
      <3> QED
        BY <1>3, <3>1, <3>2
    <2>3. Processor'
      BY <1>a, <2>1, <2>2 DEF Processor
    <2> QED
      BY <1>a, <2>1, <2>3, QuietKept
  <1>4. CASE Written!OtherLine
    <2>1. /\ x1 = "sse" /\ x2 = "chunk" /\ UNCHANGED <<x1, x2, x3, x4, x5, x6, x8, x9>>
          /\ \E line \in Written!Lines :
                /\ Written!Put(line \o <<Written!Eol>>, <<>>)
                /\ x10' = (x10 \/ line # <<Written!Other("field")>>)
      BY <1>4 DEF Written!OtherLine, Written!InEvent, Written!processor, Written!Lines
    <2>a. PICK k \in {"field", "unjudged"} :
              /\ Written!Put(<<Written!Other(k)>> \o <<Written!Eol>>, <<>>)
              /\ x10' = (x10 \/ <<Written!Other(k)>> # <<Written!Other("field")>>)
      BY <2>1 DEF Written!Lines, Written!Unjudged
    <2> DEFINE text == <<Written!Other(k), Written!Eol>>
    <2>b. Written!Put(text, <<>>)
      BY <2>a, TwoInARow
    <2>c. x10' \in BOOLEAN /\ (~ x10' => ~ x10 /\ k = "field")
      <3>1. Written!Other(k).kind = k /\ Written!Other("field").kind = "field"
        BY PieceFacts
      <3>2. <<Written!Other(k)>>[1] = Written!Other(k)
            /\ <<Written!Other("field")>>[1] = Written!Other("field")
        BY OneMore
      <3>3. k # "field" => <<Written!Other(k)>> # <<Written!Other("field")>>
        BY <3>1, <3>2
      <3> QED
        BY <1>a, <2>a, <3>3
    <2>2. Processor'
      BY <1>a, <2>1 DEF Processor
    <2>3. text \in Seq(Written!Piece) /\ Written!Only(text, Written!Tells(<<>>))
      <3>1. /\ Written!Eol \in Written!Piece /\ Fits(Written!Eol, Written!Tells(<<>>))
            /\ Written!Other(k) \in Written!Piece
            /\ Fits(Written!Other(k), Written!Tells(<<>>))
        BY PieceFacts DEF Fits
      <3> QED
        BY <3>1, ShortTexts
    <2>4. ASSUME k = "field",
                 NEW c \in Written!Reader, NEW n \in Nat, NEW all, Written!AtRest(c, all, n)
          PROVE  Written!AtRest(Written!Reads(FALSE, c, text), all, n + Len(<<>>))
      <3>1. Written!AtRest(Written!Reads(FALSE, c, text), all, n)
        BY <2>4, RestReads
      <3>2. n + Len(<<>>) = n
        OBVIOUS
      <3> QED
        BY <3>1, <3>2
    <2> HIDE DEF text
    <2>5. Written!ByLine = FALSE
      BY <2>1 DEF Written!ByLine
    <2>6. k = "field" => Passes(FALSE, text, <<>>)
      BY <2>4 DEF Passes
    <2>7. ~ x10' => ~ x10 /\ Passes(Written!ByLine, text, <<>>)
      BY <2>5, <2>6, <2>c
    <2> QED
      BY <1>b, <2>1, <2>2, <2>3, <2>7, <2>b, <2>c, PutKept
  <1>5. CASE Written!Separator
    <2>1. /\ x1 = "sse" /\ x2 = "chunk" /\ Written!Put(Blank, <<>>) /\ x3' = Written!NoEvent
          /\ UNCHANGED <<x1, x2, x4, x5, x6, x8, x9, x10>>
      BY <1>5 DEF Written!Separator, Written!InEvent, Blank
    <2>2. Processor'
      BY <1>a, <2>1 DEF Processor, Written!NoEvent, Written!Names
    <2>3. Blank \in Seq(Written!Piece) /\ Written!Only(Blank, Written!Tells(<<>>))
      <3>1. Written!Eol \in Written!Piece /\ Fits(Written!Eol, Written!Tells(<<>>))
        BY PieceFacts DEF Fits
      <3> QED
        BY <3>1, ShortTexts DEF Blank
    <2>4. ASSUME NEW c \in Written!Reader, NEW n \in Nat, NEW all, Written!AtRest(c, all, n)
          PROVE  Written!AtRest(Written!Reads(FALSE, c, Blank), all, n + Len(<<>>))
      <3>1. Written!AtRest(Written!Reads(FALSE, c, Blank), all, n)
        BY <2>4, RestReads
      <3>2. n + Len(<<>>) = n
        OBVIOUS
      <3> QED
        BY <3>1, <3>2
    <2>5. Written!ByLine = FALSE
      BY <2>1 DEF Written!ByLine
    <2>6. Passes(FALSE, Blank, <<>>)
      BY <2>4 DEF Passes
    <2>7. Passes(Written!ByLine, Blank, <<>>)
      BY <2>5, <2>6
    <2> QED
      BY <1>a, <1>b, <2>1, <2>2, <2>3, <2>7, PutKept
  <1>6. CASE Written!PassAsItCame
    <2> DEFINE on(rest) == [Written!Says(Written!Number, "own") EXCEPT !.rest = rest]
    <2>a. /\ Written!Complete /\ UNCHANGED <<x5, x6>>
          /\ \E rest \in Written!Rest : Written!Emit(<<on(rest)>>)
      BY <1>6 DEF Written!PassAsItCame, Written!Rest
    <2>b. PICK rest \in Written!Rest : Written!Emit(<<on(rest)>>)
      BY <2>a
    <2> DEFINE f == on(rest)
    <2>1. Written!Complete /\ Written!Emit(<<f>>) /\ UNCHANGED <<x5, x6>>
      BY <2>a, <2>b
    <2>2. Written!Says(Written!Number, "own") \in Written!Frame
      BY <1>c, <2>1
    <2>3. f \in Written!Frame
      BY <2>2 DEF Written!Frame
    <2> HIDE DEF f
    <2>4. <<f>> \in Seq(Written!Frame)
      BY <2>3
    <2> QED
      BY <1>a, <2>1, <2>4, EmitKept
  <1>7. CASE Written!PassListing \/ Written!JudgeEvent
    <2>1. /\ Written!Complete /\ UNCHANGED <<x5, x6>>
          /\ \E frames \in {<<>>, <<Written!Says(Written!Number, "own")>>} : Written!Emit(frames)
      BY <1>7 DEF Written!PassListing, Written!JudgeEvent
    <2>2. PICK frames \in {<<>>, <<Written!Says(Written!Number, "own")>>} : Written!Emit(frames)
      BY <2>1
    <2>3. <<Written!Says(Written!Number, "own")>> \in Seq(Written!Frame)
      BY <1>c, <2>1
    <2>4. frames \in Seq(Written!Frame)
      BY <1>b, <2>2, <2>3
    <2> QED
      BY <1>a, <2>1, <2>2, <2>4, EmitKept
  <1>8. CASE Written!JudgeIntent
    <2>1. Written!Complete /\ UNCHANGED <<x5, x6>>
      BY <1>8 DEF Written!JudgeIntent
    <2>2. PICK frames \in {<<Written!Says(Written!Number, "own")>>}
                  \cup (IF Written!Intents = {} THEN {<<>>}
                        ELSE {<<Written!Says(p.ask, "ask")>> : p \in Written!Intents}) :
              Written!Emit(frames)
      BY <1>8 DEF Written!JudgeIntent
    <2>3. <<Written!Says(Written!Number, "own")>> \in Seq(Written!Frame)
      BY <1>c, <2>1
    <2>4. ASSUME NEW p \in Written!Intents
          PROVE  <<Written!Says(p.ask, "ask")>> \in Seq(Written!Frame)
      <3>1. p.ask \in 1 .. MaxEvents
        BY <1>a DEF Written!Intents, Waiting
      <3> QED
        BY <3>1, SaysIsFrame
    <2>5. \/ frames = <<Written!Says(Written!Number, "own")>> \/ frames = <<>>
          \/ \E p \in Written!Intents : frames = <<Written!Says(p.ask, "ask")>>
      BY <2>2
    <2>6. frames \in Seq(Written!Frame)
      BY <1>b, <2>3, <2>4, <2>5
    <2> QED
      BY <1>a, <2>1, <2>2, <2>6, EmitKept
  <1>9. CASE Written!AskIntent
    <2>1. /\ Written!Complete /\ UNCHANGED x5
          /\ Written!Ask(<<Written!Says(Written!Number, "own")>>, "a2ui")
      BY <1>9 DEF Written!AskIntent
    <2>2. <<Written!Says(Written!Number, "own")>> \in Seq(Written!Frame)
      BY <1>c, <2>1
    <2> QED
      BY <1>a, <2>1, <2>2, AskKept
  <1>10. ASSUME NEW c \in x5 \cup {0}, Written!Hold(c) \/ Written!RefuseStart(c) PROVE Holds'
    <2>1. /\ Written!Complete /\ UNCHANGED x6
          /\ \/ x5' = (x5 \ {c}) \cup {Written!Number} /\ Written!Emit(<<>>)
             \/ x5' = x5 \ {c} /\ Written!Emit(<<Written!Says(Written!Number, "error")>>)
      BY <1>10 DEF Written!Hold, Written!RefuseStart
    <2>2. x5' \subseteq 1 .. MaxEvents
      BY <1>a, <1>b, <2>1
    <2>3. <<Written!Says(Written!Number, "error")>> \in Seq(Written!Frame)
      BY <1>c, <2>1
    <2> QED
      BY <1>a, <1>b, <2>1, <2>2, <2>3, EmitKept
  <1>11. ASSUME NEW c \in x5, Written!Overflow(c) PROVE Holds'
    <2>1. /\ Written!Complete /\ UNCHANGED x6 /\ x5' = x5 \ {c}
          /\ Written!Emit(<<Written!Says(Written!Number, "error")>>)
      BY <1>11 DEF Written!Overflow
    <2>2. <<Written!Says(Written!Number, "error")>> \in Seq(Written!Frame)
      BY <1>c, <2>1
    <2> QED
      BY <1>a, <2>1, <2>2, EmitKept
  <1>12. ASSUME NEW c \in x5, Written!EndCall(c) PROVE Holds'
    <2>1. Written!Complete /\ x5' \subseteq 1 .. MaxEvents
      BY <1>a, <1>12 DEF Written!EndCall
    <2>2. PICK frames \in Written!Frames(c) :
              \/ Written!Emit(frames) /\ UNCHANGED x6
              \/ Written!Ask(frames, "ag_ui")
              \/ Written!Emit(<<Written!Says(Written!Number, "error")>>) /\ UNCHANGED x6
      BY <1>12 DEF Written!EndCall
    <2>3. frames \in Seq(Written!Frame)
      BY <2>1, <2>2, FramesOfCall
    <2>4. <<Written!Says(Written!Number, "error")>> \in Seq(Written!Frame)
      BY <1>c, <2>1
    <2>5. CASE Written!Emit(frames) /\ UNCHANGED x6
      BY <1>a, <2>1, <2>3, <2>5, EmitKept
    <2>6. CASE Written!Ask(frames, "ag_ui")
      BY <2>1, <2>3, <2>6, AskKept
    <2>7. CASE Written!Emit(<<Written!Says(Written!Number, "error")>>) /\ UNCHANGED x6
      BY <1>a, <2>1, <2>4, <2>7, EmitKept
    <2> QED
      BY <2>2, <2>5, <2>6, <2>7
  <1>13. ASSUME NEW p \in x6, Written!Resolve(p) PROVE Holds'
    BY <1>13, ResolveKept
  <1>14. CASE Written!EndChunk \/ Written!Terminate
    BY <1>14, EndChunkKept, TerminateKept
  <1> QED
    BY <1>1, <1>2, <1>3, <1>4, <1>5, <1>6, <1>7, <1>8, <1>9, <1>10, <1>11, <1>12, <1>13, <1>14
    DEF Written!Next

-----------------------------------------------------------------------------

\* FramesInv is an invariant of the streams' frames.
LEMMA FramesInvariant == MCFairSpec => [](part = "frames" => Written!FramesInv)
  <1> DEFINE I == part = "frames" => Holds
  <1>1. MCInit => I
    BY FramesInit DEF MCInit
  <1>2. I /\ [MCNext]_<<part, vars, others>> => I'
    <2> SUFFICES ASSUME I, [MCNext]_<<part, vars, others>>, part' = "frames" PROVE Holds'
      OBVIOUS
    <2>1. part = "frames" /\ [Written!Next]_(Written!vars)
      BY DEF MCNext, others, Written!vars, Written!processor
    <2> QED
      BY <2>1, FramesStep
  <1>3. I => (part = "frames" => Written!FramesInv)
    BY InvIsHolds
  <1> HIDE DEF I
  <1> QED
    BY <1>1, <1>2, <1>3, PTL DEF MCFairSpec

\* What the client reads are the frames that were sent, each an event of its own
\* and in their order, however many events, lines and pending calls there are
\* (processor.rs:200, ndjson.rs:269).  In an SSE stream this is so while no
\* decision has released a frame, no frame has gone on in a second line, and no
\* line has passed as no data that is data to the client (OwnFrames, PassedAsIs
\* and OnlyJudged, which do not hold).
THEOREM EventsOfTheirOwn == MCFairSpec => []FramesAreEvents
  <1>1. (part = "frames" => Written!FramesInv) => FramesAreEvents
    <2> SUFFICES ASSUME Written!FramesInv PROVE Written!TypeOK /\ Written!FramesAreEvents
      BY DEF FramesAreEvents
    <2>1. Written!TypeOK /\ x8 \in Seq(Written!Frame) /\ x9 \in Written!Reader
      BY DEF Written!FramesInv, Written!TypeOK
    <2>2. ASSUME x1 = "ndjson" \/ Written!NothingResolved, Written!SingleLines, ~ x10
          PROVE  Written!SeenFrames
      <3> DEFINE n == Len(x8)
                 R == Seq(Seq(Seq(Written!Piece)))
      <3>1. Written!AtRest(x9, x8, n)
        BY <2>2 DEF Written!FramesInv, Written!ClientRests, Written!ByLine
      <3>2. x9.read \in R
        BY <2>1 DEF Written!Reader
      <3>3. n \in Nat /\ DOMAIN x8 = 1 .. n
        BY <2>1
      <3> HIDE DEF n
      <3>4. Len(x9.read) = n /\ \A i \in 1 .. n : x9.read[i] = Written!Proper(x8[i])
        BY <3>1 DEF Written!AtRest
      <3>5. x9.read = [i \in 1 .. n |-> x9.read[i]]
        BY <3>2, <3>3, <3>4
      <3>6. [i \in 1 .. n |-> x9.read[i]] = [i \in 1 .. n |-> Written!Proper(x8[i])]
        BY <3>4
      <3> QED
        BY <3>3, <3>5, <3>6 DEF Written!SeenFrames
    <2> QED
      BY <2>1, <2>2 DEF Written!FramesAreEvents
  <1> QED
    BY <1>1, FramesInvariant, PTL

\* Of what is dropped, denied, or still held, nothing reaches the client, not even
\* in a line it would ignore (processor.rs:299).
THEOREM NothingWithheldIsRead == MCFairSpec => []WithheldIsUnread
  <1>1. (part = "frames" => Written!FramesInv) => WithheldIsUnread
    BY DEF WithheldIsUnread, Written!FramesInv
  <1> QED
    BY <1>1, FramesInvariant, PTL

=============================================================================
