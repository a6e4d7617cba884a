------------------------------ MODULE MCStreams ------------------------------
(***************************************************************************)
(* Streams, for TLC: the approvals that streams wait for (StreamApprovals) *)
(* and what a filtered stream writes to its client (StreamFrames).  The    *)
(* models share nothing, so a behaviour is one of one of them (part), and  *)
(* the variables of the other stay as they are.                            *)
(***************************************************************************)
EXTENDS StreamApprovals

CONSTANTS Protocol, MaxEvents, MaxLines       \* StreamFrames

\* x1, x2, ... are the variables of StreamFrames, in its order.
VARIABLES part, x1, x2, x3, x4, x5, x6, x7, x8, x9, x10

others == <<x1, x2, x3, x4, x5, x6, x7, x8, x9, x10>>

ASSUME FramesAssumption == MaxEvents \in Nat

Written == INSTANCE StreamFrames WITH
    protocol <- x1, pc <- x2, event <- x3, count <- x4, calls <- x5, pending <- x6,
    output <- x7, released <- x8, client <- x9, slipped <- x10

Nothing ==
    /\ x1 = 0 /\ x2 = 0 /\ x3 = 0 /\ x4 = 0 /\ x5 = 0
    /\ x6 = 0 /\ x7 = 0 /\ x8 = 0 /\ x9 = 0 /\ x10 = 0

MCInit ==
    /\ Init
    /\ \/ part = "approvals" /\ Nothing
       \/ part = "frames" /\ Written!Init

MCNext ==
    /\ UNCHANGED part
    /\ \/ part = "approvals" /\ Next /\ UNCHANGED others
       \/ part = "frames" /\ Written!Next /\ UNCHANGED vars

\* The task of a stream, the janitor and time go on, as in FairSpec.
MCFairSpec ==
    /\ MCInit /\ [][MCNext]_<<part, vars, others>>
    /\ \A s \in Stream : WF_vars(Step(s))
    /\ WF_vars(Purge) /\ WF_vars(Tick)

-----------------------------------------------------------------------------

\* What the client reads are the frames that were sent (StreamFrames), whose
\* variables have their types.
FramesAreEvents == part = "frames" => Written!TypeOK /\ Written!FramesAreEvents

\* Nothing of a withheld event reaches the client (StreamFrames).
WithheldIsUnread == part = "frames" => Written!WithheldIsUnread

=============================================================================
