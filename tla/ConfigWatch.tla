----------------------------- MODULE ConfigWatch -----------------------------
(***************************************************************************)
(* The watch over the configuration file (config/loader.rs): the file is   *)
(* parsed once, at start, and a change to it is only reported, so that the *)
(* process is started again.                                               *)
(*                                                                         *)
(* The configured path leads to a file, its target, through links: the     *)
(* ones beside it (near: a mounted volume swaps those) and links elsewhere *)
(* (far).  The task watches the directory of the path and, when it is      *)
(* another one, that of the target; a watched directory queues an event    *)
(* for what happens in it.  The directories themselves stay.  That the     *)
(* debounce has a length matters to no property: its end is an action.     *)
(***************************************************************************)
EXTENDS Naturals, Sequences

CONSTANTS
    Target,      \* files the path may lead to
    DirOf,       \* the directory of each
    Here,        \* the directory of the configured path
    None,        \* no file, no directory
    MaxWrites,   \* bound: contents of a file
    MaxSwaps,    \* bound: times the path is made to lead elsewhere
    MaxEvents    \* bound: events that wait

VARIABLES
    leads,       \* the target of the configured path
    content,     \* of each target, which is a number
    swaps,
    pc,          \* the watching task
    events,      \* those queued: the file of each, Here for the configured path
                 \* itself, or None for another one
    observed,    \* the target, as the task last looked
    watched,     \* the directory of target_watch
    deadline,    \* a deadline of the debounce is pending
    past,        \* what the path has yielded so far, or was written unseen
    news         \* what it first yielded since the last report, but for swaps afar

vars == <<leads, content, swaps, pc, events, observed, watched, deadline, past, news>>

disk == <<leads, content, swaps>>

\* What one reads at the path.
Yields == [target |-> leads, content |-> IF leads = None THEN 0 ELSE content[leads]]

\* The directory update_target_watch wants to watch beside that of the path.
DirectoryOf(target) ==
    IF target \in Target /\ DirOf[target] # Here THEN DirOf[target] ELSE None

TypeOK ==
    /\ leads \in Target \cup {None}
    /\ content \in [Target -> 0 .. MaxWrites]
    /\ swaps \in 0 .. MaxSwaps
    /\ pc \in {"start", "wait", "match", "ended"}
    /\ events \in Seq(Target \cup {Here, None}) /\ Len(events) <= MaxEvents
    /\ observed \in Target \cup {None}
    /\ watched \in {DirOf[t] : t \in Target} \cup {None}
    /\ deadline \in BOOLEAN
    /\ past \subseteq [target : Target \cup {None}, content : 0 .. MaxWrites]
    /\ news \subseteq past

Init ==
    /\ leads \in Target
    /\ content = [t \in Target |-> 0]
    /\ swaps = 0
    /\ pc = "start"
    /\ events = << >>
    /\ observed = None
    /\ watched = None
    /\ deadline = FALSE
    /\ past = {Yields}
    /\ news = {}

-----------------------------------------------------------------------------

(* The file system                                                         *)

\* An event is queued when a watched directory sees it.
Seen(dir) == pc # "start" /\ dir \in {Here, watched}

Queue(dir, file) ==
    IF Seen(dir) /\ pc # "ended" THEN events' = Append(events, file) ELSE UNCHANGED events

Room == Len(events) < MaxEvents

\* A target is written in place.
Write(t) ==
    /\ Room
    /\ content[t] < MaxWrites
    /\ content' = [content EXCEPT ![t] = @ + 1]
    /\ Queue(DirOf[t], t)
    /\ UNCHANGED <<leads, swaps, pc, observed, watched, deadline>>
    /\ past' = past \cup {Yields'} \cup
                 (IF Seen(DirOf[t]) THEN {} ELSE {[target |-> t, content |-> content'[t]]})
    /\ news' = news \cup ({Yields'} \ past)

\* The path, or a link beside it, is made to lead elsewhere, or is removed.
Swap(t) ==
    /\ Room
    /\ t # leads
    /\ swaps < MaxSwaps
    /\ swaps' = swaps + 1
    /\ leads' = t
    /\ \E file \in {Here, None} : Queue(Here, file)
    /\ UNCHANGED <<content, pc, observed, watched, deadline>>
    /\ past' = past \cup {Yields'}
    /\ news' = news \cup (past' \ past)

\* A link in a directory that nobody watches is changed.
SwapAfar(t) ==
    /\ leads # None
    /\ DirOf[leads] # Here
    /\ t # leads
    /\ DirOf[t] # Here
    /\ swaps < MaxSwaps
    /\ swaps' = swaps + 1
    /\ leads' = t
    /\ UNCHANGED <<content, pc, events, observed, watched, deadline, news>>
    /\ past' = past \cup {Yields'}

-----------------------------------------------------------------------------

(* The task                                                                *)

\* load_config has parsed the file; watch_file starts both watches, or the
\* task ends and the change channel with it.  What changed in between is never
\* reported.
Start ==
    /\ pc = "start"
    /\ \/ /\ pc' = "wait"
          /\ observed' = leads
          /\ watched' \in {DirectoryOf(leads), None}
          /\ news' = {}
       \/ /\ pc' = "ended"
          /\ UNCHANGED <<observed, watched, news>>
    /\ UNCHANGED <<disk, events, deadline, past>>

\* An event is taken and matched: its path is the configured one or that of the
\* target, as it is or was, or the target is another one.
Take ==
    /\ pc = "wait"
    /\ events # << >>
    /\ events' = Tail(events)
    /\ observed' = leads
    /\ pc' = IF \/ Head(events) \in {Here} \cup (Target \cap {observed, leads})
                \/ observed # leads
             THEN "match" ELSE "wait"
    /\ UNCHANGED <<disk, watched, deadline, past, news>>

\* update_target_watch: the watch moves to the directory of the target, unless
\* it is there, and may fail.  The deadline starts anew.
Match ==
    /\ pc = "match"
    /\ pc' = "wait"
    /\ watched' \in {DirectoryOf(observed)} \cup (IF watched = DirectoryOf(observed) THEN {} ELSE {None})
    /\ deadline' = TRUE
    /\ UNCHANGED <<disk, events, observed, past, news>>

\* Variant: the timer is not awaited while a target is watched.
ReportUnwatched ==
    /\ pc = "wait"
    /\ deadline /\ watched = None
    /\ deadline' = FALSE
    /\ news' = {}
    /\ UNCHANGED <<disk, pc, events, observed, watched, past>>

\* The deadline has passed.
Report ==
    /\ pc = "wait"
    /\ deadline
    /\ deadline' = FALSE
    /\ news' = {}
    /\ UNCHANGED <<disk, pc, events, observed, watched, past>>

Next ==
    \/ \E t \in Target : Write(t) \/ SwapAfar(t)
    \/ \E t \in Target \cup {None} : Swap(t)
    \/ Start \/ Take \/ Match \/ Report

\* The task takes what is queued, and its timer fires.
Fairness == WF_vars(Take) /\ WF_vars(Match) /\ WF_vars(Report)

Spec == Init /\ [][Next]_vars

FairSpec == Spec /\ Fairness

-----------------------------------------------------------------------------

\* The task watches where the path leads to.
Sees == observed = leads /\ watched = DirectoryOf(leads)

\* What the path yields is new since the last report.
Unreported == Yields \in news

Noticeable == pc = "wait" /\ Sees /\ Unreported

Settled == ~ Unreported \/ ~ Sees

\* An event of the target waits for the task.
Coming == observed \in Target /\ \E i \in DOMAIN events : events[i] = observed

(* No swap, write or move of the watch leaves a change behind that the     *)
(* task is not going to come to (loader.rs:101-150, 197-216).              *)
NothingIsMissed == Noticeable => deadline \/ Coming

(* A change the task can see is reported in the end, after it was made:    *)
(* neither a burst of writes, nor a swap that a write in the new directory *)
(* follows, nor what is queued before it hides it (loader.rs:65-67,        *)
(* 89-91, 101-150, 197-216).                                               *)
ChangesAreReported == Noticeable ~> Settled

=============================================================================
