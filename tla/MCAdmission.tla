----------------------------- MODULE MCAdmission -----------------------------
(***************************************************************************)
(* Who may do what, for TLC: the authority of channels (ChannelAuthority), *)
(* the request pipeline (Requests) and budgets (UsageLimits).  The models  *)
(* share nothing, so a behaviour is one of one of them (part), and the     *)
(* variables of the others stay as they are.                               *)
(***************************************************************************)
EXTENDS ChannelInvariant, TLC

CONSTANTS
    Part,                                                  \* the models to check
    Provider, Hook, AuthorityMode, Deadline,               \* Requests
    MaxHooks, MaxRev,
    Caller, Budget, Limit, Length, Agent, Ledger,          \* UsageLimits
    MaxCost, MaxCalls,
    MaxTime, MaxFaults                                     \* several

ASSUME PipelineAssumption ==
    /\ Provider \subseteq {"kratos", "mcp", "api"}
    /\ {Deadline, MaxHooks, MaxRev, MaxTime} \subseteq Nat

\* "oauth" is the counter of OAuth calls, "lifetime" is no window.
ASSUME LimitsAssumption ==
    /\ IsFiniteSet(Caller) /\ Caller # {}
    /\ "oauth" \notin Budget
    /\ {Limit, Length} \subseteq Nat /\ MaxCost \in Nat \ {0}
    /\ MaxFaults \in Nat

Symmetry == Permutations(Call) \cup Permutations(Effect) \cup Permutations(Action)
            \cup Permutations(Scope) \cup Permutations(Process) \cup Permutations(Caller)

\* x1, x2, ... are the variables of the model that runs, in its order; the
\* variables of ChannelAuthority are its own.
VARIABLES
    part,
    x1, x2, x3, x4, x5,
    x6, x7, x8, x9, x10, x11, x12, x13, x14

past5 == <<x6, x7, x8, x9, x10, x11, x12, x13, x14>>
others == <<x1, x2, x3, x4, x5, past5>>

Pipeline == INSTANCE Requests WITH
    now <- x1, served <- x2, identity <- x3, pc <- x4, route <- x5, pinned <- x6,
    who <- x7, hook <- x8, passed <- x9, judged <- x10, barred <- x11, token <- x12,
    tools <- x13, sent <- x14

Limits == INSTANCE UsageLimits WITH
    now <- x1, counter <- x2, ledger <- x3, request <- x4, faults <- x5,
    Request <- Caller,
    MaxTime <- MaxTime + 1, MaxFaults <- MaxFaults + 1

NoneAfter5 ==
    /\ x6 = 0 /\ x7 = 0 /\ x8 = 0 /\ x9 = 0 /\ x10 = 0 /\ x11 = 0
    /\ x12 = 0 /\ x13 = 0 /\ x14 = 0

Nothing ==
    /\ x1 = 0 /\ x2 = 0 /\ x3 = 0 /\ x4 = 0 /\ x5 = 0
    /\ NoneAfter5

MCInit ==
    /\ part \in Part
    /\ Init
    /\ part # "channel" => \A p \in Process : policy[p] \in Denying
    /\ \/ part = "channel" /\ Nothing
       \/ part = "pipeline" /\ Pipeline!Init
       \/ part = "limits" /\ Limits!Init /\ NoneAfter5

MCNext ==
    /\ UNCHANGED part
    /\ \/ part = "channel" /\ Next /\ UNCHANGED others
       \/ part = "pipeline" /\ Pipeline!Next /\ UNCHANGED vars
       \/ part = "limits" /\ Limits!Next /\ UNCHANGED <<vars, past5>>

MCSpec == MCInit /\ [][MCNext]_<<part, vars, others>>

-----------------------------------------------------------------------------

\* Every model's variables have their types.
TypesOK ==
    /\ part = "channel" => TypeOK
    /\ part = "pipeline" => Pipeline!TypeOK
    /\ part = "limits" => Limits!TypeOK

\* Whoever is let through may pass (Requests).
LetThroughIsAllowed == part = "pipeline" => Pipeline!LetThroughIsAllowed

\* Nothing is sent upstream after its deadline (Requests).
SentInTime == part = "pipeline" => Pipeline!SentInTime

\* A budget is overshot by no more than runs at once (UsageLimits).
OvershootIsBounded == part = "limits" => Limits!OvershootIsBounded

\* A window ends when it was going to (UsageLimits).
WindowIsFixed == [][part = "limits" => Limits!KeepsWindows]_<<part, vars, others>>

=============================================================================
