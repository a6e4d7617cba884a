---------------------------- MODULE MCIdentities ----------------------------
(***************************************************************************)
(* Who a caller is, for TLC: the versioned sessions of Kratos              *)
(* (VersionedSessionCache), where one process lives (part), with flushes   *)
(* by hand and faults, and in a fleet without either, and the tokens that  *)
(* are exchanged for others (TokenExchange).  A behaviour is of one of     *)
(* these, and the variables of the other model stay as they are.           *)
(***************************************************************************)
EXTENDS VersionedSessionCache, TLC

CONSTANTS MaxCauses, Client, Scope, Exchanger, NoOne, Ttl, Until, MaxTime, MaxTokens

ASSUME ExchangeAssumption == Ttl \in Nat \ {0} /\ Until \in Nat /\ MaxTime \in Nat

Symmetry == Permutations(Process) \cup Permutations(Request) \cup Permutations(Client)

VARIABLES part, now, policy, registered, tokens, await, form, client

exchangeVars == <<now, policy, registered, tokens, await, form, client>>

Exchange == INSTANCE TokenExchange WITH pc <- await, Request <- Exchanger, None <- NoOne

MCInit ==
    /\ part \in Process \cup {"fleet", "exchange"}
    /\ Init /\ Exchange!Init
    /\ part \in Process => \A r \in Request : home[r] = part
    /\ part # "exchange" => policy.public = {} /\ policy.persons = {} /\ policy.hydra
                           /\ policy.own /\ \A c \in Client : registered[c] = NoOne
    /\ part = "exchange" => database /\ \A r, q \in Request : home[r] = home[q]

Stays(p) ==
    UNCHANGED <<generation[p], l1[p], water[p], epoch[p], conf[p], task[p]>>

\* For one process, so many of the events of the authority, the changes of the
\* configuration, the flushes and the faults; a fleet has events of the authority
\* or changes of the configuration.
MCNext ==
    /\ UNCHANGED part
    /\ \/ /\ part \in Process
          /\ Next /\ UNCHANGED exchangeVars
          /\ \A p \in Process \ {part} : Stays(p)
          /\ fence'.water + durable' + flushes' + faults' <= MaxCauses
       \/ /\ part = "fleet"
          /\ Next /\ UNCHANGED exchangeVars
          /\ UNCHANGED <<flushes, faults>>
          /\ database => fence'.water = 0
       \/ part = "exchange" /\ Exchange!Next /\ UNCHANGED vars

MCSpec == MCInit /\ [][MCNext]_<<part, vars, exchangeVars>>

-----------------------------------------------------------------------------

\* The variables of the model that a behaviour is of have their types.
TypesOK == IF part = "exchange" THEN Exchange!TypeOK ELSE TypeOK

\* Exchanging a token never adds to what it allows (TokenExchange).
AuthorityShrinks == part = "exchange" => Exchange!AuthorityShrinks

=============================================================================
