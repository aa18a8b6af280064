------------------------------ MODULE TicketUse ------------------------------
(***************************************************************************)
(* What a secret access ticket promises, seen from outside the vault: an   *)
(* authorisation is granted once for a fixed number of uses, each use      *)
(* spends one of them, and a revocation is final.  There are no processes, *)
(* copies or store calls here; module Tickets shows that the handlers of   *)
(* the vault implement this.                                               *)
(***************************************************************************)
EXTENDS Naturals

CONSTANT TicketIds      \* the ticket ids that may ever be issued

VARIABLES
    status,             \* status[t]: "none" (never issued), "live" or "dead"
    granted,            \* granted[t]: the uses the ticket was issued for
    spent               \* spent[t]: the uses that were made of it

vars == <<status, granted, spent>>

Init ==
    /\ status  = [t \in TicketIds |-> "none"]
    /\ granted = [t \in TicketIds |-> 0]
    /\ spent   = [t \in TicketIds |-> 0]

\* A ticket is issued once, for any number of uses.
Grant(t) ==
    /\ status[t] = "none"
    /\ status' = [status EXCEPT ![t] = "live"]
    /\ granted'[t] \in Nat
    /\ granted' = [granted EXCEPT ![t] = granted'[t]]
    /\ UNCHANGED spent

\* One use, only while the ticket is live and has uses left.
Use(t) ==
    /\ status[t] = "live"
    /\ spent[t] < granted[t]
    /\ spent' = [spent EXCEPT ![t] = @ + 1]
    /\ UNCHANGED <<status, granted>>

\* Revocation; nothing leads back from "dead".
Kill(t) ==
    /\ status[t] = "live"
    /\ status' = [status EXCEPT ![t] = "dead"]
    /\ UNCHANGED <<granted, spent>>

Next == \E t \in TicketIds : Grant(t) \/ Use(t) \/ Kill(t)

Spec == Init /\ [][Next]_vars
==============================================================================
