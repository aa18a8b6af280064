------------------------------ MODULE MCTickets ------------------------------
(***************************************************************************)
(* Small instances of Tickets for TLC.                                     *)
(***************************************************************************)
EXTENDS Tickets, TLC

CONSTANTS p1, p2, t1, t2, c1, r1, s1

MCRefOf == [c \in {c1} |-> r1]

\* Two uses, never expiring within the clock's bound.
TwoUses == [allows |-> {c1}, ttl |-> 5, max_uses |-> 2, expires_at |-> 5]
\* One use, valid at its instant and the next; the policy itself ends at 0.
ShortLived == [allows |-> {c1}, ttl |-> 0, max_uses |-> 1, expires_at |-> 0]
\* A policy that allows nobody.
Closed == [allows |-> {}, ttl |-> 5, max_uses |-> 1, expires_at |-> 5]

OneBody   == {TwoUses}
EnvBodies == {ShortLived, Closed}

RenewalBodies == {TwoUses, Closed}

Symmetry == Permutations(Procs) \cup Permutations(TicketIds)
==============================================================================
