---------------------------- MODULE TicketsProofs ----------------------------
(***************************************************************************)
(* Theorems about module Tickets, for every value of its constants.        *)
(***************************************************************************)
EXTENDS Tickets, FiniteSetTheorems, TLAPS

-----------------------------------------------------------------------------
(* The inductive invariant.                                                *)

\* A command that has built a ticket and has not saved it yet.
Building == {"issue_save", "renew_revoke", "renew_save"}

\* A command on a ticket id, and one that already holds a copy of the row.
Targeting == {"renew_load", "consume_load", "revoke_load"}
Holding   == {"renew_policy", "renew_current", "renew_build", "renew_revoke",
              "renew_save", "consume_policy", "consume_current", "consume_save",
              "consume_record", "consume_audit", "consume_return", "revoke_save"}
Asking    == {"issue_load", "issue_eval", "renew_load", "renew_policy",
              "renew_current", "renew_build", "consume_load"}

\* A command on a ticket has its id, and a command that consults it its request.
Arguments ==
    \A p \in Procs :
        /\ pc[p] \in Targeting \cup Holding => target[p] \in TicketIds
        /\ pc[p] \in Asking => req[p] \in Request

\* The copy a command holds is a copy of an existing row with the same grant.
Copies ==
    \A p \in Procs : pc[p] \in Holding =>
        /\ held[p] \in Ticket
        /\ Exists(target[p])
        /\ held[p].max_uses = tickets[target[p]].max_uses

\* The copy that consume is about to spend was validated.
Validated ==
    \A p \in Procs : pc[p] \in {"consume_policy", "consume_current", "consume_save"} =>
        held[p].uses_remaining >= 1 /\ ~held[p].revoked

\* The policy renew reads a second time exists: policies are never deleted.
PolicyKept ==
    \A p \in Procs : pc[p] \in {"renew_current", "renew_build"} =>
        policies[held[p].policy_id] # NoPolicy

\* A ticket being built is unused and has a row id of its own.
Built ==
    /\ \A p \in Procs : pc[p] \in Building =>
          /\ fresh[p] \in Ticket
          /\ ~fresh[p].revoked
          /\ fresh[p].uses_remaining = fresh[p].max_uses
          /\ newId[p] \in minted
          /\ ~Exists(newId[p])
    /\ \A p, q \in Procs :
          pc[p] \in Building /\ pc[q] \in Building /\ p # q => newId[p] # newId[q]

\* Rows exist for drawn ids only, and only rows are used.
Rowless ==
    \A t \in TicketIds : (Exists(t) => t \in minted) /\ (~Exists(t) => used[t] = 0)

\* What a lockdown has listed are rows with the same grant; those it does not
\* have to revoke any more are revoked.
Listed ==
    \A p \in Procs : pc[p] \in {"lockdown_save", "lockdown_audit"} =>
        /\ pc[p] = "lockdown_audit" => left[p] = {}
        /\ \A t \in TicketIds :
              /\ t \in left[p] => snap[p][t] # NoTicket
              /\ snap[p][t] # NoTicket =>
                    /\ Exists(t)
                    /\ snap[p][t].max_uses = tickets[t].max_uses
                    /\ t \notin left[p] => tickets[t].revoked

IInv ==
    /\ TypeOK /\ Arguments /\ Copies /\ Validated /\ PolicyKept /\ Built
    /\ Rowless /\ Listed /\ UsesWithinGrant

-----------------------------------------------------------------------------
(* Facts about the pure operators.                                         *)

\* TicketManager::issue builds an unused, unrevoked ticket.
LEMMA NewTicketType ==
    ASSUME NEW q \in Request, NEW v \in Nat, NEW i \in PolicyIds,
           NEW body \in PolicyBodies, NEW s \in Sessions \cup {NoSession}
    PROVE  /\ NewTicket(q, v, i, body, s) \in Ticket
           /\ ~NewTicket(q, v, i, body, s).revoked
           /\ NewTicket(q, v, i, body, s).uses_remaining
                = NewTicket(q, v, i, body, s).max_uses
<1>1. body \in PolicyBody
  BY ConstantsAssumption
<1>2. QED
  BY <1>1 DEF NewTicket, Ticket, Request, PolicyBody

\* TicketManager::revoke changes the flag only.
LEMMA RevokedType ==
    ASSUME NEW row \in Ticket
    PROVE  Revoked(row) \in Ticket /\ Revoked(row).revoked
           /\ Revoked(row).max_uses = row.max_uses
BY DEF Revoked, Ticket

\* TicketManager::consume takes one use and changes nothing else.
LEMMA SpentType ==
    ASSUME NEW row \in Ticket, row.uses_remaining >= 1
    PROVE  /\ Spent(row) \in Ticket
           /\ Spent(row).revoked = row.revoked
           /\ Spent(row).max_uses = row.max_uses
           /\ Spent(row).uses_remaining = row.uses_remaining - 1
BY DEF Spent, Ticket

\* A row that exists is a ticket.
LEMMA RowType ==
    ASSUME TypeOK, NEW t \in TicketIds, Exists(t)
    PROVE  tickets[t] \in Ticket
BY DEF TypeOK, Rows, Exists

\* A ticket is not the absent row.
LEMMA TicketExists ==
    ASSUME NEW row \in Ticket
    PROVE  row # NoTicket
BY ConstantsAssumption

-----------------------------------------------------------------------------
(* Steps.                                                                  *)

\* The return of a command disturbs nothing: it only forgets copies.
LEMMA FinishStep ==
    ASSUME IInv, NEW p \in Procs, Finish(p),
           UNCHANGED <<db, now, minted, hist>>
    PROVE  IInv'
<1>1. TypeOK'
  BY DEF IInv, TypeOK, Finish, Goto, db, hist, NoRows, Rows, Labels
<1>2. Arguments' /\ Copies' /\ Validated' /\ PolicyKept'
  BY DEF IInv, TypeOK, Finish, Goto, db, Arguments, Copies, Validated, PolicyKept,
         Exists, Asking, Holding, Targeting
<1>3. Built' /\ Rowless'
  BY DEF IInv, TypeOK, Finish, Goto, db, hist, Built, Rowless, Exists, Building
<1>4. Listed' /\ UsesWithinGrant'
  BY DEF IInv, TypeOK, Finish, Goto, db, hist, Listed, UsesWithinGrant, Exists, Live
<1>5. QED
  BY <1>1, <1>2, <1>3, <1>4 DEF IInv

\* A new request touches no table.
LEMMA IssueStartStep ==
    ASSUME IInv, NEW p \in Procs, NEW c \in Contexts, NEW s \in Sessions \cup {NoSession},
           IssueStart(p, c, s)
    PROVE  IInv'
<1>1. TypeOK'
  BY ConstantsAssumption DEF IInv, TypeOK, IssueStart, Goto, Request, db, hist, Rows, Labels
<1>2. Arguments' /\ Copies' /\ Validated' /\ PolicyKept'
  BY DEF IInv, TypeOK, IssueStart, Goto, Request, db, Arguments, Copies, Validated, PolicyKept,
         Exists, Asking, Holding, Targeting, Rows
<1>3. Built' /\ Rowless'
  BY DEF IInv, TypeOK, IssueStart, Goto, Request, db, hist, Built, Rowless, Exists, Building
<1>4. Listed' /\ UsesWithinGrant'
  BY DEF IInv, TypeOK, IssueStart, Goto, Request, db, hist, Listed, UsesWithinGrant, Exists, Live
<1>5. QED
  BY <1>1, <1>2, <1>3, <1>4 DEF IInv

\* Nor does a renew or a consume.
LEMMA UseStartStep ==
    ASSUME IInv, NEW p \in Procs, NEW t \in TicketIds, NEW c \in Contexts,
           NEW s \in Sessions \cup {NoSession}, NEW l,
           UseStart(p, t, c, s, l), l \in {"renew_load", "consume_load"}
    PROVE  IInv'
<1>1. TypeOK'
  BY ConstantsAssumption DEF IInv, TypeOK, UseStart, Goto, Request, db, hist, Rows, Labels
<1>2. Arguments' /\ Copies' /\ Validated' /\ PolicyKept'
  BY DEF IInv, TypeOK, UseStart, Goto, Request, db, Arguments, Copies, Validated, PolicyKept,
         Exists, Asking, Holding, Targeting, Rows
<1>3. Built' /\ Rowless'
  BY DEF IInv, TypeOK, UseStart, Goto, Request, db, hist, Built, Rowless, Exists, Building
<1>4. Listed' /\ UsesWithinGrant'
  BY DEF IInv, TypeOK, UseStart, Goto, Request, db, hist, Listed, UsesWithinGrant, Exists, Live
<1>5. QED
  BY <1>1, <1>2, <1>3, <1>4 DEF IInv

\* Nor does a revoke.
LEMMA RevokeStartStep ==
    ASSUME IInv, NEW p \in Procs, NEW t \in TicketIds, RevokeStart(p, t)
    PROVE  IInv'
<1>1. TypeOK'
  BY ConstantsAssumption DEF IInv, TypeOK, RevokeStart, Goto, db, hist, Rows, Labels
<1>2. Arguments' /\ Copies' /\ Validated' /\ PolicyKept'
  BY DEF IInv, TypeOK, RevokeStart, Goto, db, Arguments, Copies, Validated, PolicyKept,
         Exists, Asking, Holding, Targeting, Rows
<1>3. Built' /\ Rowless'
  BY DEF IInv, TypeOK, RevokeStart, Goto, db, hist, Built, Rowless, Exists, Building
<1>4. Listed' /\ UsesWithinGrant'
  BY DEF IInv, TypeOK, RevokeStart, Goto, db, hist, Listed, UsesWithinGrant, Exists, Live
<1>5. QED
  BY <1>1, <1>2, <1>3, <1>4 DEF IInv

\* Nor does a lockdown.
LEMMA LockdownStartStep ==
    ASSUME IInv, NEW p \in Procs, LockdownStart(p)
    PROVE  IInv'
<1>1. TypeOK'
  BY ConstantsAssumption DEF IInv, TypeOK, LockdownStart, Goto, db, hist, Rows, Labels
<1>2. Arguments' /\ Copies' /\ Validated' /\ PolicyKept'
  BY DEF IInv, TypeOK, LockdownStart, Goto, db, Arguments, Copies, Validated, PolicyKept,
         Exists, Asking, Holding, Targeting, Rows
<1>3. Built' /\ Rowless'
  BY DEF IInv, TypeOK, LockdownStart, Goto, db, hist, Built, Rowless, Exists, Building
<1>4. Listed' /\ UsesWithinGrant'
  BY DEF IInv, TypeOK, LockdownStart, Goto, db, hist, Listed, UsesWithinGrant, Exists, Live
<1>5. QED
  BY <1>1, <1>2, <1>3, <1>4 DEF IInv

\* The load of the latest version keeps it, or the command returns.
LEMMA IssueLoadStep ==
    ASSUME IInv, NEW p \in Procs, IssueLoad(p)
    PROVE  IInv'
<1>1. CASE Finish(p)
  BY <1>1, FinishStep DEF IssueLoad
<1>2. CASE ~Finish(p)
  <2>0. PICK v \in Versions :
          /\ Goto(p, "issue_eval")
          /\ ver' = [ver EXCEPT ![p] = v]
          /\ UNCHANGED <<req, target, held, newId, fresh, snap, left, receipt>>
    BY <1>2 DEF IssueLoad
  <2>a. v \in Nat /\ pc[p] = "issue_load" /\ UNCHANGED <<db, now, minted, hist>>
    BY ConstantsAssumption DEF IssueLoad
  <2>1. TypeOK'
    BY ConstantsAssumption, <2>0, <2>a DEF IInv, TypeOK, Goto, db, hist, Rows, Labels
  <2>2. Arguments' /\ Copies' /\ Validated' /\ PolicyKept'
    BY <2>0, <2>a DEF IInv, TypeOK, Goto, db, Arguments, Copies, Validated, PolicyKept,
         Exists, Asking, Holding, Targeting, Rows
  <2>3. Built' /\ Rowless'
    BY <2>0, <2>a DEF IInv, TypeOK, Goto, db, hist, Built, Rowless, Exists, Building
  <2>4. Listed' /\ UsesWithinGrant'
    BY <2>0, <2>a DEF IInv, TypeOK, Goto, db, hist, Listed, UsesWithinGrant, Exists, Live
  <2>5. QED
    BY <2>1, <2>2, <2>3, <2>4 DEF IInv
<1>3. QED
  BY <1>1, <1>2

\* The row renew or consume loads exists and is usable.
LEMMA LoadAndValidateStep ==
    ASSUME IInv, NEW p \in Procs, NEW from, NEW to,
           <<from, to>> \in {<<"renew_load", "renew_policy">>, <<"consume_load", "consume_policy">>},
           LoadAndValidate(p, from, to)
    PROVE  IInv'
<1>1. CASE Finish(p)
  BY <1>1, FinishStep DEF LoadAndValidate
<1>2. CASE ~Finish(p)
  <2>0. /\ pc[p] = from
        /\ tickets[target[p]] # NoTicket
        /\ ~tickets[target[p]].revoked /\ tickets[target[p]].uses_remaining >= 1
        /\ held' = [held EXCEPT ![p] = tickets[target[p]]]
        /\ Goto(p, to)
        /\ UNCHANGED <<req, target, newId, fresh, ver, snap, left, receipt>>
        /\ UNCHANGED <<db, now, minted, hist>>
    BY <1>2 DEF LoadAndValidate, Valid
  <2>a. /\ from \in {"renew_load", "consume_load"}
        /\ to = IF from = "renew_load" THEN "renew_policy" ELSE "consume_policy"
    OBVIOUS
  <2>b. target[p] \in TicketIds /\ tickets[target[p]] \in Ticket
    BY <2>0, <2>a DEF IInv, Arguments, Targeting, TypeOK, Rows
  <2>1. TypeOK'
    BY ConstantsAssumption, <2>0, <2>a, <2>b DEF IInv, TypeOK, Goto, db, hist, Rows, Labels
  <2>2. Arguments' /\ Copies' /\ Validated' /\ PolicyKept'
    BY <2>0, <2>a, <2>b DEF IInv, TypeOK, Goto, db, Arguments, Copies, Validated, PolicyKept,
         Exists, Asking, Holding, Targeting, Rows
  <2>3. Built' /\ Rowless'
    BY <2>0, <2>a, <2>b DEF IInv, TypeOK, Goto, db, hist, Built, Rowless, Exists, Building
  <2>4. Listed' /\ UsesWithinGrant'
    BY <2>0, <2>a, <2>b DEF IInv, TypeOK, Goto, db, hist, Listed, UsesWithinGrant, Exists, Live
  <2>5. QED
    BY <2>1, <2>2, <2>3, <2>4 DEF IInv
<1>3. QED
  BY <1>1, <1>2

\* The policy whose content still is the ticket's exists.
LEMMA CheckPolicyStep ==
    ASSUME IInv, NEW p \in Procs, NEW from, NEW to,
           <<from, to>> \in {<<"renew_policy", "renew_current">>,
                            <<"consume_policy", "consume_current">>},
           CheckPolicy(p, from, to)
    PROVE  IInv'
<1>1. CASE Finish(p)
  BY <1>1, FinishStep DEF CheckPolicy
<1>2. CASE ~Finish(p)
  <2>0. /\ pc[p] = from
        /\ policies[held[p].policy_id] = held[p].policy_hash
        /\ Goto(p, to)
        /\ UNCHANGED <<req, target, held, newId, fresh, ver, snap, left, receipt>>
        /\ UNCHANGED <<db, now, minted, hist>>
    BY <1>2 DEF CheckPolicy, Step, PolicyUnchanged
  <2>a. /\ from \in {"renew_policy", "consume_policy"}
        /\ to = IF from = "renew_policy" THEN "renew_current" ELSE "consume_current"
    OBVIOUS
  <2>b. held[p].policy_hash # NoPolicy
    BY <2>0, <2>a, ConstantsAssumption DEF IInv, Copies, Holding, Ticket
  <2>1. TypeOK'
    BY ConstantsAssumption, <2>0, <2>a, <2>b DEF IInv, TypeOK, Goto, db, hist, Rows, Labels
  <2>2. Arguments' /\ Copies' /\ Validated' /\ PolicyKept'
    BY <2>0, <2>a, <2>b DEF IInv, TypeOK, Goto, db, Arguments, Copies, Validated, PolicyKept,
         Exists, Asking, Holding, Targeting, Rows
  <2>3. Built' /\ Rowless'
    BY <2>0, <2>a, <2>b DEF IInv, TypeOK, Goto, db, hist, Built, Rowless, Exists, Building
  <2>4. Listed' /\ UsesWithinGrant'
    BY <2>0, <2>a, <2>b DEF IInv, TypeOK, Goto, db, hist, Listed, UsesWithinGrant, Exists, Live
  <2>5. QED
    BY <2>1, <2>2, <2>3, <2>4 DEF IInv
<1>3. QED
  BY <1>1, <1>2

\* The check of the pinned version changes nothing but the label.
LEMMA CheckCurrentStep ==
    ASSUME IInv, NEW p \in Procs, NEW from, NEW to,
           <<from, to>> \in {<<"renew_current", "renew_build">>,
                            <<"consume_current", "consume_save">>},
           CheckCurrent(p, from, to)
    PROVE  IInv'
<1>1. CASE Finish(p)
  BY <1>1, FinishStep DEF CheckCurrent
<1>2. CASE ~Finish(p)
  <2>0. /\ pc[p] = from
        /\ Goto(p, to)
        /\ UNCHANGED <<req, target, held, newId, fresh, ver, snap, left, receipt>>
        /\ UNCHANGED <<db, now, minted, hist>>
    BY <1>2 DEF CheckCurrent, Step
  <2>a. /\ from \in {"renew_current", "consume_current"}
        /\ to = IF from = "renew_current" THEN "renew_build" ELSE "consume_save"
    OBVIOUS
  <2>1. TypeOK'
    BY ConstantsAssumption, <2>0, <2>a DEF IInv, TypeOK, Goto, db, hist, Rows, Labels
  <2>2. Arguments' /\ Copies' /\ Validated' /\ PolicyKept'
    BY <2>0, <2>a DEF IInv, TypeOK, Goto, db, Arguments, Copies, Validated, PolicyKept,
         Exists, Asking, Holding, Targeting, Rows
  <2>3. Built' /\ Rowless'
    BY <2>0, <2>a DEF IInv, TypeOK, Goto, db, hist, Built, Rowless, Exists, Building
  <2>4. Listed' /\ UsesWithinGrant'
    BY <2>0, <2>a DEF IInv, TypeOK, Goto, db, hist, Listed, UsesWithinGrant, Exists, Live
  <2>5. QED
    BY <2>1, <2>2, <2>3, <2>4 DEF IInv
<1>3. QED
  BY <1>1, <1>2

\* Reading the pinned record chooses between audit and denial.
LEMMA ConsumeRecordStep ==
    ASSUME IInv, NEW p \in Procs, ConsumeRecord(p)
    PROVE  IInv'
<1>0. PICK l \in {"consume_audit", "consume_denied"} :
        /\ Goto(p, l)
        /\ UNCHANGED <<req, target, held, newId, fresh, ver, snap, left, receipt>>
  BY DEF ConsumeRecord, Step
<1>a. pc[p] = "consume_record" /\ UNCHANGED <<db, now, minted, hist>>
  BY DEF ConsumeRecord
<1>1. TypeOK'
  BY ConstantsAssumption, <1>0, <1>a DEF IInv, TypeOK, Goto, db, hist, Rows, Labels
<1>2. Arguments' /\ Copies' /\ Validated' /\ PolicyKept'
  BY <1>0, <1>a DEF IInv, TypeOK, Goto, db, Arguments, Copies, Validated, PolicyKept,
       Exists, Asking, Holding, Targeting, Rows
<1>3. Built' /\ Rowless'
  BY <1>0, <1>a DEF IInv, TypeOK, Goto, db, hist, Built, Rowless, Exists, Building
<1>4. Listed' /\ UsesWithinGrant'
  BY <1>0, <1>a DEF IInv, TypeOK, Goto, db, hist, Listed, UsesWithinGrant, Exists, Live
<1>5. QED
  BY <1>1, <1>2, <1>3, <1>4 DEF IInv

\* The audit event is the command's receipt.
LEMMA ConsumeAuditStep ==
    ASSUME IInv, NEW p \in Procs, ConsumeAudit(p)
    PROVE  IInv'
<1>1. TypeOK'
  BY ConstantsAssumption DEF IInv, TypeOK, ConsumeAudit, Goto, db, hist, Rows, Labels
<1>2. Arguments' /\ Copies' /\ Validated' /\ PolicyKept'
  BY DEF IInv, TypeOK, ConsumeAudit, Goto, db, Arguments, Copies, Validated, PolicyKept,
       Exists, Asking, Holding, Targeting, Rows
<1>3. Built' /\ Rowless'
  BY DEF IInv, TypeOK, ConsumeAudit, Goto, db, hist, Built, Rowless, Exists, Building
<1>4. Listed' /\ UsesWithinGrant'
  BY DEF IInv, TypeOK, ConsumeAudit, Goto, db, hist, Listed, UsesWithinGrant, Exists, Live
<1>5. QED
  BY <1>1, <1>2, <1>3, <1>4 DEF IInv

\* Returning the plaintext counts a delivery and forgets the copies.
LEMMA ConsumeReturnStep ==
    ASSUME IInv, NEW p \in Procs, ConsumeReturn(p)
    PROVE  IInv'
<1>0. target[p] \in TicketIds
  BY DEF IInv, Arguments, ConsumeReturn, Holding
<1>1. TypeOK'
  BY ConstantsAssumption, <1>0 DEF IInv, TypeOK, ConsumeReturn, Finish, Goto, NoRows, db, hist, Rows, Labels
<1>2. Arguments' /\ Copies' /\ Validated' /\ PolicyKept'
  BY <1>0 DEF IInv, TypeOK, ConsumeReturn, Finish, Goto, NoRows, db, Arguments, Copies, Validated, PolicyKept,
       Exists, Asking, Holding, Targeting, Rows
<1>3. Built' /\ Rowless'
  BY <1>0 DEF IInv, TypeOK, ConsumeReturn, Finish, Goto, NoRows, db, hist, Built, Rowless, Exists, Building
<1>4. Listed' /\ UsesWithinGrant'
  BY <1>0 DEF IInv, TypeOK, ConsumeReturn, Finish, Goto, NoRows, db, hist, Listed, UsesWithinGrant, Exists, Live
<1>5. QED
  BY <1>1, <1>2, <1>3, <1>4 DEF IInv

\* The row a revoke loads exists.
LEMMA RevokeLoadStep ==
    ASSUME IInv, NEW p \in Procs, RevokeLoad(p)
    PROVE  IInv'
<1>1. CASE Finish(p)
  BY <1>1, FinishStep DEF RevokeLoad
<1>2. CASE ~Finish(p)
  <2>0. /\ pc[p] = "revoke_load"
        /\ tickets[target[p]] # NoTicket
        /\ held' = [held EXCEPT ![p] = tickets[target[p]]]
        /\ Goto(p, "revoke_save")
        /\ UNCHANGED <<req, target, newId, fresh, ver, snap, left, receipt>>
        /\ UNCHANGED <<db, now, minted, hist>>
    BY <1>2 DEF RevokeLoad
  <2>a. target[p] \in TicketIds /\ tickets[target[p]] \in Ticket
    BY <2>0 DEF IInv, Arguments, Targeting, TypeOK, Rows
  <2>1. TypeOK'
    BY ConstantsAssumption, <2>0, <2>a DEF IInv, TypeOK, Goto, db, hist, Rows, Labels
  <2>2. Arguments' /\ Copies' /\ Validated' /\ PolicyKept'
    BY <2>0, <2>a DEF IInv, TypeOK, Goto, db, Arguments, Copies, Validated, PolicyKept,
         Exists, Asking, Holding, Targeting, Rows
  <2>3. Built' /\ Rowless'
    BY <2>0, <2>a DEF IInv, TypeOK, Goto, db, hist, Built, Rowless, Exists, Building
  <2>4. Listed' /\ UsesWithinGrant'
    BY <2>0, <2>a DEF IInv, TypeOK, Goto, db, hist, Listed, UsesWithinGrant, Exists, Live
  <2>5. QED
    BY <2>1, <2>2, <2>3, <2>4 DEF IInv
<1>3. QED
  BY <1>1, <1>2

\* The rows a lockdown lists and skips are the revoked ones.
LEMMA LockdownListStep ==
    ASSUME IInv, NEW p \in Procs, LockdownList(p)
    PROVE  IInv'
<1>1. TypeOK'
  BY ConstantsAssumption DEF IInv, TypeOK, LockdownList, Goto, db, hist, Rows, Labels
<1>2. Arguments' /\ Copies' /\ Validated' /\ PolicyKept'
  BY DEF IInv, TypeOK, LockdownList, Goto, db, Arguments, Copies, Validated, PolicyKept,
       Exists, Asking, Holding, Targeting, Rows
<1>3. Built' /\ Rowless'
  BY DEF IInv, TypeOK, LockdownList, Goto, db, hist, Built, Rowless, Exists, Building
<1>4. Listed' /\ UsesWithinGrant'
  BY DEF IInv, TypeOK, LockdownList, Goto, db, hist, Listed, UsesWithinGrant, Exists, Live
<1>5. QED
  BY <1>1, <1>2, <1>3, <1>4 DEF IInv

\* The loop ends when nothing is left to revoke.
LEMMA LockdownDoneStep ==
    ASSUME IInv, NEW p \in Procs, LockdownDone(p)
    PROVE  IInv'
<1>1. TypeOK'
  BY ConstantsAssumption DEF IInv, TypeOK, LockdownDone, Goto, db, hist, Rows, Labels
<1>2. Arguments' /\ Copies' /\ Validated' /\ PolicyKept'
  BY DEF IInv, TypeOK, LockdownDone, Goto, db, Arguments, Copies, Validated, PolicyKept,
       Exists, Asking, Holding, Targeting, Rows
<1>3. Built' /\ Rowless'
  BY DEF IInv, TypeOK, LockdownDone, Goto, db, hist, Built, Rowless, Exists, Building
<1>4. Listed' /\ UsesWithinGrant'
  BY DEF IInv, TypeOK, LockdownDone, Goto, db, hist, Listed, UsesWithinGrant, Exists, Live
<1>5. QED
  BY <1>1, <1>2, <1>3, <1>4 DEF IInv

\* The ticket issued is unused and gets an id no other ticket has.
LEMMA IssueEvalStep ==
    ASSUME IInv, NEW p \in Procs, IssueEval(p)
    PROVE  IInv'
<1>1. CASE Finish(p) /\ UNCHANGED minted
  BY <1>1, FinishStep DEF IssueEval
<1>2. CASE ~(Finish(p) /\ UNCHANGED minted)
  <2>0. PICK t \in TicketIds \ minted, i \in Allowing(req[p]) :
          /\ minted' = minted \cup {t}
          /\ newId' = [newId EXCEPT ![p] = t]
          /\ fresh' = [fresh EXCEPT ![p] =
                 NewTicket(req[p], ver[p], i, policies[i], req[p].session)]
          /\ Goto(p, "issue_save")
          /\ UNCHANGED <<req, target, held, ver, snap, left, receipt>>
    BY <1>2 DEF IssueEval
  <2>a. pc[p] = "issue_eval" /\ UNCHANGED <<db, now, hist>>
    BY DEF IssueEval
  <2> DEFINE new == NewTicket(req[p], ver[p], i, policies[i], req[p].session)
  <2>b. req[p] \in Request /\ ver[p] \in Nat
    BY <2>a DEF IInv, Arguments, Asking, TypeOK
  <2>c. i \in PolicyIds /\ policies[i] \in PolicyBodies
    BY DEF Allowing, IInv, TypeOK
  <2>d. req[p].session \in Sessions \cup {NoSession}
    BY <2>b DEF Request
  <2>e. new \in Ticket /\ ~new.revoked /\ new.uses_remaining = new.max_uses
    BY <2>b, <2>c, <2>d, NewTicketType
  <2> HIDE DEF new
  <2>1. TypeOK'
    BY ConstantsAssumption, <2>0, <2>a, <2>e DEF IInv, TypeOK, Goto, new, db, hist, Rows, Labels
  <2>2. Arguments' /\ Copies' /\ Validated' /\ PolicyKept'
    BY <2>0, <2>a, <2>e DEF IInv, TypeOK, Goto, new, db, Arguments, Copies, Validated, PolicyKept,
         Exists, Asking, Holding, Targeting, Rows
  <2>3. Built' /\ Rowless'
    BY <2>0, <2>a, <2>e DEF IInv, TypeOK, Goto, new, db, hist, Built, Rowless, Exists, Building
  <2>4. Listed' /\ UsesWithinGrant'
    BY <2>0, <2>a, <2>e DEF IInv, TypeOK, Goto, new, db, hist, Listed, UsesWithinGrant, Exists, Live
  <2>5. QED
    BY <2>1, <2>2, <2>3, <2>4 DEF IInv
<1>3. QED
  BY <1>1, <1>2

\* So is a renewed one: its policy exists and its id is new.
LEMMA RenewBuildStep ==
    ASSUME IInv, NEW p \in Procs, RenewBuild(p)
    PROVE  IInv'
<1>0. PICK t \in TicketIds \ minted :
        /\ minted' = minted \cup {t}
        /\ newId' = [newId EXCEPT ![p] = t]
        /\ fresh' = [fresh EXCEPT ![p] =
               NewTicket(req[p], held[p].secret_version, held[p].policy_id,
                         policies[held[p].policy_id], held[p].broker_session_id)]
  BY DEF RenewBuild
<1>a. /\ pc[p] = "renew_build"
      /\ Goto(p, "renew_revoke")
      /\ UNCHANGED <<db, now, req, target, held, ver, snap, left, receipt, hist>>
  BY DEF RenewBuild
<1> DEFINE new == NewTicket(req[p], held[p].secret_version, held[p].policy_id,
                            policies[held[p].policy_id], held[p].broker_session_id)
<1>b. req[p] \in Request /\ held[p] \in Ticket
  BY <1>a DEF IInv, Arguments, Asking, Copies, Holding
<1>c. /\ held[p].secret_version \in Nat /\ held[p].policy_id \in PolicyIds
      /\ held[p].broker_session_id \in Sessions \cup {NoSession}
  BY <1>b DEF Ticket
<1>d. policies[held[p].policy_id] \in PolicyBodies
  BY <1>a, <1>c DEF IInv, PolicyKept, TypeOK
<1>e. new \in Ticket /\ ~new.revoked /\ new.uses_remaining = new.max_uses
  BY <1>b, <1>c, <1>d, NewTicketType
<1> HIDE DEF new
<1>1. TypeOK'
  BY ConstantsAssumption, <1>0, <1>a, <1>e DEF IInv, TypeOK, Goto, new, db, hist, Rows, Labels
<1>2. Arguments' /\ Copies' /\ Validated' /\ PolicyKept'
  BY <1>0, <1>a, <1>e DEF IInv, TypeOK, Goto, new, db, Arguments, Copies, Validated, PolicyKept,
       Exists, Asking, Holding, Targeting, Rows
<1>3. Built' /\ Rowless'
  BY <1>0, <1>a, <1>e DEF IInv, TypeOK, Goto, new, db, hist, Built, Rowless, Exists, Building
<1>4. Listed' /\ UsesWithinGrant'
  BY <1>0, <1>a, <1>e DEF IInv, TypeOK, Goto, new, db, hist, Listed, UsesWithinGrant, Exists, Live
<1>5. QED
  BY <1>1, <1>2, <1>3, <1>4 DEF IInv

\* Saving the issued ticket creates its row with all uses left.
LEMMA IssueSaveStep ==
    ASSUME IInv, NEW p \in Procs, IssueSave(p)
    PROVE  IInv'
<1>0. /\ pc[p] = "issue_save"
      /\ tickets' = [tickets EXCEPT ![newId[p]] = fresh[p]]
      /\ Goto(p, "issue_audit")
      /\ UNCHANGED <<req, target, held, newId, fresh, ver, snap, left, receipt>>
      /\ UNCHANGED <<policies, records, now, minted, hist>>
  BY DEF IssueSave, SaveTicket, Step
<1>a. /\ newId[p] \in TicketIds /\ ~Exists(newId[p]) /\ newId[p] \in minted
      /\ fresh[p] \in Ticket /\ fresh[p] # NoTicket /\ ~fresh[p].revoked
      /\ fresh[p].uses_remaining = fresh[p].max_uses
      /\ fresh[p].max_uses \in Nat /\ used[newId[p]] = 0
  BY <1>0, TicketExists DEF IInv, Built, Building, TypeOK, Ticket, Rowless
<1>1. TypeOK'
  BY ConstantsAssumption, <1>0, <1>a DEF IInv, TypeOK, Goto, db, hist, Rows, Labels
<1>2. Arguments' /\ Copies' /\ Validated' /\ PolicyKept'
  BY <1>0, <1>a DEF IInv, TypeOK, Goto, db, Arguments, Copies, Validated, PolicyKept,
       Exists, Asking, Holding, Targeting, Rows
<1>3. Built' /\ Rowless'
  BY <1>0, <1>a DEF IInv, TypeOK, Goto, db, hist, Built, Rowless, Exists, Building
<1>4. Listed'
  BY <1>0, <1>a DEF IInv, TypeOK, Goto, db, hist, Listed, Exists
<1>5. UsesWithinGrant'
  BY <1>0, <1>a DEF IInv, TypeOK, db, hist, UsesWithinGrant, Exists, Live, Rows, Ticket
<1>6. QED
  BY <1>1, <1>2, <1>3, <1>4, <1>5 DEF IInv

\* So does saving the renewed one.
LEMMA RenewSaveStep ==
    ASSUME IInv, NEW p \in Procs, RenewSave(p)
    PROVE  IInv'
<1>0. /\ pc[p] = "renew_save"
      /\ tickets' = [tickets EXCEPT ![newId[p]] = fresh[p]]
      /\ Goto(p, "renew_audit")
      /\ UNCHANGED <<req, target, held, newId, fresh, ver, snap, left, receipt>>
      /\ UNCHANGED <<policies, records, now, minted, hist>>
  BY DEF RenewSave, SaveTicket, Step
<1>a. /\ newId[p] \in TicketIds /\ ~Exists(newId[p]) /\ newId[p] \in minted
      /\ fresh[p] \in Ticket /\ fresh[p] # NoTicket /\ ~fresh[p].revoked
      /\ fresh[p].uses_remaining = fresh[p].max_uses
      /\ fresh[p].max_uses \in Nat /\ used[newId[p]] = 0
  BY <1>0, TicketExists DEF IInv, Built, Building, TypeOK, Ticket, Rowless
<1>1. TypeOK'
  BY ConstantsAssumption, <1>0, <1>a DEF IInv, TypeOK, Goto, db, hist, Rows, Labels
<1>2. Arguments' /\ Copies' /\ Validated' /\ PolicyKept'
  BY <1>0, <1>a DEF IInv, TypeOK, Goto, db, Arguments, Copies, Validated, PolicyKept,
       Exists, Asking, Holding, Targeting, Rows
<1>3. Built' /\ Rowless'
  BY <1>0, <1>a DEF IInv, TypeOK, Goto, db, hist, Built, Rowless, Exists, Building
<1>4. Listed'
  BY <1>0, <1>a DEF IInv, TypeOK, Goto, db, hist, Listed, Exists
<1>5. UsesWithinGrant'
  BY <1>0, <1>a DEF IInv, TypeOK, db, hist, UsesWithinGrant, Exists, Live, Rows, Ticket
<1>6. QED
  BY <1>1, <1>2, <1>3, <1>4, <1>5 DEF IInv

\* Writing back the renewed ticket's copy, revoked, keeps its grant.
LEMMA RenewRevokeStep ==
    ASSUME IInv, NEW p \in Procs, RenewRevoke(p)
    PROVE  IInv'
<1> DEFINE row == Revoked(held[p])
<1>0. /\ pc[p] = "renew_revoke"
      /\ tickets' = [tickets EXCEPT ![target[p]] = row]
      /\ Goto(p, "renew_save")
      /\ UNCHANGED <<req, target, held, newId, fresh, ver, snap, left, receipt>>
      /\ UNCHANGED <<policies, records, now, minted, hist>>
  BY DEF RenewRevoke, SaveTicket, Step
<1>a. /\ target[p] \in TicketIds /\ Exists(target[p]) /\ held[p] \in Ticket
      /\ held[p].max_uses = tickets[target[p]].max_uses
  BY <1>0 DEF IInv, Arguments, Copies, Holding
<1>b. /\ row \in Ticket /\ row # NoTicket /\ row.revoked
      /\ row.max_uses = tickets[target[p]].max_uses
  BY <1>a, RevokedType, TicketExists
<1> HIDE DEF row
<1>1. TypeOK'
  BY ConstantsAssumption, <1>0, <1>a, <1>b DEF IInv, TypeOK, Goto, db, hist, Rows, Labels
<1>2. Arguments' /\ Copies' /\ Validated' /\ PolicyKept'
  BY <1>0, <1>a, <1>b DEF IInv, TypeOK, Goto, db, Arguments, Copies, Validated, PolicyKept,
       Exists, Asking, Holding, Targeting, Rows
<1>3. Built' /\ Rowless'
  BY <1>0, <1>a, <1>b DEF IInv, TypeOK, Goto, db, hist, Built, Rowless, Exists, Building
<1>4. Listed' /\ UsesWithinGrant'
  BY <1>0, <1>a, <1>b DEF IInv, TypeOK, Goto, db, hist, Listed, UsesWithinGrant, Exists, Live
<1>5. QED
  BY <1>1, <1>2, <1>3, <1>4 DEF IInv

\* So does a revoke.
LEMMA RevokeSaveStep ==
    ASSUME IInv, NEW p \in Procs, RevokeSave(p)
    PROVE  IInv'
<1> DEFINE row == Revoked(held[p])
<1>0. /\ pc[p] = "revoke_save"
      /\ tickets' = [tickets EXCEPT ![target[p]] = row]
      /\ Goto(p, "revoke_audit")
      /\ UNCHANGED <<req, target, held, newId, fresh, ver, snap, left, receipt>>
      /\ UNCHANGED <<policies, records, now, minted, hist>>
  BY DEF RevokeSave, SaveTicket, Step
<1>a. /\ target[p] \in TicketIds /\ Exists(target[p]) /\ held[p] \in Ticket
      /\ held[p].max_uses = tickets[target[p]].max_uses
  BY <1>0 DEF IInv, Arguments, Copies, Holding
<1>b. /\ row \in Ticket /\ row # NoTicket /\ row.revoked
      /\ row.max_uses = tickets[target[p]].max_uses
  BY <1>a, RevokedType, TicketExists
<1> HIDE DEF row
<1>1. TypeOK'
  BY ConstantsAssumption, <1>0, <1>a, <1>b DEF IInv, TypeOK, Goto, db, hist, Rows, Labels
<1>2. Arguments' /\ Copies' /\ Validated' /\ PolicyKept'
  BY <1>0, <1>a, <1>b DEF IInv, TypeOK, Goto, db, Arguments, Copies, Validated, PolicyKept,
       Exists, Asking, Holding, Targeting, Rows
<1>3. Built' /\ Rowless'
  BY <1>0, <1>a, <1>b DEF IInv, TypeOK, Goto, db, hist, Built, Rowless, Exists, Building
<1>4. Listed' /\ UsesWithinGrant'
  BY <1>0, <1>a, <1>b DEF IInv, TypeOK, Goto, db, hist, Listed, UsesWithinGrant, Exists, Live
<1>5. QED
  BY <1>1, <1>2, <1>3, <1>4 DEF IInv

\* So does a round of the lockdown loop, which leaves one ticket less to revoke.
LEMMA LockdownSaveStep ==
    ASSUME IInv, NEW p \in Procs, NEW t \in TicketIds, LockdownSave(p, t)
    PROVE  IInv'
<1> DEFINE row == Revoked(snap[p][t])
<1>0. /\ pc[p] = "lockdown_save" /\ t \in left[p]
      /\ tickets' = [tickets EXCEPT ![t] = row]
      /\ left' = [left EXCEPT ![p] = @ \ {t}]
      /\ UNCHANGED <<policies, records, now, minted, pc, req, target, held, newId,
                     fresh, ver, snap, receipt, hist>>
  BY DEF LockdownSave, SaveTicket
<1>a. /\ Exists(t) /\ snap[p][t] \in Ticket
      /\ snap[p][t].max_uses = tickets[t].max_uses
  BY <1>0 DEF IInv, Listed, TypeOK, Rows
<1>b. row \in Ticket /\ row # NoTicket /\ row.revoked /\ row.max_uses = tickets[t].max_uses
  BY <1>a, RevokedType, TicketExists
<1> HIDE DEF row
<1>1. TypeOK'
  BY ConstantsAssumption, <1>0, <1>a, <1>b DEF IInv, TypeOK, Goto, db, hist, Rows, Labels
<1>2. Arguments' /\ Copies' /\ Validated' /\ PolicyKept'
  BY <1>0, <1>a, <1>b DEF IInv, TypeOK, Goto, db, Arguments, Copies, Validated, PolicyKept,
       Exists, Asking, Holding, Targeting, Rows
<1>3. Built' /\ Rowless'
  BY <1>0, <1>a, <1>b DEF IInv, TypeOK, Goto, db, hist, Built, Rowless, Exists, Building
<1>4. Listed' /\ UsesWithinGrant'
  BY <1>0, <1>a, <1>b DEF IInv, TypeOK, Goto, db, hist, Listed, UsesWithinGrant, Exists, Live
<1>5. QED
  BY <1>1, <1>2, <1>3, <1>4 DEF IInv

\* A use is saved only over the row it was computed from.
LEMMA ConsumeSaveStep ==
    ASSUME IInv, NEW p \in Procs, ConsumeSave(p)
    PROVE  IInv'
<1>1. CASE tickets[target[p]] # held[p]
  BY <1>1, FinishStep DEF ConsumeSave, Step, db, hist
<1>2. CASE tickets[target[p]] = held[p]
  <2> DEFINE row == Spent(held[p])
  <2>0. /\ pc[p] = "consume_save"
        /\ tickets' = [tickets EXCEPT ![target[p]] = row]
        /\ used' = [used EXCEPT ![target[p]] = @ + 1]
        /\ Goto(p, "consume_record")
        /\ UNCHANGED <<req, target, held, newId, fresh, ver, snap, left, receipt>>
        /\ UNCHANGED <<policies, records, now, minted, delivered>>
    BY <1>2 DEF ConsumeSave, SaveTicket, Step
  <2>a. /\ target[p] \in TicketIds /\ Exists(target[p]) /\ held[p] \in Ticket
        /\ held[p].uses_remaining >= 1 /\ ~held[p].revoked
    BY <2>0 DEF IInv, Arguments, Copies, Validated, Holding
  <2>b. /\ row \in Ticket /\ row # NoTicket /\ ~row.revoked
        /\ row.max_uses = tickets[target[p]].max_uses
        /\ row.uses_remaining = tickets[target[p]].uses_remaining - 1
        /\ tickets[target[p]].uses_remaining \in Nat /\ tickets[target[p]].max_uses \in Nat
        /\ tickets[target[p]].uses_remaining >= 1 /\ ~tickets[target[p]].revoked
    BY <1>2, <2>a, SpentType, TicketExists DEF Ticket
  <2> HIDE DEF row
  <2>1. TypeOK'
    BY ConstantsAssumption, <2>0, <2>a, <2>b DEF IInv, TypeOK, Goto, db, hist, Rows, Labels
  <2>2. Arguments' /\ Copies' /\ Validated' /\ PolicyKept'
    BY <2>0, <2>a, <2>b DEF IInv, TypeOK, Goto, db, Arguments, Copies, Validated, PolicyKept,
         Exists, Asking, Holding, Targeting, Rows
  <2>3. Built' /\ Rowless'
    BY <2>0, <2>a, <2>b DEF IInv, TypeOK, Goto, db, hist, Built, Rowless, Exists, Building
  <2>4. Listed'
    BY <2>0, <2>a, <2>b DEF IInv, TypeOK, Goto, db, hist, Listed, Exists
  <2>5. UsesWithinGrant'
    <3>1. /\ used[target[p]] \in Nat
          /\ used[target[p]] + tickets[target[p]].uses_remaining
               = tickets[target[p]].max_uses
      BY <2>a, <2>b DEF IInv, TypeOK, UsesWithinGrant, Live
    <3>2. tickets'[target[p]] = row /\ used'[target[p]] = used[target[p]] + 1
      BY <2>0, <2>a DEF IInv, TypeOK
    <3>3. ASSUME NEW t \in TicketIds, t # target[p]
          PROVE  tickets'[t] = tickets[t] /\ used'[t] = used[t]
      BY <2>0, <3>3 DEF IInv, TypeOK
    <3>4. /\ used'[target[p]] <= tickets'[target[p]].max_uses
          /\ used'[target[p]] + tickets'[target[p]].uses_remaining
               = tickets'[target[p]].max_uses
      BY <2>b, <3>1, <3>2
    <3>5. QED
      BY <3>3, <3>4 DEF IInv, UsesWithinGrant, Exists, Live
  <2>6. QED
    BY <2>1, <2>2, <2>3, <2>4, <2>5 DEF IInv
<1>3. QED
  BY <1>1, <1>2

\* Time and the other writers of the store do not touch tickets.
LEMMA EnvironmentStep ==
    ASSUME IInv,
           \/ Tick
           \/ \E i \in PolicyIds, body \in PolicyBodies : SavePolicy(i, body)
           \/ \E r \in Refs, v \in Versions, s \in Writes : SaveSecretRecord(r, v, s)
    PROVE  IInv'
<1>1. UNCHANGED <<tickets, minted, local, hist>>
  BY DEF Tick, SavePolicy, SaveSecretRecord, db
<1>2. /\ now' \in Nat
      /\ policies' \in [PolicyIds -> PolicyBodies \cup {NoPolicy}]
      /\ \A i \in PolicyIds : policies[i] # NoPolicy => policies'[i] # NoPolicy
  BY ConstantsAssumption, SMTT(30) DEF IInv, TypeOK, Tick, SavePolicy, SaveSecretRecord, db
<1>3. records' \in [Refs -> [Versions -> Statuses \cup {"none"}]]
  <2>1. CASE UNCHANGED records
    BY <2>1 DEF IInv, TypeOK
  <2>2. CASE \E r \in Refs, v \in Versions, s \in Writes : SaveSecretRecord(r, v, s)
    <3>1. PICK r \in Refs, v \in Versions, s \in Writes : SaveSecretRecord(r, v, s)
      BY <2>2
    <3>2. s \in Statuses \cup {"none"}
      BY ConstantsAssumption DEF Statuses
    <3>3. records' = [records EXCEPT ![r] = [records[r] EXCEPT ![v] = s]]
      BY <3>1 DEF SaveSecretRecord
    <3>4. records \in [Refs -> [Versions -> Statuses \cup {"none"}]]
      BY DEF IInv, TypeOK
    <3>5. QED
      BY <3>2, <3>3, <3>4
  <2>3. QED
    BY <2>1, <2>2 DEF Tick, SavePolicy, db
<1>4. TypeOK'
  BY <1>1, <1>2, <1>3 DEF IInv, TypeOK, local, hist
<1>5. PolicyKept'
  BY <1>1, <1>2 DEF IInv, PolicyKept, Copies, Holding, Ticket, local
<1>6. Arguments' /\ Copies' /\ Validated' /\ Built' /\ Rowless' /\ Listed' /\ UsesWithinGrant'
  BY <1>1 DEF IInv, Arguments, Copies, Validated, Built, Rowless, Listed,
              UsesWithinGrant, Exists, Live, local, hist
<1>7. QED
  BY <1>4, <1>5, <1>6 DEF IInv

\* Stuttering.
LEMMA StutterStep ==
    ASSUME IInv, UNCHANGED vars
    PROVE  IInv'
BY DEF IInv, vars, TypeOK, Arguments, Copies, Validated, PolicyKept, Built, Rowless,
       Listed, UsesWithinGrant, Exists, Live

-----------------------------------------------------------------------------
(* The theorems.                                                           *)

\* The empty store satisfies the invariant.
LEMMA IInvInit == Init => IInv
<1> SUFFICES ASSUME Init PROVE IInv
  OBVIOUS
<1>1. TypeOK
  BY DEF Init, TypeOK, NoRows, Rows, Labels
<1>2. QED
  BY <1>1 DEF Init, IInv, Arguments, Copies, Validated, PolicyKept, Built, Rowless,
       Listed, UsesWithinGrant, Exists, Live, NoRows, Asking, Holding, Targeting, Building

\* Every step of every command preserves the invariant.
LEMMA IInvNext == IInv /\ [Next]_vars => IInv'
<1> SUFFICES ASSUME IInv, [Next]_vars PROVE IInv'
  OBVIOUS
<1>1. CASE \E p \in Procs : Command(p)
  <2>1. PICK p \in Procs : Command(p)
    BY <1>1
  <2>2. minted \subseteq TicketIds
    BY DEF IInv, TypeOK
  <2>3. CASE IssueNext(p)
    BY <2>3, IssueStartStep, IssueLoadStep, IssueEvalStep, IssueSaveStep DEF IssueNext
  <2>4. CASE RenewNext(p)
    <3>1. CASE \E t \in minted, c \in Contexts : RenewStart(p, t, c)
      BY <3>1, <2>2, UseStartStep DEF RenewStart
    <3>2. CASE RenewLoad(p)
      BY <3>2, LoadAndValidateStep DEF RenewLoad
    <3>3. CASE RenewPolicy(p)
      BY <3>3, CheckPolicyStep DEF RenewPolicy
    <3>4. CASE RenewCurrent(p)
      BY <3>4, CheckCurrentStep DEF RenewCurrent
    <3>5. CASE RenewBuild(p) \/ RenewRevoke(p) \/ RenewSave(p)
      BY <3>5, RenewBuildStep, RenewRevokeStep, RenewSaveStep
    <3>6. QED
      BY <2>4, <3>1, <3>2, <3>3, <3>4, <3>5 DEF RenewNext
  <2>5. CASE ConsumeNext(p)
    <3>1. CASE \E t \in minted, c \in Contexts, s \in Sessions \cup {NoSession} :
                  ConsumeStart(p, t, c, s)
      BY <3>1, <2>2, UseStartStep DEF ConsumeStart
    <3>2. CASE ConsumeLoad(p)
      BY <3>2, LoadAndValidateStep DEF ConsumeLoad
    <3>3. CASE ConsumePolicy(p)
      BY <3>3, CheckPolicyStep DEF ConsumePolicy
    <3>4. CASE ConsumeCurrent(p)
      BY <3>4, CheckCurrentStep DEF ConsumeCurrent
    <3>5. CASE ConsumeSave(p) \/ ConsumeRecord(p) \/ ConsumeAudit(p) \/ ConsumeReturn(p)
      BY <3>5, ConsumeSaveStep, ConsumeRecordStep, ConsumeAuditStep, ConsumeReturnStep
    <3>6. QED
      BY <2>5, <3>1, <3>2, <3>3, <3>4, <3>5 DEF ConsumeNext
  <2>6. CASE RevokeNext(p)
    BY <2>6, <2>2, RevokeStartStep, RevokeLoadStep, RevokeSaveStep DEF RevokeNext
  <2>7. CASE LockdownNext(p)
    BY <2>7, LockdownStartStep, LockdownListStep, LockdownDoneStep, LockdownSaveStep
       DEF LockdownNext
  <2>8. CASE Audit(p) \/ Abort(p)
    BY <2>8, FinishStep DEF Audit, Abort
  <2>9. QED
    BY <2>1, <2>3, <2>4, <2>5, <2>6, <2>7, <2>8 DEF Command
<1>2. CASE \/ Tick
           \/ \E i \in PolicyIds, body \in PolicyBodies : SavePolicy(i, body)
           \/ \E r \in Refs, v \in Versions, s \in Writes : SaveSecretRecord(r, v, s)
  BY <1>2, EnvironmentStep
<1>3. CASE UNCHANGED vars
  BY <1>3, StutterStep
<1>4. QED
  BY <1>1, <1>2, <1>3 DEF Next

\* The inductive invariant holds of every behaviour.
THEOREM Invariance == Spec => []IInv
BY IInvInit, IInvNext, PTL DEF Spec

\* Tables and copies are always well formed.
THEOREM TypeCorrect == Spec => []TypeOK
<1>1. IInv => TypeOK
  BY DEF IInv
<1>2. QED
  BY <1>1, Invariance, PTL

\* However many commands overlap, no ticket is used more often than its policy
\* granted: the compare-and-swap of consume is enough, although every other
\* writer of the row writes back a copy without looking.
THEOREM NoOveruse == Spec => []UsesWithinGrant
<1>1. IInv => UsesWithinGrant
  BY DEF IInv
<1>2. QED
  BY <1>1, Invariance, PTL

\* A lockdown that comes to its audit event has revoked every ticket it listed.
THEOREM LockdownComplete == Spec => []LockdownRevokesListed
<1>1. IInv => LockdownRevokesListed
  BY DEF IInv, Listed, LockdownRevokesListed
<1>2. QED
  BY <1>1, Invariance, PTL

-----------------------------------------------------------------------------
(* Only six store calls write a ticket.                                    *)

\* The store calls of command p that write the tickets table.
WritesTicket(p) ==
    \/ IssueSave(p) \/ RenewRevoke(p) \/ RenewSave(p) \/ ConsumeSave(p) \/ RevokeSave(p)
    \/ \E t \in TicketIds : LockdownSave(p, t)

\* Every other step leaves the tickets and their uses alone.
LEMMA OtherStep ==
    ASSUME [Next]_vars, \A p \in Procs : ~WritesTicket(p)
    PROVE  UNCHANGED <<tickets, used>>
<1>1. CASE UNCHANGED vars
  BY <1>1 DEF vars
<1>2. CASE Tick \/ (\E i \in PolicyIds, body \in PolicyBodies : SavePolicy(i, body))
           \/ (\E r \in Refs, v \in Versions, s \in Writes : SaveSecretRecord(r, v, s))
  BY <1>2 DEF Tick, SavePolicy, SaveSecretRecord, db, hist
<1>3. CASE \E p \in Procs : Command(p)
  <2>1. PICK p \in Procs : Command(p) /\ ~WritesTicket(p)
    BY <1>3
  <2>2. CASE IssueNext(p)
    BY <2>1, <2>2 DEF WritesTicket, IssueNext, IssueStart, IssueLoad, IssueEval, db, hist
  <2>3. CASE RenewNext(p)
    BY <2>1, <2>3 DEF WritesTicket, RenewNext, RenewStart, UseStart, RenewLoad, LoadAndValidate,
       RenewPolicy, CheckPolicy, RenewCurrent, CheckCurrent, RenewBuild, db, hist
  <2>4. CASE ConsumeNext(p)
    BY <2>1, <2>4 DEF WritesTicket, ConsumeNext, ConsumeStart, UseStart, ConsumeLoad, LoadAndValidate,
       ConsumePolicy, CheckPolicy, ConsumeCurrent, CheckCurrent, ConsumeRecord,
       ConsumeAudit, ConsumeReturn, db, hist
  <2>5. CASE RevokeNext(p) \/ LockdownNext(p)
    BY <2>1, <2>5 DEF WritesTicket, RevokeNext, RevokeStart, RevokeLoad, LockdownNext, LockdownStart,
       LockdownList, LockdownDone, db, hist
  <2>6. CASE Audit(p) \/ Abort(p)
    BY <2>6 DEF Audit, Abort, db, hist
  <2>7. QED
    BY <2>1, <2>2, <2>3, <2>4, <2>5, <2>6 DEF Command
<1>4. QED
  BY <1>1, <1>2, <1>3 DEF Next

\* A revoked row stays revoked, and no use of it is saved.
Final(t) ==
    Exists(t) /\ tickets[t].revoked => Exists(t)' /\ tickets'[t].revoked /\ used'[t] = used[t]

\* The writers keep a revocation: a new ticket has a row of its own, the copies
\* are written back revoked, and the compare-and-swap needs a live row.
LEMMA WriterStep ==
    ASSUME IInv, NEW p \in Procs, WritesTicket(p), NEW t \in TicketIds
    PROVE  Final(t)
<1> USE ConstantsAssumption DEF Final, Exists, SaveTicket, hist
<1>1. CASE IssueSave(p) \/ RenewSave(p)
  BY <1>1 DEF IssueSave, RenewSave, IInv, TypeOK, Built, Building
<1>2. CASE RenewRevoke(p) \/ RevokeSave(p)
  <2>1. held[p] \in Ticket /\ target[p] \in TicketIds
    BY <1>2 DEF RenewRevoke, RevokeSave, IInv, Copies, Arguments, Holding, Targeting
  <2>2. Revoked(held[p]) # NoTicket /\ Revoked(held[p]).revoked
    BY <2>1 DEF Revoked, Ticket
  <2>3. QED
    BY <1>2, <2>1, <2>2 DEF RenewRevoke, RevokeSave, IInv, TypeOK
<1>3. CASE ConsumeSave(p)
  <2>1. ~held[p].revoked
    BY <1>3 DEF ConsumeSave, IInv, Validated
  <2>2. QED
    BY <1>3, <2>1, SMTT(30) DEF ConsumeSave, IInv, TypeOK
<1>4. ASSUME NEW u \in TicketIds, LockdownSave(p, u) PROVE Final(t)
  <2>1. snap[p][u] \in Ticket
    BY <1>4 DEF LockdownSave, IInv, TypeOK, Rows, Listed
  <2>2. Revoked(snap[p][u]) # NoTicket /\ Revoked(snap[p][u]).revoked
    BY <2>1 DEF Revoked, Ticket
  <2>3. QED
    BY <1>4, <2>2 DEF LockdownSave, IInv, TypeOK
<1>5. QED
  BY <1>1, <1>2, <1>3, <1>4 DEF WritesTicket

\* Revocation is final, for any number of overlapping commands.
THEOREM RevocationFinal == Spec => RevocationIsFinal
<1>1. ASSUME IInv, [Next]_vars PROVE \A t \in TicketIds : Final(t)
  <2>1. CASE \A p \in Procs : ~WritesTicket(p)
    BY <1>1, <2>1, OtherStep DEF Final, Exists
  <2>2. CASE \E p \in Procs : WritesTicket(p)
    BY <1>1, <2>2, WriterStep
  <2>3. QED
    BY <2>1, <2>2
<1>2. IInv /\ [Next]_vars =>
        [\A t \in TicketIds :
            Exists(t) /\ tickets[t].revoked =>
                Exists(t)' /\ tickets'[t].revoked /\ used'[t] = used[t]]_vars
  BY <1>1 DEF Final
<1>3. QED
  BY <1>2, Invariance, PTL DEF Spec, RevocationIsFinal

-----------------------------------------------------------------------------
(* The path of a consume command                                           *)

\* The labels of consume_ticket_for_secret up to the return of the plaintext
Consuming == {"consume_load", "consume_policy", "consume_current", "consume_save",
              "consume_record", "consume_audit", "consume_return"}

\* The step leaves command q as it is.
Keeps(q) ==
    /\ pc'[q] = pc[q] /\ target'[q] = target[q] /\ held'[q] = held[q]
    /\ req'[q] = req[q] /\ ver'[q] = ver[q]
    /\ q \in receipt' <=> q \in receipt

\* A step of another command leaves q as it is.
LEMMA OthersKeep ==
    ASSUME TypeOK, NEW p \in Procs, NEW q \in Procs, p # q, Command(p)
    PROVE  Keeps(q)
<1> USE DEF Keeps, TypeOK, Goto, Finish, Step
<1>1. CASE IssueNext(p)
  BY <1>1 DEF IssueNext, IssueStart, IssueLoad, IssueEval, IssueSave
<1>2. CASE RenewNext(p)
  BY <1>2 DEF RenewNext, RenewStart, UseStart, RenewLoad, LoadAndValidate, RenewPolicy, CheckPolicy,
     RenewCurrent, CheckCurrent, RenewBuild, RenewRevoke, RenewSave
<1>3. CASE ConsumeNext(p)
  BY <1>3 DEF ConsumeNext, ConsumeStart, UseStart, ConsumeLoad, LoadAndValidate, ConsumePolicy,
     CheckPolicy, ConsumeCurrent, CheckCurrent, ConsumeSave, ConsumeRecord, ConsumeAudit, ConsumeReturn
<1>4. CASE RevokeNext(p)
  BY <1>4 DEF RevokeNext, RevokeStart, RevokeLoad, RevokeSave
<1>5. CASE LockdownNext(p)
  BY <1>5 DEF LockdownNext, LockdownStart, LockdownList, LockdownDone, LockdownSave
<1>6. CASE Audit(p) \/ Abort(p)
  BY <1>6 DEF Audit, Abort
<1>7. QED
  BY <1>1, <1>2, <1>3, <1>4, <1>5, <1>6 DEF Command

\* Only a step of consume_ticket_for_secret brings its command to a label of it.
LEMMA ConsumeSteps ==
    ASSUME TypeOK, [Next]_vars, NEW q \in Procs
    PROVE  Keeps(q) \/ pc'[q] \notin Consuming \/ ConsumeNext(q)
<1>1. CASE UNCHANGED vars
  BY <1>1 DEF vars, Keeps
<1>2. CASE Tick \/ (\E i \in PolicyIds, body \in PolicyBodies : SavePolicy(i, body))
           \/ (\E r \in Refs, v \in Versions, s \in Writes : SaveSecretRecord(r, v, s))
  BY <1>2 DEF Tick, SavePolicy, SaveSecretRecord, local, Keeps
<1>3. ASSUME NEW p \in Procs, p # q, Command(p) PROVE Keeps(q)
  BY <1>3, OthersKeep
<1>4. ASSUME Command(q), ~ConsumeNext(q) PROVE Keeps(q) \/ pc'[q] \notin Consuming
  <2> USE DEF Consuming, TypeOK, Goto, Finish, Step
  <2>1. CASE IssueNext(q)
    BY <2>1 DEF IssueNext, IssueStart, IssueLoad, IssueEval, IssueSave
  <2>2. CASE RenewNext(q)
    BY <2>2 DEF RenewNext, RenewStart, UseStart, RenewLoad, LoadAndValidate, RenewPolicy, CheckPolicy,
       RenewCurrent, CheckCurrent, RenewBuild, RenewRevoke, RenewSave
  <2>3. CASE RevokeNext(q)
    BY <2>3 DEF RevokeNext, RevokeStart, RevokeLoad, RevokeSave
  <2>4. CASE LockdownNext(q)
    BY <2>4 DEF LockdownNext, LockdownStart, LockdownList, LockdownDone, LockdownSave
  <2>5. CASE Audit(q) \/ Abort(q)
    BY <2>5 DEF Audit, Abort
  <2>6. QED
    BY <1>4, <2>1, <2>2, <2>3, <2>4, <2>5 DEF Command
<1>5. QED
  BY <1>1, <1>2, <1>3, <1>4 DEF Next

\* Plaintext is returned by ConsumeReturn only.
LEMMA DeliverySteps ==
    ASSUME [Next]_vars
    PROVE  UNCHANGED delivered \/ \E p \in Procs : ConsumeReturn(p)
<1>1. CASE UNCHANGED vars
  BY <1>1 DEF vars
<1>2. CASE Tick \/ (\E i \in PolicyIds, body \in PolicyBodies : SavePolicy(i, body))
           \/ (\E r \in Refs, v \in Versions, s \in Writes : SaveSecretRecord(r, v, s))
  BY <1>2 DEF Tick, SavePolicy, SaveSecretRecord, hist
<1>3. ASSUME NEW p \in Procs, Command(p) PROVE UNCHANGED delivered \/ ConsumeReturn(p)
  <2> USE DEF hist
  <2>1. CASE IssueNext(p) \/ RenewNext(p)
    BY <2>1 DEF IssueNext, IssueStart, IssueLoad, IssueEval, IssueSave,
       RenewNext, RenewStart, UseStart, RenewLoad, LoadAndValidate, RenewPolicy, CheckPolicy,
       RenewCurrent, CheckCurrent, RenewBuild, RenewRevoke, RenewSave
  <2>2. CASE ConsumeNext(p)
    BY <2>2 DEF ConsumeNext, ConsumeStart, UseStart, ConsumeLoad, LoadAndValidate, ConsumePolicy,
       CheckPolicy, ConsumeCurrent, CheckCurrent, ConsumeSave, ConsumeRecord, ConsumeAudit
  <2>3. CASE RevokeNext(p) \/ LockdownNext(p) \/ Audit(p) \/ Abort(p)
    BY <2>3 DEF RevokeNext, RevokeStart, RevokeLoad, RevokeSave, LockdownNext, LockdownStart,
       LockdownList, LockdownDone, LockdownSave, Audit, Abort
  <2>4. QED
    BY <1>3, <2>1, <2>2, <2>3 DEF Command
<1>4. QED
  BY <1>1, <1>2, <1>3 DEF Next

-----------------------------------------------------------------------------
(* A delivery was logged                                                   *)

\* A command about to return plaintext has appended its event.
Receipted == \A p \in Procs : pc[p] = "consume_return" => p \in receipt

\* Only ConsumeAudit leads to the return, and it has appended the event.
LEMMA ReceiptedStep ==
    ASSUME TypeOK, Receipted, [Next]_vars
    PROVE  Receipted'
<1> SUFFICES ASSUME NEW q \in Procs, pc'[q] = "consume_return" PROVE q \in receipt'
  BY DEF Receipted
<1>1. CASE Keeps(q)
  BY <1>1 DEF Keeps, Receipted
<1>2. CASE ConsumeNext(q)
  BY <1>2 DEF ConsumeNext, ConsumeStart, UseStart, ConsumeLoad, LoadAndValidate, ConsumePolicy,
     CheckPolicy, ConsumeCurrent, CheckCurrent, ConsumeSave, ConsumeRecord, ConsumeAudit,
     ConsumeReturn, Goto, Finish, Step, TypeOK
<1>3. QED
  BY <1>1, <1>2, ConsumeSteps DEF Consuming

\* Plaintext is returned only by a command that has appended its own event.
THEOREM DeliveryLogged == Spec => DeliveryIsAudited
<1>1. Init => Receipted
  BY DEF Init, Receipted
<1>2. Spec => []Receipted
  <2>1. TypeOK /\ Receipted /\ [Next]_vars => Receipted'
    BY ReceiptedStep
  <2>2. QED
    BY <1>1, <2>1, TypeCorrect, PTL DEF Spec
<1>3. ASSUME TypeOK, Receipted, [Next]_vars, NEW t \in TicketIds, delivered'[t] # delivered[t]
      PROVE  \E p \in receipt : target[p] = t /\ pc[p] # "idle" /\ pc'[p] = "idle"
  <2>1. PICK p \in Procs : ConsumeReturn(p)
    BY <1>3, DeliverySteps
  <2>2. p \in receipt
    BY <1>3, <2>1 DEF ConsumeReturn, Receipted
  <2>3. target[p] = t
    BY <1>3, <2>1 DEF ConsumeReturn, TypeOK
  <2>4. pc[p] # "idle" /\ pc'[p] = "idle"
    BY <1>3, <2>1 DEF ConsumeReturn, Finish, Goto, TypeOK
  <2>5. QED
    BY <2>2, <2>3, <2>4
<1>4. TypeOK /\ Receipted /\ [Next]_vars =>
        [\A t \in TicketIds :
            delivered'[t] # delivered[t] =>
                \E p \in receipt : target[p] = t /\ pc[p] # "idle" /\ pc'[p] = "idle"]_vars
  BY <1>3
<1>5. QED
  BY <1>2, <1>4, TypeCorrect, PTL DEF Spec, DeliveryIsAudited

-----------------------------------------------------------------------------
(* A stale ticket delivers nothing                                         *)

\* Time goes forward, and a stored version stays stored.
LEMMA Monotone ==
    ASSUME TypeOK, [Next]_vars
    PROVE  /\ now <= now' /\ now' \in Nat
           /\ \A r \in Refs, v \in Versions : records[r][v] # "none" => records'[r][v] # "none"
<1>1. CASE UNCHANGED <<now, records>>
  BY <1>1 DEF TypeOK
<1>2. CASE Tick
  BY <1>2 DEF Tick, TypeOK, db
<1>3. ASSUME NEW r \in Refs, NEW v \in Versions, NEW s \in Writes, SaveSecretRecord(r, v, s)
      PROVE  /\ now <= now' /\ now' \in Nat
             /\ \A x \in Refs, w \in Versions : records[x][w] # "none" => records'[x][w] # "none"
  BY <1>3, ConstantsAssumption DEF SaveSecretRecord, TypeOK
<1>4. ASSUME NEW i \in PolicyIds, NEW body \in PolicyBodies, SavePolicy(i, body)
      PROVE  UNCHANGED <<now, records>>
  BY <1>4 DEF SavePolicy
<1>5. ASSUME NEW p \in Procs, Command(p) PROVE UNCHANGED <<now, records>>
  <2> USE DEF db
  <2>1. CASE IssueNext(p) \/ RenewNext(p)
    BY <2>1 DEF IssueNext, IssueStart, IssueLoad, IssueEval, IssueSave,
       RenewNext, RenewStart, UseStart, RenewLoad, LoadAndValidate, RenewPolicy, CheckPolicy,
       RenewCurrent, CheckCurrent, RenewBuild, RenewRevoke, RenewSave
  <2>2. CASE ConsumeNext(p)
    BY <2>2 DEF ConsumeNext, ConsumeStart, UseStart, ConsumeLoad, LoadAndValidate, ConsumePolicy,
       CheckPolicy, ConsumeCurrent, CheckCurrent, ConsumeSave, ConsumeRecord, ConsumeAudit,
       ConsumeReturn
  <2>3. CASE RevokeNext(p) \/ LockdownNext(p) \/ Audit(p) \/ Abort(p)
    BY <2>3 DEF RevokeNext, RevokeStart, RevokeLoad, RevokeSave, LockdownNext, LockdownStart,
       LockdownList, LockdownDone, LockdownSave, Audit, Abort
  <2>4. QED
    BY <1>5, <2>1, <2>2, <2>3 DEF Command
<1>6. CASE UNCHANGED vars
  BY <1>6, <1>1 DEF vars
<1>7. QED
  BY <1>1, <1>2, <1>3, <1>4, <1>5, <1>6 DEF Next

\* A consume command was given at a time that has come; its copy was unexpired
\* then and is of its request's context; the version current at its start is
\* still stored until the ticket's version is compared, and is not newer after.
FreshOf(p) ==
    /\ pc[p] = "consume_load" => req[p].now <= now
    /\ pc[p] \in {"consume_load", "consume_policy", "consume_current"} =>
          /\ req[p] \in Request
          /\ ver[p] # 0 => /\ ver[p] \in Versions
                           /\ records[RefOf[req[p].context]][ver[p]] # "none"
    /\ pc[p] \in Consuming \ {"consume_load"} => req[p].now <= held[p].expires_at
    /\ pc[p] \in {"consume_policy", "consume_current"} => held[p].context = req[p].context
    /\ pc[p] \in {"consume_save", "consume_record", "consume_audit", "consume_return"} =>
          held[p].secret_version >= ver[p]

\* A command that nobody moves stays fresh: only the clock and the records change.
LEMMA FreshKeeps ==
    ASSUME TypeOK, [Next]_vars, NEW q \in Procs, FreshOf(q), Keeps(q)
    PROVE  FreshOf(q)'
<1>1. now <= now' /\ now' \in Nat /\ now \in Nat
  BY Monotone DEF TypeOK
<1>2. req[q] \in Request => RefOf[req[q].context] \in Refs /\ req[q].now \in Nat
  BY ConstantsAssumption DEF Request
<1>3. ASSUME req[q] \in Request, ver[q] \in Versions,
             records[RefOf[req[q].context]][ver[q]] # "none"
      PROVE  records'[RefOf[req[q].context]][ver[q]] # "none"
  BY <1>2, <1>3, Monotone
<1>4. QED
  BY <1>1, <1>2, <1>3 DEF FreshOf, Keeps

\* Each store call of consume_ticket_for_secret keeps its command fresh.
LEMMA FreshConsumes ==
    ASSUME IInv, NEW q \in Procs, FreshOf(q), ConsumeNext(q)
    PROVE  FreshOf(q)'
<1> USE ConstantsAssumption DEF FreshOf, Goto, Finish, Step, db
<1>0. TypeOK
  BY DEF IInv
<1>1. ASSUME NEW t \in minted, NEW c \in Contexts, NEW s \in Sessions \cup {NoSession},
             ConsumeStart(q, t, c, s)
      PROVE  FreshOf(q)'
  <2>1. req'[q] = [context |-> c, session |-> s, now |-> now] /\ req'[q] \in Request
    BY <1>0, <1>1 DEF ConsumeStart, UseStart, TypeOK, Request
  <2>2. ver'[q] # 0 => ver'[q] \in Versions /\ records[RefOf[c]][ver'[q]] # "none"
    BY <1>0, <1>1 DEF ConsumeStart, UseStart, TypeOK, IsLatest
  <2>3. pc'[q] = "consume_load" /\ now' = now /\ records' = records /\ now \in Nat
    BY <1>0, <1>1 DEF ConsumeStart, UseStart, TypeOK
  <2>4. QED
    BY <2>1, <2>2, <2>3
<1>2. CASE ConsumeLoad(q)
  <2>1. pc[q] = "consume_load" /\ target[q] \in TicketIds
    BY <1>2 DEF ConsumeLoad, LoadAndValidate, IInv, Arguments, Targeting
  <2>2. CASE pc'[q] = "consume_policy"
    <3>1. held'[q] = tickets[target[q]] /\ tickets[target[q]] \in Ticket
      BY <1>0, <1>2, <2>1, <2>2 DEF ConsumeLoad, LoadAndValidate, TypeOK, Rows
    <3>2. now <= held'[q].expires_at /\ held'[q].context = req[q].context
      BY <1>0, <1>2, <2>1, <2>2, <3>1 DEF ConsumeLoad, LoadAndValidate, Valid, TypeOK
    <3>3. UNCHANGED <<req, ver, records, now>>
      BY <1>0, <1>2, <2>1, <2>2 DEF ConsumeLoad, LoadAndValidate, TypeOK
    <3>4. req[q].now \in Nat /\ held'[q].expires_at \in Nat /\ now \in Nat
      BY <1>0, <2>1, <3>1 DEF TypeOK, Request, Ticket
    <3>5. QED
      BY <2>1, <2>2, <3>1, <3>2, <3>3, <3>4
  <2>3. CASE pc'[q] # "consume_policy"
    BY <1>0, <1>2, <2>3 DEF ConsumeLoad, LoadAndValidate, TypeOK, Consuming
  <2>4. QED
    BY <2>2, <2>3
<1>3. CASE ConsumePolicy(q)
  BY <1>0, <1>3 DEF ConsumePolicy, CheckPolicy, TypeOK, Consuming
<1>4. CASE ConsumeCurrent(q)
  <2>1. pc[q] = "consume_current" /\ held[q] \in Ticket /\ req[q] \in Request /\ ver[q] \in Nat
    BY <1>0, <1>4 DEF ConsumeCurrent, CheckCurrent, IInv, Copies, Holding, TypeOK
  <2>2. CASE pc'[q] = "consume_save"
    <3>1. /\ LatestActive(RefOf[held[q].context], held[q].secret_version)
          /\ UNCHANGED <<req, ver, held>>
      BY <1>0, <1>4, <2>1, <2>2 DEF ConsumeCurrent, CheckCurrent, TypeOK
    <3>2. held[q].secret_version >= ver[q]
      BY <2>1, <3>1 DEF LatestActive, IsLatest, Ticket
    <3>3. QED
      BY <2>1, <2>2, <3>1, <3>2 DEF Consuming
  <2>3. CASE pc'[q] # "consume_save"
    BY <1>0, <1>4, <2>3 DEF ConsumeCurrent, CheckCurrent, TypeOK, Consuming
  <2>4. QED
    BY <2>2, <2>3
<1>5. CASE ConsumeSave(q) \/ ConsumeRecord(q) \/ ConsumeAudit(q) \/ ConsumeReturn(q)
  BY <1>0, <1>5 DEF ConsumeSave, ConsumeRecord, ConsumeAudit, ConsumeReturn, TypeOK, Consuming
<1>6. QED
  BY <1>1, <1>2, <1>3, <1>4, <1>5 DEF ConsumeNext

\* A consume command given after its ticket had expired, or after a newer version
\* of the secret was saved, returns nothing, whatever happens between its calls.
THEOREM StaleDenied == Spec => []StaleTicketNotDelivered
<1> DEFINE AllFresh == \A p \in Procs : FreshOf(p)
<1>1. Init => AllFresh
  BY DEF Init, FreshOf, Consuming
<1>2. IInv /\ AllFresh /\ [Next]_vars => AllFresh'
  <2> SUFFICES ASSUME IInv, AllFresh, [Next]_vars, NEW q \in Procs PROVE FreshOf(q)'
    OBVIOUS
  <2>0. TypeOK /\ FreshOf(q)
    BY DEF IInv
  <2>1. CASE Keeps(q)
    BY <2>0, <2>1, FreshKeeps
  <2>2. CASE ConsumeNext(q)
    BY <2>0, <2>2, FreshConsumes
  <2>3. CASE pc'[q] \notin Consuming
    BY <2>3 DEF FreshOf, Consuming
  <2>4. QED
    BY <2>0, <2>1, <2>2, <2>3, ConsumeSteps
<1>3. AllFresh => StaleTicketNotDelivered
  BY DEF FreshOf, StaleTicketNotDelivered, Consuming
<1>4. QED
  BY <1>1, <1>2, <1>3, Invariance, PTL DEF Spec

-----------------------------------------------------------------------------
(* A delivery was paid for                                                 *)

\* The commands that have saved a use of t and not returned its plaintext yet
Owed(t) ==
    {p \in Procs : pc[p] \in {"consume_record", "consume_audit", "consume_return"} /\ target[p] = t}

\* Plaintexts returned and still owed are at most the uses saved.
PaidOf(t) == IsFiniteSet(Owed(t)) /\ delivered[t] + Cardinality(Owed(t)) <= used[t]

\* Where nothing is spent and nothing returned, nobody is owed more.
LEMMA PaidKept ==
    ASSUME TypeOK, NEW t \in TicketIds, PaidOf(t),
           delivered'[t] = delivered[t], used'[t] = used[t], Owed(t)' \subseteq Owed(t)
    PROVE  PaidOf(t)'
<1>1. IsFiniteSet(Owed(t)') /\ Cardinality(Owed(t)') <= Cardinality(Owed(t))
  BY FS_Subset DEF PaidOf
<1>2. Cardinality(Owed(t)') \in Nat /\ Cardinality(Owed(t)) \in Nat
  BY <1>1, FS_CardinalityType DEF PaidOf
<1>3. QED
  BY <1>1, <1>2 DEF PaidOf, TypeOK

\* save_ticket_if_current pays for the one plaintext its command may return.
LEMMA PaidSave ==
    ASSUME IInv, NEW t \in TicketIds, PaidOf(t), NEW p \in Procs, ConsumeSave(p)
    PROVE  PaidOf(t)'
<1>0. TypeOK /\ pc[p] = "consume_save" /\ target[p] \in TicketIds /\ p \notin Owed(t)
  BY DEF IInv, ConsumeSave, Arguments, Holding, Owed
<1>1. CASE tickets[target[p]] = held[p] /\ target[p] = t
  <2>1. Owed(t)' = Owed(t) \cup {p}
    BY <1>0, <1>1 DEF ConsumeSave, Step, Goto, Owed, TypeOK
  <2>2. IsFiniteSet(Owed(t)') /\ Cardinality(Owed(t)') = Cardinality(Owed(t)) + 1
    BY <1>0, <2>1, FS_AddElement DEF PaidOf
  <2>3. used'[t] = used[t] + 1 /\ delivered'[t] = delivered[t]
    BY <1>0, <1>1 DEF ConsumeSave, TypeOK
  <2>4. Cardinality(Owed(t)) \in Nat
    BY FS_CardinalityType DEF PaidOf
  <2>5. QED
    BY <1>0, <2>2, <2>3, <2>4 DEF PaidOf, TypeOK
<1>2. CASE ~(tickets[target[p]] = held[p] /\ target[p] = t)
  <2>1. Owed(t)' \subseteq Owed(t)
    BY <1>0, <1>2 DEF ConsumeSave, Step, Goto, Finish, Owed, TypeOK
  <2>2. delivered'[t] = delivered[t] /\ used'[t] = used[t]
    BY <1>0, <1>2 DEF ConsumeSave, TypeOK
  <2>3. QED
    BY <1>0, <2>1, <2>2, PaidKept
<1>3. QED
  BY <1>1, <1>2

\* The return of a plaintext uses up what its command was owed.
LEMMA PaidReturn ==
    ASSUME IInv, NEW t \in TicketIds, PaidOf(t), NEW p \in Procs, ConsumeReturn(p)
    PROVE  PaidOf(t)'
<1>0. TypeOK /\ pc[p] = "consume_return" /\ target[p] \in TicketIds
  BY DEF IInv, ConsumeReturn, Arguments, Holding
<1>1. Owed(t)' = Owed(t) \ {p}
  BY <1>0 DEF ConsumeReturn, Goto, Finish, Owed, TypeOK
<1>2. CASE target[p] = t
  <2>1. p \in Owed(t)
    BY <1>0, <1>2 DEF Owed
  <2>2. IsFiniteSet(Owed(t)') /\ Cardinality(Owed(t)') = Cardinality(Owed(t)) - 1
    BY <1>1, <2>1, FS_RemoveElement DEF PaidOf
  <2>3. used'[t] = used[t] /\ delivered'[t] = delivered[t] + 1
    BY <1>0, <1>2 DEF ConsumeReturn, TypeOK
  <2>4. Cardinality(Owed(t)) \in Nat
    BY FS_CardinalityType DEF PaidOf
  <2>5. QED
    BY <1>0, <2>2, <2>3, <2>4 DEF PaidOf, TypeOK
<1>3. CASE target[p] # t
  <2>1. delivered'[t] = delivered[t] /\ used'[t] = used[t]
    BY <1>0, <1>3 DEF ConsumeReturn, TypeOK
  <2>2. QED
    BY <1>0, <1>1, <2>1, PaidKept
<1>4. QED
  BY <1>2, <1>3

\* Every other step leaves both counts alone, and brings nobody into debt.
LEMMA PaidOther ==
    ASSUME IInv, [Next]_vars, NEW t \in TicketIds, PaidOf(t),
           \A p \in Procs : ~ConsumeSave(p) /\ ~ConsumeReturn(p)
    PROVE  PaidOf(t)'
<1>0. TypeOK
  BY DEF IInv
<1>1. delivered'[t] = delivered[t]
  BY DeliverySteps
<1>2. UNCHANGED used
  <2>1. CASE \A p \in Procs : ~WritesTicket(p)
    BY <2>1, OtherStep
  <2>2. CASE \E p \in Procs : WritesTicket(p)
    BY <2>2 DEF WritesTicket, IssueSave, RenewRevoke, RenewSave, RevokeSave, LockdownSave, hist
  <2>3. QED
    BY <2>1, <2>2
<1>3. ASSUME NEW q \in Procs, q \in Owed(t)' PROVE q \in Owed(t)
  <2>1. pc'[q] \in {"consume_record", "consume_audit", "consume_return"} /\ target'[q] = t
    BY <1>3 DEF Owed
  <2>2. CASE Keeps(q)
    BY <2>1, <2>2 DEF Keeps, Owed
  <2>3. CASE ConsumeNext(q)
    BY <1>0, <2>1, <2>3 DEF ConsumeNext, ConsumeStart, UseStart, ConsumeLoad, LoadAndValidate,
       ConsumePolicy, CheckPolicy, ConsumeCurrent, CheckCurrent, ConsumeRecord, ConsumeAudit,
       Goto, Finish, Step, Owed, TypeOK
  <2>4. QED
    BY <1>0, <2>1, <2>2, <2>3, ConsumeSteps DEF Consuming
<1>4. Owed(t)' \subseteq Owed(t)
  BY <1>3 DEF Owed
<1>5. QED
  BY <1>0, <1>1, <1>2, <1>4, PaidKept

\* Every plaintext returned for a ticket is covered by a use saved for it, for
\* any number of commands, whichever of them die on the way.
THEOREM DeliveryPaid == Spec => []DeliveryIsPaid
<1> DEFINE Paid == \A t \in TicketIds : PaidOf(t)
<1>1. Init => Paid
  <2> SUFFICES ASSUME Init, NEW t \in TicketIds PROVE PaidOf(t)
    OBVIOUS
  <2>1. Owed(t) = {}
    BY DEF Init, Owed
  <2>2. QED
    BY <2>1, FS_EmptySet DEF Init, PaidOf
<1>2. IInv /\ Paid /\ [Next]_vars => Paid'
  BY PaidSave, PaidReturn, PaidOther
<1>3. TypeOK /\ Paid => DeliveryIsPaid
  <2> SUFFICES ASSUME TypeOK, Paid, NEW t \in TicketIds PROVE delivered[t] <= used[t]
    BY DEF DeliveryIsPaid
  <2>1. IsFiniteSet(Owed(t)) /\ delivered[t] + Cardinality(Owed(t)) <= used[t]
    BY DEF PaidOf
  <2>2. Cardinality(Owed(t)) \in Nat
    BY <2>1, FS_CardinalityType
  <2>3. QED
    BY <2>1, <2>2 DEF TypeOK
<1>4. QED
  BY <1>1, <1>2, <1>3, Invariance, TypeCorrect, PTL DEF Spec

-----------------------------------------------------------------------------
(* The handlers implement TicketUse.                                       *)

\* A first row, not revoked, is a grant.
LEMMA FirstRowGrants ==
    ASSUME TypeOK, NEW t \in TicketIds, NEW row \in Ticket,
           ~Exists(t), ~row.revoked, SaveTicket(t, row), UNCHANGED used
    PROVE  Abstract!Grant(t)
<1>1. row # NoTicket /\ row.max_uses \in Nat
  BY TicketExists DEF Ticket
<1>2. QED
  BY <1>1 DEF TypeOK, SaveTicket, Exists, Abstract!Grant

\* A revoked row over an existing one revokes it, unless that has happened before.
LEMMA RevokedRowKills ==
    ASSUME TypeOK, NEW t \in TicketIds, NEW row \in Ticket, Exists(t), row.revoked,
           row.max_uses = tickets[t].max_uses, SaveTicket(t, row), UNCHANGED used
    PROVE  Abstract!Kill(t) \/ UNCHANGED Abstract!vars
<1>1. row # NoTicket
  BY TicketExists
<1>2. CASE tickets[t].revoked
  BY <1>1, <1>2 DEF TypeOK, SaveTicket, Exists, Abstract!vars
<1>3. CASE ~tickets[t].revoked
  BY <1>1, <1>3 DEF TypeOK, SaveTicket, Exists, Abstract!Kill
<1>4. QED
  BY <1>2, <1>3

\* A live row with one use less is a use.
LEMMA SpentRowUses ==
    ASSUME TypeOK, UsesWithinGrant, NEW t \in TicketIds, Exists(t),
           ~tickets[t].revoked, tickets[t].uses_remaining >= 1,
           SaveTicket(t, Spent(tickets[t])), used' = [used EXCEPT ![t] = @ + 1]
    PROVE  Abstract!Use(t)
<1>1. tickets[t] \in Ticket
  BY RowType
<1>2. /\ Spent(tickets[t]) \in Ticket /\ ~Spent(tickets[t]).revoked
      /\ Spent(tickets[t]).max_uses = tickets[t].max_uses
  BY <1>1, SpentType
<1>3. Spent(tickets[t]) # NoTicket
  BY <1>2, TicketExists
<1>4. used[t] < tickets[t].max_uses
  <2>1. used[t] + tickets[t].uses_remaining = tickets[t].max_uses
    BY DEF UsesWithinGrant, Live
  <2>2. used[t] \in Nat /\ tickets[t].uses_remaining \in Nat
    BY <1>1 DEF TypeOK, Ticket
  <2>3. QED
    BY <2>1, <2>2
<1>5. QED
  BY <1>2, <1>3, <1>4 DEF TypeOK, SaveTicket, Exists, Abstract!Use

\* Each of the six writers takes a step of TicketUse, or none.
LEMMA WriterRefines ==
    ASSUME IInv, NEW p \in Procs, WritesTicket(p)
    PROVE  [Abstract!Next]_(Abstract!vars)
<1> USE DEF SaveTicket, hist
<1>0. TypeOK /\ UsesWithinGrant
  BY DEF IInv
<1>1. CASE IssueSave(p) \/ RenewSave(p)
  <2>1. /\ newId[p] \in TicketIds /\ fresh[p] \in Ticket
        /\ ~fresh[p].revoked /\ ~Exists(newId[p])
    BY <1>1 DEF IssueSave, RenewSave, IInv, TypeOK, Built, Building
  <2>2. PICK t \in TicketIds : t = newId[p]
    BY <2>1
  <2>3. Abstract!Grant(t)
    BY <1>0, <1>1, <2>1, <2>2, FirstRowGrants DEF IssueSave, RenewSave
  <2>4. QED
    BY <2>3 DEF Abstract!Next
<1>2. CASE RenewRevoke(p) \/ RevokeSave(p)
  <2>1. /\ held[p] \in Ticket /\ target[p] \in TicketIds /\ Exists(target[p])
        /\ held[p].max_uses = tickets[target[p]].max_uses
    BY <1>2 DEF RenewRevoke, RevokeSave, IInv, Copies, Arguments, Holding, Targeting
  <2>2. PICK t \in TicketIds : t = target[p]
    BY <2>1
  <2>3. Abstract!Kill(t) \/ UNCHANGED Abstract!vars
    BY <1>0, <1>2, <2>1, <2>2, RevokedType, RevokedRowKills DEF RenewRevoke, RevokeSave
  <2>4. QED
    BY <2>3 DEF Abstract!Next
<1>3. CASE ConsumeSave(p)
  <2>1. /\ target[p] \in TicketIds /\ Exists(target[p])
        /\ held[p].uses_remaining >= 1 /\ ~held[p].revoked
    BY <1>3 DEF ConsumeSave, IInv, Validated, Copies, Arguments, Holding, Targeting
  <2>2. CASE tickets[target[p]] = held[p]
    <3>1. PICK t \in TicketIds : t = target[p]
      BY <2>1
    <3>2. Abstract!Use(t)
      BY <1>0, <1>3, <2>1, <2>2, <3>1, SpentRowUses DEF ConsumeSave
    <3>3. QED
      BY <3>2 DEF Abstract!Next
  <2>3. CASE tickets[target[p]] # held[p]
    BY <1>3, <2>3 DEF ConsumeSave, Exists, Abstract!vars
  <2>4. QED
    BY <2>2, <2>3
<1>4. ASSUME NEW t \in TicketIds, LockdownSave(p, t)
      PROVE  [Abstract!Next]_(Abstract!vars)
  <2>1. /\ snap[p][t] \in Ticket /\ Exists(t)
        /\ snap[p][t].max_uses = tickets[t].max_uses
    BY <1>4 DEF LockdownSave, IInv, TypeOK, Rows, Listed
  <2>2. Abstract!Kill(t) \/ UNCHANGED Abstract!vars
    BY <1>0, <1>4, <2>1, RevokedType, RevokedRowKills DEF LockdownSave
  <2>3. QED
    BY <2>2 DEF Abstract!Next
<1>5. QED
  BY <1>1, <1>2, <1>3, <1>4 DEF WritesTicket

\* The handlers, with their copies, blind writes and crashes, do to a ticket only
\* what TicketUse allows: one grant, a use at a time, one final revocation.
THEOREM Refinement == Spec => ImplementsTicketUse
<1>1. Init => Abstract!Init
  BY DEF Init, NoRows, Exists, Abstract!Init
<1>2. ASSUME IInv, [Next]_vars PROVE [Abstract!Next]_(Abstract!vars)
  <2>1. CASE \A p \in Procs : ~WritesTicket(p)
    BY <1>2, <2>1, OtherStep DEF Exists, Abstract!vars
  <2>2. CASE \E p \in Procs : WritesTicket(p)
    BY <1>2, <2>2, WriterRefines
  <2>3. QED
    BY <2>1, <2>2
<1>3. IInv /\ [Next]_vars => [Abstract!Next]_(Abstract!vars)
  BY <1>2
<1>4. QED
  BY <1>1, <1>3, Invariance, PTL DEF Spec, ImplementsTicketUse, Abstract!Spec
==============================================================================
