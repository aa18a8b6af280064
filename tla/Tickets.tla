------------------------------- MODULE Tickets -------------------------------
(***************************************************************************)
(* The ticket handlers of vault.rs over the store of store.rs.             *)
(*                                                                         *)
(* Every hbse command, and every request of the broker, opens its own      *)
(* SQLite connection for each store call, and each call is one autocommit  *)
(* transaction.  Commands therefore interleave at store calls: one action  *)
(* below is one store call of one command, with the pure computation that  *)
(* follows it, and the values a handler keeps between two calls are local  *)
(* copies that may be stale when they are written back.                    *)
(*                                                                         *)
(* A request's secret reference, consumer, purpose, delivery mode, HTTP    *)
(* fields and peer identity are one model value, its context.  A policy's  *)
(* content is a record of PolicyBodies; policy_hash is injective, so the   *)
(* body itself stands for its hash.  Only the "secret.materialized" audit  *)
(* event is counted; the chain is the subject of VaultLog.  MACs hold,     *)
(* since every row is written by a handler that holds the key.             *)
(***************************************************************************)
EXTENDS Naturals

CONSTANTS
    Procs,          \* command executions that may overlap
    TicketIds,      \* the UUIDs tickets may get; a bound on issue and renew
    Contexts,       \* request contexts
    Refs, RefOf,    \* secret references, and the reference of a context
    Sessions,       \* broker session ids
    NoSession,      \* a request or ticket without a broker session
    PolicyIds,      \* policy ids, naturals in the order of list_policies
    PolicyBodies,   \* policy contents
    Versions,       \* secret versions: 1..MaxVersion, a bound on put
    MaxTime,        \* a bound on the clock
    Writes,         \* the statuses secret records are saved with
    NoTicket, NoPolicy, None

PolicyBody == [allows: SUBSET Contexts, ttl: Nat, max_uses: Nat, expires_at: Nat]

Ticket == [context: Contexts, secret_version: Nat,
           broker_session_id: Sessions \cup {NoSession},
           policy_id: PolicyIds, policy_hash: PolicyBodies,
           issued_at: Nat, expires_at: Nat,
           max_uses: Nat, uses_remaining: Nat, revoked: BOOLEAN]

Request == [context: Contexts, session: Sessions \cup {NoSession}, now: Nat]

ASSUME ConstantsAssumption ==
    /\ RefOf \in [Contexts -> Refs]
    /\ PolicyIds \subseteq Nat
    /\ PolicyBodies \subseteq PolicyBody
    /\ Versions \subseteq Nat \ {0}
    /\ MaxTime \in Nat
    /\ Writes \subseteq {"active", "disabled", "destroyed"}
    /\ NoTicket \notin Ticket
    /\ NoPolicy \notin PolicyBodies
    /\ None \notin TicketIds \cup Request
    /\ NoSession \notin Sessions

VARIABLES
    tickets,        \* the tickets table: tickets[t] is a row or NoTicket
    policies,       \* the policies table
    records,        \* records[r][v]: status of a row of secret_records, or "none"
    now,            \* the wall clock
    minted,         \* the ticket ids drawn so far (Uuid::new_v4)
    pc, req, target, held, newId, fresh, ver, snap, left,   \* see TypeOK
    used,           \* history: successful save_ticket_if_current per ticket
    delivered,      \* history: plaintexts returned per ticket
    receipt         \* history: the running commands that have appended their
                    \* "secret.materialized" event

db    == <<tickets, policies, records>>
local == <<pc, req, target, held, newId, fresh, ver, snap, left, receipt>>
hist  == <<used, delivered>>
vars  == <<tickets, policies, records, now, minted, pc, req, target, held,
           newId, fresh, ver, snap, left, used, delivered, receipt>>

Rows     == Ticket \cup {NoTicket}
Statuses == {"active", "disabled", "destroyed"}
Labels   ==
    {"idle", "issue_load", "issue_eval", "issue_save", "issue_audit",
     "renew_load", "renew_policy", "renew_current", "renew_build",
     "renew_revoke", "renew_save", "renew_audit",
     "consume_load", "consume_policy", "consume_current", "consume_save",
     "consume_record", "consume_denied", "consume_audit", "consume_return",
     "revoke_load", "revoke_save", "revoke_audit",
     "lockdown_list", "lockdown_save", "lockdown_audit"}

NoRows == [t \in TicketIds |-> NoTicket]

\* The tables hold rows, the copies of a command are rows it once read.
TypeOK ==
    /\ tickets \in [TicketIds -> Rows]
    /\ policies \in [PolicyIds -> PolicyBodies \cup {NoPolicy}]
    /\ records \in [Refs -> [Versions -> Statuses \cup {"none"}]]
    /\ now \in Nat
    /\ minted \subseteq TicketIds
    /\ pc \in [Procs -> Labels]                     \* next store call
    /\ req \in [Procs -> Request \cup {None}]       \* the AccessRequest
    /\ target \in [Procs -> TicketIds \cup {None}]  \* the ticket_id argument
    /\ held \in [Procs -> Rows]                     \* the ticket as loaded
    /\ newId \in [Procs -> TicketIds \cup {None}]   \* id of the ticket built
    /\ fresh \in [Procs -> Rows]                    \* the ticket built
    /\ ver \in [Procs -> Nat]                       \* the version loaded
    /\ snap \in [Procs -> [TicketIds -> Rows]]      \* the listed tickets
    /\ left \in [Procs -> SUBSET TicketIds]         \* those still to revoke
    /\ used \in [TicketIds -> Nat]
    /\ delivered \in [TicketIds -> Nat]
    /\ receipt \subseteq Procs

Init ==
    /\ tickets = NoRows
    /\ policies = [i \in PolicyIds |-> NoPolicy]
    /\ records = [r \in Refs |-> [v \in Versions |-> "none"]]
    /\ now = 0
    /\ minted = {}
    /\ pc = [p \in Procs |-> "idle"]
    /\ req = [p \in Procs |-> None]
    /\ target = [p \in Procs |-> None]
    /\ held = [p \in Procs |-> NoTicket]
    /\ newId = [p \in Procs |-> None]
    /\ fresh = [p \in Procs |-> NoTicket]
    /\ ver = [p \in Procs |-> 0]
    /\ snap = [p \in Procs |-> NoRows]
    /\ left = [p \in Procs |-> {}]
    /\ used = [t \in TicketIds |-> 0]
    /\ delivered = [t \in TicketIds |-> 0]
    /\ receipt = {}

-----------------------------------------------------------------------------
(* Pure parts of the handlers.                                             *)

\* store.latest_version: v is the largest stored version of r, 0 when none is.
IsLatest(r, v) ==
    /\ v = 0 \/ (v \in Versions /\ records[r][v] # "none")
    /\ \A w \in Versions : records[r][w] # "none" => w <= v

\* load_latest_secret finds version v of r, and it is Active.
LatestActive(r, v) == v \in Versions /\ IsLatest(r, v) /\ records[r][v] = "active"

\* PolicyEngine::evaluate over the context and the clock: a policy allows the
\* request, and the first one in the order of the ids decides.
Allows(body, q) == q.context \in body.allows /\ q.now <= body.expires_at

Allowing(q) == {i \in PolicyIds : policies[i] # NoPolicy /\ Allows(policies[i], q)}

\* TicketManager::issue
NewTicket(q, v, i, body, session) ==
    [context |-> q.context, secret_version |-> v, broker_session_id |-> session,
     policy_id |-> i, policy_hash |-> body,
     issued_at |-> q.now, expires_at |-> q.now + body.ttl,
     max_uses |-> body.max_uses, uses_remaining |-> body.max_uses,
     revoked |-> FALSE]

\* Mutation: the remaining uses are not checked.
ValidWithoutUses(row, q) ==
    ~row.revoked /\ now <= row.expires_at /\ row.context = q.context

\* Mutation: the revoked flag is not checked.
ValidIgnoringRevocation(row, q) ==
    row.uses_remaining >= 1 /\ now <= row.expires_at /\ row.context = q.context

\* TicketManager::validate at the current clock
Valid(row, q) ==
    /\ ~row.revoked
    /\ row.uses_remaining >= 1
    /\ now <= row.expires_at
    /\ row.broker_session_id \in {NoSession, q.session}
    /\ row.context = q.context

\* active_policy_for_ticket and validate_policy: the id still has this content
PolicyUnchanged(row) == policies[row.policy_id] = row.policy_hash

Revoked(row) == [row EXCEPT !.revoked = TRUE]

-----------------------------------------------------------------------------
(* Control of a command.                                                   *)

Goto(p, l) == pc' = [pc EXCEPT ![p] = l]

\* The command returns, with a value or with an error; its copies are gone.
Finish(p) ==
    /\ Goto(p, "idle")
    /\ req' = [req EXCEPT ![p] = None]
    /\ target' = [target EXCEPT ![p] = None]
    /\ held' = [held EXCEPT ![p] = NoTicket]
    /\ newId' = [newId EXCEPT ![p] = None]
    /\ fresh' = [fresh EXCEPT ![p] = NoTicket]
    /\ ver' = [ver EXCEPT ![p] = 0]
    /\ snap' = [snap EXCEPT ![p] = NoRows]
    /\ left' = [left EXCEPT ![p] = {}]
    /\ receipt' = receipt \ {p}

\* The command moves from one store call to the next, or returns an error.
Step(p, ok, l) ==
    IF ok THEN Goto(p, l) /\ UNCHANGED <<req, target, held, newId, fresh, ver, snap, left, receipt>>
          ELSE Finish(p)

\* SIGKILL, a panic, SQLITE_BUSY, a failed unlock or a refused export gate:
\* any command may end before its next store call.
Abort(p) ==
    /\ pc[p] # "idle"
    /\ Finish(p)
    /\ UNCHANGED <<db, now, minted, hist>>

-----------------------------------------------------------------------------
(* issue_ticket                                                            *)

IssueStart(p, c, s) ==
    /\ pc[p] = "idle"
    /\ Goto(p, "issue_load")
    /\ req' = [req EXCEPT ![p] = [context |-> c, session |-> s, now |-> now]]
    /\ UNCHANGED <<db, now, minted, target, held, newId, fresh, ver, snap, left, receipt, hist>>

\* load_latest_secret and the status check
IssueLoad(p) ==
    /\ pc[p] = "issue_load"
    /\ LET r == RefOf[req[p].context]
       IN  \/ \E v \in Versions :
                /\ LatestActive(r, v)
                /\ Goto(p, "issue_eval")
                /\ ver' = [ver EXCEPT ![p] = v]
                /\ UNCHANGED <<req, target, held, newId, fresh, snap, left, receipt>>
           \/ /\ \A v \in Versions : ~LatestActive(r, v)
              /\ Finish(p)
    /\ UNCHANGED <<db, now, minted, hist>>

\* list_policies, the evaluation, and TicketManager::issue under a new id; a
\* denial appends "ticket.issue_denied" and returns.
IssueEval(p) ==
    /\ pc[p] = "issue_eval"
    /\ IF Allowing(req[p]) # {}
       THEN \E t \in TicketIds \ minted, i \in Allowing(req[p]) :
              /\ \A j \in Allowing(req[p]) : i <= j
              /\ minted' = minted \cup {t}
              /\ newId' = [newId EXCEPT ![p] = t]
              /\ fresh' = [fresh EXCEPT ![p] =
                     NewTicket(req[p], ver[p], i, policies[i], req[p].session)]
              /\ Goto(p, "issue_save")
              /\ UNCHANGED <<req, target, held, ver, snap, left, receipt>>
       ELSE Finish(p) /\ UNCHANGED minted
    /\ UNCHANGED <<db, now, hist>>

\* save_ticket: INSERT OR REPLACE of the row
SaveTicket(t, row) == tickets' = [tickets EXCEPT ![t] = row]

IssueSave(p) ==
    /\ pc[p] = "issue_save"
    /\ SaveTicket(newId[p], fresh[p])
    /\ Step(p, TRUE, "issue_audit")
    /\ UNCHANGED <<policies, records, now, minted, hist>>

\* The last step of every handler but consume: its audit event, and the return.
Audit(p) ==
    /\ pc[p] \in {"issue_audit", "renew_audit", "revoke_audit", "lockdown_audit",
                  "consume_denied"}
    /\ Finish(p)
    /\ UNCHANGED <<db, now, minted, hist>>

-----------------------------------------------------------------------------
(* validate_ticket, renew_ticket and consume_ticket_for_secret begin alike. *)

\* The request of a ticket command; ver records the version current at the
\* start, for StaleTicketNotDelivered.
UseStart(p, t, c, s, l) ==
    /\ pc[p] = "idle"
    /\ Goto(p, l)
    /\ req' = [req EXCEPT ![p] = [context |-> c, session |-> s, now |-> now]]
    /\ target' = [target EXCEPT ![p] = t]
    /\ \E v \in {0} \cup Versions :
          IsLatest(RefOf[c], v) /\ ver' = [ver EXCEPT ![p] = v]
    /\ UNCHANGED <<db, now, minted, held, newId, fresh, snap, left, receipt, hist>>

RenewStart(p, t, c)      == UseStart(p, t, c, NoSession, "renew_load")
ConsumeStart(p, t, c, s) == UseStart(p, t, c, s, "consume_load")

\* load_ticket and TicketManager::validate
LoadAndValidate(p, from, to) ==
    /\ pc[p] = from
    /\ IF tickets[target[p]] # NoTicket /\ Valid(tickets[target[p]], req[p])
       THEN /\ held' = [held EXCEPT ![p] = tickets[target[p]]]
            /\ Goto(p, to)
            /\ UNCHANGED <<req, target, newId, fresh, ver, snap, left, receipt>>
       ELSE Finish(p)
    /\ UNCHANGED <<db, now, minted, hist>>

\* list_policies: the ticket's policy still has the content it was issued under
CheckPolicy(p, from, to) ==
    /\ pc[p] = from
    /\ Step(p, PolicyUnchanged(held[p]), to)
    /\ UNCHANGED <<db, now, minted, hist>>

\* Mutation: the ticket's version is not compared with the latest one.
CheckCurrentUnpinned(p, from, to) ==
    /\ pc[p] = from
    /\ Step(p, TRUE, to)
    /\ UNCHANGED <<db, now, minted, hist>>

\* ensure_ticket_secret_is_current: load_latest_secret
CheckCurrent(p, from, to) ==
    /\ pc[p] = from
    /\ Step(p, LatestActive(RefOf[held[p].context], held[p].secret_version), to)
    /\ UNCHANGED <<db, now, minted, hist>>

-----------------------------------------------------------------------------
(* renew_ticket.  A "ticket validate" ends, as an Abort, at renew_build.   *)

RenewLoad(p)    == LoadAndValidate(p, "renew_load", "renew_policy")
RenewPolicy(p)  == CheckPolicy(p, "renew_policy", "renew_current")
RenewCurrent(p) == CheckCurrent(p, "renew_current", "renew_build")

\* active_policy_for_ticket is read a second time; the new ticket is issued
\* under what it returns, without an evaluation, for the pinned version.
RenewBuild(p) ==
    /\ pc[p] = "renew_build"
    /\ LET i == held[p].policy_id
       IN  \E t \in TicketIds \ minted :
             /\ minted' = minted \cup {t}
             /\ newId' = [newId EXCEPT ![p] = t]
             /\ fresh' = [fresh EXCEPT ![p] =
                    NewTicket(req[p], held[p].secret_version, i, policies[i],
                              held[p].broker_session_id)]
    /\ Goto(p, "renew_revoke")
    /\ UNCHANGED <<db, now, req, target, held, ver, snap, left, receipt, hist>>

\* Mutation: the renewal writes its copy of the old ticket back unrevoked.
RenewRevokeForgotten(p) ==
    /\ pc[p] = "renew_revoke"
    /\ SaveTicket(target[p], held[p])
    /\ Step(p, TRUE, "renew_save")
    /\ UNCHANGED <<policies, records, now, minted, hist>>

\* save_ticket of the copy loaded at the start, revoked
RenewRevoke(p) ==
    /\ pc[p] = "renew_revoke"
    /\ SaveTicket(target[p], Revoked(held[p]))
    /\ Step(p, TRUE, "renew_save")
    /\ UNCHANGED <<policies, records, now, minted, hist>>

RenewSave(p) ==
    /\ pc[p] = "renew_save"
    /\ SaveTicket(newId[p], fresh[p])
    /\ Step(p, TRUE, "renew_audit")
    /\ UNCHANGED <<policies, records, now, minted, hist>>

-----------------------------------------------------------------------------
(* consume_ticket_for_secret                                               *)

ConsumeLoad(p)    == LoadAndValidate(p, "consume_load", "consume_policy")
ConsumePolicy(p)  == CheckPolicy(p, "consume_policy", "consume_current")
ConsumeCurrent(p) == CheckCurrent(p, "consume_current", "consume_save")

\* TicketManager::consume
Spent(row) == [row EXCEPT !.uses_remaining = @ - 1]

\* Mutation: the use is saved whatever the row holds by now.
ConsumeSaveUnchecked(p) ==
    /\ pc[p] = "consume_save"
    /\ SaveTicket(target[p], Spent(held[p]))
    /\ used' = [used EXCEPT ![target[p]] = @ + 1]
    /\ Step(p, TRUE, "consume_record")
    /\ UNCHANGED <<policies, records, now, minted, delivered>>

\* Mutation: a TicketConflict is ignored and the record is read all the same.
ConsumeSaveConflictIgnored(p) ==
    /\ pc[p] = "consume_save"
    /\ IF tickets[target[p]] = held[p]
       THEN /\ SaveTicket(target[p], Spent(held[p]))
            /\ used' = [used EXCEPT ![target[p]] = @ + 1]
       ELSE UNCHANGED <<tickets, used>>
    /\ Step(p, TRUE, "consume_record")
    /\ UNCHANGED <<policies, records, now, minted, delivered>>

\* save_ticket_if_current: the update holds only if the row is still the one
\* that was loaded; otherwise TicketConflict.
ConsumeSave(p) ==
    /\ pc[p] = "consume_save"
    /\ LET current == tickets[target[p]] = held[p]
       IN  /\ IF current
              THEN /\ SaveTicket(target[p], Spent(held[p]))
                   /\ used' = [used EXCEPT ![target[p]] = @ + 1]
              ELSE UNCHANGED <<tickets, used>>
           /\ Step(p, current, "consume_record")
    /\ UNCHANGED <<policies, records, now, minted, delivered>>

\* Mutation: the plaintext is returned without its audit event.
ConsumeRecordUnaudited(p) ==
    /\ pc[p] = "consume_record"
    /\ Step(p, TRUE, "consume_return")
    /\ UNCHANGED <<db, now, minted, hist>>

\* load_secret_version of the pinned version, the status check, the decryption
ConsumeRecord(p) ==
    /\ pc[p] = "consume_record"
    /\ LET s == records[RefOf[held[p].context]][held[p].secret_version]
       IN  Step(p, TRUE, IF s = "active" THEN "consume_audit" ELSE "consume_denied")
    /\ UNCHANGED <<db, now, minted, hist>>

\* append_audit("secret.materialized")
ConsumeAudit(p) ==
    /\ pc[p] = "consume_audit"
    /\ receipt' = receipt \cup {p}
    /\ Goto(p, "consume_return")
    /\ UNCHANGED <<db, now, minted, req, target, held, newId, fresh, ver, snap, left, hist>>

\* Ok(plaintext)
ConsumeReturn(p) ==
    /\ pc[p] = "consume_return"
    /\ delivered' = [delivered EXCEPT ![target[p]] = @ + 1]
    /\ Finish(p)
    /\ UNCHANGED <<db, now, minted, used>>

-----------------------------------------------------------------------------
(* revoke_ticket and revoke_all_tickets                                    *)

RevokeStart(p, t) ==
    /\ pc[p] = "idle"
    /\ Goto(p, "revoke_load")
    /\ target' = [target EXCEPT ![p] = t]
    /\ UNCHANGED <<db, now, minted, req, held, newId, fresh, ver, snap, left, receipt, hist>>

RevokeLoad(p) ==
    /\ pc[p] = "revoke_load"
    /\ IF tickets[target[p]] # NoTicket
       THEN /\ held' = [held EXCEPT ![p] = tickets[target[p]]]
            /\ Goto(p, "revoke_save")
            /\ UNCHANGED <<req, target, newId, fresh, ver, snap, left, receipt>>
       ELSE Finish(p)
    /\ UNCHANGED <<db, now, minted, hist>>

RevokeSave(p) ==
    /\ pc[p] = "revoke_save"
    /\ SaveTicket(target[p], Revoked(held[p]))
    /\ Step(p, TRUE, "revoke_audit")
    /\ UNCHANGED <<policies, records, now, minted, hist>>

\* ver holds the clock at which the lockdown command was given, for
\* LockdownRevokesEarlierTickets.
LockdownStart(p) ==
    /\ pc[p] = "idle"
    /\ Goto(p, "lockdown_list")
    /\ ver' = [ver EXCEPT ![p] = now]
    /\ UNCHANGED <<db, now, minted, req, target, held, newId, fresh, snap, left, receipt, hist>>

\* Mutation: tickets whose uses are spent are skipped with the revoked ones.
LockdownListUsable(p) ==
    /\ pc[p] = "lockdown_list"
    /\ snap' = [snap EXCEPT ![p] = tickets]
    /\ left' = [left EXCEPT ![p] =
           {t \in TicketIds : tickets[t] # NoTicket /\ ~tickets[t].revoked
                              /\ tickets[t].uses_remaining > 0}]
    /\ Goto(p, "lockdown_save")
    /\ UNCHANGED <<db, now, minted, req, target, held, newId, fresh, ver, receipt, hist>>

\* list_tickets; the rows already revoked are skipped
LockdownList(p) ==
    /\ pc[p] = "lockdown_list"
    /\ snap' = [snap EXCEPT ![p] = tickets]
    /\ left' = [left EXCEPT ![p] =
           {t \in TicketIds : tickets[t] # NoTicket /\ ~tickets[t].revoked}]
    /\ Goto(p, "lockdown_save")
    /\ UNCHANGED <<db, now, minted, req, target, held, newId, fresh, ver, receipt, hist>>

\* One round of the loop: save_ticket of the listed copy, revoked.  The rows
\* come in the order of their random ids, which is any order.
LockdownSave(p, t) ==
    /\ pc[p] = "lockdown_save"
    /\ t \in left[p]
    /\ SaveTicket(t, Revoked(snap[p][t]))
    /\ left' = [left EXCEPT ![p] = @ \ {t}]
    /\ UNCHANGED <<policies, records, now, minted, pc, req, target, held, newId,
                   fresh, ver, snap, receipt, hist>>

LockdownDone(p) ==
    /\ pc[p] = "lockdown_save"
    /\ left[p] = {}
    /\ Goto(p, "lockdown_audit")
    /\ UNCHANGED <<db, now, minted, req, target, held, newId, fresh, ver, snap, left, receipt, hist>>

-----------------------------------------------------------------------------
(* What happens beside the ticket handlers.                                *)

Tick ==
    /\ now < MaxTime
    /\ now' = now + 1
    /\ UNCHANGED <<db, minted, local, hist>>

\* store.save_policy, the only write of the policies table: INSERT OR REPLACE.
SavePolicy(i, body) ==
    /\ policies' = [policies EXCEPT ![i] = body]
    /\ UNCHANGED <<tickets, records, now, minted, local, hist>>

\* store.save_secret_record, as put_secret and promote_rotation (an active
\* record of the version after the latest one they read) and disable_secret and
\* destroy_secret (the latest one they read) call it; module Secrets has the
\* handlers themselves.
SaveSecretRecord(r, v, s) ==
    /\ \E l \in {0} \cup Versions :
          IsLatest(r, l) /\ v <= IF s = "active" THEN l + 1 ELSE l
    /\ records' = [records EXCEPT ![r][v] = s]
    /\ UNCHANGED <<tickets, policies, now, minted, local, hist>>

-----------------------------------------------------------------------------
IssueNext(p) ==
    \/ \E c \in Contexts, s \in Sessions \cup {NoSession} : IssueStart(p, c, s)
    \/ IssueLoad(p) \/ IssueEval(p) \/ IssueSave(p)

RenewNext(p) ==
    \/ \E t \in minted, c \in Contexts : RenewStart(p, t, c)
    \/ RenewLoad(p) \/ RenewPolicy(p) \/ RenewCurrent(p) \/ RenewBuild(p)
    \/ RenewRevoke(p) \/ RenewSave(p)

ConsumeNext(p) ==
    \/ \E t \in minted, c \in Contexts, s \in Sessions \cup {NoSession} :
          ConsumeStart(p, t, c, s)
    \/ ConsumeLoad(p) \/ ConsumePolicy(p) \/ ConsumeCurrent(p) \/ ConsumeSave(p)
    \/ ConsumeRecord(p) \/ ConsumeAudit(p) \/ ConsumeReturn(p)

RevokeNext(p) ==
    \/ \E t \in minted : RevokeStart(p, t)
    \/ RevokeLoad(p) \/ RevokeSave(p)

LockdownNext(p) ==
    \/ LockdownStart(p) \/ LockdownList(p) \/ LockdownDone(p)
    \/ \E t \in TicketIds : LockdownSave(p, t)

Command(p) == IssueNext(p) \/ RenewNext(p) \/ ConsumeNext(p) \/ RevokeNext(p)
              \/ LockdownNext(p) \/ Audit(p) \/ Abort(p)

Next ==
    \/ \E p \in Procs : Command(p)
    \/ Tick
    \/ \E i \in PolicyIds, body \in PolicyBodies : SavePolicy(i, body)
    \/ \E r \in Refs, v \in Versions, s \in Writes : SaveSecretRecord(r, v, s)

Spec == Init /\ [][Next]_vars

-----------------------------------------------------------------------------
(* Properties                                                              *)

Exists(t) == tickets[t] # NoTicket
Live(t)   == Exists(t) /\ ~tickets[t].revoked

\* A ticket is never used more often than its policy granted, whatever commands
\* overlap: the uses saved through save_ticket_if_current and the uses the row
\* still offers add up to max_uses as long as the ticket is not revoked.
UsesWithinGrant ==
    \A t \in TicketIds : Exists(t) =>
        /\ used[t] <= tickets[t].max_uses
        /\ Live(t) => used[t] + tickets[t].uses_remaining = tickets[t].max_uses

\* Revocation is final although renew, revoke and lockdown write back copies of
\* the row they read earlier and consume rewrites it: a revoked row stays
\* revoked, and no use of it is saved.
RevocationIsFinal ==
    [][\A t \in TicketIds :
          Exists(t) /\ tickets[t].revoked =>
              Exists(t)' /\ tickets'[t].revoked /\ used'[t] = used[t]]_vars

\* Every plaintext consume_ticket_for_secret returned for a ticket is covered by
\* a use that was saved for it, also when commands overlap or die between steps.
DeliveryIsPaid == \A t \in TicketIds : delivered[t] <= used[t]

\* A plaintext is returned only by a command that has appended its own
\* "secret.materialized" event before: the one that ends with this step.
DeliveryIsAudited ==
    [][\A t \in TicketIds :
          delivered'[t] # delivered[t] =>
              \E p \in receipt : target[p] = t /\ pc[p] # "idle" /\ pc'[p] = "idle"]_vars

\* When revoke_all_tickets comes to its audit event, every ticket that was in
\* the table when it listed it is revoked, whatever ran meanwhile.
LockdownRevokesListed ==
    \A p \in Procs, t \in TicketIds :
        pc[p] = "lockdown_audit" /\ snap[p][t] # NoTicket
            => Exists(t) /\ tickets[t].revoked

\* A consume command that was given after the ticket had expired, or after a
\* newer version of its secret was saved, returns nothing; the checks are made
\* in earlier store calls than the load of the record, on copies.
StaleTicketNotDelivered ==
    \A p \in Procs :
        pc[p] \in {"consume_audit", "consume_return"} =>
            /\ held[p].secret_version >= ver[p]
            /\ req[p].now <= held[p].expires_at

\* README: "Emergency lockdown revokes active tickets".  A ticket requested
\* before the lockdown command was given is not live when the lockdown ends.
LockdownRevokesEarlierTickets ==
    \A p \in Procs, t \in TicketIds :
        pc[p] = "lockdown_audit" /\ Live(t) => tickets[t].issued_at >= ver[p]

\* README: "Consumers must be explicitly allowed for a purpose and delivery
\* mode".  A ticket in the table was issued for a request that the policy
\* content it names allows.
TicketsAllowedByPolicy ==
    \A t \in TicketIds : Exists(t) =>
        Allows(tickets[t].policy_hash,
               [context |-> tickets[t].context, now |-> tickets[t].issued_at])

\* The handlers implement the abstract authorisation of module TicketUse.
Abstract == INSTANCE TicketUse WITH
    status  <- [t \in TicketIds |-> IF ~Exists(t) THEN "none"
                                    ELSE IF tickets[t].revoked THEN "dead" ELSE "live"],
    granted <- [t \in TicketIds |-> IF Exists(t) THEN tickets[t].max_uses ELSE 0],
    spent   <- used

ImplementsTicketUse == Abstract!Spec
==============================================================================
