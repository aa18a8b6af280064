------------------------------- MODULE VaultLog -------------------------------
(***************************************************************************)
(* The vault's header, which holds the wrapped root key, and the audit     *)
(* chain, whose MACs are made with a key derived from it: init, rewrap,    *)
(* recovery packages, and append and verification of the chain, one action *)
(* per store call as in modules Tickets and Secrets.                       *)
(*                                                                         *)
(* An init draws a vault id and a root key, which one element of Roots     *)
(* stands for.  A provider binding is the root key it wraps and the        *)
(* credential that opens it: a passphrase, or the machine, which opens it  *)
(* for everybody.  An event's hash is injective, and stands for the place  *)
(* the event has in the table.                                             *)
(***************************************************************************)
EXTENDS Naturals, Sequences

CONSTANTS
    Procs,          \* command executions that may overlap
    Roots,          \* vault ids and their root keys; a bound on init
    Foreign,        \* those of another vault, of which a package is at hand
    Passphrases,
    Machine,        \* the credential of TPM and system fingerprint bindings
    MaxEvents,      \* a bound on the audit table
    NoHeader, None

Credentials == Passphrases \cup {Machine}
Header      == [vault: Roots, root: Roots, credential: Credentials]
Package     == [vault: Roots, root: Roots]
Kinds       == {"vault.initialized", "provider.rewrapped", "recovery.used",
                "recovery.package_created", "other"}
Changes     == {"vault.initialized", "provider.rewrapped", "recovery.used"}
Event       == [hash: Nat, previous_hash: Nat, mac_key: Roots, kind: Kinds,
                header: Header \cup {NoHeader}]

ASSUME ConstantsAssumption ==
    /\ Foreign \in Roots
    /\ Machine \notin Passphrases
    /\ MaxEvents \in Nat
    /\ NoHeader \notin Header
    /\ None \notin Roots /\ None \notin Kinds /\ None \notin Procs

VARIABLES
    header,         \* vault_metadata: the row vault_header
    events,         \* audit_events in the order of sequence
    writer,         \* the command whose immediate transaction is open
    packages,       \* the recovery packages handed out
    drawn,          \* the roots drawn so far
    pc, hdr, key, kind,     \* pc[p]; the header, root key and event p works on
    last,           \* last[p]: the hash of the last event p read in its transaction
    stored,         \* history: the headers that were ever stored
    alarms          \* history: the commands that have reported a broken chain

local == <<pc, hdr, key, kind, last>>
vars  == <<header, events, writer, packages, drawn, pc, hdr, key, kind, last,
           stored, alarms>>

Labels == {"idle", "create_check", "create_insert", "update", "append", "commit",
           "verify_list"}

\* ZERO_HASH is 0.
TypeOK ==
    /\ header \in Header \cup {NoHeader}
    /\ events \in Seq(Event)
    /\ writer \in Procs \cup {None}
    /\ packages \subseteq Package
    /\ drawn \subseteq Roots
    /\ pc \in [Procs -> Labels]
    /\ hdr \in [Procs -> Header \cup {NoHeader}]
    /\ key \in [Procs -> Roots \cup {None}]
    /\ kind \in [Procs -> Kinds \cup {None}]
    /\ last \in [Procs -> Nat]
    /\ stored \subseteq Header
    /\ alarms \subseteq Procs

Init ==
    /\ header = NoHeader
    /\ events = <<>>
    /\ writer = None
    /\ packages = {[vault |-> Foreign, root |-> Foreign]}
    /\ drawn = {Foreign}
    /\ pc = [p \in Procs |-> "idle"]
    /\ hdr = [p \in Procs |-> NoHeader]
    /\ key = [p \in Procs |-> None]
    /\ kind = [p \in Procs |-> None]
    /\ last = [p \in Procs |-> 0]
    /\ stored = {}
    /\ alarms = {}

-----------------------------------------------------------------------------
Goto(p, l) == pc' = [pc EXCEPT ![p] = l]

\* The handler goes on at l with header h and root key k, towards event e.
Work(p, l, h, k, e) ==
    /\ Goto(p, l)
    /\ hdr' = [hdr EXCEPT ![p] = h]
    /\ key' = [key EXCEPT ![p] = k]
    /\ kind' = [kind EXCEPT ![p] = e]
    /\ UNCHANGED last

Finish(p) ==
    /\ Goto(p, "idle")
    /\ hdr' = [hdr EXCEPT ![p] = NoHeader]
    /\ key' = [key EXCEPT ![p] = None]
    /\ kind' = [kind EXCEPT ![p] = None]
    /\ last' = [last EXCEPT ![p] = 0]

\* SIGKILL, SQLITE_BUSY or a failing provider; an open transaction is rolled back
Abort(p) ==
    /\ pc[p] # "idle"
    /\ Finish(p)
    /\ writer' = IF writer = p THEN None ELSE writer
    /\ UNCHANGED <<header, events, packages, drawn, stored, alarms>>

\* unlock: the header is loaded and its binding opens with what was given
Opens(given) == header # NoHeader /\ header.credential \in {given, Machine}

-----------------------------------------------------------------------------
(* init_passphrase, init_tpm2, init_tpm2_esapi, init_system_fingerprint    *)

InitStart(p, r, c) ==
    /\ pc[p] = "idle"
    /\ r \notin drawn
    /\ drawn' = drawn \cup {r}
    /\ Work(p, "create_check", [vault |-> r, root |-> r, credential |-> c], r,
            "vault.initialized")
    /\ UNCHANGED <<header, events, writer, packages, stored, alarms>>

\* create_vault: the row is looked up; VaultAlreadyInitialized if it is there ...
CreateCheck(p) ==
    /\ pc[p] = "create_check"
    /\ IF header = NoHeader
       THEN Goto(p, "create_insert") /\ UNCHANGED <<hdr, key, kind, last>>
       ELSE Finish(p)
    /\ UNCHANGED <<header, events, writer, packages, drawn, stored, alarms>>

\* Mutation: INSERT OR REPLACE, as set_metadata has it.
CreateInsertReplacing(p) ==
    /\ pc[p] = "create_insert" /\ writer = None
    /\ header' = hdr[p]
    /\ stored' = stored \cup {hdr[p]}
    /\ Goto(p, "append")
    /\ UNCHANGED <<hdr, key, kind, last, events, writer, packages, drawn, alarms>>

\* ... and inserted, which fails on the primary key if it is there by now
CreateInsert(p) ==
    /\ pc[p] = "create_insert" /\ writer = None
    /\ IF header = NoHeader
       THEN /\ header' = hdr[p]
            /\ stored' = stored \cup {hdr[p]}
            /\ Goto(p, "append")
            /\ UNCHANGED <<hdr, key, kind, last>>
       ELSE Finish(p) /\ UNCHANGED <<header, stored>>
    /\ UNCHANGED <<events, writer, packages, drawn, alarms>>

-----------------------------------------------------------------------------
(* rewrap_provider and recover_provider_from_package                       *)

\* Mutation: the event is appended before the header is stored.
RewrapLoggingFirst(p, given, c) ==
    /\ pc[p] = "idle" /\ Opens(given)
    /\ Work(p, "append", [header EXCEPT !.credential = c], header.root,
            "provider.rewrapped")
    /\ UNCHANGED <<header, events, writer, packages, drawn, stored, alarms>>

\* The header is loaded and opened, and the root key wrapped for c.
Rewrap(p, given, c) ==
    /\ pc[p] = "idle" /\ Opens(given)
    /\ Work(p, "update", [header EXCEPT !.credential = c], header.root,
            "provider.rewrapped")
    /\ UNCHANGED <<header, events, writer, packages, drawn, stored, alarms>>

\* Mutation: the package's vault id is not compared with the header's.
RecoverAnyVault(p, k, c) ==
    /\ pc[p] = "idle" /\ header # NoHeader
    /\ Work(p, "update", [header EXCEPT !.root = k.root, !.credential = c], k.root,
            "recovery.used")
    /\ UNCHANGED <<header, events, writer, packages, drawn, stored, alarms>>

\* The header is loaded, the package's root key unwrapped, and wrapped for c.
Recover(p, k, c) ==
    /\ pc[p] = "idle" /\ header # NoHeader
    /\ k.vault = header.vault
    /\ Work(p, "update", [header EXCEPT !.root = k.root, !.credential = c], k.root,
            "recovery.used")
    /\ UNCHANGED <<header, events, writer, packages, drawn, stored, alarms>>

\* update_header: UPDATE, whatever the row holds by now
UpdateHeader(p) ==
    /\ pc[p] = "update" /\ writer = None
    /\ header # NoHeader
    /\ header' = hdr[p]
    /\ stored' = stored \cup {hdr[p]}
    /\ Goto(p, "append")
    /\ UNCHANGED <<events, writer, packages, drawn, hdr, key, kind, last, alarms>>

-----------------------------------------------------------------------------
(* create_recovery_package, and every handler of the other modules: what   *)
(* they do to their own tables stands between the unlock and the append.   *)

\* Mutation: the audit key is not derived.
HandlerUnkeyed(p, given, e) ==
    /\ pc[p] = "idle" /\ Opens(given)
    /\ Work(p, "append", header, None, e)
    /\ UNCHANGED <<header, events, writer, packages, drawn, stored, alarms>>

Handler(p, given, e) ==
    /\ pc[p] = "idle" /\ Opens(given)
    /\ Work(p, "append", header, header.root, e)
    /\ UNCHANGED <<header, events, writer, packages, drawn, stored, alarms>>

LastHash == IF events = <<>> THEN 0 ELSE events[Len(events)].hash

\* Mutation: the events are read outside a write transaction.
AppendReadDeferred(p) ==
    /\ pc[p] = "append" /\ writer = None
    /\ last' = [last EXCEPT ![p] = LastHash]
    /\ Goto(p, "commit")
    /\ UNCHANGED <<header, events, writer, packages, drawn, hdr, key, kind, stored, alarms>>

\* append_audit_event: BEGIN IMMEDIATE and the events so far; other writers
\* wait from here to the commit, readers do not
AppendRead(p) ==
    /\ pc[p] = "append" /\ writer = None
    /\ writer' = p
    /\ last' = [last EXCEPT ![p] = LastHash]
    /\ Goto(p, "commit")
    /\ UNCHANGED <<header, events, packages, drawn, hdr, key, kind, stored, alarms>>

\* AuditManager::append, INSERT and COMMIT; then the handler returns, with the
\* package if it made one
AppendCommit(p) ==
    /\ pc[p] = "commit"
    /\ Len(events) < MaxEvents
    /\ events' = Append(events,
           [hash |-> Len(events) + 1, previous_hash |-> last[p], mac_key |-> key[p],
            kind |-> kind[p],
            header |-> IF kind[p] \in Changes THEN hdr[p] ELSE NoHeader])
    /\ packages' = IF kind[p] = "recovery.package_created"
                   THEN packages \cup {[vault |-> hdr[p].vault, root |-> key[p]]}
                   ELSE packages
    /\ writer' = None
    /\ Finish(p)
    /\ UNCHANGED <<header, drawn, stored, alarms>>

-----------------------------------------------------------------------------
(* verify_audit, which the broker's "unlock" also rests on                 *)

\* verify_audit_chain
Verifies(es, k) ==
    \A i \in 1..Len(es) :
        /\ es[i].previous_hash = IF i = 1 THEN 0 ELSE es[i - 1].hash
        /\ es[i].mac_key = k

VerifyUnlock(p, given) ==
    /\ pc[p] = "idle" /\ Opens(given)
    /\ Work(p, "verify_list", header, header.root, None)
    /\ UNCHANGED <<header, events, writer, packages, drawn, stored, alarms>>

VerifyList(p) ==
    /\ pc[p] = "verify_list"
    /\ alarms' = IF Verifies(events, key[p]) THEN alarms ELSE alarms \cup {p}
    /\ Finish(p)
    /\ UNCHANGED <<header, events, writer, packages, drawn, stored>>

-----------------------------------------------------------------------------
Command(p) ==
    \/ \E r \in Roots, c \in Credentials : InitStart(p, r, c)
    \/ CreateCheck(p) \/ CreateInsert(p) \/ UpdateHeader(p)
    \/ \E given \in Passphrases, c \in Credentials : Rewrap(p, given, c)
    \/ \E k \in packages, c \in Credentials : Recover(p, k, c)
    \/ \E given \in Passphrases, e \in {"recovery.package_created", "other"} :
          Handler(p, given, e)
    \/ \E given \in Passphrases : VerifyUnlock(p, given)
    \/ AppendRead(p) \/ AppendCommit(p) \/ VerifyList(p) \/ Abort(p)

Next == \E p \in Procs : Command(p)

Spec == Init /\ [][Next]_vars

-----------------------------------------------------------------------------
(* Properties                                                              *)

\* verify_audit never reports a broken chain on a vault nobody tampered with,
\* whichever commands append, rewrap, recover or die while it runs; the broker
\* could not be unlocked any more if it did.
NoFalseAlarm == alarms = {}

\* There is one root key: the stored header, every event, every recovery package
\* of this vault and every running command that has opened the vault use the
\* same one, also when two inits race or a package of another vault is tried.
OneRootKey ==
    header # NoHeader =>
        /\ header.root = header.vault
        /\ \A i \in 1..Len(events) : events[i].mac_key = header.root
        /\ \A k \in packages : k.vault = header.vault => k.root = header.root
        /\ \A p \in Procs : pc[p] \in {"update", "append", "commit", "verify_list"}
                               => key[p] = header.root

\* Once a vault exists its root key never changes and is never lost: what was
\* encrypted under it stays readable, whichever bindings replace one another.
RootKeyIsForever ==
    [][header # NoHeader => /\ header' # NoHeader
                            /\ header'.root = header.root
                            /\ header'.vault = header.vault]_vars

\* The log does not run ahead: an event that reports an init, a rewrap or a
\* recovery names a header that had been stored, although header and event are
\* written in two transactions between which the command may die.
LoggedChangesHappened ==
    \A i \in 1..Len(events) : events[i].kind \in Changes => events[i].header \in stored
===============================================================================
