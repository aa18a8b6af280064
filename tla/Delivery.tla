------------------------------- MODULE Delivery -------------------------------
(***************************************************************************)
(* The ways a secret's value leaves the vault, and what gates them:        *)
(*   - get, resolve: the plaintext export setting and a TOTP code;         *)
(*   - consume: the same, and the ticket, with the gate checked again;     *)
(*   - run: a policy, by way of a ticket, with an optional TOTP code;      *)
(*   - checkout, materialize, provider_http: the broker's session, a       *)
(*     policy, and the gate if a raw export is asked for;                  *)
(*   - gateway: provider_http for a client of the HTTP gateway, on copies  *)
(*     of the session;                                                     *)
(* with the commands that change the gates meanwhile: the export setting,  *)
(* the TOTP factor (a secret record of its own reference), the policies.   *)
(*                                                                         *)
(* One action is one store call of one command with the computation after  *)
(* it.  Arguments are chosen where they are first used.  Tickets decides   *)
(* what a ticket is good for, Secrets whether the secret can be read:      *)
(* here both may refuse at will.  The broker serves one socket command at  *)
(* a time under its mutex, and beside it one gateway request, whose call   *)
(* is made with the mutex released; its session is the subject of Broker.  *)
(***************************************************************************)
EXTENDS Policy

CONSTANTS
    Procs,          \* command executions that may overlap
    PolicyIds,      \* keys of the policies table
    PolicyBodies,   \* the contents policies are saved with
    Asks,           \* what commands ask for: requests without peer and flags
    OwnPeer,        \* uid, path and hash of the hbse process itself
    Peers,          \* the peers that connect to the broker
    Assurance,      \* the assurance level of the vault's provider
    MaxSeeds,       \* a bound on TOTP enrolments
    MaxStep,        \* a bound on the clock, in TOTP periods
    Roles,          \* which commands each execution may be; a bound
    NoPolicy

Free == "free"      \* the mutex when no command of the broker runs

VARIABLES
    roles,          \* the commands each execution may be, one of Roles
    policies,       \* the policies table
    export,         \* the plaintext export setting; absent is "disabled"
    totp,           \* the latest secret record of TOTP_SECRET_REF
    seeds,          \* the seeds drawn so far are 1..seeds
    step,           \* the clock, in TOTP periods
    session,        \* the broker: "locked", "unlocked" or "verified"
    mutex,          \* the socket command the broker is serving
    copies,         \* the gateway thread: the session as it copied it, with
                    \* (history) sessionSeed at that time
    pc, cmd,        \* per command: its next store call, and what it is
    request,        \* what is left of its AccessRequest after the evaluation
    grant,          \* the policy its ticket was issued under
    rec,            \* its copy of the TOTP record
    proof,          \* the TOTP code it had accepted
    open,           \* history: commands in whose time the export was enabled
    factor,         \* history: the seed enrolled all through a command, or 0
    since,          \* history: the clock when a command began
    waived,         \* history: an export was enabled with --allow-without-mfa
    sessionSeed     \* history: seed of the code accepted in the session, or 0

gates == <<policies, export, totp, seeds, step, session>>
hist  == <<open, factor, since, waived, sessionSeed>>
vars  == <<roles, policies, export, totp, seeds, step, session, mutex, copies, pc, cmd, request,
           grant, rec, proof, open, factor, since, waived, sessionSeed>>

Code    == [seed: Nat, step: Nat]
NoCode  == [seed |-> 0, step |-> 0]
Record  == [version: Nat, seed: Nat, status: {"none", "active", "withdrawn"}]
NoRecord == [version |-> 0, seed |-> 0, status |-> "none"]
Grant   == [id: PolicyIds, body: PolicyBodies]
NoCopies == [session |-> "locked", seed |-> 0]
Kept    == [delivery_mode: Modes, peer: [PeerAttributes -> PeerValues \cup {None}],
            flags: SUBSET RequestFlags]

Gated    == {"get", "consume"}
Settings == {"enable", "enable_waived", "disable"}
Brokered == {"checkout", "materialize", "provider_http"}    \* served on the socket
Logins   == {"unlock", "mfa_verify"}
Commands == Gated \cup Settings \cup Brokered \cup Logins
              \cup {"run", "gateway", "enroll", "withdraw", "policy"}

Labels == {"idle", "export", "factor", "verify", "read", "set_check", "set", "changed",
           "issue", "enforce_export", "enforce_factor", "mfa_required", "use",
           "printed", "login", "enroll_read", "enroll_save", "withdraw_load",
           "withdraw_save"}

ASSUME DeliveryAssumption ==
    /\ PolicyBodies \subseteq AccessPolicy
    /\ NoPolicy \notin PolicyBodies
    /\ Asks \subseteq AccessRequest
    /\ \A ask \in Asks : ask.flags = {}
    /\ Peers \cup {OwnPeer} \subseteq [PeerAttributes -> PeerValues \cup {None}]
    /\ {Assurance, "A1"} \subseteq STRING
    /\ MaxSeeds \in Nat /\ MaxStep \in Nat
    /\ None \notin Kept \cup Grant \cup Commands
    /\ Roles \subseteq [Procs -> SUBSET Commands]
    /\ Free \notin Procs

TypeOK ==
    /\ roles \in Roles
    /\ policies \in [PolicyIds -> PolicyBodies \cup {NoPolicy}]
    /\ export \in {"enabled", "disabled"}
    /\ totp \in Record
    /\ seeds \in Nat /\ step \in Nat
    /\ session \in {"locked", "unlocked", "verified"}
    /\ mutex \in Procs \cup {Free}
    /\ copies \in [session: {"locked", "unlocked", "verified"}, seed: Nat]
    /\ pc \in [Procs -> Labels]
    /\ cmd \in [Procs -> Commands \cup {None}]
    /\ request \in [Procs -> Kept \cup {None}]
    /\ grant \in [Procs -> Grant \cup {None}]
    /\ rec \in [Procs -> Record]
    /\ proof \in [Procs -> Code]
    /\ open \subseteq Procs
    /\ factor \in [Procs -> Nat]
    /\ since \in [Procs -> Nat]
    /\ waived \in {"never", "waived"}
    /\ sessionSeed \in Nat

Init ==
    /\ roles \in Roles
    /\ policies = [i \in PolicyIds |-> NoPolicy]
    /\ export = "disabled"
    /\ totp = NoRecord
    /\ seeds = 0 /\ step = 0
    /\ session = "locked" /\ mutex = Free /\ copies = NoCopies
    /\ pc = [p \in Procs |-> "idle"]
    /\ cmd = [p \in Procs |-> None]
    /\ request = [p \in Procs |-> None]
    /\ grant = [p \in Procs |-> None]
    /\ rec = [p \in Procs |-> NoRecord]
    /\ proof = [p \in Procs |-> NoCode]
    /\ open = {}
    /\ factor = [p \in Procs |-> 0]
    /\ since = [p \in Procs |-> 0]
    /\ waived = "never" /\ sessionSeed = 0

-----------------------------------------------------------------------------
\* totp_mfa_enrolled: the latest TOTP record is Active.
Enrolled   == totp.status = "active"
ActiveSeed == IF Enrolled THEN totp.seed ELSE 0

\* Mutation: a code stays good for two periods.
verify_totp_code_late(code) ==
    /\ code.seed = totp.seed
    /\ \E offset \in -2..1 : step + offset >= 0 /\ code.step = step + offset

\* Mutation: the first period has a predecessor.
verify_totp_code_below(code) ==
    /\ code.seed = totp.seed
    /\ \E offset \in -1..1 : code.step = step + offset

\* verify_totp_code with a drift of one period; nothing remembers a code's use.
verify_totp_code(code) ==
    /\ code.seed = totp.seed
    /\ \E offset \in -1..1 : step + offset >= 0 /\ code.step = step + offset

Goto(p, l) == pc' = [pc EXCEPT ![p] = l]

\* The command ends, and with it its copies; the broker takes the next one.
Leave(p) ==
    /\ Goto(p, "idle")
    /\ cmd' = [cmd EXCEPT ![p] = None]
    /\ request' = [request EXCEPT ![p] = None]
    /\ grant' = [grant EXCEPT ![p] = None]
    /\ rec' = [rec EXCEPT ![p] = NoRecord]
    /\ proof' = [proof EXCEPT ![p] = NoCode]
    /\ open' = open \ {p}
    /\ since' = [since EXCEPT ![p] = 0]
    /\ mutex' = IF mutex = p THEN Free ELSE mutex
    /\ copies' = IF cmd[p] = "gateway" THEN NoCopies ELSE copies
    /\ UNCHANGED waived

Finish(p) ==
    /\ Leave(p)
    /\ factor' = [factor EXCEPT ![p] = 0]
    /\ UNCHANGED sessionSeed

\* SIGKILL, SQLITE_BUSY, a failed unlock, or an error another module decides
Abort(p) ==
    /\ pc[p] # "idle"
    /\ Finish(p)
    /\ UNCHANGED gates

\* The command moves to l and nothing else happens to it.
Advance(p, l) ==
    /\ Goto(p, l)
    /\ UNCHANGED <<mutex, copies, cmd, request, grant, rec, proof, hist>>

\* A check at label l: the command goes on to m if ok, and is refused otherwise.
Check(p, l, ok, m) ==
    /\ pc[p] = l
    /\ IF ok THEN Advance(p, m) ELSE Finish(p)
    /\ UNCHANGED gates

Start(p, c, l) ==
    /\ pc[p] = "idle" /\ c \in roles[p]
    /\ Goto(p, l)
    /\ cmd' = [cmd EXCEPT ![p] = c]
    /\ open' = IF export = "enabled" THEN open \cup {p} ELSE open
    /\ IF c \in Gated \cup Settings
       THEN /\ factor' = [factor EXCEPT ![p] = ActiveSeed]
            /\ since' = [since EXCEPT ![p] = step]
       ELSE UNCHANGED <<factor, since>>
    /\ UNCHANGED <<policies, export, totp, seeds, step, request, grant, rec, proof, waived>>

\* The commands that open their own connection to the vault
StartCommand(p) ==
    /\ \/ \E c \in Gated : Start(p, c, "export")    \* with --allow-plaintext
       \/ \E c \in Settings : Start(p, c, "factor")
       \/ \E l \in {"issue", "verify"} : Start(p, "run", l)   \* without, with --mfa-code
       \/ Start(p, "enroll", "enroll_read")
       \/ Start(p, "withdraw", "withdraw_load")
    /\ UNCHANGED <<session, mutex, copies, sessionSeed>>

\* require_unlocked, for the broker's commands that need the vault
StartBrokered(p) ==
    /\ mutex = Free /\ mutex' = p
    /\ session # "locked"
    /\ \E c \in Brokered : Start(p, c, "issue")
    /\ UNCHANGED <<session, sessionSeed, copies>>

\* handle_http_gateway_connection: require_unlocked and the copies, with the mutex only
\* for that long; the gateway thread has one request at a time.
StartGateway(p) ==
    /\ mutex = Free
    /\ session # "locked"
    /\ copies = NoCopies /\ copies' = [session |-> session, seed |-> sessionSeed]
    /\ Start(p, "gateway", "issue")
    /\ UNCHANGED <<session, sessionSeed, mutex>>

-----------------------------------------------------------------------------
(* plaintext_export_passphrase, config_change_passphrase and verify_totp_mfa *)

\* Mutation: the setting is not read.
ReadExportAlways(p) == Check(p, "export", TRUE, "factor")

ReadExport(p) == Check(p, "export", export = "enabled", "factor")

\* What follows the gate
AfterGate(c) ==
    CASE c = "get" -> "read"
      [] c = "consume" -> "enforce_export"
      [] c = "enable" -> "set_check"
      [] c \in {"enable_waived", "disable"} -> "set"
      [] c = "run" -> "issue"
      [] c \in Logins -> "login"
      [] OTHER -> "idle"

\* The gate is passed with code, or without one.
Pass(p, code) ==
    /\ Goto(p, AfterGate(cmd[p]))
    /\ proof' = [proof EXCEPT ![p] = code]
    /\ UNCHANGED <<mutex, copies, cmd, request, grant, rec, hist>>

\* totp_mfa_enrolled; an enrolled factor asks for --mfa-code.
ReadFactor(p) ==
    /\ pc[p] = "factor"
    /\ IF Enrolled THEN Advance(p, "verify") ELSE Pass(p, NoCode)
    /\ UNCHANGED gates

\* verify_totp_mfa loads the record again: a factor withdrawn since is an error,
\* one enrolled since wants its own code.
Verify(p, code) ==
    /\ pc[p] = "verify"
    /\ IF Enrolled /\ verify_totp_code(code) THEN Pass(p, code) ELSE Finish(p)
    /\ UNCHANGED gates

\* get_secret and the print
Read(p) ==
    /\ pc[p] = "read"
    /\ Advance(p, "printed")
    /\ UNCHANGED gates

-----------------------------------------------------------------------------
(* issue_ticket and consume_ticket_for_secret                              *)

Flag(f, on) == IF on THEN {f} ELSE {}

\* materialization_request: run asks for no raw export, in its own four modes.
materialization_request(p, ask) ==
    [ask EXCEPT !.peer = OwnPeer, !.provider_assurance = Assurance, !.now = step,
                !.http_host = None, !.http_scheme = None, !.http_method = None,
                !.http_path = None, !.http_request_body_bytes = None,
                !.flags = Flag("mfa_verified", proof[p] # NoCode)]

\* access_request: the broker's, with the peer of the socket, or the broker itself for
\* the gateway, and the session or its copy; raw is the set of flags the client chose.
access_request(ask, peer, raw, seen) ==
    [ask EXCEPT !.peer = peer, !.now = step,
                !.flags = raw \cup Flag("mfa_verified", seen = "verified")]

RunModes == {"child_env", "temp_file", "fd", "pipe"}

\* The asks of provider_http: the URL gives a host, a scheme and a path, the method
\* and the length of the body have defaults.
HttpAsks ==
    {ask \in Asks : /\ ask.delivery_mode = "brokered_http"
                    /\ None \notin {ask.http_host, ask.http_scheme, ask.http_method,
                                    ask.http_path, ask.http_request_body_bytes}}

\* What the command can ask the policy engine for
RequestsOf(p) ==
    CASE cmd[p] = "run" ->
           {materialization_request(p, ask) : ask \in {a \in Asks : a.delivery_mode \in RunModes}}
      [] cmd[p] = "checkout" ->
           {access_request(ask, peer, {}, session) : ask \in Asks, peer \in Peers}
      [] cmd[p] = "materialize" ->
           {access_request(ask, peer, raw, session) : ask \in Asks, peer \in Peers,
                                                      raw \in SUBSET {"raw_export_requested"}}
      [] cmd[p] = "provider_http" ->
           {access_request(ask, peer, {}, session) : ask \in HttpAsks, peer \in Peers}
      [] cmd[p] = "gateway" ->
           {access_request([ask EXCEPT !.provider_assurance = "A1"], OwnPeer, {}, copies.session) :
                ask \in HttpAsks}
      [] OTHER -> {}

\* PolicyEngine::evaluate: i is the first policy that allows r.
Grants(i, r) ==
    /\ policies[i] # NoPolicy /\ Allows(policies[i], r)
    /\ \A j \in PolicyIds : j < i => policies[j] = NoPolicy \/ ~Allows(policies[j], r)

\* issue_ticket: load_latest_secret, list_policies, the evaluation and the ticket's row,
\* in one step, since only the list of policies is state of this module; a checkout ends
\* here.
Issue(p) ==
    /\ pc[p] = "issue"
    /\ \E r \in RequestsOf(p) :
          \/ /\ cmd[p] # "checkout"
             /\ \E i \in PolicyIds :
                   /\ Grants(i, r)
                   /\ grant' = [grant EXCEPT ![p] = [id |-> i, body |-> policies[i]]]
             /\ request' = [request EXCEPT ![p] = [delivery_mode |-> r.delivery_mode,
                                                   peer |-> r.peer, flags |-> r.flags]]
             /\ Goto(p, IF "raw_export_requested" \in r.flags THEN "enforce_export" ELSE "use")
             /\ UNCHANGED <<mutex, copies, cmd, rec, proof, hist>>
          \/ /\ cmd[p] = "checkout" \/ \A i \in PolicyIds : ~Grants(i, r)
             /\ Finish(p)
    /\ UNCHANGED gates

\* enforce_plaintext_export_allowed, first call
EnforceExport(p) == Check(p, "enforce_export", export = "enabled", "enforce_factor")

\* The request of ticket consume, of build_access_request, says mfa_verified: false.
MfaVerified(p) == request[p] # None /\ "mfa_verified" \in request[p].flags

\* enforce_plaintext_export_allowed, second call: PlaintextExportMfaRequired
EnforceFactor(p) ==
    /\ pc[p] = "enforce_factor"
    /\ Advance(p, IF Enrolled /\ ~MfaVerified(p) THEN "mfa_required" ELSE "use")
    /\ UNCHANGED gates

\* The rest of consume_ticket_for_secret.  The policy of the ticket must be stored
\* unchanged; for the ticket of ticket consume this is left to Tickets.
UseTicket(p) ==
    /\ pc[p] = "use"
    /\ IF grant[p] = None \/ policies[grant[p].id] = grant[p].body
       THEN Advance(p, "printed")
       ELSE Finish(p)
    /\ UNCHANGED gates

\* run goes on with its next secret, under the code it verified at its start.
NextSecret(p) ==
    /\ pc[p] = "printed" /\ cmd[p] = "run"
    /\ Goto(p, "issue")
    /\ request' = [request EXCEPT ![p] = None]
    /\ grant' = [grant EXCEPT ![p] = None]
    /\ UNCHANGED <<gates, mutex, copies, cmd, rec, proof, hist>>

-----------------------------------------------------------------------------
(* The settings, the factor and the policies                               *)

\* Mutation: set_plaintext_export_enabled does not ask for a factor.
SetCheckNothing(p) == Check(p, "set_check", TRUE, "set")

\* set_plaintext_export_enabled without --allow-without-mfa wants a factor.
SetCheck(p) == Check(p, "set_check", Enrolled, "set")

\* set_metadata and the audit event
SetExport(p) ==
    /\ pc[p] = "set"
    /\ Goto(p, "changed")
    /\ IF cmd[p] = "disable"
       THEN export' = "disabled" /\ UNCHANGED open
       ELSE export' = "enabled" /\ open' = open \cup {q \in Procs : pc[q] # "idle"}
    /\ waived' = IF cmd[p] = "enable_waived" THEN "waived" ELSE waived
    /\ UNCHANGED <<policies, totp, seeds, step, session, mutex, copies, cmd, request, grant, rec,
                   proof, factor, since, sessionSeed>>

\* enroll_totp_mfa: latest_version and a new seed
EnrollRead(p) ==
    /\ pc[p] = "enroll_read"
    /\ seeds < MaxSeeds
    /\ seeds' = seeds + 1
    /\ rec' = [rec EXCEPT ![p] = [version |-> totp.version + 1, seed |-> seeds + 1,
                                  status |-> "active"]]
    /\ Goto(p, "enroll_save")
    /\ UNCHANGED <<policies, export, totp, step, session, mutex, copies, cmd, request, grant,
                   proof, hist>>

\* disable_secret or destroy_secret of TOTP_SECRET_REF: load_latest_secret
WithdrawLoad(p) ==
    /\ pc[p] = "withdraw_load"
    /\ IF totp = NoRecord
       THEN Finish(p)
       ELSE /\ rec' = [rec EXCEPT ![p] = [totp EXCEPT !.status = "withdrawn"]]
            /\ Goto(p, "withdraw_save")
            /\ UNCHANGED <<mutex, copies, cmd, request, grant, proof, hist>>
    /\ UNCHANGED gates

\* save_secret_record: INSERT OR REPLACE of a version that may not be the latest
SaveTotp(p) ==
    /\ pc[p] \in {"enroll_save", "withdraw_save"}
    /\ totp' = IF rec[p].version >= totp.version THEN rec[p] ELSE totp
    /\ Leave(p)
    /\ factor' = [q \in Procs |->
                    IF totp'.status = "active" /\ factor[q] = totp'.seed THEN factor[q] ELSE 0]
    /\ UNCHANGED <<policies, export, seeds, step, session, sessionSeed>>

\* save_policy
SavePolicy(p, i, b) ==
    /\ pc[p] = "idle" /\ "policy" \in roles[p]
    /\ policies' = [policies EXCEPT ![i] = b]
    /\ UNCHANGED <<export, totp, seeds, step, session, mutex, copies, pc, cmd, request, grant, rec,
                   proof, hist>>

-----------------------------------------------------------------------------
(* The broker's session                                                    *)

\* unlock, after validate_unlock, and mfa_verify, after require_unlocked.  An unlock
\* clears the MFA state before it looks at a code.
StartLogin(p) ==
    /\ mutex = Free /\ mutex' = p /\ UNCHANGED copies
    /\ \/ /\ \E l \in {"login", "verify"} : Start(p, "unlock", l)  \* without, with a code
          /\ session' = IF session = "verified" THEN "unlocked" ELSE session
          /\ sessionSeed' = 0
       \/ /\ session # "locked"
          /\ Start(p, "mfa_verify", "verify")
          /\ UNCHANGED <<session, sessionSeed>>

\* Mutation: a successful unlock counts as verified.
LoginVerified(p) ==
    /\ pc[p] = "login"
    /\ session' = "verified"
    /\ sessionSeed' = proof[p].seed
    /\ Leave(p)
    /\ UNCHANGED <<policies, export, totp, seeds, step, factor>>

\* The code, if one was given, was accepted.
Login(p) ==
    /\ pc[p] = "login"
    /\ session' = IF proof[p] # NoCode THEN "verified" ELSE "unlocked"
    /\ sessionSeed' = proof[p].seed
    /\ Leave(p)
    /\ UNCHANGED <<policies, export, totp, seeds, step, factor>>

\* lock, or the idle timeout; a gateway call may be under way.
LockSession ==
    /\ mutex = Free
    /\ session' = "locked" /\ sessionSeed' = 0
    /\ UNCHANGED <<policies, export, totp, seeds, step, mutex, copies, pc, cmd, request, grant, rec,
                   proof, open, factor, since, waived>>

Tick ==
    /\ step < MaxStep
    /\ step' = step + 1
    /\ UNCHANGED <<policies, export, totp, seeds, session, mutex, copies, pc, cmd, request, grant,
                   rec, proof, hist>>

\* The command has printed the value, sent it on, or reported; its last step.
End(p) ==
    /\ pc[p] \in {"printed", "changed", "mfa_required"}
    /\ Finish(p)
    /\ UNCHANGED gates

\* What may be presented as a code: step -1 is a counter that passed below zero.
Codes == [seed: 1..MaxSeeds, step: -1..MaxStep + 1]

Next ==
    \/ \E p \in Procs :
          \/ StartCommand(p) \/ StartBrokered(p) \/ StartGateway(p)
          \/ StartLogin(p)
          \/ ReadExport(p) \/ ReadFactor(p)
          \/ \E code \in Codes : Verify(p, code)
          \/ Read(p) \/ Issue(p) \/ EnforceExport(p) \/ EnforceFactor(p) \/ UseTicket(p)
          \/ NextSecret(p)
          \/ SetCheck(p) \/ SetExport(p)
          \/ EnrollRead(p) \/ WithdrawLoad(p) \/ SaveTotp(p)
          \/ \E i \in PolicyIds, b \in PolicyBodies : SavePolicy(p, i, b)
          \/ Login(p) \/ End(p) \/ Abort(p)
    \/ LockSession
    \/ Tick

Spec == Init /\ [][Next /\ UNCHANGED roles]_vars

-----------------------------------------------------------------------------
(* Properties                                                              *)

Printed(p) == pc[p] = "printed"

\* The value leaves as plaintext on the word of the export gate.
Exported(p) ==
    \/ cmd[p] \in Gated
    \/ request[p] # None /\ "raw_export_requested" \in request[p].flags

\* The export setting is checked in store calls of its own, long before the value is
\* decrypted: no plaintext is exported by a command in whose whole time, from its
\* start, the export was disabled.
ExportWasOpen == \A p \in Procs : Printed(p) /\ Exported(p) => p \in open

\* The factor is looked up twice and may be withdrawn and enrolled anew in between.  A
\* command that prints plaintext or changes the export setting while one factor was
\* enrolled all along has had a code of that factor accepted, shown no earlier than
\* one period before the command began.
FactorWasProved ==
    \A p \in Procs :
       /\ pc[p] \in {"printed", "changed"}
       /\ cmd[p] \in Gated \cup Settings
       /\ factor[p] # 0
       => proof[p].seed = factor[p] /\ since[p] <= proof[p].step + 1

\* set_plaintext_export_enabled: the export is enabled only after a factor was
\* enrolled at least once, or by a command that waived it.
EnabledDeliberately == export = "enabled" => totp.version > 0 \/ waived = "waived"

\* A policy that requires MFA delivers only on an accepted code: the command's own for
\* run, one of the broker's current session for a command on the socket, and for a
\* gateway request one of the session that admitted it, however the session was locked,
\* unlocked and verified anew during its call.
MfaPolicyHonoured ==
    \A p \in Procs :
       Printed(p) /\ grant[p] # None =>
          ("require_mfa" \in grant[p].body.flags =>
             CASE cmd[p] = "run"      -> proof[p].seed # 0
               [] cmd[p] \in Brokered -> sessionSeed # 0
               [] cmd[p] = "gateway"  -> copies.seed # 0)

\* Raw plaintext handed out by the broker goes to a peer that an allow list of the
\* granting policy names, unless that policy waives it.
PlaintextPeerNamed ==
    \A p \in Procs :
       /\ Printed(p)
       /\ grant[p] # None
       /\ "raw_export_requested" \in request[p].flags
       /\ request[p].delivery_mode \in PlaintextModes
       /\ "allow_unbound_plaintext_export" \notin grant[p].body.flags
       => \E a \in PeerAttributes : /\ request[p].peer[a] # None
                                    /\ request[p].peer[a] \in grant[p].body.allowed_peer[a]

\* What is asked, by a peer at time n with the flags f
AskedBy(ask, peer, f, n) == [ask EXCEPT !.peer = peer, !.flags = f, !.now = n]

\* Everything the commands may ever ask for, on behalf of any peer
AllRequests ==
    {AskedBy(ask, peer, f, n) :
        ask \in Asks, peer \in Peers \cup {OwnPeer}, f \in SUBSET RequestFlags, n \in 0..MaxStep}

GrantedBy == [b \in PolicyBodies |-> {r \in AllRequests : Allows(b, r)}]

\* Saving a stricter body over a policy never grants a request the old one denied.
TighteningNeverGrants ==
    [][\A i \in PolicyIds :
          /\ policies[i] # NoPolicy
          /\ policies'[i] # policies[i]
          /\ Stricter(policies'[i], policies[i])
          => GrantedBy[policies'[i]] \subseteq GrantedBy[policies[i]]]_policies

\* ticket consume asks for --mfa-code when a factor is enrolled, and verifies it: the
\* command is then not refused for want of MFA.
VerifiedCodeSuffices ==
    \A p \in Procs :
       pc[p] = "mfa_required" /\ cmd[p] = "consume" /\ factor[p] # 0 => proof[p].seed # factor[p]
===============================================================================
