-------------------------------- MODULE Broker --------------------------------
(***************************************************************************)
(* The broker daemon of broker_daemon.rs: one BrokerState behind a mutex,  *)
(* the socket thread, which serves one connection at a time and holds the  *)
(* mutex from the accept to the end of the response, and the HTTP gateway  *)
(* thread, which takes it twice per request and calls the vault and the    *)
(* upstream in between, on copies.                                         *)
(*                                                                         *)
(* The vault's verdict on a request (tickets, policies, the HTTP call) is  *)
(* a Boolean chosen by the environment; it can be positive only if the     *)
(* root key can be unwrapped with the passphrase the broker passes on.     *)
(***************************************************************************)
EXTENDS Naturals

CONSTANTS
    Providers,      \* the kinds of provider: "passphrase" and "hardware", which
                    \* unwraps the root key without a passphrase
    Timeout,        \* idle_timeout_seconds; 0 disables the automatic lock
    MaxTime,        \* a bound on the clock
    MaxSession,     \* a bound on the sessions ever opened
    Never           \* last_activity = None

ASSUME ConstantsAssumption ==
    /\ Providers \subseteq {"passphrase", "hardware"}
    /\ Timeout \in Nat /\ MaxTime \in Nat /\ MaxSession \in Nat
    /\ Never \notin Nat

VARIABLES
    provider,       \* the provider the vault is bound to
    clock,
    running,        \* the daemon process
    mutex,          \* "free", or "socket": the gateway's uses are atomic below
    unlocked, passphrase, mfa_verified, broker_session_id, last_activity,
    sessions,       \* the session ids drawn so far are 1..sessions
    sock,           \* the socket thread
    gate,           \* the gateway thread
    copy,           \* its copies of BrokerState
    proved,         \* history: the sessions in which a code was accepted
    late            \* history: gateway calls that succeeded since the session
                    \* ended or changed, with copies from before

state == <<unlocked, passphrase, mfa_verified, broker_session_id, last_activity>>
hist  == <<proved, late>>
vars  == <<provider, clock, running, mutex, unlocked, passphrase, mfa_verified,
           broker_session_id, last_activity, sessions, sock, gate, copy, proved, late>>

NoCopy == [passphrase |-> FALSE, session |-> 0, mfa |-> FALSE]

Flags ==
    /\ running \in BOOLEAN /\ unlocked \in BOOLEAN
    /\ passphrase \in BOOLEAN /\ mfa_verified \in BOOLEAN

Fields ==
    /\ provider \in Providers
    /\ clock \in Nat
    /\ mutex \in {"free", "socket"}
    /\ broker_session_id \in Nat /\ sessions \in Nat
    /\ last_activity \in Nat \cup {Never}
    /\ sock \in {"accept", "lock", "read", "work", "respond"}
    /\ gate \in {"accept", "lock", "call", "mark", "respond", "stopped"}
    /\ copy \in [passphrase: BOOLEAN, session: Nat, mfa: BOOLEAN]
    /\ proved \subseteq Nat /\ late \in Nat

\* Session 0 is broker_session_id = None; passphrase tells whether one is held.
TypeOK == Flags /\ Fields

\* BrokerState::new
NewState ==
    /\ unlocked = FALSE /\ passphrase = FALSE /\ mfa_verified = FALSE
    /\ broker_session_id = 0 /\ last_activity = Never

Init ==
    /\ provider \in Providers
    /\ clock = 0
    /\ running = TRUE
    /\ mutex = "free"
    /\ NewState
    /\ sessions = 0
    /\ sock = "accept" /\ gate = "accept"
    /\ copy = NoCopy
    /\ proved = {} /\ late = 0

-----------------------------------------------------------------------------
\* Mutation: the idle timeout is not enforced.
ExpiredNever == FALSE

\* expire_idle_unlock finds the session idle for longer than the timeout
Expired ==
    /\ unlocked
    /\ Timeout > 0
    /\ last_activity # Never
    /\ clock > last_activity + Timeout

\* What "lock" and expire_idle_unlock reset
Locked ==
    /\ unlocked' = FALSE /\ passphrase' = FALSE /\ mfa_verified' = FALSE
    /\ broker_session_id' = 0 /\ last_activity' = Never
    /\ late' = 0

Usable == unlocked /\ ~Expired      \* require_unlocked returns Ok

\* expire_idle_unlock, where nothing else happens to the state
ExpireIdle == IF Expired THEN Locked ELSE UNCHANGED <<state, late>>

\* Mutation: the timer is set to the start of an idle period that ends now.
mark_idle == last_activity' = clock - Timeout

mark_activity == last_activity' = clock

\* The vault can be opened with what the broker passes on.
Opens(pass) == provider = "hardware" \/ pass

-----------------------------------------------------------------------------
(* The socket thread                                                       *)

Accept ==
    /\ running /\ sock = "accept"
    /\ sock' = "lock"
    /\ UNCHANGED <<provider, clock, running, mutex, state, sessions, gate, copy, hist>>

\* Mutation: the gateway keeps its lock during the upstream call.
LockAfterGateway ==
    /\ running /\ sock = "lock" /\ mutex = "free" /\ gate \notin {"call", "mark"}
    /\ mutex' = "socket"
    /\ sock' = "read"
    /\ ExpireIdle
    /\ UNCHANGED <<provider, clock, running, sessions, gate, copy, proved>>

\* state.lock() and the first step of handle_connection
Lock ==
    /\ running /\ sock = "lock" /\ mutex = "free"
    /\ mutex' = "socket"
    /\ sock' = "read"
    /\ ExpireIdle
    /\ UNCHANGED <<provider, clock, running, sessions, gate, copy, proved>>

\* A line was read and a handler that does not need the upstream ran.
Handle ==
    /\ running /\ sock = "read"
    /\ sock' = "respond"
    /\ UNCHANGED <<provider, clock, running, mutex, gate, copy>>

\* "status", an unknown command, a bad line, or end of file
Status == Handle /\ UNCHANGED <<state, sessions, hist>>

\* Mutation: the MFA mark of the session before is kept.
UnlockKeepingMfa(given, code) ==
    /\ Handle
    /\ Opens(given)
    /\ sessions < MaxSession
    /\ passphrase' = given /\ unlocked' = TRUE
    /\ mfa_verified' = (mfa_verified \/ code = "good")
    /\ sessions' = sessions + 1
    /\ broker_session_id' = sessions + 1
    /\ mark_activity
    /\ proved' = IF code = "good" THEN proved \cup {sessions + 1} ELSE proved
    /\ late' = 0

\* "unlock" that validate_unlock lets pass, without an MFA code (code = "none")
\* or with one that verify_totp_mfa accepts or refuses
Unlock(given, code) ==
    /\ Handle
    /\ Opens(given)
    /\ IF code = "bad"
       THEN /\ passphrase' = FALSE /\ mfa_verified' = FALSE
            /\ UNCHANGED <<unlocked, broker_session_id, last_activity, sessions, hist>>
       ELSE /\ sessions < MaxSession
            /\ passphrase' = given /\ unlocked' = TRUE /\ mfa_verified' = (code = "good")
            /\ sessions' = sessions + 1
            /\ broker_session_id' = sessions + 1
            /\ mark_activity
            /\ proved' = IF code = "good" THEN proved \cup {sessions + 1} ELSE proved
            /\ late' = 0

\* "mfa_verify": refused when locked, and without effect when the code is wrong
MfaVerify ==
    /\ Handle
    /\ Usable
    /\ Opens(passphrase)
    /\ mfa_verified' = TRUE
    /\ mark_activity
    /\ proved' = proved \cup {broker_session_id}
    /\ UNCHANGED <<unlocked, passphrase, broker_session_id, sessions, late>>

\* Mutation: the session id survives the lock.
LockCommandKeepingSession ==
    /\ Handle
    /\ unlocked' = FALSE /\ passphrase' = FALSE /\ mfa_verified' = FALSE
    /\ last_activity' = Never
    /\ UNCHANGED <<broker_session_id, sessions, hist>>

\* "lock"
LockCommand == Handle /\ Locked /\ UNCHANGED <<sessions, proved>>

\* A command that require_unlocked refuses
Refuse == Handle /\ ~Usable /\ ExpireIdle /\ UNCHANGED <<sessions, proved>>

\* "checkout", "materialize" or "provider_http": the vault and the upstream are
\* called with the mutex held
Use ==
    /\ running /\ sock = "read" /\ Usable
    /\ sock' = "work"
    /\ UNCHANGED <<provider, clock, running, mutex, state, sessions, gate, copy, hist>>

\* The call ends; only a success counts as activity.
Work(ok) ==
    /\ running /\ sock = "work"
    /\ ok => Opens(passphrase)
    /\ sock' = "respond"
    /\ IF ok THEN mark_activity ELSE UNCHANGED last_activity
    /\ UNCHANGED <<provider, clock, running, mutex, unlocked, passphrase, mfa_verified,
                   broker_session_id, sessions, gate, copy, hist>>

\* Mutation: the mutex is locked outside of the accept loop, so that the next
\* connection is awaited with it held.
RespondHolding ==
    /\ running /\ sock = "respond"
    /\ sock' = "read"
    /\ UNCHANGED <<provider, clock, running, mutex, state, sessions, gate, copy, hist>>

\* The response is written, and the guard of the mutex is dropped.
Respond ==
    /\ running /\ sock = "respond"
    /\ sock' = "accept" /\ mutex' = "free"
    /\ UNCHANGED <<provider, clock, running, state, sessions, gate, copy, hist>>

\* The client is gone: the failed write ends the accept loop, and the daemon.
ClientGone ==
    /\ running /\ sock = "respond"
    /\ running' = FALSE
    /\ UNCHANGED <<provider, clock, mutex, state, sessions, sock, gate, copy, hist>>

\* systemd starts the daemon again (Restart=on-failure): everything is lost.
Restart ==
    /\ ~running
    /\ running' = TRUE
    /\ mutex' = "free" /\ sock' = "accept" /\ gate' = "accept" /\ copy' = NoCopy
    /\ Locked
    /\ UNCHANGED <<provider, clock, sessions, proved>>

-----------------------------------------------------------------------------
(* The gateway thread                                                      *)

\* A /v1/ request was read.
GateAccept ==
    /\ running /\ gate = "accept"
    /\ gate' = "lock"
    /\ UNCHANGED <<provider, clock, running, mutex, state, sessions, sock, copy, hist>>

\* /health, another path, or a request that cannot be read: no state is touched
GateOther ==
    /\ running /\ gate = "accept"
    /\ gate' = "respond"
    /\ UNCHANGED <<provider, clock, running, mutex, state, sessions, sock, copy, hist>>

\* Mutation: the copies are taken without require_unlocked.
GateSnapshotUnchecked ==
    /\ running /\ gate = "lock" /\ mutex = "free"
    /\ gate' = "call"
    /\ copy' = [passphrase |-> passphrase, session |-> broker_session_id,
                        mfa |-> mfa_verified]
    /\ UNCHANGED <<provider, clock, running, mutex, state, sessions, sock, hist>>

\* The first lock: require_unlocked (423 when locked) and the copies
GateSnapshot ==
    /\ running /\ gate = "lock" /\ mutex = "free"
    /\ IF Usable
       THEN /\ gate' = "call"
            /\ copy' = [passphrase |-> passphrase, session |-> broker_session_id,
                        mfa |-> mfa_verified]
       ELSE /\ gate' = "respond"
            /\ UNCHANGED copy
    /\ ExpireIdle
    /\ UNCHANGED <<provider, clock, running, mutex, sessions, sock, proved>>

\* brokered_http_request on the copies, with no lock held
GateCall(ok) ==
    /\ running /\ gate = "call"
    /\ ok => Opens(copy.passphrase)
    /\ gate' = IF ok THEN "mark" ELSE "respond"
    /\ late' = IF ok /\ ~(unlocked /\ copy.session = broker_session_id)
               THEN late + 1 ELSE late
    /\ UNCHANGED <<provider, clock, running, mutex, state, sessions, sock, copy, proved>>

\* The second lock: mark_activity, whatever the state is by now
GateMark ==
    /\ running /\ gate = "mark" /\ mutex = "free"
    /\ mark_activity
    /\ gate' = "respond"
    /\ UNCHANGED <<provider, clock, running, mutex, unlocked, passphrase, mfa_verified,
                   broker_session_id, sessions, sock, copy, hist>>

GateRespond ==
    /\ running /\ gate = "respond"
    /\ gate' = "accept"
    /\ copy' = NoCopy
    /\ UNCHANGED <<provider, clock, running, mutex, state, sessions, sock, hist>>

\* A failed write ends the gateway's accept loop; the daemon goes on without it.
GateClientGone ==
    /\ running /\ gate = "respond"
    /\ gate' = "stopped"
    /\ copy' = NoCopy
    /\ UNCHANGED <<provider, clock, running, mutex, state, sessions, sock, hist>>

Tick ==
    /\ clock < MaxTime
    /\ clock' = clock + 1
    /\ UNCHANGED <<provider, running, mutex, state, sessions, sock, gate, copy, hist>>

-----------------------------------------------------------------------------
Codes == {"none", "good", "bad"}

\* The client's line arrives and is handled.
Read ==
    \/ Status \/ MfaVerify \/ LockCommand \/ Refuse \/ Use
    \/ \E given \in BOOLEAN, code \in Codes : Unlock(given, code)

Next ==
    \/ Accept \/ Lock \/ Read \/ Respond \/ ClientGone \/ Restart \/ Tick
    \/ GateAccept \/ GateOther \/ GateSnapshot \/ GateMark \/ GateRespond
    \/ GateClientGone
    \/ \E ok \in BOOLEAN : Work(ok) \/ GateCall(ok)

\* The threads run, clients send the line they connected for, and vault and
\* upstream calls end.  The mutex is not fair (std::sync::Mutex): a thread that
\* waits for it gets it only if it stays free.
Fairness ==
    /\ WF_vars(Lock) /\ WF_vars(Read) /\ WF_vars(Respond)
    /\ WF_vars(\E ok \in BOOLEAN : Work(ok))
    /\ WF_vars(GateSnapshot) /\ WF_vars(GateMark) /\ WF_vars(GateRespond)
    /\ WF_vars(\E ok \in BOOLEAN : GateCall(ok))

Spec == Init /\ [][Next]_vars /\ Fairness

-----------------------------------------------------------------------------
(* Properties                                                              *)

\* The five fields of BrokerState agree, through failed unlocks, idle expiry
\* and what the gateway writes after the state has changed: a locked broker
\* holds no passphrase, MFA mark or session, and an unlocked one has a session
\* and an idle timer, without which it would never lock itself.
SessionConsistent ==
    IF unlocked
    THEN broker_session_id \in 1..sessions /\ last_activity # Never
    ELSE ~passphrase /\ ~mfa_verified /\ broker_session_id = 0

\* An MFA mark never outlives the session it was given in: when the broker says
\* mfa_verified, a code was accepted in this very session; and the mark a
\* gateway call carries was earned in the session whose id it carries, also when
\* that session has ended meanwhile.
MfaOfThisSession ==
    /\ mfa_verified => broker_session_id \in proved /\ unlocked
    /\ copy.mfa => copy.session \in proved

\* After a session has ended, by lock, expiry or a new unlock, at most the one
\* gateway request that was already in flight still uses a credential.
OneCallOutlivesSession == late <= 1

\* No command and no gateway request is admitted by a session that has been
\* idle for longer than the timeout.
AdmittedInTime ==
    [][(sock' = "work" /\ sock # "work") \/ (gate' = "call" /\ gate # "call")
          => Timeout = 0 \/ (last_activity # Never /\ clock <= last_activity + Timeout)]_vars

\* A gateway request that was read is answered, or its client is gone, or the
\* daemon ends, provided that at some time no more clients come to the socket:
\* neither the commands under way, which block with the mutex held, nor a lock
\* or an expiry between its two uses of the mutex keeps it waiting.  Under a
\* stream of socket clients without end the mutex promises the gateway nothing.
GatewayAnswers ==
    <>[][~Accept]_vars
        => (gate = "lock" ~> (gate \in {"accept", "stopped"} \/ ~running))

\* A client of the socket gets its answer, unless the daemon ends.
SocketAnswers == sock = "lock" ~> (sock = "accept" \/ ~running)
===============================================================================
