----------------------------- MODULE BrokerProofs -----------------------------
(***************************************************************************)
(* Theorems about module Broker, for every timeout and bound.              *)
(***************************************************************************)
EXTENDS Broker, TLAPS

\* A gateway call in flight uses copies of the current session, or no call has
\* succeeded yet since that session ended.
InFlight ==
    gate = "call" => late = 0 \/ (unlocked /\ copy.session = broker_session_id)

IInv ==
    /\ TypeOK /\ SessionConsistent /\ MfaOfThisSession
    /\ OneCallOutlivesSession /\ InFlight

\* The copies a gateway thread starts with are well typed.
LEMMA NoCopyType == NoCopy \in [passphrase: BOOLEAN, session: Nat, mfa: BOOLEAN]
BY DEF NoCopy

\* BrokerState::new is consistent.
LEMMA InitIInv == Init => IInv
<1> SUFFICES ASSUME Init PROVE IInv
  OBVIOUS
<1>1. Flags
  BY Zenon DEF Init, NewState, Flags
<1>2. Fields
  BY ConstantsAssumption DEF Init, NewState, NoCopy, Fields
<1>3. SessionConsistent /\ MfaOfThisSession /\ OneCallOutlivesSession /\ InFlight
  BY DEF Init, NewState, NoCopy, SessionConsistent, MfaOfThisSession, OneCallOutlivesSession,
     InFlight
<1>4. QED
  BY <1>1, <1>2, <1>3 DEF IInv, TypeOK

\* Steps of the socket thread, and of the clock, that leave BrokerState alone
\* or lock it.
LEMMA SocketStep ==
    ASSUME IInv,
           Accept \/ Lock \/ Status \/ LockCommand \/ Refuse \/ Use \/ Respond \/ ClientGone
           \/ Restart \/ Tick
    PROVE  IInv'
<1> USE ConstantsAssumption
    DEF Accept, Lock, Status, LockCommand, Refuse, Use, Respond, ClientGone,
        Restart, Tick, Handle, Locked, ExpireIdle, state, hist
<1>0. Flags /\ Fields /\ SessionConsistent /\ MfaOfThisSession /\ OneCallOutlivesSession /\ InFlight
  BY DEF IInv, TypeOK
<1>1. Flags'
  BY <1>0, Zenon DEF Flags
<1>2. Fields'
  <2>1. copy' \in [passphrase: BOOLEAN, session: Nat, mfa: BOOLEAN] /\ proved' \subseteq Nat
    BY <1>0, NoCopyType, Zenon DEF Fields
  <2>2. QED
    BY <1>0, <2>1 DEF Fields
<1>3. SessionConsistent'
  BY <1>0, <1>1 DEF SessionConsistent, Fields
<1>4. MfaOfThisSession'
  <2>1. proved' = proved /\ (copy' = copy \/ copy'.mfa = FALSE)
    BY DEF NoCopy
  <2>2. QED
    BY <1>0, <1>1, <2>1 DEF MfaOfThisSession, SessionConsistent, Fields
<1>5. OneCallOutlivesSession' /\ InFlight'
  BY <1>0, <1>1 DEF OneCallOutlivesSession, InFlight, Fields
<1>6. QED
  BY <1>1, <1>2, <1>3, <1>4, <1>5 DEF IInv, TypeOK

\* Steps of the socket thread that open a session or count as activity.
LEMMA SessionStep ==
    ASSUME IInv, NEW ok \in BOOLEAN, NEW given \in BOOLEAN, NEW code \in Codes,
           Unlock(given, code) \/ MfaVerify \/ Work(ok)
    PROVE  IInv'
<1> USE ConstantsAssumption
    DEF Unlock, MfaVerify, Usable, Work, Codes, Handle, mark_activity, state, hist
<1>0. Flags /\ Fields /\ SessionConsistent /\ MfaOfThisSession /\ OneCallOutlivesSession /\ InFlight
  BY DEF IInv, TypeOK
<1>1. Flags'
  BY <1>0, Zenon DEF Flags
<1>2. Fields'
  <2>1. proved' \in {proved, proved \cup {sessions + 1}, proved \cup {broker_session_id}}
        /\ copy' = copy
    OBVIOUS
  <2>2. QED
    BY <1>0, <2>1 DEF Fields
<1>3. SessionConsistent'
  BY <1>0, <1>1 DEF SessionConsistent, Fields
<1>4. MfaOfThisSession'
  <2>1. CASE Unlock(given, code)
    BY <1>0, <2>1 DEF MfaOfThisSession
  <2>2. CASE MfaVerify \/ Work(ok)
    BY <1>0, <2>2 DEF MfaOfThisSession
  <2>3. QED
    BY <2>1, <2>2
<1>5. OneCallOutlivesSession' /\ InFlight'
  BY <1>0, <1>1 DEF OneCallOutlivesSession, InFlight, Fields
<1>6. QED
  BY <1>1, <1>2, <1>3, <1>4, <1>5 DEF IInv, TypeOK

\* Steps of the gateway thread.
LEMMA GatewayStep ==
    ASSUME IInv, NEW ok \in BOOLEAN,
           GateAccept \/ GateOther \/ GateSnapshot \/ GateCall(ok) \/ GateMark \/ GateRespond
           \/ GateClientGone
    PROVE  IInv'
<1> USE ConstantsAssumption
    DEF GateAccept, GateOther, GateSnapshot, GateCall, GateMark, GateRespond, GateClientGone,
        Usable, ExpireIdle, Locked, mark_activity, state, hist
<1>0. Flags /\ Fields /\ SessionConsistent /\ MfaOfThisSession /\ OneCallOutlivesSession /\ InFlight
  BY DEF IInv, TypeOK
<1>1. Flags'
  BY <1>0, Zenon DEF Flags
<1>2. Fields'
  <2>1. CASE GateSnapshot
    <3>1. copy' \in [passphrase: BOOLEAN, session: Nat, mfa: BOOLEAN]
      BY <1>0, <2>1 DEF Flags, Fields
    <3>2. QED
      BY <1>0, <2>1, <3>1 DEF Fields
  <2>2. CASE GateAccept \/ GateOther \/ GateCall(ok) \/ GateMark \/ GateRespond \/ GateClientGone
    <3>1. copy' = copy \/ copy' = NoCopy
      BY <2>2
    <3>2. copy' \in [passphrase: BOOLEAN, session: Nat, mfa: BOOLEAN]
      BY <1>0, <3>1, NoCopyType, Zenon DEF Fields
    <3>3. proved' = proved /\ late' \in Nat /\ provider' = provider /\ clock' = clock
          /\ mutex' = mutex /\ broker_session_id' = broker_session_id /\ sessions' = sessions
          /\ last_activity' \in Nat \cup {Never} /\ sock' = sock
      BY <1>0, <2>2 DEF Fields
    <3>4. gate' \in {"accept", "lock", "call", "mark", "respond", "stopped"}
      BY <1>0, <2>2
    <3>5. QED
      BY <1>0, <3>2, <3>3, <3>4 DEF Fields
  <2>3. QED
    BY <2>1, <2>2
<1>3. SessionConsistent'
  BY <1>0, <1>1 DEF SessionConsistent, Fields
<1>4. MfaOfThisSession'
  <2>1. proved' = proved
    OBVIOUS
  <2>2. copy' = copy \/ copy'.mfa = FALSE \/ (copy'.mfa = mfa_verified /\ copy'.session = broker_session_id)
    BY DEF NoCopy
  <2>3. QED
    BY <1>0, <1>1, <2>1, <2>2 DEF MfaOfThisSession, SessionConsistent, Fields
<1>5. OneCallOutlivesSession' /\ InFlight'
  BY <1>0, <1>1 DEF OneCallOutlivesSession, InFlight, Fields
<1>6. QED
  BY <1>1, <1>2, <1>3, <1>4, <1>5 DEF IInv, TypeOK

\* Every step preserves the inductive invariant.
LEMMA NextIInv == IInv /\ [Next]_vars => IInv'
<1> SUFFICES ASSUME IInv, [Next]_vars PROVE IInv'
  OBVIOUS
<1>1. CASE Next
  BY <1>1, SocketStep, SessionStep, GatewayStep DEF Next, Read, Codes
<1>2. CASE UNCHANGED vars
  BY <1>2 DEF vars, IInv, TypeOK, Flags, Fields, SessionConsistent, MfaOfThisSession,
     OneCallOutlivesSession, InFlight
<1>3. QED
  BY <1>1, <1>2

\* The inductive invariant holds of every behaviour.
THEOREM BrokerInvariance == Spec => []IInv
BY InitIInv, NextIInv, PTL DEF Spec

\* BrokerState, the threads and the gateway's copies are always well formed.
THEOREM BrokerTypeCorrect == Spec => []TypeOK
<1>1. IInv => TypeOK
  BY DEF IInv
<1>2. QED
  BY <1>1, BrokerInvariance, PTL

\* The fields of BrokerState agree: locked means nothing is held, unlocked means
\* there is a session and an idle timer.
THEOREM SessionSound == Spec => []SessionConsistent
<1>1. IInv => SessionConsistent
  BY DEF IInv
<1>2. QED
  BY <1>1, BrokerInvariance, PTL

\* mfa_verified is always the result of a code given in the current session.
THEOREM MfaSound == Spec => []MfaOfThisSession
<1>1. IInv => MfaOfThisSession
  BY DEF IInv
<1>2. QED
  BY <1>1, BrokerInvariance, PTL

\* At most one gateway request outlives the session it was admitted in.
THEOREM LateCallsBounded == Spec => []OneCallOutlivesSession
<1>1. IInv => OneCallOutlivesSession
  BY DEF IInv
<1>2. QED
  BY <1>1, BrokerInvariance, PTL

\* A session that was idle for longer than the timeout admits neither a command
\* nor a gateway request, although it is locked only when somebody asks.
THEOREM IdleAdmitsNothing == Spec => AdmittedInTime
<1> DEFINE Admits == (sock' = "work" /\ sock # "work") \/ (gate' = "call" /\ gate # "call")
           InTime == Timeout = 0 \/ (last_activity # Never /\ clock <= last_activity + Timeout)
<1>1. ASSUME IInv, [Next]_vars, Admits PROVE InTime
  <2>1. Use \/ GateSnapshot
    BY <1>1 DEF Next, Read, vars, Accept, Lock, Status, LockCommand, Refuse, Respond, ClientGone,
       Restart, Tick, Handle, Unlock, MfaVerify, Work, GateAccept, GateOther, GateCall, GateMark,
       GateRespond, GateClientGone
  <2>2. Usable
    BY <1>1, <2>1 DEF Use, GateSnapshot, IInv, TypeOK, Fields
  <2>3. QED
    BY <1>1, <2>2, ConstantsAssumption
       DEF Usable, Expired, IInv, TypeOK, Fields, SessionConsistent
<1>2. IInv /\ [Next]_vars => [Admits => InTime]_vars
  BY <1>1
<1>3. QED
  BY <1>2, BrokerInvariance, PTL DEF Spec, AdmittedInTime
===============================================================================
