---------------------------- MODULE VaultLogProofs ----------------------------
(***************************************************************************)
(* Theorems about module VaultLog, for every value of its constants.       *)
(***************************************************************************)
EXTENDS VaultLog, TLAPS

-----------------------------------------------------------------------------
(* The inductive invariant.                                                *)

\* Each event is chained to the one before it.
Linked ==
    \A i \in 1..Len(events) : events[i].hash = i /\ events[i].previous_hash = i - 1

\* A command that has opened the vault works with its root key, on a header of
\* this vault.
Open == {"update", "append", "commit", "verify_list"}
Opened ==
    \A p \in Procs : pc[p] \in Open =>
        /\ header # NoHeader
        /\ key[p] = header.root
        /\ hdr[p] \in Header
        /\ hdr[p].vault = header.vault /\ hdr[p].root = header.root
        /\ pc[p] # "verify_list" => kind[p] \in Kinds

\* An init that has not stored its header has a root key of its own.
Creating ==
    \A p \in Procs : pc[p] \in {"create_check", "create_insert"} =>
        /\ hdr[p] \in Header
        /\ hdr[p].vault = key[p] /\ hdr[p].root = key[p]
        /\ kind[p] = "vault.initialized"

\* Vault ids and root keys go together, in the header, the packages and the log.
Paired ==
    /\ header # NoHeader => header.root = header.vault
    /\ header = NoHeader => events = <<>>
    /\ \A k \in packages : k.root = k.vault
    /\ \A i \in 1..Len(events) : events[i].mac_key = header.root

\* Who is about to commit holds the write lock and has read the last event.
Transaction ==
    \A p \in Procs : pc[p] = "commit" => writer = p /\ last[p] = Len(events)

\* Who is about to log a change of the header has stored it.
Logged ==
    /\ LoggedChangesHappened
    /\ \A p \in Procs :
          pc[p] \in {"append", "commit"} /\ kind[p] \in Changes => hdr[p] \in stored

IInv ==
    /\ TypeOK /\ Linked /\ Opened /\ Creating /\ Paired /\ Transaction /\ Logged
    /\ alarms = {}

-----------------------------------------------------------------------------
\* A command that ends forgets its copies.
LEMMA FinishType ==
    ASSUME TypeOK, NEW p \in Procs, Finish(p)
    PROVE  /\ pc' \in [Procs -> Labels]
           /\ hdr' \in [Procs -> Header \cup {NoHeader}]
           /\ key' \in [Procs -> Roots \cup {None}]
           /\ kind' \in [Procs -> Kinds \cup {None}]
           /\ last' \in [Procs -> Nat]
BY DEF TypeOK, Finish, Goto, Labels

\* The state before any init.
LEMMA InitIInv == Init => IInv
<1> SUFFICES ASSUME Init PROVE IInv
  OBVIOUS
<1> USE ConstantsAssumption DEF Init
<1>1. TypeOK
  BY DEF TypeOK, Package, Labels
<1>2. Linked /\ Opened /\ Creating /\ Paired /\ Transaction /\ Logged /\ alarms = {}
  BY DEF Linked, Opened, Open, Creating, Paired, Transaction, Logged, LoggedChangesHappened
<1>3. QED
  BY <1>1, <1>2 DEF IInv

\* An init draws a root key nobody has.
LEMMA InitStep ==
    ASSUME IInv, NEW p \in Procs, NEW r \in Roots, NEW c \in Credentials,
           InitStart(p, r, c)
    PROVE  IInv'
<1> USE ConstantsAssumption DEF InitStart, Work, Goto, Labels, Header, Kinds, Changes, Credentials
<1>0. TypeOK /\ Linked /\ Opened /\ Creating /\ Paired /\ Transaction /\ Logged /\ alarms = {}
  BY DEF IInv
<1>1. TypeOK'
  BY <1>0 DEF TypeOK
<1>2. Linked'
  BY <1>0 DEF Linked, TypeOK
<1>3. Opened'
  BY <1>0 DEF Opened, Open, TypeOK, Creating, Paired
<1>4. Creating'
  BY <1>0 DEF Creating, TypeOK
<1>5. Paired'
  BY <1>0 DEF Paired, TypeOK, Opened, Open, Creating
<1>6. Transaction'
  BY <1>0 DEF Transaction, Linked, TypeOK
<1>7. Logged'
  BY <1>0 DEF Logged, LoggedChangesHappened, TypeOK
<1>8. alarms' = {}
  BY <1>0
<1>9. QED
  BY <1>1, <1>2, <1>3, <1>4, <1>5, <1>6, <1>7, <1>8 DEF IInv

\* create_vault looks for a header.
LEMMA CheckStep ==
    ASSUME IInv, NEW p \in Procs,
           CreateCheck(p)
    PROVE  IInv'
<1> USE ConstantsAssumption DEF CreateCheck, Finish, Goto, Labels
<1>0. TypeOK /\ Linked /\ Opened /\ Creating /\ Paired /\ Transaction /\ Logged /\ alarms = {}
  BY DEF IInv
<1>1. TypeOK'
  <2>1. CASE header = NoHeader
    BY <1>0, <2>1 DEF TypeOK
  <2>2. CASE header # NoHeader
    <3>1. Finish(p)
      BY <2>2
    <3>2. QED
      BY <1>0, <2>2, <3>1, FinishType DEF TypeOK
  <2>3. QED
    BY <2>1, <2>2
<1>2. Linked'
  BY <1>0 DEF Linked, TypeOK
<1>3. Opened'
  BY <1>0 DEF Opened, Open, TypeOK, Creating, Paired
<1>4. Creating'
  BY <1>0 DEF Creating, TypeOK
<1>5. Paired'
  BY <1>0 DEF Paired, TypeOK, Opened, Open, Creating
<1>6. Transaction'
  BY <1>0 DEF Transaction, Linked, TypeOK
<1>7. Logged'
  BY <1>0 DEF Logged, LoggedChangesHappened, TypeOK
<1>8. alarms' = {}
  BY <1>0
<1>9. QED
  BY <1>1, <1>2, <1>3, <1>4, <1>5, <1>6, <1>7, <1>8 DEF IInv

\* create_vault stores the first header, or fails: no command has opened a vault
\* that does not exist.
LEMMA InsertStep ==
    ASSUME IInv, NEW p \in Procs,
           CreateInsert(p)
    PROVE  IInv'
<1> USE ConstantsAssumption DEF CreateInsert, Finish, Goto, Labels
<1>0. TypeOK /\ Linked /\ Opened /\ Creating /\ Paired /\ Transaction /\ Logged /\ alarms = {}
  BY DEF IInv
<1>1. TypeOK'
  <2>1. CASE header = NoHeader
    BY <1>0, <2>1, SMTT(30) DEF TypeOK, Creating
  <2>2. CASE header # NoHeader
    <3>1. Finish(p)
      BY <2>2
    <3>2. QED
      BY <1>0, <2>2, <3>1, FinishType DEF TypeOK
  <2>3. QED
    BY <2>1, <2>2
<1>2. Linked'
  BY <1>0 DEF Linked, TypeOK
<1>3. Opened'
  <2>1. CASE header = NoHeader
    BY <1>0, <2>1 DEF Opened, Open, TypeOK, Creating, Kinds
  <2>2. CASE header # NoHeader
    BY <1>0, <2>2 DEF Opened, Open, TypeOK, Creating
  <2>3. QED
    BY <2>1, <2>2
<1>4. Creating'
  BY <1>0 DEF Creating, TypeOK
<1>5. Paired'
  BY <1>0 DEF Paired, TypeOK, Opened, Open, Creating
<1>6. Transaction'
  BY <1>0 DEF Transaction, Linked, TypeOK
<1>7. Logged'
  <2>1. CASE header = NoHeader
    BY <1>0, <2>1 DEF Logged, LoggedChangesHappened, TypeOK, Creating
  <2>2. CASE header # NoHeader
    BY <1>0, <2>2, SMTT(30) DEF Logged, LoggedChangesHappened, TypeOK, Creating
  <2>3. QED
    BY <2>1, <2>2
<1>8. alarms' = {}
  BY <1>0
<1>9. QED
  BY <1>1, <1>2, <1>3, <1>4, <1>5, <1>6, <1>7, <1>8 DEF IInv

\* rewrap_provider keeps the root key it has unwrapped.
LEMMA RewrapStep ==
    ASSUME IInv, NEW p \in Procs, NEW given \in Passphrases, NEW c \in Credentials,
           Rewrap(p, given, c)
    PROVE  IInv'
<1> USE ConstantsAssumption DEF Rewrap, Opens, Work, Goto, Labels, Header, Kinds, Changes, Credentials
<1>0. TypeOK /\ Linked /\ Opened /\ Creating /\ Paired /\ Transaction /\ Logged /\ alarms = {}
  BY DEF IInv
<1>1. TypeOK'
  BY <1>0 DEF TypeOK
<1>2. Linked'
  BY <1>0 DEF Linked, TypeOK
<1>3. Opened'
  BY <1>0, ZenonT(40) DEF Opened, Open, TypeOK, Creating, Paired
<1>4. Creating'
  BY <1>0 DEF Creating, TypeOK
<1>5. Paired'
  BY <1>0 DEF Paired, TypeOK, Opened, Open, Creating
<1>6. Transaction'
  BY <1>0 DEF Transaction, Linked, TypeOK
<1>7. Logged'
  BY <1>0 DEF Logged, LoggedChangesHappened, TypeOK
<1>8. alarms' = {}
  BY <1>0
<1>9. QED
  BY <1>1, <1>2, <1>3, <1>4, <1>5, <1>6, <1>7, <1>8 DEF IInv

\* A package of this vault holds its root key.
LEMMA RecoverStep ==
    ASSUME IInv, NEW p \in Procs, NEW k \in packages, NEW c \in Credentials,
           Recover(p, k, c)
    PROVE  IInv'
<1> USE ConstantsAssumption DEF Recover, Work, Goto, Labels, Header, Kinds, Changes, Credentials
<1>0. TypeOK /\ Linked /\ Opened /\ Creating /\ Paired /\ Transaction /\ Logged /\ alarms = {}
  BY DEF IInv
<1>1. TypeOK'
  BY <1>0 DEF TypeOK, Package
<1>2. Linked'
  BY <1>0 DEF Linked, TypeOK
<1>3. Opened'
  BY <1>0, ZenonT(40) DEF Opened, Open, TypeOK, Creating, Paired
<1>4. Creating'
  BY <1>0 DEF Creating, TypeOK
<1>5. Paired'
  BY <1>0 DEF Paired, TypeOK, Opened, Open, Creating
<1>6. Transaction'
  BY <1>0 DEF Transaction, Linked, TypeOK
<1>7. Logged'
  BY <1>0 DEF Logged, LoggedChangesHappened, TypeOK
<1>8. alarms' = {}
  BY <1>0
<1>9. QED
  BY <1>1, <1>2, <1>3, <1>4, <1>5, <1>6, <1>7, <1>8 DEF IInv

\* Every other handler, and verify_audit, opens the vault.
LEMMA HandlerStep ==
    ASSUME IInv, NEW p \in Procs, NEW given \in Passphrases,
           NEW e \in {"recovery.package_created", "other"},
           Handler(p, given, e) \/ VerifyUnlock(p, given)
    PROVE  IInv'
<1> USE ConstantsAssumption DEF Handler, VerifyUnlock, Opens, Work, Goto, Labels, Header, Kinds, Changes, Credentials
<1>0. TypeOK /\ Linked /\ Opened /\ Creating /\ Paired /\ Transaction /\ Logged /\ alarms = {}
  BY DEF IInv
<1>1. TypeOK'
  <2>1. CASE Handler(p, given, e)
    BY <1>0, <2>1 DEF TypeOK
  <2>2. CASE VerifyUnlock(p, given)
    BY <1>0, <2>2 DEF TypeOK
  <2>3. QED
    BY <2>1, <2>2
<1>2. Linked'
  BY <1>0 DEF Linked, TypeOK
<1>3. Opened'
  BY <1>0, SMTT(30) DEF Opened, Open, TypeOK, Creating, Paired
<1>4. Creating'
  BY <1>0 DEF Creating, TypeOK
<1>5. Paired'
  BY <1>0 DEF Paired, TypeOK, Opened, Open, Creating
<1>6. Transaction'
  BY <1>0 DEF Transaction, Linked, TypeOK
<1>7. Logged'
  <2>1. CASE Handler(p, given, e)
    BY <1>0, <2>1 DEF Logged, LoggedChangesHappened, TypeOK
  <2>2. CASE VerifyUnlock(p, given)
    BY <1>0, <2>2 DEF Logged, LoggedChangesHappened, TypeOK
  <2>3. QED
    BY <2>1, <2>2
<1>8. alarms' = {}
  BY <1>0
<1>9. QED
  BY <1>1, <1>2, <1>3, <1>4, <1>5, <1>6, <1>7, <1>8 DEF IInv

\* update_header replaces the binding, never the root key.
LEMMA UpdateStep ==
    ASSUME IInv, NEW p \in Procs,
           UpdateHeader(p)
    PROVE  IInv'
<1> USE ConstantsAssumption DEF UpdateHeader, Goto, Labels
<1>0. TypeOK /\ Linked /\ Opened /\ Creating /\ Paired /\ Transaction /\ Logged /\ alarms = {}
  BY DEF IInv
<1>1. TypeOK'
  BY <1>0 DEF TypeOK, Opened, Open
<1>2. Linked'
  BY <1>0 DEF Linked, TypeOK
<1>3. Opened'
  BY <1>0 DEF Opened, Open, TypeOK, Creating, Paired
<1>4. Creating'
  BY <1>0 DEF Creating, TypeOK
<1>5. Paired'
  BY <1>0 DEF Paired, TypeOK, Opened, Open, Creating
<1>6. Transaction'
  BY <1>0 DEF Transaction, Linked, TypeOK
<1>7. Logged'
  BY <1>0 DEF Logged, LoggedChangesHappened, TypeOK, Opened, Open
<1>8. alarms' = {}
  BY <1>0
<1>9. QED
  BY <1>1, <1>2, <1>3, <1>4, <1>5, <1>6, <1>7, <1>8 DEF IInv

\* The transaction begins only when no other is open.
LEMMA ReadStep ==
    ASSUME IInv, NEW p \in Procs,
           AppendRead(p)
    PROVE  IInv'
<1> USE ConstantsAssumption DEF AppendRead, Goto, Labels
<1>0. TypeOK /\ Linked /\ Opened /\ Creating /\ Paired /\ Transaction /\ Logged /\ alarms = {}
  BY DEF IInv
<1>a. LastHash = Len(events) /\ LastHash \in Nat
  BY <1>0 DEF LastHash, Linked, TypeOK
<1>1. TypeOK'
  BY <1>0, <1>a DEF TypeOK
<1>2. Linked'
  BY <1>0 DEF Linked, TypeOK
<1>3. Opened'
  BY <1>0 DEF Opened, Open, TypeOK, Creating, Paired
<1>4. Creating'
  BY <1>0 DEF Creating, TypeOK
<1>5. Paired'
  BY <1>0 DEF Paired, TypeOK, Opened, Open, Creating
<1>6. Transaction'
  BY <1>0, <1>a DEF Transaction, Linked, TypeOK
<1>7. Logged'
  BY <1>0 DEF Logged, LoggedChangesHappened, TypeOK
<1>8. alarms' = {}
  BY <1>0
<1>9. QED
  BY <1>1, <1>2, <1>3, <1>4, <1>5, <1>6, <1>7, <1>8 DEF IInv

\* The event is chained to the last one, which is still the last.
LEMMA CommitStep ==
    ASSUME IInv, NEW p \in Procs,
           AppendCommit(p)
    PROVE  IInv'
<1> USE ConstantsAssumption DEF AppendCommit, Finish, Goto, Labels
<1>0. TypeOK /\ Linked /\ Opened /\ Creating /\ Paired /\ Transaction /\ Logged /\ alarms = {}
  BY DEF IInv
<1> DEFINE e == [hash |-> Len(events) + 1, previous_hash |-> last[p], mac_key |-> key[p],
                kind |-> kind[p], header |-> IF kind[p] \in Changes THEN hdr[p] ELSE NoHeader]
<1>a. e \in Event /\ Len(events) \in Nat
  <2>1. Len(events) \in Nat /\ last[p] \in Nat
    BY <1>0 DEF TypeOK
  <2>2. key[p] \in Roots /\ kind[p] \in Kinds /\ hdr[p] \in Header
    BY <1>0 DEF TypeOK, Opened, Open, Header
  <2>3. QED
    BY <2>1, <2>2 DEF Event
<1>b. events' = Append(events, e) /\ events' \in Seq(Event) /\ Len(events') = Len(events) + 1
  BY <1>0, <1>a DEF TypeOK
<1>c. \A i \in 1..Len(events') : events'[i] = IF i <= Len(events) THEN events[i] ELSE e
  BY <1>0, <1>a, <1>b DEF TypeOK
<1>d. packages' \subseteq Package /\ \A k \in packages' : k.root = k.vault
  BY <1>0 DEF TypeOK, Package, Opened, Open, Paired, Header
<1>1. TypeOK'
  BY <1>0, <1>b, <1>d DEF TypeOK
<1>2. Linked'
  BY <1>0, <1>a, <1>b, <1>c, <1>d DEF Linked, Transaction, TypeOK
<1>3. Opened'
  BY <1>0 DEF Opened, Open, TypeOK, Creating, Paired
<1>4. Creating'
  BY <1>0 DEF Creating, TypeOK
<1>5. Paired'
  BY <1>0, <1>a, <1>b, <1>c, <1>d DEF Paired, TypeOK, Opened, Open, Creating
<1>6. Transaction'
  BY <1>0, <1>a, <1>b, <1>c, <1>d DEF Transaction, Linked, TypeOK
<1>7. Logged'
  BY <1>0, <1>a, <1>b, <1>c, <1>d DEF Logged, LoggedChangesHappened, TypeOK
<1>8. alarms' = {}
  BY <1>0
<1>9. QED
  BY <1>1, <1>2, <1>3, <1>4, <1>5, <1>6, <1>7, <1>8 DEF IInv

\* A verification finds the chain unbroken; a command that dies leaves it so.
LEMMA EndStep ==
    ASSUME IInv, NEW p \in Procs,
           VerifyList(p) \/ Abort(p)
    PROVE  IInv'
<1> USE ConstantsAssumption DEF VerifyList, Abort, Finish, Goto, Labels
<1>0. TypeOK /\ Linked /\ Opened /\ Creating /\ Paired /\ Transaction /\ Logged /\ alarms = {}
  BY DEF IInv
<1>a. VerifyList(p) => Verifies(events, key[p])
  BY <1>0 DEF Verifies, Linked, Paired, Opened, Open, TypeOK
<1>1. TypeOK'
  <2>1. CASE VerifyList(p)
    BY <1>0, <1>a, <2>1 DEF TypeOK
  <2>2. CASE Abort(p)
    BY <1>0, <1>a, <2>2 DEF TypeOK
  <2>3. QED
    BY <2>1, <2>2
<1>2. Linked'
  BY <1>0 DEF Linked, TypeOK
<1>3. Opened'
  <2>1. CASE VerifyList(p)
    BY <1>0, <2>1 DEF Opened, Open, TypeOK
  <2>2. CASE Abort(p)
    BY <1>0, <2>2 DEF Opened, Open, TypeOK
  <2>3. QED
    BY <2>1, <2>2
<1>4. Creating'
  BY <1>0 DEF Creating, TypeOK
<1>5. Paired'
  BY <1>0 DEF Paired, TypeOK, Opened, Open, Creating
<1>6. Transaction'
  BY <1>0 DEF Transaction, Linked, TypeOK
<1>7. Logged'
  BY <1>0, SMTT(30) DEF Logged, LoggedChangesHappened, TypeOK
<1>8. alarms' = {}
  BY <1>0, <1>a
<1>9. QED
  BY <1>1, <1>2, <1>3, <1>4, <1>5, <1>6, <1>7, <1>8 DEF IInv

\* Every step preserves the inductive invariant.
LEMMA NextIInv == IInv /\ [Next]_vars => IInv'
<1> SUFFICES ASSUME IInv, [Next]_vars PROVE IInv'
  OBVIOUS
<1>1. ASSUME NEW p \in Procs, Command(p) PROVE IInv'
  BY <1>1, InitStep, CheckStep, InsertStep, RewrapStep, RecoverStep, HandlerStep, UpdateStep,
     ReadStep, CommitStep, EndStep DEF Command
<1>2. CASE UNCHANGED vars
  BY <1>2 DEF vars, IInv, TypeOK, Linked, Opened, Creating, Paired, Transaction, Logged,
     LoggedChangesHappened
<1>3. QED
  BY <1>1, <1>2 DEF Next

\* The inductive invariant holds of every behaviour.
THEOREM VaultInvariance == Spec => []IInv
BY InitIInv, NextIInv, PTL DEF Spec

\* Header, log, packages and the copies of commands are always well formed.
THEOREM VaultTypeCorrect == Spec => []TypeOK
<1>1. IInv => TypeOK
  BY DEF IInv
<1>2. QED
  BY <1>1, VaultInvariance, PTL

\* verify_audit never reports a broken chain, however many commands overlap.
THEOREM ChainUnbroken == Spec => []NoFalseAlarm
<1>1. IInv => NoFalseAlarm
  BY DEF IInv, NoFalseAlarm
<1>2. QED
  BY <1>1, VaultInvariance, PTL

\* The vault, its log, its packages and the commands on it share one root key.
THEOREM RootKeyShared == Spec => []OneRootKey
<1>1. IInv => OneRootKey
  BY DEF IInv, OneRootKey, Paired, Opened, Open
<1>2. QED
  BY <1>1, VaultInvariance, PTL

\* An event about a change of the header comes after the change.
THEOREM LogTruthful == Spec => []LoggedChangesHappened
<1>1. IInv => LoggedChangesHappened
  BY DEF IInv, Logged
<1>2. QED
  BY <1>1, VaultInvariance, PTL

\* No sequence of inits, rewraps and recoveries replaces the root key.
THEOREM RootKeyKept == Spec => RootKeyIsForever
<1> DEFINE Kept == header # NoHeader => /\ header' # NoHeader
                                       /\ header'.root = header.root
                                       /\ header'.vault = header.vault
<1>1. ASSUME IInv, [Next]_vars PROVE Kept
  <2>1. CASE UNCHANGED header
    BY <2>1
  <2>2. ASSUME NEW p \in Procs, CreateInsert(p) PROVE Kept
    BY <2>2 DEF CreateInsert
  <2>3. ASSUME NEW p \in Procs, UpdateHeader(p) PROVE Kept
    BY <1>1, <2>3, ConstantsAssumption DEF UpdateHeader, IInv, Opened, Open
  <2>4. QED
    BY <1>1, <2>1, <2>2, <2>3 DEF Next, Command, vars, InitStart, CreateCheck, Rewrap, Recover,
       Handler, VerifyUnlock, AppendRead, AppendCommit, VerifyList, Abort
<1>2. QED
  BY <1>1, VaultInvariance, PTL DEF Spec, RootKeyIsForever
===============================================================================
