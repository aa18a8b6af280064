# HBSE in TLA+

HBSE (Hardware Bound Secrets Enclave, `src/hbse`) keeps encrypted secrets in a
SQLite file, hands them out by *tickets* that a policy must allow, and runs a
*broker* daemon that uses secrets on behalf of local clients. This directory
models the parts of it whose correctness depends on the order of steps, checks
them with TLC and proves their main invariants with TLAPS.

## The system

Every `hbse` command is a process of its own. It opens a `VaultManager`, which
unwraps the root key, and calls handlers that make several *store calls*. A store
call opens its own connection and is one autocommit transaction; only
`append_audit_event` spans a read and a write (one immediate transaction). There
is no lock across the calls of a handler, so commands, and the broker's requests,
interleave at store calls, and what a handler read may be stale when it writes it
back. Almost everything that is hard to test in this code follows from that.

| Component | State | Operations | Interacts with | Hard part |
|---|---|---|---|---|
| Ticket handlers (`vault.rs`, `tickets.rs`) | `tickets` table | issue, validate, renew, consume, revoke, lockdown | policy engine, records, audit | one compare-and-swap (consume) beside five blind writers; crash between spending and returning |
| Secret versions, rotation (`vault.rs`, `rotation.rs`, `records.rs`) | `secret_records`, `redaction_fingerprints`, `rotation_jobs` | put, get, disable, destroy; start, verify, promote, rollback | tickets pin a version; redaction reads fingerprints | version read in one call, written in another; multi-save promotion; stale job copies |
| Broker daemon (`broker_daemon.rs`) | `BrokerState` behind a mutex | unlock, lock, mfa_verify, status, checkout, materialize, provider_http; HTTP gateway | vault handlers, upstream HTTP, systemd | gateway works on copies with no lock held; idle expiry is lazy; a failed write ends a thread |
| Policy engine (`policy.rs`) | `policies` table | evaluate | issue, run, broker | empty lists that deny beside empty lists that restrict nothing, attributes that could not be read, unknown assurance levels |
| Audit chain (`audit.rs`, `store.rs`) | `audit_events` | append, verify | every handler | two appenders; crash before the event |
| Vault life cycle (`vault.rs`, `provider*.rs`, `recovery.rs`, `keys.rs`) | header with the wrapped root key | init, rewrap, recovery | everything | two rewraps, two inits |
| MFA and export gate (`mfa.rs`, `main.rs`, `vault.rs`) | TOTP record, export setting, MFA state of the broker's session | enroll, withdraw, verify, config | get, consume, resolve, run, broker | setting, factor and code are checked in store calls of their own, before the value is read; a factor may be replaced between look-up and verification |
| Backup (`backup.rs`) | archive, database file, write-ahead log | create, restore | the running store | bare reads of a file SQLite writes to; a rename beside the log of other commands and under their connections; one temporary file for all restores |
| Release evidence (`release.rs`) | the release directory, the key files | evidence, keygen, sign, verify | the project's sources | a dozen files written and read one by one, without a lock |
| Command line (`main.rs`) | none | parses, calls handlers, prints | all | |
| Encryption, redaction, systemd units, dotenv, hardware tools | none or files | pure or I/O | | |

What makes each of them right, in one line:

- tickets: no more uses than granted, revocation final, no plaintext without a
  use and an event, nothing for a stale ticket;
- secrets: dense versions, fingerprints only of stored versions, only verified
  values promoted, withdrawn values not read;
- broker: fields agree, MFA belongs to its session, an idle or ended session
  admits nothing, requests are answered;
- audit: one unbroken chain whatever overlaps or dies;
- life cycle: somebody can always unwrap the root key;
- policy: a stricter policy never grants more, plaintext goes to a named peer;
- export gate: no plaintext while the export was disabled, none without a code of the
  factor that was enrolled;
- backup: a restore that nothing meets leaves the vault whole, and what is restored was
  once backed up;
- release: a verification that passes has seen what was signed, and only that passes.

The hazards behind these, line by line, are in `PROJECT.json`.

## Modules

| Module | Models | Extends or instantiates |
|---|---|---|
| `TicketUse` | abstract: what a ticket promises | |
| `Tickets` | the six ticket handlers over the store | `TicketUse` (refinement) |
| `TicketsProofs` | theorems about `Tickets` | `Tickets` |
| `Secrets` | secret versions and rotation jobs | |
| `SecretsProofs` | theorems about `Secrets` | `Secrets` |
| `Broker` | the daemon's two threads and its state | |
| `BrokerProofs` | theorems about `Broker` | `Broker` |
| `VaultLog` | the vault's header with the wrapped root key, and the audit chain | |
| `VaultLogProofs` | theorems about `VaultLog` | `VaultLog` |
| `Policy` | the policy engine as operators, and when a policy is stricter | |
| `PolicyProofs` | theorems about `Policy` | `Policy` |
| `Delivery` | every way a value leaves the vault, with its gates | `Policy` |
| `DeliveryProofs` | theorems about `Delivery` | `Delivery`, `PolicyProofs` |
| `Backup` | backup and restore beside writing commands | |
| `BackupProofs` | theorems about `Backup` | `Backup` |
| `Release` | release evidence, signing, verification | |
| `ReleaseProofs` | theorems about `Release` | `Release` |
| `MCTickets`, `MCSecrets`, `MCBroker`, `MCVaultLog`, `MCDelivery`, `MCBackup`, `MCRelease` | small instances for TLC | the module they are named after |

### Tickets

`tickets`, `policies` and `records` are the tables. `pc[p]` names the next store
call of command `p`; `req`, `target`, `held`, `newId`, `fresh`, `snap` and `left`
are the handler's local variables. An action is one store call with the pure code
after it: `ConsumeLoad` is `load_ticket` and `TicketManager::validate`,
`ConsumeSave` is `save_ticket_if_current`, and so on; `"consume_save"` is entered
only after the checks of `consume_ticket_for_secret` passed. `Abort` ends a command
before any of its store calls (a kill, `SQLITE_BUSY`, a failed unlock), so every
handler may die between any two of its writes. `Tick`, `SavePolicy` and
`SaveSecretRecord` are what other commands do to clock, policies and secrets.

Data abstraction: a request's reference, consumer, purpose, mode and peer are one
model value; a policy is the set of contexts it allows with its TTL, uses and
expiry (the evaluation itself is module `Policy`, used by `Delivery`); the policy
hash is injective; MACs hold
because every row was written by a holder of the key. `minted` is the set of UUIDs
drawn, which are never drawn twice. `used`, `delivered` and `receipt` are history.

A ticket of an older format, whose `secret_version` is 0, is not compared with the
stored versions (`vault.rs` lines 862-863 and 982-984). No handler issues such a ticket,
so the model has none.

`validate_ticket` on its own writes nothing; its store calls are the first three of
a renewal, and the command that only validates ends there as an `Abort`.

### Secrets

One secret reference; no handler touches two. `encrypt_secret` draws a fresh key
and nonces, so a record's content is a member of `Blobs` not drawn before. A save
is `INSERT OR REPLACE`, so two commands that read the same latest version overwrite
each other: the model has that, and the properties say what survives it.

### Broker

The five fields of `BrokerState` (`unlocked`, `passphrase`, `mfa_verified`,
`broker_session_id`, `last_activity`), the mutex, the program counters of the
socket and the gateway thread and the gateway's copies of passphrase, MFA mark and
session. The socket thread holds
the mutex from after the accept to the end of the response; the gateway's two
critical sections are one action each. The vault's and the upstream's verdicts are
chosen by the environment, and can be positive only when the passphrase that is
passed on (or a hardware provider, which needs none) opens the vault. `ClientGone`
is the failed write that makes `serve_with_http_gateway` return; `Restart` is
systemd's `Restart=on-failure`. The clock does not run backwards.

### VaultLog

`header` is the row `vault_header`; a provider binding is the root key it wraps and
the credential that opens it (a passphrase, or the machine for TPM and system
fingerprint bindings). `events` is the audit table in the order of `sequence`. An
event's hash stands for its place in the table, its MAC for the key it was made with.
`append_audit_event` is two actions inside one immediate transaction: `AppendRead`
takes the write lock (`writer`) and reads the last hash, `AppendCommit` inserts and
commits; other writers wait for the lock, readers do not, and a crash rolls back.
`create_vault` is a look-up and an insert in two statements, of which the insert fails
on the primary key. `Handler` is every handler that opens the vault and ends with an
event, those of `Tickets` and `Secrets` included. A package of another vault is
at hand from the start.

### Policy

`evaluate_policy` and `evaluate_brokered_http` as the operators `Allows` and
`evaluate_brokered_http`, one conjunct per check. Lists of strings are sets; a list that
must name the value (`Lists`), one that restricts only if it has an entry (`Admits`) and
the peer lists, for which an attribute that could not be read is `None` and on no list
(`PeerAdmitted`), are told apart, because they have different defaults. The reasons of a
denial are left out. `Stricter` compares two policies field by field, in the direction a
reader of the policy file would call stricter. One field is not monotone: a first entry
in an allow list of peers also makes raw plaintext export possible
(`policy_has_peer_binding`), so `StricterPeers` has a third conjunct.

### Delivery

The commands `get` (and `resolve`, which has the same gate), `consume`, `run`,
`checkout`, `materialize`, `provider_http` and the request of the HTTP gateway
(`gateway`), with those that change the gates: the export
setting (`enable`, with or without `--allow-without-mfa`, and `disable`), the TOTP factor
(`enroll`, and `withdraw`, which is `secret disable` or `destroy` of its record),
`policy put`, and the broker's `unlock`, `mfa_verify` and `lock`. An action is one store
call. A TOTP code is its seed and its period; `verify_totp_code` has the drift of one
period and the guard against a counter below zero, and nothing remembers a used code.
The broker's socket commands run under its mutex (`mutex`) and see its `session`. A
gateway request takes the mutex only for `require_unlocked` and its copies (`copies`,
`broker_daemon.rs` lines 558-568) and delivers without it, so the session may be locked,
unlocked anew or verified meanwhile; its peer is the broker's own
(`http_gateway_peer_identity`), and one is served at a time. How the session comes and
goes with time is module `Broker`. `Issue` is `load_latest`, `list_policies`, the
evaluation and `save_ticket` in one step: of these only the list of policies is state of
this module. Whether the ticket is good is module
`Tickets`, whether the secret can be read is module `Secrets`: here both can refuse
at any time (`Abort`). Of a ticket only the policy it was issued under is kept, because
the use of the ticket compares it with the stored one.

History: `open` (commands in whose time the export was enabled at some moment), `factor`
(the one factor that was enrolled from a command's start to now, or none), `since`,
`waived`, `sessionSeed`.

### Backup

The database is a row of pages and a log of committed frames. SQLite is external: a
store call opens a connection; the connection that closes last copies the log into the
file page by page and deletes it; a command that is killed leaves it behind. On top of
that, `create_backup` (header, its own connection with a full checkpoint, a bare
`fs::read` page by page, the archive) and `restore_backup` (archive and hash, temporary
file, rename), with `Crash` everywhere and an archive that may go bad on its medium.

Nothing keeps a restore apart from anything, in the code or in the model. Two restores
write the one temporary file: the second truncates it, and a file that was renamed while
another restore has it open is from then on written in place (`db_write`), or, once it was
replaced in turn, to no avail (`lost_write`); `RenameFails` is the restore whose file
another one has renamed away. A rename happens under open connections too: they are
`stale`, go on with the old file, share the log of the new one by its name, and a
checkpoint of theirs empties that log without a copy into the new file. The last is a
fact about SQLite and POSIX, modelled as external. What a restore met is kept in
`disturbed`: `"log"` for frames in the log or an open connection, `"restores"` for
another restore. `VaultIsWhole` and `BackupIsComplete` claim nothing once it is not empty;
see Findings for what happens then.

A checkpoint that finds another connection in its way returns a row that `pragma_update`
ignores; `FullBusy` allows that whenever another connection is open, which is more often
than SQLite does. Another command may copy pages between two reads. For such backups
nothing is claimed (`fair`). SQLite's automatic checkpoint at a commit is left out: it
happens only in long logs, and copies pages as that of a closing connection does.

### Release

`release evidence`, `keygen`, `sign` and `verify`, one action per file written, hashed or
compared, and `Build` and `Change` for what happens around them. The content of a document
is the state of the world it was made from, its hash is the content, a signature is what
was signed and the key. A command killed in a write leaves the file `Torn`. Artifacts are
a list in which a file may be named twice, and is then listed once (`WithEntry`); the
public key may go to another path than the release directory (`WritePublic`); a document
that would be copied onto itself stays as it is (`InPlace`). The manifest's
`source_digest`, read again from `provenance.json` (lines 341-349), is compared by nothing
and left out. The three documents of the instance are one made from the world as the
command found it and written before `artifact.sig`, and the two that are copied while it
runs, of which one is not JSON and is never skipped.

## Runs

| Run | Instance | Shows |
|---|---|---|
| `tickets_race` | 2 commands, 2 tickets, 2 uses, fixed clock | `UsesWithinGrant`, `DeliveryIsPaid`, `LockdownRevokesListed`, `RevocationIsFinal`, `DeliveryIsAudited`, and that `Tickets` implements `TicketUse` |
| `tickets_env` | 1 command, 2 tickets, 2 versions, 2 policy contents, clock 0..1, a broker session | `StaleTicketNotDelivered` while clock, policies and records change between store calls |
| `tickets_lockdown` | 2 commands | expected violation, see Findings |
| `tickets_renewal` | 1 command, 2 policy contents | expected violation, see Findings |
| `secrets` | 2 commands, 3 blobs, 2 jobs, 2 versions | `NoVersionGaps`, `FingerprintsFollowRecords`, `OnlyVerifiedPromoted`, `EndedJobsStayEnded`, `WithdrawnIsNotRead` |
| `broker` | timeout 1, clock 0..3, 2 sessions, both kinds of provider | `SessionConsistent`, `MfaOfThisSession`, `OneCallOutlivesSession`, `AdmittedInTime`, `GatewayAnswers`, `SocketAnswers` |
| `vault_log` | 2 commands, 2 roots and a foreign one, 2 passphrases and the machine, 3 events | `NoFalseAlarm`, `OneRootKey`, `RootKeyIsForever`, `LoggedChangesHappened` |
| `delivery` | 2 commands, 1 policy row with 3 contents, 3 asks, 2 peers and the broker's own, 2 seeds, clock 0..2 (1.3 million states) | `ExportWasOpen`, `FactorWasProved`, `EnabledDeliberately`, `MfaPolicyHonoured`, `PlaintextPeerNamed`, `TighteningNeverGrants` |
| `delivery_consume` | the same | expected violation, see Findings |
| `backup` | 2 commands, 2 pages, 1 commit, 2 backups, 3 restores (2.6 million states) | `VaultIsWhole`, `OnlyBackupsRestored`, `BackupIsComplete` |
| `backup_restore` | 2 commits, 1 restore | expected violation, see Findings |
| `release` | 2 commands, 3 documents, 2 keys, 1 artifact that may be named twice, 4 writing commands, 1 kill, sources that change once (4.5 million states) | `PassedMeansSigned`, `VerdictIsRight` |

Each run checks one type invariant of its module at most. Every property of a
passing run has a mutant in `PROJECT.json`: a definition marked *Mutation* in the
module which, put in place of the one it follows, makes TLC report the property.

Bounds. Two commands are what a lost update or a stale write-back needs; with two
tickets a renewal has an old and a new one and a lockdown has two to list; two uses
let a ticket be partly used. Two versions with three blobs let two commands write
the same version and a third value follow; two jobs can be staged for the same
version. Two roots let two inits race, and three events let two appends meet on a log
that is not empty. The broker's clock passes a timeout twice, and two sessions let a gateway
call begin in one and end in the other.

In `delivery` a second seed lets a factor be withdrawn and enrolled anew under a command,
and three periods let a code be too old. `Roles` bounds which commands meet: one that
delivers or sets, and one that changes gates or policies. Two deliveries do not meet
here: they share only the ticket, which is the subject of `tickets_race`, and on the
broker's socket they exclude each other; a gateway request does meet the commands that
lock, unlock and verify the session. The three policies are an open one, a stricter one with
peer and HTTP lists, and one that requires MFA and a known executable. In `backup` two pages
are what a torn read or a torn checkpoint needs, the second backup lets an archive be
overwritten, and with three restores two can overlap after or before one that is alone. In `release` four writing commands are a key, the evidence, a
signing, and one more of any kind to disturb it.

The bounds are constants and guards
(`TicketIds`, `MaxArtifacts`, `Blobs`, `JobIds`, `MaxVersion`, `MaxTime`, `MaxSession`, `Roots`,
`MaxEvents`, `MaxSeeds`, `MaxStep`, `Roles`, `MaxCommits`, `MaxBackups`, `MaxRestores`,
`MaxRuns`, `MaxCrashes`, `MaxWorld`); a command
that would need one more id is not taken up or ends by `Abort`. The theorems
below do not depend on them. Process, ticket, blob, job and key ids are symmetric
model values (in `delivery` processes are not: their roles differ); no property
distinguishes them.

Deadlock is checked in all runs but `secrets` and `vault_log`, where the blobs and jobs,
or the roots of inits that all died, can be used up with every command over.

Fairness (only `broker` has liveness). Weak fairness of the threads' own steps, of
`Read` (a client that connects sends its line or hangs up: the socket has no read
timeout, so this is an assumption about clients) and of the vault's and upstream's
answers. The gateway's two lock acquisitions have weak fairness only: `std::sync::Mutex`
is not fair, and the socket thread may take it again at once, so a waiting thread is sure
of it only if it stays free. `GatewayAnswers` therefore has the premise that at some time
no more clients connect to the socket (`<>[][~Accept]_vars`); under an unending stream of
them the code promises the gateway nothing, and neither does the property. Nothing is
assumed about the clock, clients that vanish, or restarts.

## Proofs

Every invariant and every action property that a passing run checks is also a theorem.
The theorems hold for every number of commands, tickets, versions, jobs, sessions,
policies, pages, documents and keys and every timeout. The assumptions are the named
`ASSUME` of each module, which TLC evaluates in the runs: types of the constants, and that
the "no row" values are not rows. In `Release` the latter includes that a torn, unsigned
or missing file is neither a manifest nor a signature, which is what parsing decides. Each
inductive invariant was checked by TLC on the instance of its run before it was proved.

- **Tickets.** `UsesWithinGrant` is not inductive: a blind writer could put back
  any copy. `IInv` adds that a copy a command holds has the grant of an existing
  row (`Copies`), that the copy about to be spent was validated (`Validated`), that
  a ticket being built has an id without a row that no other command builds
  (`Built`), that rows exist only for drawn ids (`Rowless`), that policies are never
  deleted (`PolicyKept`) and what a lockdown has listed and done (`Listed`).
  Theorems: `Invariance`, `TypeCorrect`, `NoOveruse`, `LockdownComplete`, and
  the action property `RevocationFinal`: of the six writers of a row, three write
  a revoked row, the issuing ones write to a row that did not exist, and consume
  writes only over the very copy that was found unrevoked.
  Three more theorems have strengthenings of their own. `DeliveryPaid`: the commands
  between the save of a use and the return are *owed* a plaintext (`Owed`), and what was
  returned and what is owed never exceeds the uses saved; a crash only lessens what is
  owed. The set of the owed is finite although `Procs` need not be, so the cardinality
  theorems apply. `StaleDenied`: `FreshOf` carries the moment and the version of the
  command's start through its calls, and what a command has passed stays true because
  records are never removed and a copy is never changed. `DeliveryLogged`: only the
  step in which this command appends its own event leads to the return (`Receipted`).
  `Refinement`: `Tickets` implements `TicketUse`. Six actions write a row and every other
  step is a stutter for the abstract ticket; by `IInv` a writer that issues finds no row
  and makes the abstract grant (`FirstRowGrants`), a blind writer only sets the revoked
  flag of the row's own grant (`RevokedRowKills`), and the compare-and-swap takes one use
  (`SpentRowUses`).
- **Secrets.** `IInv` says that below the version of any row, job or *copy* all
  versions are stored (`Reserved`), that who is about to save a fingerprint has
  saved the record (`Printed`), and that a blob which is both a job's and a record's
  was checked (`Provenance`). Theorems: `SecretsInvariance`, `SecretsTypeCorrect`,
  `VersionsDense`, `FingerprintsBacked`, `PromotionVerified`.
  The two action properties need more. `EndedForGood` uses `JInv`: the id of a job being
  started is in no row and with no other command (`Starting`), so its first save cannot hit
  an ended job; every other writer of a job has loaded it (`HeldJobs`) and counts as
  holding it. `WithdrawnForGood` uses `WInv`: a blob is found under one version wherever it
  is (`Pinned`), a value being put is nobody else's (`Unshared`), who withdraws has an
  inactive copy (`Withdrawing`), and a withdrawn value is active in no row unless a rotation
  brought it (`Gone`). Without `Pinned` a stale copy could be saved under a version that
  makes it the latest again.
- **Broker.** `InFlight` links the gateway's copies with the session: a call in
  flight belongs to the current session, or none has been late yet. Theorems:
  `BrokerInvariance`, `BrokerTypeCorrect`, `SessionSound`, `MfaSound`,
  `LateCallsBounded`, and the action property `IdleAdmitsNothing`.
- **VaultLog.** `NoFalseAlarm` alone says nothing of the chain. `IInv` says that every
  event is chained to the one before it (`Linked`), that who is about to commit holds the
  write lock and has read the last event (`Transaction`), that vault ids and root keys go
  together in header, packages and log (`Paired`), that a command which opened the vault
  works with its root key on a header of this vault (`Opened`), that an init which has
  not stored its header has a key of its own (`Creating`), and that who is about to log
  a change has stored it (`Logged`). Theorems: `VaultInvariance`, `VaultTypeCorrect`,
  `ChainUnbroken`, `RootKeyShared`, `LogTruthful`, and the action property `RootKeyKept`.
- **Policy.** `StricterNeverGrants`: for all policies and requests over any sets of
  names, `Stricter(new, old)` and `Allows(new, r)` imply `Allows(old, r)`, one lemma per
  group of fields. `PlaintextPeerIsNamed`: a raw export in a plaintext mode that is
  allowed goes to a peer some allow list names, or the policy waives it. Both are what
  `TighteningNeverGrants` and `PlaintextPeerNamed` check in `delivery` on its three
  policies, where the policy may also change between evaluation and use.
- **Delivery.** None of the properties is inductive: they speak of commands at their last
  step, and what was checked happened steps before, in a store that has changed since.
  `IInv` carries it along: which labels belong to which command (`Shape`), that grant and
  request come and go together (`Granted`), that whoever is past a look at the setting was
  in its time (`Opened`), that the record of the factor and the ones about to be saved are
  enrolments (`Enrolments`), that the factor enrolled all along is the one of the record,
  with a code of it shown by every command past the gate (`Proved`), that socket commands
  hold the mutex, so that nobody ends or verifies the session under them, while the one
  gateway request has copies, verified only if a code was accepted in the session they were
  taken from (`Serving`), and
  what the granting policy asked for (`Honoured`, which names the code behind each kind of
  command in `CodeBehind`, and `Named`). Theorems: `DeliveryInvariance`,
  `DeliveryTypeCorrect`, `ExportIsGated`, `FactorIsProved`, `ExportEnabledDeliberately`,
  `MfaIsHonoured`, `PlaintextGoesToNamedPeer` (with `PlaintextPeerIsNamed` at the
  evaluation) and the action property `TighteningOnlyDenies` (with `StricterNeverGrants`).
- **Backup.** `VaultIsWhole` is about what the next command sees, the file under the frames
  of the log. Copying a frame into the file leaves that view alone, and so does deleting a
  log that was copied, so a kill at any page is harmless; a commit and a rename replace it.
  `IInv` adds that a command holds bytes only while it reads, archives or restores
  (`Bytes`), that until two restores have met, one at a time has the temporary file and
  renames what it has read (`OneRestore`), that only a connection copies the log, a closing
  one only if it is the last, and that no connection is stale before a restore met one
  (`Locking`), and that a complete archive holds what some backup read (`Archived`).
  `BackupIsComplete` needs `Fairness`: while nothing gets in its way, the checkpoint of a
  backup brings the file to a state the vault had since the backup began (`Had`), and the
  pages read are those of that file; a reader whose file is renamed over ends with the
  pages of the old file, a state the vault still had in the time of the backup. Theorems: `BackupInvariance`,
  `BackupTypeCorrect`, `WholeVault`, `RestoredWasBackedUp`, `UndisturbedIsComplete`.
- **Release.** A verification reads file by file and its verdict is about all of them.
  `SoFar` says, label by label, what has been found out and that it is still true of the
  directory while nothing was written; any write puts the running verifications in
  `touched`, so a step of one command is a step of its own or a write that others notice
  (`Bystander`). The comparison is along the manifest: the entries compared are a prefix
  that grows by one (`PrefixGrows`). For the *if* of `VerdictIsRight` one also needs that
  every signed manifest lists every document (`Signed`), which follows from the queue of
  the signing command (`WorkOf`). Theorems: `ReleaseInvariance`, `ReleaseTypeCorrect`,
  `PassedWasSigned`, `VerdictCorrect`.

Only model-checked: the liveness properties `GatewayAnswers` and `SocketAnswers` (the
prover does no liveness under fairness) and, of course, the expected violations.

## Findings

- **Lockdown races issue** (`tickets_lockdown`). `revoke_all_tickets` lists the table
  once. A ticket requested before the lockdown and saved after the list is live when
  the lockdown reports; `README.md` line 540 says it revokes active tickets.
- **Renewal is not evaluated** (`tickets_renewal`). `renew_ticket` reads the policy a
  second time and issues a full ticket under it without `PolicyEngine::evaluate`; a
  policy replaced in between, or one whose own `expires_at` has passed, still yields
  a ticket, against "Policies default to deny" (`README.md` line 87).
- **ticket consume cannot satisfy MFA** (`delivery_consume`). `ticket consume` asks for
  `--mfa-code` when a factor is enrolled and verifies it (`main.rs` line 2592), then
  builds its request with `mfa_verified: false` and a raw export (line 2745).
  `consume_ticket_for_secret` enforces the gate with that flag (`vault.rs` line 849) and
  refuses: with a factor enrolled the command can never deliver.
- **Restore leaves the log** (`backup_restore`). `restore_backup` renames the restored
  file to the vault's path (`backup.rs` line 125) and leaves a write-ahead log that lies
  beside it. With committed frames in the log of a command that runs or was killed, the next
  command reads the archive with those frames on top, a mixture that never existed. The
  test at `backup.rs` lines 185-215 expects the backed up value, and restores to a path
  without a log. `VaultIsWhole` and `BackupIsComplete` exclude this case (`disturbed`).

- **Unsigned evidence fails** (`release`). `verify_release_evidence` means to warn about
  `unsigned-development-evidence` (`release.rs` lines 294-295), but what `release evidence`
  writes (lines 135-139) lacks fields of `ReleaseSignature` and does not parse, so the check
  fails and the arm for the warning is never taken. `VerdictIsRight` shows it from the
  other side: only a signed directory passes.

Behaviours met on the way that no document contradicts, and which the properties
are worded to include: two overlapping puts lose one value; a promotion that died
after its first save can be repeated and brings a withdrawn value back; the later of two
overlapping rewraps replaces the binding the earlier one reported; a stale
verification can reopen a rolled back job; an unlock with a wrong MFA code leaves the
broker unlocked without a passphrase; the second of two restores to one path truncates
the temporary file the first is about to rename (`backup.rs` lines 116-125), which then
puts a blank file in the vault's place and reports success.

## Not modelled

Cryptography (AEAD, HKDF, HMAC, TOTP digests), canonical JSON, redaction's text
replacement, HTTP parsing and header handling, the hardware tools, the wording of
release documents, unit-file generation, dotenv parsing and all printing: pure
functions or I/O whose
correctness is not a question of states. Tampering with the database file is outside
the models: every row is one a handler wrote. Of the command line, `setup`, `import`, the
presets of model providers and the diagnostics are left out: they call the modelled
handlers or only print.

A client that connects to the broker and sends nothing blocks it with the mutex held: the
liveness properties assume that clients send the line they connect for. A
`provider_http` whose policy lets it name the broker's own gateway makes the gateway and
the socket thread wait for each other until the request times out: no module has the
upstream call back, since `Broker` leaves its answer to the environment and `Delivery`
does not model it.

## Plan

Done: every module of the list above, with its runs and its theorems. Left: an upstream
that calls the broker's own gateway, in `Broker`, and with it the wait between the socket
and the gateway thread.
