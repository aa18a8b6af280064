-------------------------------- MODULE Backup --------------------------------
(***************************************************************************)
(* Backup and restore of the vault (backup.rs) beside the commands that    *)
(* write to it and may be killed anywhere.                                 *)
(*                                                                         *)
(* The database file is a row of pages, its write-ahead log a function     *)
(* from the pages that have a committed frame.  SQLite is external: a      *)
(* store call opens a connection of its own, and the last one to close     *)
(* copies the log into the file page by page and deletes it; a killed      *)
(* command leaves the log behind.  create_backup then reads the file as    *)
(* plain bytes, without SQLite's locks.                                    *)
(*                                                                         *)
(* Nothing keeps restores apart from each other or from open connections:  *)
(* the temporary file has one name for all of them, and a connection whose *)
(* file is replaced goes on with the old file and the log of the new one.  *)
(***************************************************************************)
EXTENDS Integers, Sequences

CONSTANTS
    Procs,          \* command executions that may overlap
    NPages,         \* pages of the database
    MaxCommits,     \* a bound on transactions
    MaxRestores,    \* a bound on restores
    MaxBackups,     \* a bound on backups
    Damaged,        \* the content of an archive whose storage went bad
    None

Free  == "free"
Pages == 1..NPages

VARIABLES
    db,             \* the database file at the vault's path
    wal,            \* the committed frames of the log beside it
    conns,          \* the commands with an open connection
    lock,           \* the one copying the log into the file
    stale,          \* those whose connection is to a file that was replaced
    zip,            \* the backup archive
    tmp,            \* the temporary file of restore
    pc, data,       \* per command: its next step, and the bytes it holds
    commits, restores, backups, \* counters for the bounds
    log,            \* history: the vault's states, commit by commit
    since,          \* history: Len(log) when a backup began
    fair,           \* history: backups that nothing got in the way of so far
    taken,          \* history: what backups have put into archives
    disturbed       \* history: "log" once a restore met a log or an open
                    \* connection, "restores" once it met another restore

sqlite   == <<db, wal, conns, lock, stale>>
hist     == <<log, since, fair, taken, disturbed>>
counters == <<commits, restores, backups>>
vars == <<db, wal, conns, lock, stale, zip, tmp, pc, data, commits, restores, backups, log,
          since, fair, taken, disturbed>>

ASSUME BackupAssumption ==
    /\ NPages \in Nat \ {0}
    /\ MaxCommits \in Nat /\ MaxRestores \in Nat /\ MaxBackups \in Nat
    /\ Free \notin Procs
    /\ None \notin Seq(Nat \cup {None}) /\ Damaged \notin Seq(Nat)

State  == [Pages -> Nat]                        \* what a transaction sees
Blank  == [k \in Pages |-> 0]                   \* a file without content
NoFrames == [k \in {} |-> 0]
View(file, frames) == [k \in Pages |-> IF k \in DOMAIN frames THEN frames[k] ELSE file[k]]
Latest == log[Len(log)]

Partial == [state |-> "partial", by |-> None, sha256 |-> None, db |-> None,
            since |-> 0, fair |-> "no"]
Archive == [state: {"partial", "complete"}, by: Procs \cup {None},
            sha256: State \cup {None}, db: State \cup {None, Damaged},
            since: Nat, fair: {"yes", "no"}]

Labels == {"idle", "write", "written", "header", "checkpoint", "full", "copied", "read",
           "archive", "zip", "tmp", "tmp_write", "db_write", "lost_write", "rename"}
Closing == {"write", "written", "header", "copied"}     \* about to drop a connection

TypeOK ==
    /\ db \in State
    /\ DOMAIN wal \subseteq Pages /\ wal \in [DOMAIN wal -> Nat]
    /\ conns \subseteq Procs /\ lock \in Procs \cup {Free} /\ stale \subseteq conns
    /\ zip \in Archive \cup {None}
    /\ tmp \in State \cup {None}
    /\ pc \in [Procs -> Labels]
    /\ data \in [Procs -> Seq(Nat)]
    /\ commits \in Nat /\ restores \in Nat /\ backups \in Nat
    /\ log \in Seq(State) /\ log # <<>>
    /\ since \in [Procs -> Nat]
    /\ fair \subseteq Procs
    /\ taken \subseteq State
    /\ disturbed \subseteq {"log", "restores"}

Init ==
    /\ db = [k \in Pages |-> 1] /\ wal = NoFrames
    /\ conns = {} /\ lock = Free /\ stale = {}
    /\ zip = None /\ tmp = None
    /\ pc = [p \in Procs |-> "idle"] /\ data = [p \in Procs |-> <<>>]
    /\ commits = 0 /\ restores = 0 /\ backups = 0
    /\ log = <<[k \in Pages |-> 1]>>
    /\ since = [p \in Procs |-> 0]
    /\ fair = {} /\ taken = {} /\ disturbed = {}

Goto(p, l) == pc' = [pc EXCEPT ![p] = l]
Is(p, l)   == pc[p] = l

-----------------------------------------------------------------------------
(* SQLite, as the store and create_backup use it                           *)

\* A connection that closes last has the file for itself.
Connect(p) ==
    /\ \A q \in Procs : lock = q => Is(q, "full") \/ q \in stale
    /\ conns' = conns \cup {p}

\* A store call that writes
OpenWrite(p) ==
    /\ Is(p, "idle") /\ Connect(p) /\ Goto(p, "write")
    /\ UNCHANGED <<db, wal, lock, stale, zip, tmp, data, counters, hist>>

\* Its transaction, of the pages in S
Commit(p, S) ==
    /\ Is(p, "write") /\ lock = Free
    /\ commits < MaxCommits /\ commits' = commits + 1
    /\ wal' = [k \in S \cup DOMAIN wal |-> IF k \in S THEN commits + 2 ELSE wal[k]]
    /\ log' = Append(log, View(db, wal'))
    /\ Goto(p, "written")
    /\ UNCHANGED <<db, conns, lock, stale, zip, tmp, data, restores, backups, since, fair, taken,
                   disturbed>>

\* The last connection to the file at the vault's path
Last(p) == conns \ stale = {p}

\* It copies the log into the file before it goes.
CloseLast(p) ==
    /\ pc[p] \in Closing /\ Last(p)
    /\ lock = Free /\ lock' = p
    /\ UNCHANGED <<db, wal, conns, stale, zip, tmp, pc, data, counters, hist>>

\* One page.  A backup past its checkpoint may read this page and not the next.
CopyPage(p, k) ==
    /\ lock = p /\ p \notin stale
    /\ k \in DOMAIN wal /\ db[k] # wal[k]
    /\ db' = [db EXCEPT ![k] = wal[k]]
    /\ fair' = {q \in fair : q = p \/ pc[q] \notin {"copied", "read"}}
    /\ UNCHANGED <<wal, conns, lock, stale, zip, tmp, pc, data, counters, log, since, taken,
                   disturbed>>

\* The copy is complete, be it one into a file that was replaced meanwhile.
Copied(p) == p \in stale \/ \A k \in DOMAIN wal : db[k] = wal[k]

\* Mutation: create_backup reads the file without a checkpoint of its own.
AfterCloseUncheckpointed(l) ==
    CASE l \in {"write", "written"} -> "idle" [] l \in {"header", "copied"} -> "read"

\* What a command does after it dropped the connection of label l
AfterClose(l) ==
    CASE l \in {"write", "written"} -> "idle"
      [] l = "header" -> "checkpoint"
      [] l = "copied" -> "read"

Close(p) ==
    /\ pc[p] \in Closing
    /\ \/ lock # p /\ ~Last(p) /\ UNCHANGED <<wal, lock>>
       \/ lock = p /\ Copied(p) /\ wal' = NoFrames /\ lock' = Free
    /\ conns' = conns \ {p} /\ stale' = stale \ {p}
    /\ Goto(p, AfterClose(pc[p]))
    /\ UNCHANGED <<db, zip, tmp, data, counters, hist>>

-----------------------------------------------------------------------------
(* create_backup                                                           *)

\* load_header
BackupStart(p) ==
    /\ Is(p, "idle") /\ Connect(p) /\ Goto(p, "header")
    /\ backups < MaxBackups /\ backups' = backups + 1
    /\ since' = [since EXCEPT ![p] = Len(log)]
    /\ fair' = fair \cup {p}
    /\ UNCHANGED <<db, wal, lock, stale, zip, tmp, data, commits, restores, log, taken, disturbed>>

\* checkpoint_database: a connection, PRAGMA wal_checkpoint = FULL
CheckpointOpen(p) ==
    /\ Is(p, "checkpoint") /\ Connect(p) /\ Goto(p, "full")
    /\ UNCHANGED <<db, wal, lock, stale, zip, tmp, data, counters, hist>>

FullStart(p) ==
    /\ Is(p, "full")
    /\ lock = Free /\ lock' = p
    /\ UNCHANGED <<db, wal, conns, stale, zip, tmp, pc, data, counters, hist>>

\* The frames are marked as copied, also those that went into a replaced file.
FullDone(p) ==
    /\ Is(p, "full") /\ lock = p /\ Copied(p)
    /\ lock' = Free
    /\ wal' = IF p \in stale THEN NoFrames ELSE wal
    /\ Goto(p, "copied")
    /\ UNCHANGED <<db, conns, stale, zip, tmp, data, counters, hist>>

\* Another connection is in the way: the pragma returns a row that says so, which
\* pragma_update ignores.
FullBusy(p) ==
    /\ Is(p, "full") /\ lock # p /\ conns # {p}
    /\ Goto(p, "copied")
    /\ fair' = fair \ {p}
    /\ UNCHANGED <<sqlite, zip, tmp, data, counters, log, since, taken, disturbed>>

\* Mutation: the last page is not read.
ReadPageShort(p) ==
    /\ Is(p, "read")
    /\ data' = [data EXCEPT ![p] = Append(@, db[Len(@) + 1])]
    /\ Goto(p, IF Len(data'[p]) = NPages - 1 THEN "archive" ELSE "read")
    /\ UNCHANGED <<sqlite, zip, tmp, counters, hist>>

\* fs::read, page by page, without a lock
ReadPage(p) ==
    /\ Is(p, "read")
    /\ data' = [data EXCEPT ![p] = Append(@, db[Len(@) + 1])]
    /\ Goto(p, IF Len(data'[p]) = NPages THEN "archive" ELSE "read")
    /\ UNCHANGED <<sqlite, zip, tmp, counters, hist>>

\* create_private_file truncates the archive of an earlier backup.
CreateArchive(p) ==
    /\ Is(p, "archive") /\ Goto(p, "zip")
    /\ zip' = [Partial EXCEPT !.by = p]
    /\ UNCHANGED <<sqlite, tmp, data, counters, hist>>

\* The command holds nothing any more.
Finish(p) ==
    /\ Goto(p, "idle")
    /\ data' = [data EXCEPT ![p] = <<>>]
    /\ since' = [since EXCEPT ![p] = 0]
    /\ fair' = fair \ {p}

\* ZipWriter::finish, with the hash of what was read; two writers of one file spoil it.
FinishArchive(p) ==
    /\ Is(p, "zip") /\ Finish(p)
    /\ zip' = IF zip = [Partial EXCEPT !.by = p]
              THEN [state |-> "complete", by |-> None, sha256 |-> data[p], db |-> data[p],
                    since |-> since[p],
                    fair |-> IF p \in fair /\ disturbed = {} THEN "yes" ELSE "no"]
              ELSE Partial
    /\ taken' = taken \cup {data[p]}
    /\ UNCHANGED <<sqlite, tmp, counters, log, disturbed>>

\* The medium of the archive goes bad.
DamageArchive ==
    /\ zip # None /\ zip.state = "complete"
    /\ zip' = [zip EXCEPT !.db = Damaged]
    /\ UNCHANGED <<sqlite, tmp, pc, data, counters, hist>>

-----------------------------------------------------------------------------
(* restore_backup                                                          *)

Filling   == {"tmp_write", "db_write", "lost_write"}    \* the file is open, to be written
Restoring == {"tmp", "rename"} \cup Filling

\* Mutation: the hash of the manifest is not compared.
AcceptedUnhashed(z) == z # None /\ z.state = "complete"

\* The archive opens, has its two members, and the hash of the manifest.
Accepted(z) == z # None /\ z.state = "complete" /\ z.db = z.sha256

RestoreRead(p) ==
    /\ Is(p, "idle")
    /\ restores < MaxRestores /\ restores' = restores + 1
    /\ Accepted(zip)
    /\ data' = [data EXCEPT ![p] = zip.db]
    /\ Goto(p, "tmp")
    /\ UNCHANGED <<sqlite, zip, tmp, commits, backups, hist>>

\* Mutation: restore writes to the vault's path itself.
CreateTmpInPlace(p) ==
    /\ Is(p, "tmp") /\ Goto(p, "tmp_write")
    /\ tmp' = Blank
    /\ db' = [db EXCEPT ![1] = data[p][1]]
    /\ UNCHANGED <<wal, conns, lock, stale, zip, data, counters, hist>>

\* fs::write creates the temporary file, or truncates the one that is there, be it that
\* of another restore, and then fills it.
CreateTmp(p) ==
    /\ Is(p, "tmp") /\ Goto(p, "tmp_write")
    /\ tmp' = Blank
    /\ disturbed' = IF \E q \in Procs : pc[q] \in Filling \cup {"rename"}
                    THEN disturbed \cup {"restores"} ELSE disturbed
    /\ UNCHANGED <<sqlite, zip, data, counters, log, since, fair, taken>>

\* The file that was opened may have been renamed to the vault's path since, and
\* replaced there.
WriteTmp(p) ==
    /\ pc[p] \in Filling /\ Goto(p, "rename")
    /\ tmp' = IF Is(p, "tmp_write") THEN data[p] ELSE tmp
    /\ db' = IF Is(p, "db_write") THEN data[p] ELSE db
    /\ UNCHANGED <<wal, conns, lock, stale, zip, data, counters, hist>>

\* A backup that is in the middle of the old file goes on reading it.
MidFile(q) == Is(q, "read") /\ data[q] # <<>>

\* What the rename by p means for the others
AfterRename(q) ==
    CASE Is(q, "tmp_write") -> "db_write"
      [] Is(q, "db_write") -> "lost_write"
      [] MidFile(q) -> "archive"
      [] OTHER -> pc[q]

\* fs::rename, and the restore reports what it has read from the archive.
Rename(p) ==
    /\ Is(p, "rename") /\ tmp # None
    /\ db' = tmp /\ tmp' = None
    /\ stale' = conns
    /\ log' = Append(log, data[p])
    /\ disturbed' = IF wal = NoFrames /\ conns = {} THEN disturbed ELSE disturbed \cup {"log"}
    /\ pc' = [q \in Procs |-> IF q = p THEN "idle" ELSE AfterRename(q)]
    /\ data' = [q \in Procs |->
                  IF q = p THEN <<>>
                  ELSE IF MidFile(q) THEN data[q] \o SubSeq(db, Len(data[q]) + 1, NPages)
                       ELSE data[q]]
    /\ UNCHANGED <<wal, conns, lock, zip, counters, since, fair, taken>>

\* Another restore has renamed the file away: set_permissions or fs::rename fails.
RenameFails(p) ==
    /\ Is(p, "rename") /\ tmp = None /\ Finish(p)
    /\ UNCHANGED <<sqlite, zip, tmp, counters, log, taken, disturbed>>

-----------------------------------------------------------------------------
\* A command is killed: its connection is gone, the log and the files stay.
Crash(p) ==
    /\ ~Is(p, "idle") /\ Finish(p)
    /\ conns' = conns \ {p} /\ stale' = stale \ {p}
    /\ lock' = IF lock = p THEN Free ELSE lock
    /\ UNCHANGED <<db, wal, zip, tmp, counters, log, taken, disturbed>>

Next ==
    \/ \E p \in Procs :
          \/ OpenWrite(p)
          \/ \E S \in SUBSET Pages \ {{}} : Commit(p, S)
          \/ CloseLast(p) \/ Close(p)
          \/ \E k \in Pages : CopyPage(p, k)
          \/ BackupStart(p) \/ CheckpointOpen(p) \/ FullStart(p) \/ FullDone(p) \/ FullBusy(p)
          \/ ReadPage(p) \/ CreateArchive(p) \/ FinishArchive(p)
          \/ RestoreRead(p) \/ CreateTmp(p) \/ WriteTmp(p) \/ Rename(p) \/ RenameFails(p)
          \/ Crash(p)
    \/ DamageArchive

Spec == Init /\ [][Next]_vars

-----------------------------------------------------------------------------
(* Properties                                                              *)

\* Whatever is killed, in the middle of a checkpoint or of a restore, the next command
\* sees the state of the last commit or of the last restore that reported: a restore that
\* has the vault and the temporary file to itself replaces the vault in one step, or not
\* at all.
VaultIsWhole == disturbed = {} => View(db, wal) = Latest

\* restore_backup brings back nothing but what a backup once read: no half-written
\* archive, none whose content no longer has the hash of its manifest, and no
\* half-written temporary file left by a restore that was killed, as long as two
\* restores do not use it at a time.
OnlyBackupsRestored ==
    \A p \in Procs :
        /\ pc[p] \in Restoring => data[p] \in taken
        /\ pc[p] = "rename" /\ "restores" \notin disturbed => tmp \in taken

\* create_backup reads the bare file.  If its checkpoint was not refused and no other
\* command copied the log into the file since, nor a restore met a log, a connection or
\* another restore, the archive holds one state of the vault, with
\* every transaction that was committed before the backup began.
BackupIsComplete ==
    zip # None /\ zip.fair = "yes" =>
        \E i \in zip.since..Len(log) : log[i] = zip.sha256

\* A restore undoes: the commands after it see exactly the state of the archive, also
\* beside commands that are running or were killed.
RestoreYieldsBackup == "restores" \notin disturbed => View(db, wal) = Latest
===============================================================================
