----------------------------- MODULE BackupProofs -----------------------------
(***************************************************************************)
(* Theorems about module Backup, for every number of commands, pages,      *)
(* transactions, backups and restores.                                     *)
(***************************************************************************)
EXTENDS Backup, TLAPS

-----------------------------------------------------------------------------
(* The inductive invariant.                                                *)

\* A command that reads has not read all pages; one that archives or restores holds
\* all of them; any other holds none.
Holding == {"archive", "zip"} \cup Restoring
Bytes ==
    \A p \in Procs :
        /\ pc[p] = "read" => Len(data[p]) < NPages
        /\ pc[p] \in Holding => data[p] \in State
        /\ pc[p] \notin Holding \cup {"read"} => data[p] = <<>>

\* As long as restores have not met: one at a time has the temporary file, which is still
\* the one it opened, and what it renames is what it has read.
OneRestore ==
    "restores" \notin disturbed =>
        /\ \A p, q \in Procs : pc[p] \in Filling \cup {"rename"} /\ pc[q] \in Filling \cup {"rename"}
                              => p = q
        /\ \A p \in Procs : pc[p] \notin {"db_write", "lost_write"}
        /\ \A p \in Procs : pc[p] = "rename" => tmp = data[p]

\* Who copies the log has a connection, the only one to its file if it is closing; and a
\* file is replaced under a connection only by a restore that counts as disturbed.
Locking ==
    /\ \A p \in Procs : p \in conns <=> pc[p] \in Closing \cup {"full"}
    /\ \A p \in Procs : lock = p => p \in conns
    /\ \A p \in Procs : lock = p /\ pc[p] \in Closing => p \in stale \/ Last(p)
    /\ "log" \notin disturbed => stale = {}

\* A complete archive holds what a backup has read.
Archived ==
    zip # None =>
        /\ zip.state = "complete" => zip.sha256 \in State /\ zip.sha256 \in taken
        /\ zip.state = "partial" => zip.fair = "no"
        /\ zip.fair = "yes" => zip.since > 0

\* x was the state of the vault at commit n or later.
Had(n, x) == \E i \in n..Len(log) : log[i] = x

\* Where a backup stands that nothing got in the way of: its checkpoint brings the
\* file to a state the vault had since the backup began, and what it reads is that.
FairBackup(p) ==
    /\ pc[p] \in {"header", "checkpoint", "full", "copied", "read", "archive", "zip"}
    /\ since[p] \in 1..Len(log)
    /\ pc[p] = "copied" /\ lock # p => Had(since[p], db)
    /\ pc[p] = "read" => /\ Had(since[p], db)
                         /\ \A k \in 1..Len(data[p]) : data[p][k] = db[k]
    /\ pc[p] \in {"archive", "zip"} => Had(since[p], data[p])

Fairness == disturbed = {} => \A p \in fair : FairBackup(p)

IInv ==
    /\ TypeOK /\ Bytes /\ OneRestore /\ Locking /\ Archived /\ Fairness
    /\ VaultIsWhole /\ OnlyBackupsRestored /\ BackupIsComplete

-----------------------------------------------------------------------------
(* Facts about the operators                                               *)

\* A state of the vault is a sequence of NPages numbers, and back.
LEMMA StateIsSeq ==
    /\ State \subseteq Seq(Nat)
    /\ \A s \in State : Len(s) = NPages
    /\ \A s \in Seq(Nat) : Len(s) = NPages => s \in State
<1>1. NPages \in Nat
  BY BackupAssumption
<1>2. ASSUME NEW s \in State PROVE s \in Seq(Nat) /\ Len(s) = NPages
  BY <1>1 DEF State, Pages
<1>3. ASSUME NEW s \in Seq(Nat), Len(s) = NPages PROVE s \in State
  BY <1>1, <1>3 DEF State, Pages
<1> QED BY <1>2, <1>3

\* An empty file is a state, without the vault.
LEMMA BlankIsState == Blank \in State
BY DEF Blank, State

\* Two states are equal if their pages are.
LEMMA SamePages ==
    ASSUME NEW f \in State, NEW g \in State, \A k \in Pages : f[k] = g[k]
    PROVE  f = g
BY DEF State

\* What a reader of the old file ends with, whatever of it it had read: the old file.
LEMMA RestOfFile ==
    ASSUME NEW f \in State, NEW d \in Seq(Nat), Len(d) < NPages
    PROVE  /\ d \o SubSeq(f, Len(d) + 1, NPages) \in State
           /\ (\A k \in 1..Len(d) : d[k] = f[k]) => d \o SubSeq(f, Len(d) + 1, NPages) = f
<1> DEFINE t == SubSeq(f, Len(d) + 1, NPages)
           r == d \o t
<1>1. NPages \in Nat /\ f \in Seq(Nat) /\ Len(f) = NPages
  BY BackupAssumption, StateIsSeq
<1>2. t \in Seq(Nat) /\ Len(t) = NPages - Len(d)
  BY <1>1
<1>3. r \in Seq(Nat) /\ Len(r) = NPages
  BY <1>1, <1>2
<1>4. \A k \in 1..NPages : r[k] = IF k \in 1..Len(d) THEN d[k] ELSE f[k]
  BY <1>1, <1>2
<1>5. r \in State
  BY <1>3, StateIsSeq
<1>6. ASSUME \A k \in 1..Len(d) : d[k] = f[k] PROVE r = f
  <2>1. \A k \in 1..NPages : r[k] = f[k]
    BY <1>4, <1>6
  <2> HIDE DEF r
  <2> QED BY <2>1, <1>5, SamePages DEF Pages
<1> QED BY <1>5, <1>6

\* A view is a state of the vault.
LEMMA ViewIsState ==
    ASSUME NEW f \in State, NEW w, DOMAIN w \subseteq Pages, w \in [DOMAIN w -> Nat]
    PROVE  View(f, w) \in State
BY DEF View, State

\* A file into which the whole log was copied is what a transaction sees.
LEMMA CopiedIsView ==
    ASSUME NEW f \in State, NEW w, DOMAIN w \subseteq Pages, w \in [DOMAIN w -> Nat],
           \A k \in DOMAIN w : f[k] = w[k]
    PROVE  View(f, w) = f
<1>1. \A k \in Pages : View(f, w)[k] = f[k]
  BY DEF View
<1> QED BY <1>1, ViewIsState, SamePages

\* The history has a last state.
LEMMA HistoryStarts ==
    ASSUME NEW s \in Seq(State), s # <<>>
    PROVE  Len(s) \in Nat /\ Len(s) > 0
OBVIOUS

\* The history after one more commit or restore
LEMMA LogGrows ==
    ASSUME NEW s \in Seq(State), NEW x \in State
    PROVE  /\ Append(s, x) \in Seq(State) /\ Append(s, x) # <<>>
           /\ Len(Append(s, x)) = Len(s) + 1
           /\ Append(s, x)[Len(s) + 1] = x
           /\ \A i \in 1..Len(s) : Append(s, x)[i] = s[i]
OBVIOUS

-----------------------------------------------------------------------------
(* Types                                                                   *)

\* Every step keeps the types.
LEMMA TypeStep == IInv /\ Next => TypeOK'
<1> SUFFICES ASSUME IInv, Next PROVE TypeOK'
  OBVIOUS
<1>t. TypeOK /\ Bytes /\ Archived
  BY DEF IInv
<1>1. ASSUME NEW p \in Procs,
             OpenWrite(p) \/ CloseLast(p) \/ CheckpointOpen(p) \/ FullStart(p) \/ FullBusy(p)
      PROVE  TypeOK'
  BY <1>1, <1>t DEF TypeOK, OpenWrite, CloseLast, CheckpointOpen, FullStart, FullBusy,
     Connect, Goto, Labels, sqlite, counters, hist
<1>1b. ASSUME NEW p \in Procs, FullDone(p) PROVE TypeOK'
  <2>1. DOMAIN wal' \subseteq Pages /\ wal' \in [DOMAIN wal' -> Nat]
    BY <1>1b, <1>t DEF TypeOK, FullDone, NoFrames
  <2> QED BY <1>1b, <1>t, <2>1 DEF TypeOK, FullDone, Goto, Labels, counters, hist
<1>1a. ASSUME NEW p \in Procs, CreateTmp(p) PROVE TypeOK'
  BY <1>1a, <1>t, BlankIsState DEF TypeOK, CreateTmp, Goto, Labels, sqlite, counters
<1>2. ASSUME NEW p \in Procs, NEW S \in SUBSET Pages, Commit(p, S) PROVE TypeOK'
  <2>1. DOMAIN wal' \subseteq Pages /\ wal' \in [DOMAIN wal' -> Nat]
    BY <1>2, <1>t DEF TypeOK, Commit
  <2>2. View(db, wal') \in State
    BY <1>t, <2>1, ViewIsState DEF TypeOK
  <2>3. log' = Append(log, View(db, wal')) /\ log \in Seq(State)
    BY <1>2, <1>t DEF TypeOK, Commit
  <2>4. log' \in Seq(State) /\ log' # <<>>
    BY <2>2, <2>3, LogGrows
  <2>5. commits' \in Nat /\ pc' \in [Procs -> Labels]
    BY <1>2, <1>t DEF TypeOK, Commit, Goto, Labels
  <2> QED BY <1>2, <1>t, <2>1, <2>4, <2>5 DEF TypeOK, Commit
<1>3. ASSUME NEW p \in Procs, Close(p) PROVE TypeOK'
  BY <1>3, <1>t DEF TypeOK, Close, Closing, AfterClose, Goto, Labels, NoFrames, counters, hist
<1>4. ASSUME NEW p \in Procs, NEW k \in Pages, CopyPage(p, k) PROVE TypeOK'
  BY <1>4, <1>t DEF TypeOK, CopyPage, State, counters
<1>5. ASSUME NEW p \in Procs, BackupStart(p) PROVE TypeOK'
  BY <1>5, <1>t, SMTT(30) DEF TypeOK, BackupStart, Connect, Goto, Labels
<1>6. ASSUME NEW p \in Procs, ReadPage(p) PROVE TypeOK'
  <2>1. db[Len(data[p]) + 1] \in Nat
    BY <1>6, <1>t, BackupAssumption DEF TypeOK, ReadPage, Is, Bytes, State, Pages
  <2>2. data' \in [Procs -> Seq(Nat)]
    BY <1>6, <1>t, <2>1 DEF TypeOK, ReadPage
  <2> QED BY <1>6, <1>t, <2>2 DEF TypeOK, ReadPage, Goto, Labels, sqlite, counters, hist
<1>7. ASSUME NEW p \in Procs, CreateArchive(p) PROVE TypeOK'
  <2>1. zip' \in Archive
    BY <1>7 DEF CreateArchive, Partial, Archive
  <2> QED BY <1>7, <1>t, <2>1 DEF TypeOK, CreateArchive, Goto, Labels, sqlite, counters, hist
<1>8. ASSUME NEW p \in Procs, FinishArchive(p) PROVE TypeOK'
  <2>1. data[p] \in State /\ since[p] \in Nat
    BY <1>8, <1>t DEF TypeOK, FinishArchive, Is, Bytes, Holding
  <2>2. zip' \in Archive
    BY <1>8, <2>1 DEF FinishArchive, Partial, Archive
  <2> QED BY <1>8, <1>t, <2>1, <2>2 DEF TypeOK, FinishArchive, Finish, Goto, Labels, sqlite,
          counters
<1>9. ASSUME NEW p \in Procs, RestoreRead(p) PROVE TypeOK'
  <2>1. zip.db \in Seq(Nat)
    BY <1>9, <1>t, StateIsSeq DEF TypeOK, RestoreRead, Accepted, Archived
  <2> QED BY <1>9, <1>t, <2>1, SMTT(30) DEF TypeOK, RestoreRead, Goto, Labels, sqlite, hist
<1>10. ASSUME NEW p \in Procs, WriteTmp(p) PROVE TypeOK'
  <2>1. data[p] \in State
    BY <1>10, <1>t DEF TypeOK, WriteTmp, Bytes, Holding, Restoring
  <2> QED BY <1>10, <1>t, <2>1 DEF TypeOK, WriteTmp, Goto, Labels, counters, hist
<1>11. ASSUME NEW p \in Procs, Rename(p) PROVE TypeOK'
  <2>1. tmp \in State /\ data[p] \in State
    BY <1>11, <1>t DEF TypeOK, Rename, Is, Bytes, Holding, Restoring
  <2>2. ASSUME NEW q \in Procs PROVE data'[q] \in Seq(Nat) /\ pc'[q] \in Labels
    <3>1. MidFile(q) =>
            data[q] \o SubSeq(db, Len(data[q]) + 1, NPages) \in Seq(Nat)
      BY <1>t, RestOfFile, StateIsSeq DEF TypeOK, Bytes, MidFile, Is
    <3>2. data'[q] \in Seq(Nat)
      BY <1>11, <1>t, <3>1 DEF TypeOK, Rename
    <3>3. pc'[q] \in Labels
      BY <1>11, <1>t DEF TypeOK, Rename, AfterRename, Labels
    <3> QED BY <3>2, <3>3
  <2>3. data' \in [Procs -> Seq(Nat)] /\ pc' \in [Procs -> Labels]
    BY <1>11, <2>2 DEF Rename
  <2>4. log' \in Seq(State) /\ log' # <<>>
    BY <1>11, <1>t, <2>1, LogGrows DEF TypeOK, Rename
  <2> QED BY <1>11, <1>t, <2>1, <2>3, <2>4 DEF TypeOK, Rename, counters
<1>12. ASSUME NEW p \in Procs, Crash(p) \/ RenameFails(p) PROVE TypeOK'
  <2>1. CASE Crash(p)
    BY <2>1, <1>t DEF TypeOK, Crash, Finish, Goto, Labels, counters
  <2>2. CASE RenameFails(p)
    BY <2>2, <1>t DEF TypeOK, RenameFails, Finish, Goto, Labels, sqlite, counters
  <2> QED BY <1>12, <2>1, <2>2
<1>13. ASSUME DamageArchive PROVE TypeOK'
  <2>1. zip \in Archive
    BY <1>13, <1>t DEF TypeOK, DamageArchive
  <2>2. zip' \in Archive
    BY <1>13, <2>1 DEF DamageArchive, Archive
  <2> QED BY <1>13, <1>t, <2>2 DEF TypeOK, DamageArchive, sqlite, counters, hist
<1> QED BY <1>1, <1>1a, <1>1b, <1>2, <1>3, <1>4, <1>5, <1>6, <1>7, <1>8, <1>9, <1>10, <1>11, <1>12, <1>13
        DEF Next

-----------------------------------------------------------------------------
(* What commands hold, and who holds the file                              *)

\* A reader has some pages, an archiver and a restorer all of them, after every step.
LEMMA BytesStep == IInv /\ Next => Bytes'
<1> SUFFICES ASSUME IInv, Next PROVE Bytes'
  OBVIOUS
<1>t. TypeOK /\ Bytes /\ Archived /\ TypeOK'
  BY TypeStep DEF IInv
<1>n. NPages \in Nat \ {0}
  BY BackupAssumption
<1>1. ASSUME NEW p \in Procs,
             OpenWrite(p) \/ CloseLast(p) \/ CheckpointOpen(p) \/ FullStart(p)
               \/ FullDone(p) \/ FullBusy(p) \/ BackupStart(p)
      PROVE  Bytes'
  <2>1. data' = data
    BY <1>1 DEF OpenWrite, CloseLast, CheckpointOpen, FullStart, FullDone, FullBusy, BackupStart
  <2>2. \/ pc' = pc
        \/ /\ pc[p] \in {"idle", "checkpoint", "full"}
           /\ \E l \in {"write", "header", "full", "copied"} : Goto(p, l)
    BY <1>1 DEF OpenWrite, CloseLast, CheckpointOpen, FullStart, FullDone, FullBusy, BackupStart, Is
  <2>3. \A q \in Procs :
           \/ pc'[q] = pc[q]
           \/ /\ pc[q] \notin Holding \cup {"read"} /\ pc'[q] \notin Holding \cup {"read"}
    BY <2>2, <1>t DEF TypeOK, Goto, Holding, Restoring, Filling
  <2> QED BY <2>1, <2>3, <1>t DEF Bytes
<1>c. ASSUME NEW p \in Procs, Close(p) PROVE Bytes'
  <2>1. /\ data' = data /\ data[p] = <<>>
        /\ pc'[p] \in {"idle", "checkpoint", "read"}
        /\ \A q \in Procs \ {p} : pc'[q] = pc[q]
    BY <1>c, <1>t DEF TypeOK, Bytes, Holding, Restoring, Filling, Close, Closing, AfterClose, Goto
  <2> QED BY <1>t, <1>n, <2>1 DEF Bytes, Holding, Restoring, Filling
<1>2. ASSUME NEW p \in Procs, NEW S \in SUBSET Pages, Commit(p, S) PROVE Bytes'
  BY <1>2, <1>t DEF TypeOK, Bytes, Holding, Restoring, Filling, Commit, Goto, Is
<1>3. ASSUME NEW p \in Procs, NEW k \in Pages, CopyPage(p, k) PROVE Bytes'
  BY <1>3, <1>t DEF Bytes, CopyPage
<1>4. ASSUME NEW p \in Procs, ReadPage(p) PROVE Bytes'
  <2>1. data[p] \in Seq(Nat) /\ Len(data[p]) < NPages
    BY <1>4, <1>t DEF TypeOK, Bytes, ReadPage, Is
  <2>2. data'[p] \in Seq(Nat) /\ Len(data'[p]) = Len(data[p]) + 1
    BY <1>4, <1>t, <2>1 DEF TypeOK, ReadPage
  <2>3. pc'[p] = IF Len(data'[p]) = NPages THEN "archive" ELSE "read"
    BY <1>4, <1>t DEF TypeOK, ReadPage, Goto
  <2>4. pc'[p] = "archive" => data'[p] \in State
    BY <2>2, <2>3, StateIsSeq
  <2>5. pc'[p] = "read" => Len(data'[p]) < NPages
    BY <2>1, <2>2, <2>3, <1>n
  <2>6. \A q \in Procs \ {p} : pc'[q] = pc[q] /\ data'[q] = data[q]
    BY <1>4, <1>t DEF TypeOK, ReadPage, Goto
  <2> QED BY <2>3, <2>4, <2>5, <2>6, <1>t DEF Bytes, Holding, Restoring, Filling
<1>5. ASSUME NEW p \in Procs, CreateArchive(p) \/ CreateTmp(p) \/ WriteTmp(p) PROVE Bytes'
  <2>1. /\ data' = data /\ pc[p] \in Holding /\ pc'[p] \in Holding
        /\ \A q \in Procs \ {p} : pc'[q] = pc[q]
    BY <1>5, <1>t DEF TypeOK, Holding, Restoring, Filling, CreateArchive, CreateTmp, WriteTmp, Goto, Is
  <2> QED BY <2>1, <1>t DEF Bytes, Holding, Restoring, Filling
<1>6. ASSUME NEW p \in Procs, FinishArchive(p) \/ Crash(p) \/ RenameFails(p) PROVE Bytes'
  <2>1. /\ pc'[p] = "idle" /\ data'[p] = <<>>
        /\ \A q \in Procs \ {p} : pc'[q] = pc[q] /\ data'[q] = data[q]
    BY <1>6, <1>t DEF TypeOK, FinishArchive, Crash, RenameFails, Finish, Goto
  <2> QED BY <2>1, <1>t DEF Bytes, Holding, Restoring, Filling
<1>7. ASSUME NEW p \in Procs, RestoreRead(p) PROVE Bytes'
  <2>1. zip.db \in State
    BY <1>7, <1>t DEF RestoreRead, Accepted, Archived
  <2> QED BY <1>7, <1>t, <2>1 DEF TypeOK, Bytes, Holding, Restoring, RestoreRead, Goto, Is
<1>8. ASSUME NEW p \in Procs, Rename(p) PROVE Bytes'
  <2>1. \A q \in Procs : MidFile(q) =>
             data[q] \o SubSeq(db, Len(data[q]) + 1, NPages) \in State
    BY <1>t, RestOfFile DEF TypeOK, Bytes, MidFile, Is
  <2>2. ASSUME NEW q \in Procs
        PROVE  /\ q = p => data'[q] = <<>> /\ pc'[q] = "idle"
               /\ q # p /\ MidFile(q) => data'[q] \in State /\ pc'[q] = "archive"
               /\ q # p /\ ~MidFile(q) => data'[q] = data[q] /\ pc'[q] = AfterRename(q)
    BY <1>8, <2>1 DEF Rename, AfterRename, MidFile, Is
  <2>3. ASSUME NEW q \in Procs, ~MidFile(q)
        PROVE  AfterRename(q) = pc[q] \/ (AfterRename(q) \in Filling /\ pc[q] \in Filling)
    BY <2>3 DEF AfterRename, Filling, Is
  <2> QED BY <2>2, <2>3, <1>t DEF Bytes, Holding, Restoring, Filling
<1>9. ASSUME DamageArchive PROVE Bytes'
  BY <1>9, <1>t DEF Bytes, DamageArchive
<1> QED BY <1>1, <1>c, <1>2, <1>3, <1>4, <1>5, <1>6, <1>7, <1>8, <1>9 DEF Next

\* A restore that met a log or another restore stays on record.
LEMMA DisturbedGrows == ASSUME Next PROVE disturbed \subseteq disturbed'
BY ZenonT(40) DEF Next, OpenWrite, CloseLast, Close, CheckpointOpen, FullStart, FullDone, FullBusy,
   BackupStart, Commit, CopyPage, ReadPage, CreateArchive, FinishArchive, DamageArchive,
   RestoreRead, CreateTmp, WriteTmp, Rename, RenameFails, Crash, hist

\* A step of a command that does not restore leaves every restore where it is.
LEMMA OtherSteps ==
    ASSUME TypeOK, NEW p \in Procs,
           \/ OpenWrite(p) \/ CloseLast(p) \/ Close(p) \/ CheckpointOpen(p) \/ FullStart(p)
           \/ FullDone(p) \/ FullBusy(p) \/ BackupStart(p)
           \/ \E S \in SUBSET Pages : Commit(p, S)
           \/ \E k \in Pages : CopyPage(p, k)
           \/ ReadPage(p) \/ CreateArchive(p) \/ FinishArchive(p)
    PROVE  /\ tmp' = tmp /\ disturbed' = disturbed
           /\ \A q \in Procs : pc'[q] \in Restoring => pc'[q] = pc[q] /\ data'[q] = data[q]
<1>1. CASE OpenWrite(p) \/ CloseLast(p) \/ Close(p) \/ CheckpointOpen(p) \/ FullStart(p)
             \/ FullDone(p) \/ FullBusy(p) \/ BackupStart(p)
  <2>1. UNCHANGED <<tmp, data, disturbed>>
    BY <1>1 DEF OpenWrite, CloseLast, Close, CheckpointOpen, FullStart, FullDone, FullBusy,
       BackupStart, hist
  <2>2. pc' = pc \/ \E l \in Labels \ Restoring : Goto(p, l)
    BY <1>1 DEF Labels, Restoring, Filling, OpenWrite, CloseLast, Close, CheckpointOpen, FullStart,
       FullDone, FullBusy, BackupStart, AfterClose, Closing, Is
  <2> QED BY <2>1, <2>2 DEF TypeOK, Goto
<1>2. ASSUME NEW S \in SUBSET Pages, Commit(p, S)
      PROVE  /\ UNCHANGED <<tmp, data, disturbed>>
             /\ \A q \in Procs : pc'[q] \in Restoring => pc'[q] = pc[q]
  BY <1>2 DEF TypeOK, Restoring, Filling, Commit, Goto
<1>3. ASSUME NEW k \in Pages, CopyPage(p, k) PROVE UNCHANGED <<tmp, data, disturbed, pc>>
  BY <1>3 DEF CopyPage
<1>4. CASE ReadPage(p)
  BY <1>4 DEF TypeOK, Restoring, Filling, ReadPage, Goto, hist
<1>5. CASE CreateArchive(p)
  BY <1>5 DEF TypeOK, Restoring, Filling, CreateArchive, Goto, hist
<1>6. CASE FinishArchive(p)
  BY <1>6 DEF TypeOK, Restoring, Filling, FinishArchive, Finish, Goto
<1> QED BY <1>1, <1>2, <1>3, <1>4, <1>5, <1>6

\* Restores that have not met keep the temporary file apart, after every step.
LEMMA OneRestoreStep == IInv /\ Next => OneRestore'
<1> SUFFICES ASSUME IInv, Next, "restores" \notin disturbed' PROVE OneRestore'
  BY DEF OneRestore
<1>t. TypeOK /\ OneRestore
  BY DEF IInv
<1>d. "restores" \notin disturbed
  BY DisturbedGrows
<1>r. /\ \A p, q \in Procs : pc[p] \in Filling \cup {"rename"} /\ pc[q] \in Filling \cup {"rename"}
                            => p = q
      /\ \A p \in Procs : pc[p] \notin {"db_write", "lost_write"}
      /\ \A p \in Procs : pc[p] = "rename" => tmp = data[p]
  BY <1>t, <1>d DEF OneRestore
<1>1. ASSUME tmp' = tmp,
             \A q \in Procs : pc'[q] \in Restoring \ {"tmp"} => pc'[q] = pc[q] /\ data'[q] = data[q]
      PROVE  OneRestore'
  BY <1>1, <1>r DEF OneRestore, Restoring, Filling
<1>2. ASSUME NEW p \in Procs, FinishArchive(p) \/ Crash(p) \/ RenameFails(p) PROVE OneRestore'
  <2>1. /\ tmp' = tmp /\ pc'[p] = "idle"
        /\ \A q \in Procs \ {p} : pc'[q] = pc[q] /\ data'[q] = data[q]
    BY <1>2, <1>t DEF TypeOK, FinishArchive, Crash, RenameFails, Finish, Goto
  <2> QED BY <2>1, <1>1 DEF Restoring, Filling
<1>3. ASSUME NEW p \in Procs, RestoreRead(p) PROVE OneRestore'
  <2>1. /\ tmp' = tmp /\ pc'[p] = "tmp"
        /\ \A q \in Procs \ {p} : pc'[q] = pc[q] /\ data'[q] = data[q]
    BY <1>3, <1>t DEF TypeOK, RestoreRead, Goto
  <2> QED BY <2>1, <1>1 DEF Restoring, Filling
<1>4. ASSUME NEW p \in Procs, CreateTmp(p) PROVE OneRestore'
  <2>1. \A q \in Procs : pc[q] \notin Filling \cup {"rename"}
    BY <1>4 DEF CreateTmp
  <2>2. pc'[p] = "tmp_write" /\ \A q \in Procs \ {p} : pc'[q] = pc[q]
    BY <1>4, <1>t DEF TypeOK, CreateTmp, Goto
  <2> QED BY <2>1, <2>2 DEF OneRestore, Filling
<1>5. ASSUME NEW p \in Procs, WriteTmp(p) PROVE OneRestore'
  <2>1. pc[p] \in Filling /\ pc'[p] = "rename" /\ \A q \in Procs \ {p} : pc'[q] = pc[q]
    BY <1>5, <1>t DEF TypeOK, WriteTmp, Goto
  <2>2. tmp' = data[p] /\ data' = data
    BY <1>5, <2>1, <1>r DEF WriteTmp, Filling, Is
  <2> QED BY <2>1, <2>2, <1>r DEF OneRestore, Filling
<1>6. ASSUME NEW p \in Procs, Rename(p) PROVE OneRestore'
  <2>1. \A q \in Procs \ {p} : pc[q] \notin Filling \cup {"rename"}
    BY <1>6, <1>r DEF Rename, Is
  <2>2. \A q \in Procs : pc'[q] \notin Filling \cup {"rename"}
    BY <1>6, <2>1 DEF Rename, AfterRename, Filling, Is
  <2> QED BY <2>2 DEF OneRestore, Filling
<1>7. ASSUME DamageArchive PROVE OneRestore'
  BY <1>7, <1>1 DEF DamageArchive
<1> QED BY <1>t, <1>1, <1>2, <1>3, <1>4, <1>5, <1>6, <1>7, OtherSteps DEF Next, Restoring, Filling

\* Who copies the log has the file for itself, after every step.
LEMMA LockingStep == IInv /\ Next => Locking'
<1> SUFFICES ASSUME IInv, Next PROVE Locking'
  OBVIOUS
<1>t. TypeOK /\ Locking /\ Free \notin Procs
  BY BackupAssumption DEF IInv
<1>d. "log" \notin disturbed' => "log" \notin disturbed
  BY DisturbedGrows
<1>1. ASSUME NEW p \in Procs, OpenWrite(p) \/ CheckpointOpen(p) \/ BackupStart(p)
      PROVE  Locking'
  <2>1. /\ lock' = lock /\ conns' = conns \cup {p} /\ stale' = stale
        /\ \A q \in Procs : lock = q => pc[q] = "full" \/ q \in stale
        /\ pc[p] \in {"idle", "checkpoint"} /\ \E l \in {"write", "header", "full"} : Goto(p, l)
    BY <1>1 DEF OpenWrite, CheckpointOpen, BackupStart, Connect, Is
  <2>2. /\ pc'[p] \in Closing \cup {"full"} /\ lock # p
        /\ \A q \in Procs \ {p} : pc'[q] = pc[q]
    BY <1>1, <2>1, <1>t DEF TypeOK, Goto, Closing, Locking
  <2>3. \A q \in Procs : q \in conns' <=> pc'[q] \in Closing \cup {"full"}
    BY <1>1, <2>1, <2>2, <1>t DEF Locking
  <2>4. \A q \in Procs : lock' = q => q \in conns' /\ (pc'[q] = "full" \/ q \in stale')
    BY <1>1, <2>1, <2>2, <1>t DEF Locking
  <2> QED BY <2>1, <2>3, <2>4, <1>t, <1>d DEF Locking, Closing
<1>2. ASSUME NEW p \in Procs, CloseLast(p) \/ FullStart(p) PROVE Locking'
  BY <1>2, <1>t, <1>d DEF TypeOK, Locking, Last, CloseLast, FullStart, Closing, Is
<1>3. ASSUME NEW p \in Procs, Close(p) PROVE Locking'
  <2>1. /\ conns' = conns \ {p} /\ stale' = stale \ {p} /\ lock' \in {lock, Free} /\ lock' # p
        /\ pc'[p] \notin Closing \cup {"full"}
        /\ \A q \in Procs \ {p} : pc'[q] = pc[q]
    BY <1>3, <1>t DEF TypeOK, Close, AfterClose, Closing, Goto
  <2>2. \A q \in Procs : lock' = q => q # p /\ lock = q
    BY <2>1, <1>t
  <2>3. \A q \in Procs : q # p /\ Last(q) => conns' \ stale' = {q}
    BY <2>1 DEF Last
  <2> QED BY <2>1, <2>2, <2>3, <1>t, <1>d DEF Locking, Last
<1>4. ASSUME NEW p \in Procs, FullDone(p) \/ FullBusy(p) PROVE Locking'
  <2>1. /\ UNCHANGED <<conns, stale>> /\ lock' \in {lock, Free} /\ lock' # p
        /\ pc[p] = "full" /\ pc'[p] = "copied"
        /\ \A q \in Procs \ {p} : pc'[q] = pc[q]
    BY <1>4, <1>t DEF TypeOK, FullDone, FullBusy, Goto, Is, sqlite
  <2> QED BY <2>1, <1>t, <1>d DEF Locking, Last, Closing
<1>5. ASSUME NEW p \in Procs, NEW S \in SUBSET Pages, Commit(p, S) PROVE Locking'
  BY <1>5, <1>t, <1>d DEF TypeOK, Locking, Last, Commit, Closing, Goto, Is
<1>6. ASSUME NEW p \in Procs, NEW k \in Pages, CopyPage(p, k) PROVE Locking'
  BY <1>6, <1>t, <1>d DEF Locking, Last, CopyPage
<1>7. ASSUME NEW p \in Procs,
             \/ ReadPage(p) \/ CreateArchive(p) \/ FinishArchive(p)
             \/ RestoreRead(p) \/ CreateTmp(p) \/ WriteTmp(p) \/ RenameFails(p)
      PROVE  Locking'
  <2>1. /\ UNCHANGED <<conns, stale, lock>>
        /\ pc[p] \notin Closing \cup {"full"}
        /\ \E l \in {"read", "archive", "zip", "idle", "tmp", "tmp_write", "rename"} : Goto(p, l)
    <3>1. CASE ReadPage(p) \/ CreateArchive(p) \/ FinishArchive(p)
      BY <3>1 DEF ReadPage, CreateArchive, FinishArchive, Finish, Closing, Is, sqlite
    <3>2. CASE RestoreRead(p) \/ CreateTmp(p) \/ WriteTmp(p) \/ RenameFails(p)
      BY <3>2 DEF RestoreRead, CreateTmp, WriteTmp, RenameFails, Finish, Closing, Filling, Is, sqlite
    <3> QED BY <1>7, <3>1, <3>2
  <2>2. pc'[p] \notin Closing \cup {"full"} /\ \A q \in Procs \ {p} : pc'[q] = pc[q]
    BY <2>1, <1>t DEF TypeOK, Goto, Closing
  <2> QED BY <2>1, <2>2, <1>t, <1>d DEF Locking, Last
<1>9. ASSUME NEW p \in Procs, Rename(p) PROVE Locking'
  <2>1. /\ stale' = conns /\ conns' = conns /\ lock' = lock
        /\ "log" \notin disturbed' => conns = {}
    BY <1>9 DEF Rename
  <2>2. \A q \in Procs : pc'[q] \in Closing \cup {"full"} <=> pc[q] \in Closing \cup {"full"}
    BY <1>9 DEF Rename, AfterRename, MidFile, Is, Closing
  <2> QED BY <2>1, <2>2, <1>t DEF Locking
<1>10. ASSUME NEW p \in Procs, Crash(p) PROVE Locking'
  <2>1. /\ conns' = conns \ {p} /\ stale' = stale \ {p} /\ lock' \in {lock, Free} /\ lock' # p
        /\ pc'[p] = "idle"
        /\ \A q \in Procs \ {p} : pc'[q] = pc[q]
    BY <1>10, <1>t DEF TypeOK, Crash, Finish, Goto
  <2>2. \A q \in Procs : lock' = q => q # p /\ lock = q
    BY <2>1, <1>t
  <2>3. \A q \in Procs : q # p /\ Last(q) => conns' \ stale' = {q}
    BY <2>1 DEF Last
  <2> QED BY <2>1, <2>2, <2>3, <1>t, <1>d DEF Locking, Last, Closing
<1>11. ASSUME DamageArchive PROVE Locking'
  BY <1>11, <1>t, <1>d DEF Locking, Last, DamageArchive, sqlite
<1> QED BY <1>1, <1>2, <1>3, <1>4, <1>5, <1>6, <1>7, <1>9, <1>10, <1>11 DEF Next

-----------------------------------------------------------------------------
(* The vault is whole                                                      *)

\* Only these steps touch the file, its log or the history of commits.
LEMMA VaultSteps ==
    ASSUME IInv, Next
    PROVE  \/ UNCHANGED <<db, wal, log>>
           \/ \E p \in Procs, S \in SUBSET Pages : Commit(p, S)
           \/ \E p \in Procs, k \in Pages : CopyPage(p, k)
           \/ \E p \in Procs : Close(p) \/ FullDone(p)
           \/ \E p \in Procs : Rename(p) \/ WriteTmp(p)
BY DEF Next, OpenWrite, CloseLast, CheckpointOpen, FullStart, FullBusy, BackupStart,
   ReadPage, CreateArchive, FinishArchive, DamageArchive, Finish, RestoreRead, CreateTmp,
   RenameFails, Crash, sqlite, hist

\* Where restores have not met a log, a connection or each other, the file is written to
\* by checkpoints only, and only these and the closing connection void the log.
LEMMA Undisturbed ==
    ASSUME IInv, Next, disturbed' = {}
    PROVE  /\ disturbed = {} /\ stale = {}
           /\ \A p \in Procs : FullDone(p) \/ WriteTmp(p) => UNCHANGED <<db, wal, log>>
           /\ \A p \in Procs : Rename(p) => tmp = data[p] /\ wal = NoFrames /\ conns = {}
<1>1. disturbed = {} /\ stale = {}
  BY DisturbedGrows DEF IInv, Locking
<1>2. ASSUME NEW p \in Procs, FullDone(p) \/ WriteTmp(p) PROVE UNCHANGED <<db, wal, log>>
  BY <1>1, <1>2 DEF IInv, OneRestore, FullDone, WriteTmp, Is, hist
<1>3. ASSUME NEW p \in Procs, Rename(p) PROVE tmp = data[p] /\ wal = NoFrames /\ conns = {}
  BY <1>1, <1>3 DEF IInv, OneRestore, Rename, Is
<1> QED BY <1>1, <1>2, <1>3

\* What a restore reports is a state of the vault.
LEMMA ReportedIsState ==
    ASSUME IInv, NEW p \in Procs, Rename(p)
    PROVE  data[p] \in State
BY DEF IInv, Rename, Is, Bytes, Holding, Restoring

\* Commits and restores are added to the history and never removed.
LEMMA HistoryGrows ==
    ASSUME IInv, Next
    PROVE  /\ Len(log) <= Len(log')
           /\ \A i \in 1..Len(log) : log'[i] = log[i]
<1>t. TypeOK /\ Len(log) \in Nat
  BY DEF IInv, TypeOK
<1>1. ASSUME UNCHANGED log \/ (\E x \in State : log' = Append(log, x))
      PROVE  Len(log) <= Len(log') /\ \A i \in 1..Len(log) : log'[i] = log[i]
  BY <1>1, <1>t, LogGrows DEF TypeOK
<1>2. ASSUME NEW p \in Procs, NEW S \in SUBSET Pages, Commit(p, S)
      PROVE  \E x \in State : log' = Append(log, x)
  <2>1. View(db, wal') \in State
    BY <1>2, <1>t, TypeStep, ViewIsState DEF TypeOK, Commit
  <2> QED BY <1>2, <2>1 DEF Commit
<1>3. ASSUME NEW p \in Procs, Rename(p)
      PROVE  \E x \in State : log' = Append(log, x)
  BY <1>3, ReportedIsState DEF Rename
<1>4. ASSUME NEW p \in Procs, Close(p) \/ FullDone(p) \/ WriteTmp(p) PROVE UNCHANGED log
  BY <1>4 DEF Close, FullDone, WriteTmp, hist
<1>5. ASSUME NEW p \in Procs, NEW k \in Pages, CopyPage(p, k) PROVE UNCHANGED log
  BY <1>5 DEF CopyPage
<1> QED BY <1>1, <1>2, <1>3, <1>4, <1>5, VaultSteps

\* The last commit is what the next command sees, after every step.
LEMMA WholeStep == IInv /\ Next => VaultIsWhole'
<1> SUFFICES ASSUME IInv, Next, disturbed' = {} PROVE View(db', wal') = Latest'
  BY DEF VaultIsWhole, View
<1>i. TypeOK /\ TypeOK' /\ VaultIsWhole
  BY TypeStep DEF IInv
<1>t. TypeOK /\ TypeOK' /\ Len(log) \in Nat /\ View(db, wal) = Latest
  <2>1. Len(log) \in Nat
    BY <1>i, HistoryStarts DEF TypeOK
  <2>2. View(db, wal) = Latest
    BY <1>i, Undisturbed DEF VaultIsWhole
  <2> QED BY <1>i, <2>1, <2>2
<1>1. CASE UNCHANGED <<db, wal, log>>
  BY <1>1, <1>t DEF Latest
<1>2. ASSUME NEW p \in Procs, NEW S \in SUBSET Pages, Commit(p, S)
      PROVE  View(db', wal') = Latest'
  <2>1. View(db, wal') \in State
    BY <1>2, <1>t, ViewIsState DEF TypeOK, Commit
  <2> QED BY <1>2, <1>t, <2>1, LogGrows DEF TypeOK, Commit, Latest
<1>3. ASSUME NEW p \in Procs, NEW k \in Pages, CopyPage(p, k)
      PROVE  View(db', wal') = Latest'
  <2>1. \A j \in Pages : View(db', wal)[j] = View(db, wal)[j]
    BY <1>3, <1>t DEF TypeOK, CopyPage, View, State
  <2>2. View(db', wal) \in State /\ View(db, wal) \in State
    <3>1. db \in State /\ db' \in State /\ DOMAIN wal \subseteq Pages /\ wal \in [DOMAIN wal -> Nat]
      BY <1>t DEF TypeOK
    <3> QED BY <3>1, ViewIsState
  <2>3. View(db', wal) = View(db, wal)
    BY <2>1, <2>2, SamePages
  <2> QED BY <1>3, <1>t, <2>3 DEF CopyPage, Latest
<1>4. ASSUME NEW p \in Procs, Close(p) PROVE View(db', wal') = Latest'
  <2>1. CASE UNCHANGED wal
    BY <2>1, <1>4, <1>t DEF Close, Latest, hist
  <2>2. CASE Copied(p) /\ wal' = NoFrames
    <3>1. View(db, wal) = db
      BY <2>2, <1>t, Undisturbed, CopiedIsView DEF TypeOK, Copied
    <3>2. View(db, NoFrames) = db
      BY <1>t, CopiedIsView DEF TypeOK, NoFrames
    <3> QED BY <2>2, <3>1, <3>2, <1>4, <1>t DEF Close, Latest, hist
  <2> QED BY <2>1, <2>2, <1>4 DEF Close
<1>5. ASSUME NEW p \in Procs, Rename(p) PROVE View(db', wal') = Latest'
  <2>1. wal' = NoFrames /\ db' = data[p] /\ data[p] \in State
    BY <1>5, Undisturbed, ReportedIsState DEF Rename
  <2>2. View(db', NoFrames) = data[p]
    BY <2>1, CopiedIsView DEF NoFrames
  <2> QED BY <1>5, <1>t, <2>1, <2>2, LogGrows DEF TypeOK, Rename, Latest
<1> QED BY <1>1, <1>2, <1>3, <1>4, <1>5, VaultSteps, Undisturbed

-----------------------------------------------------------------------------
(* Archives                                                                *)

\* A complete archive holds what a backup has read, after every step.
LEMMA ArchivedStep == IInv /\ Next => Archived'
<1> SUFFICES ASSUME IInv, Next PROVE Archived'
  OBVIOUS
<1>t. TypeOK /\ Archived /\ Bytes /\ Fairness
  BY DEF IInv
<1>1. CASE UNCHANGED <<zip, taken>>
  BY <1>1, <1>t DEF Archived
<1>2. ASSUME NEW p \in Procs, CreateArchive(p) PROVE Archived'
  BY <1>2, <1>t DEF Archived, CreateArchive, Partial
<1>3. ASSUME NEW p \in Procs, FinishArchive(p) PROVE Archived'
  <2>1. data[p] \in State /\ (p \in fair /\ disturbed = {} => since[p] > 0)
    BY <1>3, <1>t DEF TypeOK, Bytes, Holding, Fairness, FairBackup, FinishArchive, Is
  <2>2. CASE zip' = Partial
    BY <2>2 DEF Archived, Partial
  <2>3. CASE zip' = [state |-> "complete", by |-> None, sha256 |-> data[p], db |-> data[p],
                     since |-> since[p],
                     fair |-> IF p \in fair /\ disturbed = {} THEN "yes" ELSE "no"]
    BY <2>1, <2>3, <1>3 DEF Archived, FinishArchive
  <2> QED BY <2>2, <2>3, <1>3 DEF FinishArchive
<1>4. CASE DamageArchive
  BY <1>4, <1>t DEF TypeOK, Archive, Archived, DamageArchive, hist
<1>5. UNCHANGED <<zip, taken>> \/ DamageArchive
        \/ \E p \in Procs : CreateArchive(p) \/ FinishArchive(p)
  <2>1. ASSUME NEW p \in Procs,
               OpenWrite(p) \/ CloseLast(p) \/ Close(p) \/ CheckpointOpen(p) \/ FullStart(p)
                 \/ FullDone(p) \/ FullBusy(p) \/ BackupStart(p)
        PROVE  UNCHANGED <<zip, taken>>
    BY <2>1 DEF OpenWrite, CloseLast, Close, CheckpointOpen, FullStart, FullDone, FullBusy,
       BackupStart, hist
  <2>2. ASSUME NEW p \in Procs, NEW S, Commit(p, S) \/ CopyPage(p, S)
        PROVE  UNCHANGED <<zip, taken>>
    BY <2>2 DEF Commit, CopyPage, hist
  <2>3. ASSUME NEW p \in Procs,
               \/ ReadPage(p) \/ RestoreRead(p) \/ CreateTmp(p) \/ WriteTmp(p) \/ Rename(p)
               \/ RenameFails(p) \/ Crash(p)
        PROVE  UNCHANGED <<zip, taken>>
    BY <2>3 DEF ReadPage, RestoreRead, CreateTmp, WriteTmp, Rename, RenameFails, Crash, hist
  <2> QED BY <2>1, <2>2, <2>3 DEF Next
<1> QED BY <1>1, <1>2, <1>3, <1>4, <1>5

\* What is being restored was once backed up, after every step.
LEMMA RestoredStep == IInv /\ Next => OnlyBackupsRestored'
<1> SUFFICES ASSUME IInv, Next PROVE OnlyBackupsRestored'
  OBVIOUS
<1>t. TypeOK /\ Archived /\ OnlyBackupsRestored /\ OneRestore'
  BY OneRestoreStep DEF IInv
<1>1. taken \subseteq taken'
  BY ZenonT(40) DEF Next, OpenWrite, CloseLast, Close, CheckpointOpen, FullStart, FullDone, FullBusy,
     BackupStart, Commit, CopyPage, ReadPage, CreateArchive, FinishArchive, DamageArchive,
     RestoreRead, CreateTmp, WriteTmp, Rename, RenameFails, Crash, hist
<1>2. ASSUME NEW q \in Procs, pc[q] \in Restoring, data'[q] = data[q] PROVE data'[q] \in taken'
  BY <1>1, <1>2, <1>t DEF OnlyBackupsRestored
<1>3. ASSUME NEW q \in Procs, RestoreRead(q) PROVE data'[q] \in taken'
  <2>1. data'[q] = zip.db /\ zip.db \in taken
    BY <1>3, <1>t DEF TypeOK, RestoreRead, Accepted, Archived
  <2> QED BY <2>1, <1>1
<1>4. ASSUME NEW q \in Procs, pc'[q] \in Restoring
      PROVE  RestoreRead(q) \/ (pc[q] \in Restoring /\ data'[q] = data[q])
  <2>1. ASSUME NEW p \in Procs, RestoreRead(p) \/ CreateTmp(p) \/ WriteTmp(p)
        PROVE  RestoreRead(q) \/ (pc[q] \in Restoring /\ data'[q] = data[q])
    BY <2>1, <1>4, <1>t DEF TypeOK, Restoring, RestoreRead, CreateTmp, WriteTmp, Goto, Is
  <2>2. ASSUME NEW p \in Procs, Rename(p)
        PROVE  pc[q] \in Restoring /\ data'[q] = data[q]
    BY <2>2, <1>4 DEF Restoring, Filling, Rename, AfterRename, MidFile, Is
  <2>3. ASSUME NEW p \in Procs, RenameFails(p) \/ Crash(p)
        PROVE  pc[q] \in Restoring /\ data'[q] = data[q]
    BY <2>3, <1>4, <1>t DEF TypeOK, Restoring, Filling, RenameFails, Crash, Finish, Goto
  <2>4. ASSUME DamageArchive PROVE pc[q] \in Restoring /\ data'[q] = data[q]
    BY <2>4, <1>4 DEF DamageArchive
  <2> QED BY <1>t, <1>4, <2>1, <2>2, <2>3, <2>4, OtherSteps DEF Next
<1>5. \A q \in Procs : pc'[q] \in Restoring => data'[q] \in taken'
  BY <1>2, <1>3, <1>4
<1>6. \A q \in Procs : pc'[q] = "rename" /\ "restores" \notin disturbed' => tmp' \in taken'
  BY <1>5, <1>t DEF OneRestore, Restoring
<1> QED BY <1>5, <1>6 DEF OnlyBackupsRestored

-----------------------------------------------------------------------------
(* Backups nothing got in the way of                                       *)

\* The lengths of the history before and after a step are numbers.
LEMMA NextLengths ==
    ASSUME IInv, Next
    PROVE  Len(log) \in Nat /\ Len(log') \in Nat
<1>1. TypeOK /\ TypeOK'
  BY TypeStep DEF IInv
<1>2. log \in Seq(State) /\ log' \in Seq(State)
  BY <1>1 DEF TypeOK
<1> QED BY <1>2

\* A state the vault had, it had in every later history.
LEMMA HadStays ==
    ASSUME IInv, Next, NEW n \in 1..Len(log), NEW x, Had(n, x)
    PROVE  \E i \in n..Len(log') : log'[i] = x
<1>1. PICK i \in n..Len(log) : log[i] = x
  BY DEF Had
<1>2. Len(log) \in Nat /\ Len(log') \in Nat
  BY NextLengths
<1>3. i \in 1..Len(log) /\ i \in n..Len(log')
  BY <1>2, HistoryGrows
<1> QED BY <1>1, <1>3, HistoryGrows

\* A file that has the whole log is the last state of the vault.
LEMMA CopiedIsLatest ==
    ASSUME IInv, NEW p, Copied(p), disturbed = {}, NEW n \in 1..Len(log)
    PROVE  Had(n, db)
<1>1. db = Latest
  BY CopiedIsView DEF IInv, TypeOK, Copied, VaultIsWhole, Locking
<1>2. Len(log) \in n..Len(log)
  BY DEF IInv, TypeOK
<1> QED BY <1>1, <1>2 DEF Had, Latest

\* What FairBackup says of q after a step that moves q nowhere and leaves the file, if
\* q needs it, alone.
LEMMA FairStays ==
    ASSUME IInv, Next, NEW q \in Procs, FairBackup(q),
           pc'[q] = pc[q], data'[q] = data[q], since'[q] = since[q],
           pc[q] \in {"copied", "read"} => db' = db,
           pc[q] = "copied" /\ lock' # q => lock # q
    PROVE  FairBackup(q)'
<1>1. since'[q] \in 1..Len(log')
  <2>1. Len(log) \in Nat /\ Len(log') \in Nat
    BY NextLengths
  <2> QED BY <2>1, HistoryGrows DEF FairBackup
<1>2. since[q] \in 1..Len(log)
  BY DEF FairBackup
<1>3. \A x : Had(since[q], x) => \E i \in since'[q]..Len(log') : log'[i] = x
  BY <1>2, HadStays
<1> QED BY <1>1, <1>3 DEF FairBackup, Had

\* A backup that nothing got in the way of stays one until something does.
LEMMA FairStep == IInv /\ Next => Fairness'
<1> SUFFICES ASSUME IInv, Next, disturbed' = {}, NEW q \in fair' PROVE FairBackup(q)'
  BY DEF Fairness
<1>m. disturbed = {} /\ stale = {}
  BY Undisturbed
<1>t. TypeOK /\ TypeOK' /\ Bytes /\ Locking /\ Fairness /\ Free \notin Procs
  BY TypeStep, BackupAssumption DEF IInv
<1>q. q \in Procs /\ (q \in fair => FairBackup(q))
  BY <1>t, <1>m DEF TypeOK, Fairness
<1>l. Len(log) \in Nat /\ Len(log) > 0
  BY <1>t, HistoryStarts DEF TypeOK
<1>1. ASSUME NEW p \in Procs,
             OpenWrite(p) \/ CloseLast(p) \/ CreateTmp(p) \/ WriteTmp(p) \/ RestoreRead(p)
      PROVE  FairBackup(q)'
  <2>1. q \in fair /\ FairBackup(q)
    BY <1>1, <1>q DEF OpenWrite, CloseLast, CreateTmp, WriteTmp, RestoreRead, hist
  <2>2. db' = db
    BY <1>1, Undisturbed DEF OpenWrite, CloseLast, CreateTmp, RestoreRead, sqlite
  <2>3. /\ pc'[q] = pc[q] /\ data'[q] = data[q] /\ since'[q] = since[q]
        /\ lock' # q => lock # q
    BY <1>1, <1>q, <1>t, <2>1 DEF TypeOK, FairBackup, OpenWrite, CloseLast, CreateTmp, WriteTmp,
       RestoreRead, Filling, Goto, Is, sqlite, hist
  <2> QED BY <2>1, <2>2, <2>3, <1>q, FairStays
<1>2. ASSUME NEW p \in Procs, NEW S \in SUBSET Pages, Commit(p, S) PROVE FairBackup(q)'
  <2>1. q \in fair /\ FairBackup(q)
    BY <1>2, <1>q DEF Commit
  <2>2. /\ pc'[q] = pc[q] /\ data'[q] = data[q] /\ since'[q] = since[q] /\ db' = db
        /\ lock' = lock
    BY <1>2, <1>q, <1>t, <2>1 DEF TypeOK, FairBackup, Commit, Goto, Is
  <2> QED BY <2>1, <2>2, <1>q, FairStays
<1>3. ASSUME NEW p \in Procs, Close(p) PROVE FairBackup(q)'
  <2>1. q \in fair /\ FairBackup(q) /\ db' = db /\ log' = log /\ since' = since /\ data' = data
    BY <1>3, <1>q DEF Close, hist
  <2>2. CASE p # q
    <3>1. pc'[q] = pc[q] /\ (lock' # q => lock # q)
      BY <1>3, <1>t, <1>q, <2>2 DEF TypeOK, Close, Goto
    <3> QED BY <3>1, <2>1, <1>q, FairStays
  <2>3. CASE p = q
    <3>1. pc[q] \in {"header", "copied"}
      BY <1>3, <2>1, <2>3 DEF Close, Closing, FairBackup
    <3>2. pc'[q] = IF pc[q] = "header" THEN "checkpoint" ELSE "read"
      BY <1>3, <1>t, <2>3, <3>1 DEF TypeOK, Close, AfterClose, Goto
    <3>3. since[q] \in 1..Len(log)
      BY <2>1 DEF FairBackup
    <3>4. pc[q] = "copied" => Had(since[q], db)
      <4>1. CASE lock = p /\ Copied(p)
        BY <4>1, <1>m, <3>3, CopiedIsLatest
      <4>2. CASE lock # p
        BY <4>2, <2>1, <2>3 DEF FairBackup
      <4> QED BY <4>1, <4>2, <1>3 DEF Close
    <3>5. data[q] = <<>>
      BY <1>t, <1>q, <3>1 DEF Bytes, Holding, Restoring, Filling
    <3> QED BY <2>1, <3>1, <3>2, <3>3, <3>4, <3>5 DEF FairBackup, Had
  <2> QED BY <2>2, <2>3
<1>4. ASSUME NEW p \in Procs, NEW k \in Pages, CopyPage(p, k) PROVE FairBackup(q)'
  <2>1. q \in fair /\ FairBackup(q) /\ (q = p \/ pc[q] \notin {"copied", "read"})
    BY <1>4, <1>q DEF CopyPage
  <2>2. q = p => pc[q] # "read"
    BY <1>4, <1>t DEF CopyPage, Locking, Closing
  <2>3. lock = p /\ UNCHANGED <<lock, pc, data, log, since>>
    BY <1>4 DEF CopyPage
  <2>4. CASE pc[q] \notin {"copied", "read"}
    BY <2>1, <2>3, <2>4, <1>q, FairStays
  <2>5. CASE pc[q] = "copied" /\ q = p
    BY <2>1, <2>3, <2>5 DEF FairBackup
  <2> QED BY <2>1, <2>2, <2>4, <2>5
<1>5. ASSUME NEW p \in Procs, BackupStart(p) PROVE FairBackup(q)'
  <2>1. CASE q = p
    <3>1. pc'[q] = "header" /\ since'[q] = Len(log) /\ log' = log
      BY <1>5, <1>q, <1>t, <2>1 DEF TypeOK, BackupStart, Goto
    <3> QED BY <3>1, <1>l DEF FairBackup
  <2>2. CASE q # p
    <3>1. /\ q \in fair /\ FairBackup(q) /\ db' = db /\ lock' = lock
          /\ pc'[q] = pc[q] /\ data'[q] = data[q] /\ since'[q] = since[q]
      BY <1>5, <1>q, <1>t, <2>2 DEF TypeOK, BackupStart, Goto
    <3> QED BY <3>1, <1>q, FairStays
  <2> QED BY <2>1, <2>2
<1>6. ASSUME NEW p \in Procs, CheckpointOpen(p) \/ FullStart(p) PROVE FairBackup(q)'
  <2>1. /\ q \in fair /\ FairBackup(q)
        /\ UNCHANGED <<db, data, log, since>>
        /\ lock' # q => lock # q
    BY <1>6, <1>q, <1>t DEF CheckpointOpen, FullStart, hist
  <2>2. pc'[q] = pc[q] \/ (pc[q] = "checkpoint" /\ pc'[q] = "full")
    BY <1>6, <1>q, <1>t DEF TypeOK, CheckpointOpen, FullStart, Goto, Is
  <2>3. CASE pc'[q] = pc[q]
    BY <2>1, <2>3, <1>q, FairStays
  <2>4. CASE pc'[q] = "full"
    BY <2>1, <2>4 DEF FairBackup
  <2> QED BY <2>2, <2>3, <2>4
<1>7. ASSUME NEW p \in Procs, FullDone(p) PROVE FairBackup(q)'
  <2>1. q \in fair /\ FairBackup(q) /\ UNCHANGED <<db, data, log, since>>
    BY <1>7, <1>q DEF FullDone, hist
  <2>2. CASE q = p
    <3>1. pc'[q] = "copied" /\ Copied(q)
      BY <1>7, <1>q, <1>t, <2>2 DEF TypeOK, FullDone, Goto
    <3>2. since[q] \in 1..Len(log)
      BY <2>1 DEF FairBackup
    <3>3. Had(since[q], db)
      BY <3>1, <3>2, <1>m, CopiedIsLatest
    <3> QED BY <2>1, <3>1, <3>2, <3>3 DEF FairBackup, Had
  <2>3. CASE q # p
    <3>1. pc'[q] = pc[q] /\ lock # q
      BY <1>7, <1>q, <1>t, <2>3 DEF TypeOK, FullDone, Goto
    <3> QED BY <3>1, <2>1, <1>q, FairStays
  <2> QED BY <2>2, <2>3
<1>8. ASSUME NEW p \in Procs, FullBusy(p) \/ FinishArchive(p) \/ RenameFails(p) \/ Crash(p)
      PROVE  FairBackup(q)'
  <2>1. q \in fair /\ FairBackup(q) /\ q # p /\ db' = db
    BY <1>8, <1>q DEF FullBusy, FinishArchive, RenameFails, Crash, Finish, sqlite
  <2>2. pc'[q] = pc[q] /\ data'[q] = data[q] /\ since'[q] = since[q] /\ (lock' # q => lock # q)
    BY <1>8, <1>q, <1>t, <2>1 DEF TypeOK, FullBusy, FinishArchive, RenameFails, Crash, Finish, Goto,
       sqlite
  <2> QED BY <2>1, <2>2, <1>q, FairStays
<1>9. ASSUME NEW p \in Procs, ReadPage(p) PROVE FairBackup(q)'
  <2>1. q \in fair /\ FairBackup(q) /\ UNCHANGED <<db, lock, log, since>>
    BY <1>9, <1>q DEF ReadPage, hist, sqlite
  <2>2. CASE q # p
    <3>1. pc'[q] = pc[q] /\ data'[q] = data[q]
      BY <1>9, <1>q, <1>t, <2>2 DEF TypeOK, ReadPage, Goto
    <3> QED BY <3>1, <2>1, <1>q, FairStays
  <2>3. CASE q = p
    <3>1. /\ pc[q] = "read" /\ since[q] \in 1..Len(log) /\ Had(since[q], db)
          /\ \A k \in 1..Len(data[q]) : data[q][k] = db[k]
          /\ data[q] \in Seq(Nat) /\ data'[q] \in Seq(Nat)
      BY <1>9, <1>q, <1>t, <2>1, <2>3 DEF TypeOK, ReadPage, Is, FairBackup
    <3>2. data'[q] = Append(data[q], db[Len(data[q]) + 1])
      BY <1>9, <1>q, <1>t, <2>3 DEF TypeOK, ReadPage
    <3>3. \A k \in 1..Len(data'[q]) : data'[q][k] = db[k]
      BY <3>1, <3>2
    <3>4. pc'[q] = IF Len(data'[q]) = NPages THEN "archive" ELSE "read"
      BY <1>9, <1>q, <1>t, <2>3 DEF TypeOK, ReadPage, Goto
    <3>5. Len(data'[q]) = NPages => data'[q] = db
      <4>1. Len(data'[q]) = NPages => data'[q] \in State /\ db \in State
        BY <3>1, <1>t, StateIsSeq DEF TypeOK
      <4> QED BY <4>1, <3>3, SamePages DEF Pages
    <3> QED BY <2>1, <3>1, <3>3, <3>4, <3>5 DEF FairBackup, Had
  <2> QED BY <2>2, <2>3
<1>10. ASSUME NEW p \in Procs, CreateArchive(p) PROVE FairBackup(q)'
  <2>1. q \in fair /\ FairBackup(q) /\ UNCHANGED <<db, lock, data, log, since>>
    BY <1>10, <1>q DEF CreateArchive, hist, sqlite
  <2>2. pc'[q] = pc[q] \/ (pc[q] = "archive" /\ pc'[q] = "zip")
    BY <1>10, <1>q, <1>t DEF TypeOK, CreateArchive, Goto, Is
  <2>3. CASE pc'[q] = pc[q]
    BY <2>1, <2>3, <1>q, FairStays
  <2>4. CASE pc[q] = "archive" /\ pc'[q] = "zip"
    BY <2>1, <2>4 DEF FairBackup, Had
  <2> QED BY <2>2, <2>3, <2>4
<1>11. ASSUME NEW p \in Procs, Rename(p) PROVE FairBackup(q)'
  <2>1. q \in fair /\ FairBackup(q) /\ q # p /\ pc[q] # "copied" /\ lock' = lock
    BY <1>11, <1>q, <1>t, Undisturbed DEF Rename, FairBackup, Is, Locking, Closing
  <2>2. since'[q] = since[q] /\ since[q] \in 1..Len(log)
    BY <1>11, <2>1 DEF Rename, FairBackup
  <2>3. CASE pc[q] # "read"
    <3>1. pc'[q] = pc[q] /\ data'[q] = data[q]
      BY <1>11, <1>q, <2>1, <2>3 DEF Rename, AfterRename, MidFile, FairBackup, Is
    <3> QED BY <3>1, <2>1, <2>2, <2>3, <1>q, FairStays
  <2>s. since[q] \in 1..Len(log')
    BY <2>2, <1>t, HistoryGrows, SMTT(30) DEF TypeOK
  <2>4. CASE pc[q] = "read" /\ data[q] # <<>>
    <3>1. pc'[q] = "archive" /\ data'[q] = data[q] \o SubSeq(db, Len(data[q]) + 1, NPages)
      BY <1>11, <1>q, <2>1, <2>4 DEF Rename, AfterRename, MidFile, Is
    <3>2. /\ db \in State /\ data[q] \in Seq(Nat) /\ Len(data[q]) < NPages
          /\ \A k \in 1..Len(data[q]) : data[q][k] = db[k]
          /\ Had(since[q], db)
      BY <1>q, <1>t, <2>1, <2>4 DEF TypeOK, Bytes, FairBackup
    <3>3. data'[q] = db
      BY <3>1, <3>2, RestOfFile
    <3>4. \E i \in since[q]..Len(log') : log'[i] = db
      BY <2>2, <3>2, HadStays
    <3> QED BY <2>2, <2>s, <3>1, <3>3, <3>4 DEF FairBackup, Had
  <2>5. CASE pc[q] = "read" /\ data[q] = <<>>
    <3>1. pc'[q] = "read" /\ data'[q] = <<>>
      BY <1>11, <1>q, <2>1, <2>5 DEF Rename, AfterRename, MidFile, Is
    <3>2. db' = data[p] /\ log' = Append(log, data[p]) /\ data[p] \in State
      BY <1>11, Undisturbed, ReportedIsState DEF Rename
    <3>3. log'[Len(log) + 1] = db' /\ Len(log') = Len(log) + 1
      BY <3>2, <1>t, LogGrows DEF TypeOK
    <3>4. Len(log) + 1 \in since[q]..Len(log')
      BY <2>2, <3>3, <1>l
    <3>5. \E i \in since[q]..Len(log') : log'[i] = db'
      BY <3>3, <3>4
    <3>6. \A k \in 1..Len(data'[q]) : data'[q][k] = db'[k]
      BY <3>1
    <3> QED BY <2>2, <2>s, <3>1, <3>5, <3>6 DEF FairBackup, Had
  <2> QED BY <2>3, <2>4, <2>5
<1>12. ASSUME DamageArchive PROVE FairBackup(q)'
  BY <1>12, <1>q DEF DamageArchive, FairBackup, Had, hist, sqlite
<1> QED BY <1>1, <1>2, <1>3, <1>4, <1>5, <1>6, <1>7, <1>8, <1>9, <1>10, <1>11, <1>12 DEF Next

\* A complete archive of such a backup holds one state of the vault, after every step.
LEMMA CompleteStep == IInv /\ Next => BackupIsComplete'
<1> SUFFICES ASSUME IInv, Next, zip' # None, zip'.fair = "yes"
             PROVE  \E i \in zip'.since..Len(log') : log'[i] = zip'.sha256
  BY DEF BackupIsComplete
<1>t. TypeOK /\ Archived /\ Bytes /\ Fairness /\ BackupIsComplete /\ Len(log) \in Nat
  BY DEF IInv, TypeOK
<1>1. CASE zip # None /\ zip.fair = "yes" /\ zip'.since = zip.since /\ zip'.sha256 = zip.sha256
  <2>1. zip.since \in Nat /\ zip.since > 0
    BY <1>1, <1>t DEF TypeOK, Archive, Archived
  <2>2. Had(zip.since, zip.sha256)
    BY <1>1, <1>t DEF BackupIsComplete, Had
  <2>3. zip.since \in 1..Len(log)
    BY <2>1, <2>2, <1>t DEF Had
  <2> QED BY <1>1, <2>2, <2>3, HadStays
<1>2. ASSUME NEW p \in Procs, FinishArchive(p)
      PROVE  \E i \in zip'.since..Len(log') : log'[i] = zip'.sha256
  <2>1. zip' # Partial
    BY DEF Partial
  <2>2. zip' = [state |-> "complete", by |-> None, sha256 |-> data[p], db |-> data[p],
                since |-> since[p],
                fair |-> IF p \in fair /\ disturbed = {} THEN "yes" ELSE "no"]
    BY <1>2, <2>1 DEF FinishArchive
  <2>3. FairBackup(p) /\ pc[p] = "zip"
    BY <1>2, <1>t, <2>2 DEF Fairness, FinishArchive, Is
  <2>4. Had(since[p], data[p]) /\ log' = log
    BY <1>2, <2>3 DEF FairBackup, FinishArchive
  <2> QED BY <2>2, <2>4 DEF Had
<1>3. CASE DamageArchive
  <2>1. zip \in Archive /\ zip # None
    BY <1>3, <1>t DEF TypeOK, DamageArchive
  <2>2. zip'.fair = zip.fair /\ zip'.since = zip.since /\ zip'.sha256 = zip.sha256
    BY <1>3, <2>1 DEF DamageArchive, Archive
  <2> QED BY <2>1, <2>2, <1>1
<1>4. ASSUME NEW p \in Procs, CreateArchive(p) PROVE FALSE
  BY <1>4 DEF CreateArchive, Partial
<1>5. UNCHANGED zip \/ DamageArchive \/ \E p \in Procs : CreateArchive(p) \/ FinishArchive(p)
  BY ZenonT(40) DEF Next, OpenWrite, CloseLast, Close, CheckpointOpen, FullStart, FullDone, FullBusy,
     BackupStart, Commit, CopyPage, ReadPage, RestoreRead, CreateTmp, WriteTmp, Rename, RenameFails,
     Crash
<1> QED BY <1>1, <1>2, <1>3, <1>4, <1>5

-----------------------------------------------------------------------------
(* The theorems                                                            *)

\* The inductive invariant holds in every state of the commands, wherever they are killed.
THEOREM BackupInvariance == Spec => []IInv
<1>1. Init => IInv
  <2> SUFFICES ASSUME Init PROVE IInv
    OBVIOUS
  <2>1. [k \in Pages |-> 1] \in State
    BY DEF State
  <2>2. log \in Seq(State) /\ log # <<>> /\ Latest = [k \in Pages |-> 1]
    BY <2>1 DEF Init, Latest
  <2>3. TypeOK
    BY <2>1, <2>2 DEF Init, TypeOK, NoFrames, Labels
  <2>4. Bytes /\ OneRestore /\ Archived /\ Fairness /\ OnlyBackupsRestored /\ BackupIsComplete
    BY DEF Init, Bytes, Holding, Restoring, Filling, OneRestore, Archived, Fairness, OnlyBackupsRestored,
       BackupIsComplete
  <2>5. Locking
    BY BackupAssumption DEF Init, Locking, Closing
  <2>6. VaultIsWhole
    BY <2>1, <2>2, CopiedIsView DEF Init, VaultIsWhole, NoFrames
  <2> QED BY <2>3, <2>4, <2>5, <2>6 DEF IInv
<1>2. IInv /\ [Next]_vars => IInv'
  <2>1. CASE Next
    BY <2>1, TypeStep, BytesStep, OneRestoreStep, LockingStep, ArchivedStep, FairStep, WholeStep,
       RestoredStep, CompleteStep DEF IInv
  <2>2. ASSUME IInv, UNCHANGED vars PROVE IInv'
    <3>1. TypeOK' /\ Bytes' /\ OneRestore' /\ Locking' /\ Archived'
      BY <2>2 DEF IInv, vars, TypeOK, Bytes, OneRestore, Locking, Last, Archived
    <3>2. Fairness'
      BY <2>2 DEF IInv, vars, Fairness, FairBackup, Had
    <3>3. VaultIsWhole' /\ OnlyBackupsRestored' /\ BackupIsComplete'
      BY <2>2 DEF IInv, vars, VaultIsWhole, View, Latest, OnlyBackupsRestored, BackupIsComplete
    <3> QED BY <3>1, <3>2, <3>3 DEF IInv
  <2> QED BY <2>1, <2>2
<1> QED BY <1>1, <1>2, PTL DEF Spec

\* Every variable of the backup model keeps its type: the archive is a record or absent,
\* and what commands hold of the file is a sequence of pages.
THEOREM BackupTypeCorrect == Spec => []TypeOK
<1>1. IInv => TypeOK
  BY DEF IInv
<1> QED BY <1>1, BackupInvariance, PTL

\* Wherever commands are killed, the file and the log beside it give the next command the
\* last commit or restore, as long as every restore had the vault and the temporary file to
\* itself: it met no log left behind, no open connection and no other restore.
THEOREM WholeVault == Spec => []VaultIsWhole
<1>1. IInv => VaultIsWhole
  BY DEF IInv
<1> QED BY <1>1, BackupInvariance, PTL

\* restore_backup brings back only what create_backup once read.
THEOREM RestoredWasBackedUp == Spec => []OnlyBackupsRestored
<1>1. IInv => OnlyBackupsRestored
  BY DEF IInv
<1> QED BY <1>1, BackupInvariance, PTL

\* The archive of a backup that nothing got in the way of is one state of the vault, with
\* every transaction committed before the backup began.
THEOREM UndisturbedIsComplete == Spec => []BackupIsComplete
<1>1. IInv => BackupIsComplete
  BY DEF IInv
<1> QED BY <1>1, BackupInvariance, PTL
===============================================================================
