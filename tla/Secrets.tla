------------------------------- MODULE Secrets -------------------------------
(***************************************************************************)
(* The versions of one secret reference and its rotation jobs: put_secret, *)
(* get_secret, disable_secret, destroy_secret and the four rotation        *)
(* handlers of vault.rs, one action per store call as in module Tickets.   *)
(* No handler touches the rows of two references, so one is enough.        *)
(*                                                                         *)
(* encrypt_secret draws a fresh DEK and fresh nonces, so no two encrypted  *)
(* records are equal even for equal plaintexts: a record's content is an   *)
(* element of Blobs that was not drawn before.                             *)
(***************************************************************************)
EXTENDS Naturals

CONSTANTS
    Procs,          \* command executions that may overlap
    Blobs,          \* encrypted contents; a bound on put and rotation start
    JobIds,         \* the UUIDs rotation jobs may get; a bound on rotation start
    MaxVersion,     \* a bound on the versions
    NoRecord, NoJob, None

Versions == 1..MaxVersion
Record   == [version: Versions, blob: Blobs, status: {"active", "disabled", "destroyed"}]
Job      == [version: Versions, blob: Blobs,
             status: {"staged", "verified", "promoted", "rolled_back"}]

ASSUME ConstantsAssumption ==
    /\ MaxVersion \in Nat
    /\ NoRecord \notin Record
    /\ NoJob \notin Job
    /\ None \notin JobIds \cup Blobs

VARIABLES
    records,        \* secret_records: records[v] is the row of version v
    prints,         \* redaction_fingerprints: the blob version v's was made of
    jobs,           \* rotation_jobs
    sealed,         \* the blobs drawn so far
    pc,             \* pc[p]: the next store call of command p
    rec,            \* rec[p]: the record p has built or loaded
    jobId, job,     \* jobId[p], job[p]: the rotation job p works on, as loaded
    checked,        \* history: blobs verify_rotation has decrypted
    withdrawn       \* history: blobs saved as disabled or destroyed

db    == <<records, prints, jobs>>
hist  == <<checked, withdrawn>>
vars  == <<records, prints, jobs, sealed, pc, rec, jobId, job, checked,
           withdrawn>>

Labels == {"idle", "put_save", "put_print", "audit", "get_audit", "status_save",
           "start_save", "verify_save", "promote_save", "promote_print",
           "promote_job", "rollback_save"}

\* Staged is a status of jobs only: no row of secret_records ever has it.
TypeOK ==
    /\ records \in [Versions -> Record \cup {NoRecord}]
    /\ \A v \in Versions : records[v] # NoRecord => records[v].version = v
    /\ prints \in [Versions -> Blobs \cup {None}]
    /\ jobs \in [JobIds -> Job \cup {NoJob}]
    /\ sealed \subseteq Blobs
    /\ pc \in [Procs -> Labels]
    /\ rec \in [Procs -> Record \cup {NoRecord}]
    /\ jobId \in [Procs -> JobIds \cup {None}]
    /\ job \in [Procs -> Job \cup {NoJob}]
    /\ checked \subseteq sealed
    /\ withdrawn \subseteq sealed

Init ==
    /\ records = [v \in Versions |-> NoRecord]
    /\ prints = [v \in Versions |-> None]
    /\ jobs = [j \in JobIds |-> NoJob]
    /\ sealed = {}
    /\ pc = [p \in Procs |-> "idle"]
    /\ rec = [p \in Procs |-> NoRecord]
    /\ jobId = [p \in Procs |-> None]
    /\ job = [p \in Procs |-> NoJob]
    /\ checked = {}
    /\ withdrawn = {}

-----------------------------------------------------------------------------
\* latest_version: v is MAX(version), 0 when there is no row
IsLatest(v) ==
    /\ v = 0 \/ (v \in Versions /\ records[v] # NoRecord)
    /\ \A w \in Versions : records[w] # NoRecord => w <= v

Goto(p, l) == pc' = [pc EXCEPT ![p] = l]

\* The handler moves to l and has no more use for its copies.
Drop(p, l) ==
    /\ Goto(p, l)
    /\ rec' = [rec EXCEPT ![p] = NoRecord]
    /\ jobId' = [jobId EXCEPT ![p] = None]
    /\ job' = [job EXCEPT ![p] = NoJob]

\* The rest of the handler is its audit event, made of the copies, and the return.
ToAudit(p) == Drop(p, "audit")
Finish(p)  == Drop(p, "idle")

\* save_secret_record: INSERT OR REPLACE under the record's version
SaveRecord(r) == records' = [records EXCEPT ![r.version] = r]

\* save_rotation_job of the loaded job, in another status
SaveJob(p, s) == jobs' = [jobs EXCEPT ![jobId[p]] = [job[p] EXCEPT !.status = s]]

\* The audit event that ends a handler.
Audit(p) ==
    /\ pc[p] \in {"audit", "get_audit"}
    /\ Finish(p)
    /\ UNCHANGED <<db, sealed, hist>>

\* SIGKILL, SQLITE_BUSY or a failed unlock
Abort(p) ==
    /\ pc[p] # "idle"
    /\ Finish(p)
    /\ UNCHANGED <<db, sealed, hist>>

-----------------------------------------------------------------------------
(* put_secret                                                              *)

\* Mutation: the fingerprint is saved before the record.
PutReadPrinting(p, b) ==
    /\ pc[p] = "idle"
    /\ b \notin sealed
    /\ \E v \in Versions :
          /\ IsLatest(v - 1)
          /\ rec' = [rec EXCEPT ![p] = [version |-> v, blob |-> b, status |-> "active"]]
          /\ prints' = [prints EXCEPT ![v] = b]
    /\ sealed' = sealed \cup {b}
    /\ Goto(p, "put_save")
    /\ UNCHANGED <<records, jobs, jobId, job, hist>>

\* latest_version and the encryption of the new version
PutRead(p, b) ==
    /\ pc[p] = "idle"
    /\ b \notin sealed
    /\ \E v \in Versions :
          /\ IsLatest(v - 1)
          /\ rec' = [rec EXCEPT ![p] = [version |-> v, blob |-> b, status |-> "active"]]
    /\ sealed' = sealed \cup {b}
    /\ Goto(p, "put_save")
    /\ UNCHANGED <<db, jobId, job, hist>>

PutSave(p) ==
    /\ pc[p] = "put_save"
    /\ SaveRecord(rec[p])
    /\ Goto(p, "put_print")
    /\ UNCHANGED <<prints, jobs, sealed, rec, jobId, job, hist>>

\* Mutation: the record is saved a second time with its fingerprint.
PutPrintResaving(p) ==
    /\ pc[p] = "put_print"
    /\ SaveRecord(rec[p])
    /\ prints' = [prints EXCEPT ![rec[p].version] = rec[p].blob]
    /\ ToAudit(p)
    /\ UNCHANGED <<jobs, sealed, hist>>

\* save_redaction_fingerprint
PutPrint(p) ==
    /\ pc[p] = "put_print"
    /\ prints' = [prints EXCEPT ![rec[p].version] = rec[p].blob]
    /\ ToAudit(p)
    /\ UNCHANGED <<records, jobs, sealed, hist>>

-----------------------------------------------------------------------------
(* get_secret, disable_secret and destroy_secret                           *)

\* load_latest_secret and the status check; the plaintext is returned after the
\* "secret.materialized" event, a denial after "secret.access_denied".
GetLoad(p) ==
    /\ pc[p] = "idle"
    /\ \E v \in Versions :
          /\ IsLatest(v)
          /\ IF records[v].status = "active"
             THEN Goto(p, "get_audit") /\ rec' = [rec EXCEPT ![p] = records[v]]
             ELSE Goto(p, "audit") /\ UNCHANGED rec
    /\ UNCHANGED <<db, sealed, jobId, job, hist>>

\* save_updated_secret_status: the load of the latest row ...
StatusLoad(p, s) ==
    /\ pc[p] = "idle"
    /\ \E v \in Versions :
          /\ IsLatest(v)
          /\ rec' = [rec EXCEPT ![p] = [records[v] EXCEPT !.status = s]]
    /\ Goto(p, "status_save")
    /\ UNCHANGED <<db, sealed, jobId, job, hist>>

\* ... and, by another connection, the save of the changed copy
StatusSave(p) ==
    /\ pc[p] = "status_save"
    /\ SaveRecord(rec[p])
    /\ withdrawn' = withdrawn \cup {rec[p].blob}
    /\ ToAudit(p)
    /\ UNCHANGED <<prints, jobs, sealed, checked>>

-----------------------------------------------------------------------------
(* The rotation handlers                                                   *)

\* Mutation: a version is set aside for every job that is still open.
StartReadReserving(p, j, b) ==
    /\ pc[p] = "idle"
    /\ b \notin sealed
    /\ jobs[j] = NoJob /\ \A q \in Procs : jobId[q] # j
    /\ \E v, l \in Versions \cup {0} :
          /\ IsLatest(l)
          /\ v = IF \E k \in JobIds : jobs[k] # NoJob THEN l + 2 ELSE l + 1
          /\ job' = [job EXCEPT ![p] = [version |-> v, blob |-> b, status |-> "staged"]]
    /\ sealed' = sealed \cup {b}
    /\ jobId' = [jobId EXCEPT ![p] = j]
    /\ Goto(p, "start_save")
    /\ UNCHANGED <<db, rec, hist>>

\* start_rotation: latest_version, the encryption and RotationJob::create
StartRead(p, j, b) ==
    /\ pc[p] = "idle"
    /\ b \notin sealed
    /\ jobs[j] = NoJob /\ \A q \in Procs : jobId[q] # j
    /\ \E v \in Versions :
          /\ IsLatest(v - 1)
          /\ job' = [job EXCEPT ![p] = [version |-> v, blob |-> b, status |-> "staged"]]
    /\ sealed' = sealed \cup {b}
    /\ jobId' = [jobId EXCEPT ![p] = j]
    /\ Goto(p, "start_save")
    /\ UNCHANGED <<db, rec, hist>>

StartSave(p) ==
    /\ pc[p] = "start_save"
    /\ SaveJob(p, "staged")
    /\ ToAudit(p)
    /\ UNCHANGED <<records, prints, sealed, hist>>

\* load_rotation_job and the status check, which returns InvalidRotationState
LoadJob(p, j, allowed, l) ==
    /\ pc[p] = "idle"
    /\ jobs[j] # NoJob /\ jobs[j].status \in allowed
    /\ jobId' = [jobId EXCEPT ![p] = j]
    /\ job' = [job EXCEPT ![p] = jobs[j]]
    /\ Goto(p, l)

\* verify_rotation; the staged record is decrypted, the value is not kept.
VerifyLoad(p, j) ==
    /\ LoadJob(p, j, {"staged"}, "verify_save")
    /\ checked' = checked \cup {jobs[j].blob}
    /\ UNCHANGED <<db, sealed, rec, withdrawn>>

VerifySave(p) ==
    /\ pc[p] = "verify_save"
    /\ SaveJob(p, "verified")
    /\ ToAudit(p)
    /\ UNCHANGED <<records, prints, sealed, hist>>

\* Mutation: a staged job is promoted without having been verified.
PromoteLoadStaged(p, j) ==
    /\ LoadJob(p, j, {"staged", "verified"}, "promote_save")
    /\ rec' = [rec EXCEPT ![p] = [version |-> jobs[j].version, blob |-> jobs[j].blob,
                                  status |-> "active"]]
    /\ UNCHANGED <<db, sealed, hist>>

\* Mutation: only a job that was promoted already is refused.
PromoteLoadRolledBack(p, j) ==
    /\ LoadJob(p, j, {"verified", "rolled_back"}, "promote_save")
    /\ rec' = [rec EXCEPT ![p] = [version |-> jobs[j].version, blob |-> jobs[j].blob,
                                  status |-> "active"]]
    /\ UNCHANGED <<db, sealed, hist>>

\* Mutation: the record is stored as it was staged.
PromoteLoadUnchanged(p, j) ==
    /\ LoadJob(p, j, {"verified"}, "promote_save")
    /\ rec' = [rec EXCEPT ![p] = [version |-> jobs[j].version, blob |-> jobs[j].blob,
                                  status |-> "staged"]]
    /\ UNCHANGED <<db, sealed, hist>>

\* promote_rotation: the staged record, Active, under the version it was staged
\* for, whatever was stored under that version meanwhile
PromoteLoad(p, j) ==
    /\ LoadJob(p, j, {"verified"}, "promote_save")
    /\ rec' = [rec EXCEPT ![p] = [version |-> jobs[j].version, blob |-> jobs[j].blob,
                                  status |-> "active"]]
    /\ UNCHANGED <<db, sealed, hist>>

PromoteSave(p) ==
    /\ pc[p] = "promote_save"
    /\ SaveRecord(rec[p])
    /\ Goto(p, "promote_print")
    /\ UNCHANGED <<prints, jobs, sealed, rec, jobId, job, hist>>

PromotePrint(p) ==
    /\ pc[p] = "promote_print"
    /\ prints' = [prints EXCEPT ![rec[p].version] = rec[p].blob]
    /\ Goto(p, "promote_job")
    /\ UNCHANGED <<records, jobs, sealed, rec, jobId, job, hist>>

PromoteJob(p) ==
    /\ pc[p] = "promote_job"
    /\ SaveJob(p, "promoted")
    /\ ToAudit(p)
    /\ UNCHANGED <<records, prints, sealed, hist>>

\* rollback_rotation
RollbackLoad(p, j) ==
    /\ LoadJob(p, j, {"staged", "verified"}, "rollback_save")
    /\ UNCHANGED <<db, sealed, rec, hist>>

RollbackSave(p) ==
    /\ pc[p] = "rollback_save"
    /\ SaveJob(p, "rolled_back")
    /\ ToAudit(p)
    /\ UNCHANGED <<records, prints, sealed, hist>>

-----------------------------------------------------------------------------
SecretNext(p) ==
    \/ \E b \in Blobs : PutRead(p, b)
    \/ PutSave(p) \/ PutPrint(p) \/ GetLoad(p)
    \/ \E s \in {"disabled", "destroyed"} : StatusLoad(p, s)
    \/ StatusSave(p)

RotationNext(p) ==
    \/ \E j \in JobIds, b \in Blobs : StartRead(p, j, b)
    \/ StartSave(p) \/ VerifySave(p) \/ RollbackSave(p)
    \/ PromoteSave(p) \/ PromotePrint(p) \/ PromoteJob(p)
    \/ \E j \in JobIds : VerifyLoad(p, j) \/ PromoteLoad(p, j) \/ RollbackLoad(p, j)

Next == \E p \in Procs : SecretNext(p) \/ RotationNext(p) \/ Audit(p) \/ Abort(p)

Spec == Init /\ [][Next]_vars

-----------------------------------------------------------------------------
(* Properties                                                              *)

\* The stored versions have no gaps although put_secret and start_rotation
\* choose the version after a latest one they read earlier, and a job may be
\* promoted long after it was staged, or never.
NoVersionGaps ==
    \A v \in Versions : records[v] # NoRecord =>
        \A w \in 1..v : records[w] # NoRecord

\* The table of fingerprints, by which output is redacted, never runs ahead of
\* the records: a version with a fingerprint is stored, also when a command dies
\* between its two saves or two commands write the same version.
FingerprintsFollowRecords ==
    \A v \in Versions : prints[v] # None => records[v] # NoRecord

\* A value that came through a rotation is stored, and so can be read, only
\* after verify_rotation decrypted it, whichever commands overlap or die.
OnlyVerifiedPromoted ==
    \A v \in Versions, j \in JobIds :
        records[v] # NoRecord /\ jobs[j] # NoJob /\ records[v].blob = jobs[j].blob
            => jobs[j].blob \in checked

\* p has loaded job j and will write its copy back
Holding(p, j) ==
    jobId[p] = j /\ pc[p] \in {"verify_save", "promote_save", "promote_print",
                               "promote_job", "rollback_save"}

\* A promoted or rolled back job keeps its status for good, except at the hand
\* of a command that loaded the job before it ended and writes its copy back;
\* once no such command is left, none takes the job up again.
EndedJobsStayEnded ==
    [][\A j \in JobIds :
          (/\ jobs[j] # NoJob /\ jobs[j].status \in {"promoted", "rolled_back"}
           /\ \A p \in Procs : ~Holding(p, j))
          => /\ jobs'[j] = jobs[j]
             /\ \A p \in Procs : ~Holding(p, j)']_vars

\* Once a value stored by put_secret is saved as disabled or destroyed, no later
\* get_secret reads it: no overlapping command that holds an older copy of its
\* row writes it back as active.  (A promoted value can come back, when the
\* promotion is repeated after a crash.)
WithdrawnIsNotRead ==
    [][\A p \in Procs :
          pc[p] = "idle" /\ pc'[p] = "get_audit" =>
              \/ rec'[p].blob \notin withdrawn
              \/ \E j \in JobIds : jobs[j] # NoJob /\ jobs[j].blob = rec'[p].blob]_vars
==============================================================================
