---------------------------- MODULE SecretsProofs ----------------------------
(***************************************************************************)
(* Theorems about module Secrets, for every value of its constants.        *)
(***************************************************************************)
EXTENDS Secrets, TLAPS

-----------------------------------------------------------------------------
(* The inductive invariant.                                                *)

\* Commands that will write the record, or the job, they hold.
RecordWriters == {"put_save", "put_print", "status_save", "promote_save",
                  "promote_print", "promote_job"}
JobWriters    == {"start_save", "verify_save", "promote_save", "promote_print",
                  "promote_job", "rollback_save"}

Stored(v) == records[v] # NoRecord

Copies ==
    \A p \in Procs :
        /\ pc[p] \in RecordWriters => rec[p] # NoRecord
        /\ pc[p] \in JobWriters => job[p] # NoJob /\ jobId[p] # None

\* Whatever version a row, a job or a copy has, the versions below it are stored.
Below(v) == \A w \in Versions : w < v => Stored(w)

Reserved ==
    /\ \A v \in Versions : Stored(v) => Below(v)
    /\ \A p \in Procs : rec[p] # NoRecord => Below(rec[p].version)
    /\ \A p \in Procs : job[p] # NoJob => Below(job[p].version)
    /\ \A j \in JobIds : jobs[j] # NoJob => Below(jobs[j].version)

\* A command that is about to save a fingerprint has saved its record.
Printed ==
    /\ FingerprintsFollowRecords
    /\ \A p \in Procs : pc[p] \in {"put_print", "promote_print"} => Stored(rec[p].version)

\* The blobs of rotation jobs and those of records, copies included.
JobBlob(b) ==
    \/ \E j \in JobIds : jobs[j] # NoJob /\ jobs[j].blob = b
    \/ \E p \in Procs : job[p] # NoJob /\ job[p].blob = b
RecordBlob(b) ==
    \/ \E v \in Versions : Stored(v) /\ records[v].blob = b
    \/ \E p \in Procs : rec[p] # NoRecord /\ rec[p].blob = b

\* Blobs in use were drawn; a job's blob is a record's only after the check
\* that also precedes the status "verified".
Provenance ==
    /\ \A b \in Blobs : JobBlob(b) \/ RecordBlob(b) => b \in sealed
    /\ \A b \in Blobs : JobBlob(b) /\ RecordBlob(b) => b \in checked
    /\ \A j \in JobIds : jobs[j] # NoJob /\ jobs[j].status = "verified" => jobs[j].blob \in checked
    /\ \A p \in Procs : pc[p] = "verify_save" => job[p].blob \in checked

IInv == TypeOK /\ Copies /\ Reserved /\ Printed /\ Provenance

-----------------------------------------------------------------------------
(* Facts about copies.                                                     *)

\* A command that will write a record holds one, of a blob that was drawn.
LEMMA RecordCopy ==
    ASSUME IInv, NEW p \in Procs, pc[p] \in RecordWriters
    PROVE  rec[p] \in Record /\ rec[p].blob \in sealed
BY DEF IInv, TypeOK, Copies, Provenance, RecordBlob, Record

\* A command that will write a job holds the job and its id.
LEMMA JobCopy ==
    ASSUME IInv, NEW p \in Procs, pc[p] \in JobWriters
    PROVE  job[p] \in Job /\ jobId[p] \in JobIds
BY DEF IInv, TypeOK, Copies

\* RotationJob::transition
LEMMA Transition ==
    ASSUME NEW j \in Job,
           NEW s \in {"staged", "verified", "promoted", "rolled_back"}
    PROVE  LET k == [j EXCEPT !.status = s]
           IN  k \in Job /\ k # NoJob /\ k.version = j.version /\ k.blob = j.blob /\ k.status = s
BY ConstantsAssumption DEF Job

\* A change of status keeps a record's version and content.
LEMMA Restatused ==
    ASSUME NEW r \in Record, NEW s \in {"disabled", "destroyed"}
    PROVE  LET k == [r EXCEPT !.status = s]
           IN  k \in Record /\ k # NoRecord /\ k.version = r.version /\ k.blob = r.blob
BY ConstantsAssumption DEF Record

-----------------------------------------------------------------------------
(* The initial states, and one lemma per action.                           *)

\* The empty store satisfies the invariant.
LEMMA InitIInv == Init => IInv
<1> SUFFICES ASSUME Init PROVE IInv
  OBVIOUS
<1> USE ConstantsAssumption DEF Init
<1>1. TypeOK
  BY DEF TypeOK, Labels
<1>2. Copies
  BY DEF Copies, RecordWriters, JobWriters
<1>3. Reserved
  BY DEF Reserved, Stored
<1>4. Printed
  BY DEF Printed, FingerprintsFollowRecords
<1>5. Provenance
  BY DEF Provenance, JobBlob, RecordBlob, Stored
<1>6. QED
  BY <1>1, <1>2, <1>3, <1>4, <1>5 DEF IInv

\* The copies of a command that ends are gone.
LEMMA FinishStep ==
    ASSUME IInv, NEW p \in Procs,
           Audit(p) \/ Abort(p)
    PROVE  IInv'
<1> USE ConstantsAssumption DEF IInv, Audit, Abort, Finish, Drop, Goto, db, hist
<1>1. TypeOK'
  BY DEF TypeOK, Labels, Record, Job
<1>2. Copies'
  BY DEF TypeOK, Copies, RecordWriters, JobWriters
<1>3. Reserved'
  BY DEF TypeOK, Reserved, Below, Stored
<1>4. Printed'
  BY DEF TypeOK, Copies, RecordWriters, Printed, FingerprintsFollowRecords, Stored, Record
<1>5. Provenance'
  BY SMTT(30) DEF TypeOK, Copies, RecordWriters, JobWriters, Provenance, JobBlob, RecordBlob, Stored, Record, Job
<1>6. QED
  BY <1>1, <1>2, <1>3, <1>4, <1>5

\* put_secret reads the latest version: the versions below the next one are stored.
LEMMA PutReadStep ==
    ASSUME IInv, NEW p \in Procs, NEW b \in Blobs,
           PutRead(p, b)
    PROVE  IInv'
<1> USE ConstantsAssumption DEF IInv, PutRead, IsLatest, Goto, db, hist
<1>a. rec'[p] \in Record /\ rec'[p] # NoRecord
  BY DEF TypeOK, Record
<1>1. TypeOK'
  BY <1>a DEF TypeOK, Labels, Record, Job
<1>2. Copies'
  BY <1>a DEF TypeOK, Copies, RecordWriters, JobWriters
<1>3. Reserved'
  BY <1>a DEF TypeOK, Copies, RecordWriters, JobWriters, Reserved, Below, Stored, Versions, Record, Job
<1>4. Printed'
  BY <1>a DEF TypeOK, Copies, RecordWriters, Printed, FingerprintsFollowRecords, Stored, Record
<1>5. Provenance'
  BY <1>a DEF TypeOK, Copies, RecordWriters, JobWriters, Provenance, JobBlob, RecordBlob, Stored, Record, Job
<1>6. QED
  BY <1>1, <1>2, <1>3, <1>4, <1>5

\* put_secret saves its record, whatever the version holds by now.
LEMMA PutSaveStep ==
    ASSUME IInv, NEW p \in Procs,
           PutSave(p)
    PROVE  IInv'
<1> USE ConstantsAssumption DEF IInv, PutSave, SaveRecord, Goto, hist
<1>a. rec[p] \in Record /\ rec[p].blob \in sealed
  BY RecordCopy DEF RecordWriters
<1>1. TypeOK'
  BY <1>a DEF TypeOK, Labels, Record, Job
<1>2. Copies'
  BY <1>a DEF TypeOK, Copies, RecordWriters, JobWriters
<1>3. Reserved'
  BY <1>a DEF TypeOK, Copies, RecordWriters, JobWriters, Reserved, Below, Stored, Versions, Record, Job
<1>4. Printed'
  BY <1>a DEF TypeOK, Copies, RecordWriters, Printed, FingerprintsFollowRecords, Stored, Record
<1>5. Provenance'
  BY <1>a DEF TypeOK, Copies, RecordWriters, JobWriters, Provenance, JobBlob, RecordBlob, Stored, Record, Job
<1>6. QED
  BY <1>1, <1>2, <1>3, <1>4, <1>5

\* put_secret saves the fingerprint of a record it has stored.
LEMMA PutPrintStep ==
    ASSUME IInv, NEW p \in Procs,
           PutPrint(p)
    PROVE  IInv'
<1> USE ConstantsAssumption DEF IInv, PutPrint, ToAudit, Drop, Goto, hist
<1>a. rec[p] \in Record /\ rec[p].blob \in sealed
  BY RecordCopy DEF RecordWriters
<1>1. TypeOK'
  BY <1>a DEF TypeOK, Labels, Record, Job
<1>2. Copies'
  BY <1>a DEF TypeOK, Copies, RecordWriters, JobWriters
<1>3. Reserved'
  BY <1>a DEF TypeOK, Copies, RecordWriters, JobWriters, Reserved, Below, Stored, Versions, Record, Job
<1>4. Printed'
  BY <1>a DEF TypeOK, Copies, RecordWriters, Printed, FingerprintsFollowRecords, Stored, Record
<1>5. Provenance'
  BY <1>a DEF TypeOK, Copies, RecordWriters, JobWriters, Provenance, JobBlob, RecordBlob, Stored, Record, Job
<1>6. QED
  BY <1>1, <1>2, <1>3, <1>4, <1>5

\* get_secret copies a stored record, or is denied.
LEMMA GetLoadStep ==
    ASSUME IInv, NEW p \in Procs,
           GetLoad(p)
    PROVE  IInv'
<1> USE ConstantsAssumption DEF IInv, GetLoad, IsLatest, Goto, db, hist
<1>1. TypeOK'
  BY DEF TypeOK, Labels, Record, Job
<1>2. Copies'
  BY DEF TypeOK, Copies, RecordWriters, JobWriters
<1>3. Reserved'
  BY DEF TypeOK, Copies, RecordWriters, JobWriters, Reserved, Below, Stored, Versions, Record, Job
<1>4. Printed'
  BY DEF TypeOK, Copies, RecordWriters, Printed, FingerprintsFollowRecords, Stored, Record
<1>5. Provenance'
  BY DEF TypeOK, Copies, RecordWriters, JobWriters, Provenance, JobBlob, RecordBlob, Stored, Record, Job
<1>6. QED
  BY <1>1, <1>2, <1>3, <1>4, <1>5

\* disable_secret and destroy_secret copy the latest row.
LEMMA StatusLoadStep ==
    ASSUME IInv, NEW p \in Procs, NEW s \in {"disabled", "destroyed"},
           StatusLoad(p, s)
    PROVE  IInv'
<1>0. PICK v \in Versions :
        IsLatest(v) /\ rec' = [rec EXCEPT ![p] = [records[v] EXCEPT !.status = s]]
  BY DEF StatusLoad
<1>a. Stored(v) /\ rec' = [rec EXCEPT ![p] = [records[v] EXCEPT !.status = s]]
  BY <1>0, ConstantsAssumption DEF IsLatest, Stored, Versions
<1> USE ConstantsAssumption DEF IInv, StatusLoad, IsLatest, Goto, db, hist
<1>b. records[v] \in Record
  BY <1>a DEF TypeOK, Stored
<1>c. /\ rec'[p] \in Record /\ rec'[p] # NoRecord
      /\ rec'[p].version = records[v].version /\ rec'[p].blob = records[v].blob
      /\ \A q \in Procs : q # p => rec'[q] = rec[q]
  BY <1>a, <1>b, Restatused DEF TypeOK
<1>d. rec' \in [Procs -> Record \cup {NoRecord}]
  BY <1>a, <1>c DEF TypeOK
<1>1. TypeOK'
  BY <1>d DEF TypeOK, Labels
<1>2. Copies'
  BY <1>c DEF TypeOK, Copies, RecordWriters, JobWriters
<1>3. Reserved'
  BY <1>a, <1>b, <1>c DEF TypeOK, Reserved, Below, Stored
<1>4. Printed'
  BY <1>c DEF TypeOK, Copies, RecordWriters, Printed, FingerprintsFollowRecords, Stored
<1>5. Provenance'
  BY <1>a, <1>b, <1>c DEF TypeOK, Provenance, JobBlob, RecordBlob, Stored
<1>6. QED
  BY <1>1, <1>2, <1>3, <1>4, <1>5

\* Their copy is written back over a version that is stored.
LEMMA StatusSaveStep ==
    ASSUME IInv, NEW p \in Procs,
           StatusSave(p)
    PROVE  IInv'
<1> USE ConstantsAssumption DEF IInv, StatusSave, SaveRecord, ToAudit, Drop, Goto
<1>a. rec[p] \in Record /\ rec[p].blob \in sealed
  BY RecordCopy DEF RecordWriters
<1>1. TypeOK'
  BY <1>a DEF TypeOK, Labels, Record, Job
<1>2. Copies'
  BY <1>a DEF TypeOK, Copies, RecordWriters, JobWriters
<1>3. Reserved'
  BY <1>a DEF TypeOK, Copies, RecordWriters, JobWriters, Reserved, Below, Stored, Versions, Record, Job
<1>4. Printed'
  BY <1>a DEF TypeOK, Copies, RecordWriters, Printed, FingerprintsFollowRecords, Stored, Record
<1>5. Provenance'
  BY <1>a DEF TypeOK, Copies, RecordWriters, JobWriters, Provenance, JobBlob, RecordBlob, Stored, Record, Job
<1>6. QED
  BY <1>1, <1>2, <1>3, <1>4, <1>5

\* start_rotation stages a new blob, which no record has.
LEMMA StartReadStep ==
    ASSUME IInv, NEW p \in Procs, NEW j \in JobIds, NEW b \in Blobs,
           StartRead(p, j, b)
    PROVE  IInv'
<1> USE ConstantsAssumption DEF IInv, StartRead, IsLatest, Goto, db, hist
<1>a. job'[p] \in Job /\ job'[p] # NoJob
  BY DEF TypeOK, Job
<1>1. TypeOK'
  BY <1>a DEF TypeOK, Labels, Record, Job
<1>2. Copies'
  BY <1>a DEF TypeOK, Copies, RecordWriters, JobWriters
<1>3. Reserved'
  BY <1>a DEF TypeOK, Copies, RecordWriters, JobWriters, Reserved, Below, Stored, Versions, Record, Job
<1>4. Printed'
  BY <1>a DEF TypeOK, Copies, RecordWriters, Printed, FingerprintsFollowRecords, Stored, Record
<1>5. Provenance'
  BY <1>a DEF TypeOK, Copies, RecordWriters, JobWriters, Provenance, JobBlob, RecordBlob, Stored, Record, Job
<1>6. QED
  BY <1>1, <1>2, <1>3, <1>4, <1>5

\* start_rotation saves its staged job.
LEMMA StartSaveStep ==
    ASSUME IInv, NEW p \in Procs,
           StartSave(p)
    PROVE  IInv'
<1> USE ConstantsAssumption DEF IInv, StartSave, SaveJob, ToAudit, Drop, Goto, hist
<1>a. job[p] \in Job /\ jobId[p] \in JobIds
  BY JobCopy DEF JobWriters
<1>b. LET k == [job[p] EXCEPT !.status = "staged"]
      IN  k \in Job /\ k # NoJob /\ k.version = job[p].version /\ k.blob = job[p].blob /\ k.status = "staged"
  BY <1>a, Transition
<1>1. TypeOK'
  BY <1>a, <1>b DEF TypeOK, Labels, Record, Job
<1>2. Copies'
  BY <1>a, <1>b DEF TypeOK, Copies, RecordWriters, JobWriters
<1>3. Reserved'
  BY <1>a, <1>b DEF TypeOK, Copies, RecordWriters, JobWriters, Reserved, Below, Stored, Versions, Record, Job
<1>4. Printed'
  BY <1>a, <1>b DEF TypeOK, Copies, RecordWriters, Printed, FingerprintsFollowRecords, Stored, Record
<1>5. Provenance'
  BY <1>a, <1>b DEF TypeOK, Copies, RecordWriters, JobWriters, Provenance, JobBlob, RecordBlob, Stored, Record, Job
<1>6. QED
  BY <1>1, <1>2, <1>3, <1>4, <1>5

\* verify_rotation decrypts the staged record.
LEMMA VerifyLoadStep ==
    ASSUME IInv, NEW p \in Procs, NEW j \in JobIds,
           VerifyLoad(p, j)
    PROVE  IInv'
<1> USE ConstantsAssumption DEF IInv, VerifyLoad, LoadJob, Goto, db
<1>a. jobs[j] \in Job /\ jobs[j].blob \in sealed
  BY DEF TypeOK, Job, Provenance, JobBlob
<1>1. TypeOK'
  BY <1>a DEF TypeOK, Labels, Record, Job
<1>2. Copies'
  BY <1>a DEF TypeOK, Copies, RecordWriters, JobWriters
<1>3. Reserved'
  BY <1>a DEF TypeOK, Copies, RecordWriters, JobWriters, Reserved, Below, Stored, Versions, Record, Job
<1>4. Printed'
  BY <1>a DEF TypeOK, Copies, RecordWriters, Printed, FingerprintsFollowRecords, Stored, Record
<1>5. Provenance'
  BY <1>a DEF TypeOK, Copies, RecordWriters, JobWriters, Provenance, JobBlob, RecordBlob, Stored, Record, Job
<1>6. QED
  BY <1>1, <1>2, <1>3, <1>4, <1>5

\* verify_rotation saves a job whose blob was checked.
LEMMA VerifySaveStep ==
    ASSUME IInv, NEW p \in Procs,
           VerifySave(p)
    PROVE  IInv'
<1> USE ConstantsAssumption DEF IInv, VerifySave, SaveJob, ToAudit, Drop, Goto, hist
<1>a. job[p] \in Job /\ jobId[p] \in JobIds
  BY JobCopy DEF JobWriters
<1>b. LET k == [job[p] EXCEPT !.status = "verified"]
      IN  k \in Job /\ k # NoJob /\ k.version = job[p].version /\ k.blob = job[p].blob /\ k.status = "verified"
  BY <1>a, Transition
<1>1. TypeOK'
  BY <1>a, <1>b DEF TypeOK, Labels, Record, Job
<1>2. Copies'
  BY <1>a, <1>b DEF TypeOK, Copies, RecordWriters, JobWriters
<1>3. Reserved'
  BY <1>a, <1>b DEF TypeOK, Copies, RecordWriters, JobWriters, Reserved, Below, Stored, Versions, Record, Job
<1>4. Printed'
  BY <1>a, <1>b DEF TypeOK, Copies, RecordWriters, Printed, FingerprintsFollowRecords, Stored, Record
<1>5. Provenance'
  BY <1>a, <1>b DEF TypeOK, Copies, RecordWriters, JobWriters, Provenance, JobBlob, RecordBlob, Stored, Record, Job
<1>6. QED
  BY <1>1, <1>2, <1>3, <1>4, <1>5

\* promote_rotation builds its record from a verified job only.
LEMMA PromoteLoadStep ==
    ASSUME IInv, NEW p \in Procs, NEW j \in JobIds,
           PromoteLoad(p, j)
    PROVE  IInv'
<1> USE ConstantsAssumption DEF IInv, PromoteLoad, LoadJob, Goto, db, hist
<1>a. jobs[j] \in Job /\ rec'[p] \in Record /\ rec'[p] # NoRecord
  BY DEF TypeOK, Job, Record
<1>1. TypeOK'
  BY <1>a DEF TypeOK, Labels, Record, Job
<1>2. Copies'
  BY <1>a DEF TypeOK, Copies, RecordWriters, JobWriters
<1>3. Reserved'
  BY <1>a DEF TypeOK, Copies, RecordWriters, JobWriters, Reserved, Below, Stored, Versions, Record, Job
<1>4. Printed'
  BY <1>a DEF TypeOK, Copies, RecordWriters, Printed, FingerprintsFollowRecords, Stored, Record
<1>5. Provenance'
  BY <1>a DEF TypeOK, Copies, RecordWriters, JobWriters, Provenance, JobBlob, RecordBlob, Stored, Record, Job
<1>6. QED
  BY <1>1, <1>2, <1>3, <1>4, <1>5

\* promote_rotation saves its record, whatever the version holds by now.
LEMMA PromoteSaveStep ==
    ASSUME IInv, NEW p \in Procs,
           PromoteSave(p)
    PROVE  IInv'
<1> USE ConstantsAssumption DEF IInv, PromoteSave, SaveRecord, Goto, hist
<1>a. rec[p] \in Record /\ rec[p].blob \in sealed
  BY RecordCopy DEF RecordWriters
<1>b. job[p] \in Job /\ jobId[p] \in JobIds
  BY JobCopy DEF JobWriters
<1>1. TypeOK'
  BY <1>a, <1>b DEF TypeOK, Labels, Record, Job
<1>2. Copies'
  BY <1>a, <1>b DEF TypeOK, Copies, RecordWriters, JobWriters
<1>3. Reserved'
  BY <1>a, <1>b DEF TypeOK, Copies, RecordWriters, JobWriters, Reserved, Below, Stored, Versions, Record, Job
<1>4. Printed'
  BY <1>a, <1>b DEF TypeOK, Copies, RecordWriters, Printed, FingerprintsFollowRecords, Stored, Record
<1>5. Provenance'
  BY <1>a, <1>b DEF TypeOK, Copies, RecordWriters, JobWriters, Provenance, JobBlob, RecordBlob, Stored, Record, Job
<1>6. QED
  BY <1>1, <1>2, <1>3, <1>4, <1>5

\* promote_rotation saves the fingerprint of a record it has stored.
LEMMA PromotePrintStep ==
    ASSUME IInv, NEW p \in Procs,
           PromotePrint(p)
    PROVE  IInv'
<1> USE ConstantsAssumption DEF IInv, PromotePrint, Goto, hist
<1>a. rec[p] \in Record /\ rec[p].blob \in sealed
  BY RecordCopy DEF RecordWriters
<1>b. job[p] \in Job /\ jobId[p] \in JobIds
  BY JobCopy DEF JobWriters
<1>1. TypeOK'
  BY <1>a, <1>b DEF TypeOK, Labels, Record, Job
<1>2. Copies'
  BY <1>a, <1>b DEF TypeOK, Copies, RecordWriters, JobWriters
<1>3. Reserved'
  BY <1>a, <1>b DEF TypeOK, Copies, RecordWriters, JobWriters, Reserved, Below, Stored, Versions, Record, Job
<1>4. Printed'
  BY <1>a, <1>b DEF TypeOK, Copies, RecordWriters, Printed, FingerprintsFollowRecords, Stored, Record
<1>5. Provenance'
  BY <1>a, <1>b DEF TypeOK, Copies, RecordWriters, JobWriters, Provenance, JobBlob, RecordBlob, Stored, Record, Job
<1>6. QED
  BY <1>1, <1>2, <1>3, <1>4, <1>5

\* promote_rotation writes its copy of the job back.
LEMMA PromoteJobStep ==
    ASSUME IInv, NEW p \in Procs,
           PromoteJob(p)
    PROVE  IInv'
<1> USE ConstantsAssumption DEF IInv, PromoteJob, SaveJob, ToAudit, Drop, Goto, hist
<1>a. rec[p] \in Record /\ rec[p].blob \in sealed
  BY RecordCopy DEF RecordWriters
<1>b. job[p] \in Job /\ jobId[p] \in JobIds
  BY JobCopy DEF JobWriters
<1>c. LET k == [job[p] EXCEPT !.status = "promoted"]
      IN  k \in Job /\ k # NoJob /\ k.version = job[p].version /\ k.blob = job[p].blob /\ k.status = "promoted"
  BY <1>b, Transition
<1>1. TypeOK'
  BY <1>a, <1>b, <1>c DEF TypeOK, Labels, Record, Job
<1>2. Copies'
  BY <1>a, <1>b, <1>c DEF TypeOK, Copies, RecordWriters, JobWriters
<1>3. Reserved'
  BY <1>a, <1>b, <1>c DEF TypeOK, Copies, RecordWriters, JobWriters, Reserved, Below, Stored, Versions, Record, Job
<1>4. Printed'
  BY <1>a, <1>b, <1>c DEF TypeOK, Copies, RecordWriters, Printed, FingerprintsFollowRecords, Stored, Record
<1>5. Provenance'
  BY <1>a, <1>b, <1>c DEF TypeOK, Copies, RecordWriters, JobWriters, Provenance, JobBlob, RecordBlob, Stored, Record, Job
<1>6. QED
  BY <1>1, <1>2, <1>3, <1>4, <1>5

\* rollback_rotation loads a job that has not ended.
LEMMA RollbackLoadStep ==
    ASSUME IInv, NEW p \in Procs, NEW j \in JobIds,
           RollbackLoad(p, j)
    PROVE  IInv'
<1> USE ConstantsAssumption DEF IInv, RollbackLoad, LoadJob, Goto, db, hist
<1>1. TypeOK'
  BY DEF TypeOK, Labels, Record, Job
<1>2. Copies'
  BY DEF TypeOK, Copies, RecordWriters, JobWriters
<1>3. Reserved'
  BY DEF TypeOK, Copies, RecordWriters, JobWriters, Reserved, Below, Stored, Versions, Record, Job
<1>4. Printed'
  BY DEF TypeOK, Copies, RecordWriters, Printed, FingerprintsFollowRecords, Stored, Record
<1>5. Provenance'
  BY DEF TypeOK, Copies, RecordWriters, JobWriters, Provenance, JobBlob, RecordBlob, Stored, Record, Job
<1>6. QED
  BY <1>1, <1>2, <1>3, <1>4, <1>5

\* rollback_rotation writes its copy of the job back.
LEMMA RollbackSaveStep ==
    ASSUME IInv, NEW p \in Procs,
           RollbackSave(p)
    PROVE  IInv'
<1> USE ConstantsAssumption DEF IInv, RollbackSave, SaveJob, ToAudit, Drop, Goto, hist
<1>a. job[p] \in Job /\ jobId[p] \in JobIds
  BY JobCopy DEF JobWriters
<1>b. LET k == [job[p] EXCEPT !.status = "rolled_back"]
      IN  k \in Job /\ k # NoJob /\ k.version = job[p].version /\ k.blob = job[p].blob /\ k.status = "rolled_back"
  BY <1>a, Transition
<1>1. TypeOK'
  BY <1>a, <1>b DEF TypeOK, Labels, Record, Job
<1>2. Copies'
  BY <1>a, <1>b DEF TypeOK, Copies, RecordWriters, JobWriters
<1>3. Reserved'
  BY <1>a, <1>b DEF TypeOK, Copies, RecordWriters, JobWriters, Reserved, Below, Stored, Versions, Record, Job
<1>4. Printed'
  BY <1>a, <1>b DEF TypeOK, Copies, RecordWriters, Printed, FingerprintsFollowRecords, Stored, Record
<1>5. Provenance'
  BY <1>a, <1>b DEF TypeOK, Copies, RecordWriters, JobWriters, Provenance, JobBlob, RecordBlob, Stored, Record, Job
<1>6. QED
  BY <1>1, <1>2, <1>3, <1>4, <1>5

\* Every step of every command preserves the invariant.
LEMMA NextIInv == IInv /\ [Next]_vars => IInv'
<1> SUFFICES ASSUME IInv, [Next]_vars PROVE IInv'
  OBVIOUS
<1>1. CASE Next
  <2>1. PICK p \in Procs : SecretNext(p) \/ RotationNext(p) \/ Audit(p) \/ Abort(p)
    BY <1>1 DEF Next
  <2>2. CASE SecretNext(p)
    BY <2>2, PutReadStep, PutSaveStep, PutPrintStep, GetLoadStep, StatusLoadStep,
       StatusSaveStep DEF SecretNext
  <2>3. CASE RotationNext(p)
    BY <2>3, StartReadStep, StartSaveStep, VerifyLoadStep, VerifySaveStep,
       PromoteLoadStep, PromoteSaveStep, PromotePrintStep, PromoteJobStep,
       RollbackLoadStep, RollbackSaveStep DEF RotationNext
  <2>4. QED
    BY <2>1, <2>2, <2>3, FinishStep
<1>2. CASE UNCHANGED vars
  BY <1>2 DEF vars, IInv, TypeOK, Copies, Reserved, Below, Stored, Printed,
     FingerprintsFollowRecords, Provenance, JobBlob, RecordBlob
<1>3. QED
  BY <1>1, <1>2

\* The inductive invariant holds of every behaviour.
THEOREM SecretsInvariance == Spec => []IInv
BY InitIInv, NextIInv, PTL DEF Spec

\* Rows, jobs and copies are well formed; a Staged record is never stored.
THEOREM SecretsTypeCorrect == Spec => []TypeOK
<1>1. IInv => TypeOK
  BY DEF IInv
<1>2. QED
  BY <1>1, SecretsInvariance, PTL

\* However put_secret and promote_rotation overlap, the versions stay dense: the
\* version after any latest one that was ever read is never beyond the end.
THEOREM VersionsDense == Spec => []NoVersionGaps
<1>1. IInv => NoVersionGaps
  BY ConstantsAssumption DEF IInv, Reserved, Below, Stored, NoVersionGaps, Versions
<1>2. QED
  BY <1>1, SecretsInvariance, PTL

\* A fingerprint is only ever found beside a stored record.
THEOREM FingerprintsBacked == Spec => []FingerprintsFollowRecords
<1>1. IInv => FingerprintsFollowRecords
  BY DEF IInv, Printed
<1>2. QED
  BY <1>1, SecretsInvariance, PTL

\* No value of a rotation is stored before verify_rotation has decrypted it.
THEOREM PromotionVerified == Spec => []OnlyVerifiedPromoted
<1>1. IInv => OnlyVerifiedPromoted
  <2> SUFFICES ASSUME IInv, NEW v \in Versions, NEW j \in JobIds,
                      records[v] # NoRecord, jobs[j] # NoJob,
                      records[v].blob = jobs[j].blob
               PROVE  jobs[j].blob \in checked
    BY DEF OnlyVerifiedPromoted
  <2>1. jobs[j].blob \in Blobs
    BY DEF IInv, TypeOK, Job
  <2>2. JobBlob(jobs[j].blob) /\ RecordBlob(jobs[j].blob)
    BY DEF JobBlob, RecordBlob, Stored
  <2>3. QED
    BY <2>1, <2>2 DEF IInv, Provenance
<1>2. QED
  BY <1>1, SecretsInvariance, PTL

-----------------------------------------------------------------------------
(* Jobs and blobs over time.                                               *)

\* Commands that loaded a job from the table.
Loaded == JobWriters \ {"start_save"}

\* The id of a job that is not saved yet is nobody else's.
Starting ==
    \A p \in Procs : pc[p] = "start_save" =>
        /\ jobs[jobId[p]] = NoJob
        /\ \A q \in Procs : q # p => jobId[q] # jobId[p]

\* A loaded job is still in the table, with the content it had.
HeldJobs ==
    \A p \in Procs : pc[p] \in Loaded =>
        /\ jobs[jobId[p]] # NoJob
        /\ jobs[jobId[p]].blob = job[p].blob
        /\ pc[p] = "promote_save" => rec[p].blob = job[p].blob

JInv == IInv /\ Starting /\ HeldJobs

\* The step is of p, and leaves the other commands as they are.
OnlyOf(p) ==
    \A q \in Procs : q # p => /\ pc'[q] = pc[q] /\ rec'[q] = rec[q]
                              /\ jobId'[q] = jobId[q] /\ job'[q] = job[q]

\* What a command may do to its copy of a job: go on with it, draw an id for a new
\* one, or load one.
GoesOn(p) ==
    /\ jobId'[p] \in {jobId[p], None}
    /\ pc'[p] \in JobWriters => /\ pc[p] \in Loaded /\ pc'[p] \in Loaded \ {"promote_save"}
                                /\ jobId'[p] = jobId[p] /\ job'[p] = job[p]
Draws(p) ==
    /\ pc'[p] = "start_save"
    /\ jobs[jobId'[p]] = NoJob
    /\ \A q \in Procs : jobId[q] # jobId'[p]
Loads(p) ==
    /\ pc'[p] \in Loaded
    /\ jobs[jobId'[p]] # NoJob /\ job'[p] = jobs[jobId'[p]]
    /\ pc'[p] = "promote_save" => rec'[p].blob = job'[p].blob

\* While no job is saved, no command takes up one that is being started.
LEMMA LoadingKeepsJobs ==
    ASSUME JInv, NEW p \in Procs, UNCHANGED jobs, OnlyOf(p), GoesOn(p) \/ Draws(p) \/ Loads(p)
    PROVE  (Starting /\ HeldJobs)'
<1>1. \A q \in Procs : pc[q] \in JobWriters => jobId[q] \in JobIds
  BY JobCopy DEF JInv
<1>2. QED
  BY <1>1, ConstantsAssumption DEF JInv, Starting, HeldJobs, Loaded, JobWriters,
     OnlyOf, GoesOn, Draws, Loads

\* A job is saved over its own row, or over none.
LEMMA SavingKeepsJobs ==
    ASSUME JInv, NEW p \in Procs, pc[p] \in JobWriters,
           NEW s \in {"staged", "verified", "promoted", "rolled_back"},
           SaveJob(p, s), ToAudit(p)
    PROVE  (Starting /\ HeldJobs)'
<1>1. job[p] \in Job /\ jobId[p] \in JobIds
  BY JobCopy DEF JInv
<1>2. DEFINE k == [job[p] EXCEPT !.status = s]
<1>3. k # NoJob /\ k.blob = job[p].blob
  BY <1>1, Transition
<1>4. \A j \in JobIds : jobs'[j] = IF j = jobId[p] THEN k ELSE jobs[j]
  BY <1>1 DEF SaveJob, JInv, IInv, TypeOK
<1>5. \A q \in Procs : IF q = p THEN pc'[q] = "audit" /\ jobId'[q] = None
                       ELSE pc'[q] = pc[q] /\ jobId'[q] = jobId[q] /\ job'[q] = job[q] /\ rec'[q] = rec[q]
  BY DEF ToAudit, Drop, Goto, JInv, IInv, TypeOK
<1> HIDE DEF k
<1>6. \A q \in Procs : pc[q] \in JobWriters => jobId[q] \in JobIds
  BY JobCopy DEF JInv
<1>7. jobs[jobId[p]] = NoJob \/ jobs[jobId[p]].blob = k.blob
  BY <1>3 DEF JInv, Starting, HeldJobs, Loaded
<1>8. Starting'
  BY <1>1, <1>4, <1>5, <1>6, ConstantsAssumption DEF JInv, Starting, JobWriters
<1>9. HeldJobs'
  BY <1>3, <1>4, <1>5, <1>6, <1>7 DEF JInv, HeldJobs, Loaded, JobWriters
<1>10. QED
  BY <1>8, <1>9

\* A step of a command leaves the other commands as they are.
LEMMA StepOnlyOf ==
    ASSUME IInv, NEW p \in Procs, SecretNext(p) \/ RotationNext(p) \/ Audit(p) \/ Abort(p)
    PROVE  OnlyOf(p)
<1> USE DEF IInv, TypeOK, OnlyOf, Goto
<1>1. CASE SecretNext(p)
  BY <1>1 DEF SecretNext, PutRead, PutSave, PutPrint, GetLoad, StatusLoad, StatusSave,
     ToAudit, Drop
<1>2. CASE RotationNext(p)
  BY <1>2 DEF RotationNext, StartRead, StartSave, VerifySave, RollbackSave, PromoteSave,
     PromotePrint, PromoteJob, VerifyLoad, PromoteLoad, RollbackLoad, LoadJob, ToAudit, Drop
<1>3. CASE Audit(p) \/ Abort(p)
  BY <1>3 DEF Audit, Abort, Finish, Drop
<1>4. QED
  BY <1>1, <1>2, <1>3

\* A command takes up a job in one of the three ways, or saves the one it has.
LEMMA JobsStep ==
    ASSUME JInv, [Next]_vars
    PROVE  (Starting /\ HeldJobs)'
<1>1. ASSUME NEW p \in Procs, SecretNext(p) \/ RotationNext(p) \/ Audit(p) \/ Abort(p)
      PROVE  (Starting /\ HeldJobs)'
  <2> USE DEF JInv, IInv, TypeOK, Goto
  <2>0. OnlyOf(p)
    BY <1>1, StepOnlyOf
  <2>1. CASE SecretNext(p) \/ Audit(p) \/ Abort(p)
    <3>1. UNCHANGED jobs /\ GoesOn(p)
      BY <2>1 DEF SecretNext, PutRead, PutSave, PutPrint, GetLoad, StatusLoad, StatusSave,
         Audit, Abort, Finish, ToAudit, Drop, db, GoesOn, JobWriters
    <3>2. QED
      BY <2>0, <3>1, LoadingKeepsJobs
  <2>2. CASE PromoteSave(p) \/ PromotePrint(p)
    <3>1. UNCHANGED jobs /\ GoesOn(p)
      BY <2>2 DEF PromoteSave, PromotePrint, GoesOn, Loaded, JobWriters
    <3>2. QED
      BY <2>0, <3>1, LoadingKeepsJobs
  <2>3. ASSUME NEW j \in JobIds, NEW b \in Blobs, StartRead(p, j, b)
        PROVE  (Starting /\ HeldJobs)'
    <3>1. UNCHANGED jobs /\ Draws(p)
      BY <2>3 DEF StartRead, db, Draws
    <3>2. QED
      BY <2>0, <3>1, LoadingKeepsJobs
  <2>4. ASSUME NEW j \in JobIds, VerifyLoad(p, j) \/ PromoteLoad(p, j) \/ RollbackLoad(p, j)
        PROVE  (Starting /\ HeldJobs)'
    <3>1. UNCHANGED jobs /\ Loads(p)
      BY <2>4 DEF VerifyLoad, PromoteLoad, RollbackLoad, LoadJob, db, Loads, Loaded, JobWriters
    <3>2. QED
      BY <2>0, <3>1, LoadingKeepsJobs
  <2>5. CASE StartSave(p) \/ VerifySave(p) \/ PromoteJob(p) \/ RollbackSave(p)
    <3>1. /\ pc[p] \in JobWriters /\ ToAudit(p)
          /\ \E s \in {"staged", "verified", "promoted", "rolled_back"} : SaveJob(p, s)
      BY <2>5 DEF StartSave, VerifySave, PromoteJob, RollbackSave, JobWriters
    <3>2. QED
      BY <3>1, SavingKeepsJobs
  <2>6. QED
    BY <1>1, <2>1, <2>2, <2>3, <2>4, <2>5 DEF RotationNext
<1>2. CASE UNCHANGED vars
  BY <1>2 DEF vars, JInv, Starting, HeldJobs
<1>3. QED
  BY <1>1, <1>2 DEF Next

\* Jobs being started and jobs taken up are told apart in every behaviour.
THEOREM JobsInvariance == Spec => []JInv
<1>1. Init => Starting /\ HeldJobs
  BY DEF Init, Starting, HeldJobs, Loaded, JobWriters
<1>2. JInv /\ [Next]_vars => (Starting /\ HeldJobs)'
  BY JobsStep
<1>3. QED
  BY <1>1, <1>2, SecretsInvariance, PTL DEF Spec, JInv

\* A job that has ended, and that no command holds, is neither written nor loaded.
LEMMA EndedStep ==
    ASSUME JInv, [Next]_vars, NEW j \in JobIds,
           jobs[j] # NoJob, jobs[j].status \in {"promoted", "rolled_back"},
           \A p \in Procs : ~Holding(p, j)
    PROVE  jobs'[j] = jobs[j] /\ \A p \in Procs : ~Holding(p, j)'
<1> USE DEF Holding
<1>1. ASSUME NEW p \in Procs, SecretNext(p) \/ RotationNext(p) \/ Audit(p) \/ Abort(p)
      PROVE  jobs'[j] = jobs[j] /\ \A q \in Procs : ~Holding(q, j)'
  <2> USE DEF JInv, IInv, TypeOK, Goto
  <2>0. \A q \in Procs : q # p => ~Holding(q, j)'
    BY <1>1, StepOnlyOf DEF OnlyOf
  <2>1. CASE SecretNext(p) \/ Audit(p) \/ Abort(p)
    BY <2>0, <2>1 DEF SecretNext, PutRead, PutSave, PutPrint, GetLoad, StatusLoad, StatusSave,
       Audit, Abort, Finish, ToAudit, Drop, db
  <2>2. CASE PromoteSave(p) \/ PromotePrint(p)
    BY <2>0, <2>2 DEF PromoteSave, PromotePrint
  <2>3. ASSUME NEW k \in JobIds, NEW b \in Blobs, StartRead(p, k, b)
        PROVE  jobs'[j] = jobs[j] /\ ~Holding(p, j)'
    BY <2>3 DEF StartRead, db
  <2>4. ASSUME NEW k \in JobIds, VerifyLoad(p, k) \/ PromoteLoad(p, k) \/ RollbackLoad(p, k)
        PROVE  jobs'[j] = jobs[j] /\ ~Holding(p, j)'
    BY <2>4 DEF VerifyLoad, PromoteLoad, RollbackLoad, LoadJob, db
  <2>5. CASE StartSave(p) \/ VerifySave(p) \/ PromoteJob(p) \/ RollbackSave(p)
    <3>1. jobId[p] # j
      BY <2>5 DEF StartSave, VerifySave, PromoteJob, RollbackSave, Starting
    <3>2. QED
      BY <2>0, <2>5, <3>1 DEF StartSave, VerifySave, PromoteJob, RollbackSave, SaveJob, ToAudit, Drop
  <2>6. QED
    BY <1>1, <2>0, <2>1, <2>2, <2>3, <2>4, <2>5 DEF RotationNext
<1>2. CASE UNCHANGED vars
  BY <1>2 DEF vars
<1>3. QED
  BY <1>1, <1>2 DEF Next

\* A rotation job that was promoted or rolled back stays so, unless a command loaded
\* it before: no handler takes up an ended job.
THEOREM EndedForGood == Spec => EndedJobsStayEnded
<1>1. JInv /\ [Next]_vars =>
        [\A j \in JobIds :
            (/\ jobs[j] # NoJob /\ jobs[j].status \in {"promoted", "rolled_back"}
             /\ \A p \in Procs : ~Holding(p, j))
            => /\ jobs'[j] = jobs[j]
               /\ \A p \in Procs : ~Holding(p, j)']_vars
  BY EndedStep
<1>2. QED
  BY <1>1, JobsInvariance, PTL DEF Spec, EndedJobsStayEnded

\* A row, a job or a copy has blob b under version v.
Carries(b, v) ==
    \/ v \in Versions /\ Stored(v) /\ records[v].blob = b
    \/ \E p \in Procs : rec[p] # NoRecord /\ rec[p].blob = b /\ rec[p].version = v
    \/ \E j \in JobIds : jobs[j] # NoJob /\ jobs[j].blob = b /\ jobs[j].version = v
    \/ \E p \in Procs : job[p] # NoJob /\ job[p].blob = b /\ job[p].version = v

\* A blob has one version, wherever it is found.
Pinned == \A b \in Blobs, v, w \in Versions : Carries(b, v) /\ Carries(b, w) => v = w

\* A value that put_secret has not saved yet is nowhere else.
Unshared ==
    \A p \in Procs : pc[p] = "put_save" =>
        /\ rec[p].blob \notin withdrawn
        /\ ~JobBlob(rec[p].blob)
        /\ \A v \in Versions : Stored(v) => records[v].blob # rec[p].blob
        /\ \A q \in Procs : q # p /\ rec[q] # NoRecord => rec[q].blob # rec[p].blob

\* Who is about to withdraw a value has a copy that is not active.
Withdrawing == \A p \in Procs : pc[p] = "status_save" => rec[p].status # "active"

\* The blob is that of a rotation job.
Rotated(b) == \E j \in JobIds : jobs[j] # NoJob /\ jobs[j].blob = b

\* A withdrawn value that no rotation brought is not active anywhere.
Gone ==
    \A b \in withdrawn : Rotated(b) \/
        \A v \in Versions : Stored(v) /\ records[v].blob = b => records[v].status # "active"

WInv == JInv /\ Pinned /\ Unshared /\ Withdrawing /\ Gone

\* What is found after the step was found before it, but for one fresh blob.
NothingNew == \A b \in Blobs, v \in Versions : Carries(b, v)' => Carries(b, v)
OneNew(c, u) ==
    /\ c \notin sealed
    /\ \A b \in Blobs, v \in Versions : Carries(b, v)' => Carries(b, v) \/ (b = c /\ v = u)

\* The step brings no blob under another version.
LEMMA PinnedKept ==
    ASSUME IInv, Pinned, NothingNew \/ \E c \in Blobs, u \in Versions : OneNew(c, u)
    PROVE  Pinned'
<1>1. CASE NothingNew
  BY <1>1 DEF NothingNew, Pinned
<1>2. ASSUME NEW c \in Blobs, NEW u \in Versions, OneNew(c, u)
      PROVE  Pinned'
  <2>1. \A v \in Versions : ~Carries(c, v)
    BY <1>2 DEF OneNew, IInv, Provenance, Carries, JobBlob, RecordBlob, Stored
  <2>2. QED
    BY <1>2, <2>1 DEF OneNew, Pinned
<1>3. QED
  BY <1>1, <1>2

\* A saved record was the copy of its command.
LEMMA SaveRecordCarries ==
    ASSUME IInv, NEW p \in Procs, pc[p] \in RecordWriters, SaveRecord(rec[p]),
           OnlyOf(p), rec'[p] \in {rec[p], NoRecord}, job'[p] \in {job[p], NoJob},
           UNCHANGED jobs
    PROVE  NothingNew
<1>1. rec[p] \in Record /\ rec[p] # NoRecord
  BY RecordCopy DEF IInv, Copies
<1>2. \A v \in Versions : records'[v] = IF v = rec[p].version THEN rec[p] ELSE records[v]
  BY <1>1 DEF SaveRecord, IInv, TypeOK
<1>3. QED
  BY <1>1, <1>2 DEF NothingNew, Carries, Stored, OnlyOf

\* A saved job was the copy of its command.
LEMMA SaveJobCarries ==
    ASSUME IInv, NEW p \in Procs, pc[p] \in JobWriters,
           NEW s \in {"staged", "verified", "promoted", "rolled_back"}, SaveJob(p, s),
           OnlyOf(p), rec'[p] = NoRecord, job'[p] = NoJob, UNCHANGED records
    PROVE  NothingNew
<1>1. job[p] \in Job /\ jobId[p] \in JobIds /\ job[p] # NoJob
  BY JobCopy DEF IInv, Copies
<1> DEFINE k == [job[p] EXCEPT !.status = s]
<1>2. k.version = job[p].version /\ k.blob = job[p].blob
  BY <1>1, Transition
<1>3. \A j \in JobIds : jobs'[j] = IF j = jobId[p] THEN k ELSE jobs[j]
  BY <1>1 DEF SaveJob, IInv, TypeOK
<1> HIDE DEF k
<1>4. QED
  BY <1>1, <1>2, <1>3 DEF NothingNew, Carries, Stored, OnlyOf

\* Of all steps only the encryption of a new value brings a new blob.
LEMMA PinnedStep ==
    ASSUME IInv, Pinned, NEW p \in Procs,
           SecretNext(p) \/ RotationNext(p) \/ Audit(p) \/ Abort(p)
    PROVE  Pinned'
<1>0. OnlyOf(p)
  BY StepOnlyOf
<1> USE ConstantsAssumption DEF Goto, OnlyOf
<1>1. CASE Audit(p) \/ Abort(p) \/ PutPrint(p) \/ PromotePrint(p)
  <2>1. UNCHANGED <<records, jobs>> /\ rec'[p] \in {rec[p], NoRecord} /\ job'[p] \in {job[p], NoJob}
    BY <1>1 DEF Audit, Abort, PutPrint, PromotePrint, Finish, ToAudit, Drop, db, IInv, TypeOK
  <2>2. NothingNew
    BY <1>0, <2>1 DEF NothingNew, Carries, Stored
  <2>3. QED
    BY <2>2, PinnedKept
<1>2. CASE PutSave(p) \/ PromoteSave(p) \/ StatusSave(p)
  <2>1. /\ pc[p] \in RecordWriters /\ SaveRecord(rec[p]) /\ UNCHANGED jobs
        /\ rec'[p] \in {rec[p], NoRecord} /\ job'[p] \in {job[p], NoJob}
    BY <1>2 DEF PutSave, PromoteSave, StatusSave, ToAudit, Drop, RecordWriters, IInv, TypeOK
  <2>2. QED
    BY <1>0, <2>1, SaveRecordCarries, PinnedKept
<1>3. CASE StartSave(p) \/ VerifySave(p) \/ PromoteJob(p) \/ RollbackSave(p)
  <2>1. /\ pc[p] \in JobWriters /\ UNCHANGED records /\ rec'[p] = NoRecord /\ job'[p] = NoJob
        /\ \E s \in {"staged", "verified", "promoted", "rolled_back"} : SaveJob(p, s)
    BY <1>3 DEF StartSave, VerifySave, PromoteJob, RollbackSave, ToAudit, Drop, JobWriters,
       IInv, TypeOK
  <2>2. QED
    BY <1>0, <2>1, SaveJobCarries, PinnedKept
<1>4. CASE GetLoad(p) \/ \E s \in {"disabled", "destroyed"} : StatusLoad(p, s)
  <2>1. /\ UNCHANGED <<records, jobs, job>>
        /\ \/ rec'[p] = rec[p]
           \/ \E v \in Versions : Stored(v) /\ rec'[p].blob = records[v].blob /\ rec'[p].version = v
    <3>1. ASSUME NEW v \in Versions, IsLatest(v)
          PROVE  Stored(v) /\ records[v] \in Record /\ records[v].version = v
      BY <3>1 DEF IsLatest, Stored, IInv, TypeOK, Versions
    <3>2. CASE GetLoad(p)
      BY <3>1, <3>2 DEF GetLoad, db, IInv, TypeOK
    <3>3. ASSUME NEW s \in {"disabled", "destroyed"}, StatusLoad(p, s)
          PROVE  \E v \in Versions : Stored(v) /\ rec'[p].blob = records[v].blob /\ rec'[p].version = v
      <4>1. PICK v \in Versions : IsLatest(v) /\ rec' = [rec EXCEPT ![p] = [records[v] EXCEPT !.status = s]]
        BY <3>3 DEF StatusLoad
      <4>2. rec'[p] = [records[v] EXCEPT !.status = s]
        BY <4>1 DEF IInv, TypeOK
      <4>3. Stored(v) /\ records[v] \in Record /\ records[v].version = v
        BY <3>1, <4>1
      <4>4. rec'[p].blob = records[v].blob /\ rec'[p].version = v
        BY <4>2, <4>3, Restatused
      <4>5. QED
        BY <4>3, <4>4
    <3>4. QED
      BY <1>4, <3>2, <3>3 DEF StatusLoad, db
  <2>2. NothingNew
    BY <1>0, <2>1 DEF NothingNew, Carries, Stored
  <2>3. QED
    BY <2>2, PinnedKept
<1>5. ASSUME NEW j \in JobIds, VerifyLoad(p, j) \/ PromoteLoad(p, j) \/ RollbackLoad(p, j)
      PROVE  Pinned'
  <2>1. /\ UNCHANGED <<records, jobs>> /\ jobs[j] # NoJob /\ job'[p] = jobs[j]
        /\ \/ rec'[p] = rec[p]
           \/ rec'[p].blob = jobs[j].blob /\ rec'[p].version = jobs[j].version
    BY <1>5 DEF VerifyLoad, PromoteLoad, RollbackLoad, LoadJob, db, IInv, TypeOK
  <2>2. NothingNew
    BY <1>0, <2>1 DEF NothingNew, Carries, Stored
  <2>3. QED
    BY <2>2, PinnedKept
<1>6. ASSUME NEW b \in Blobs, PutRead(p, b) \/ \E j \in JobIds : StartRead(p, j, b)
      PROVE  Pinned'
  <2>1. PICK v \in Versions :
          /\ UNCHANGED <<records, jobs>> /\ b \notin sealed
          /\ \/ rec'[p].blob = b /\ rec'[p].version = v /\ job'[p] = job[p]
             \/ job'[p].blob = b /\ job'[p].version = v /\ rec'[p] = rec[p]
    BY <1>6 DEF PutRead, StartRead, db, IInv, TypeOK
  <2>2. OneNew(b, v)
    BY <1>0, <2>1 DEF OneNew, Carries, Stored
  <2>3. QED
    BY <2>2, PinnedKept
<1>7. QED
  BY <1>1, <1>2, <1>3, <1>4, <1>5, <1>6 DEF SecretNext, RotationNext

\* The blobs a command can lay its hands on: those of the rows, of its own copy, of
\* jobs, and a fresh one.
Visible(p, b) ==
    \/ \E v \in Versions : Stored(v) /\ records[v].blob = b
    \/ rec[p] # NoRecord /\ rec[p].blob = b
    \/ JobBlob(b)
    \/ b \notin sealed

\* A step of p shows, saves and withdraws only what is visible to p.
Discreet(p) ==
    /\ \A b \in Blobs : JobBlob(b)' => Visible(p, b)
    /\ \A v \in Versions : Stored(v)' => Visible(p, records'[v].blob)
    /\ rec'[p] # NoRecord => Visible(p, rec'[p].blob)
    /\ \A b \in withdrawn' : b \in withdrawn \/ Visible(p, b)

\* The handlers of values show what is visible to them.
LEMMA RecordStepDiscreet ==
    ASSUME IInv, NEW p \in Procs, SecretNext(p)
    PROVE  Discreet(p)
<1>0. OnlyOf(p)
  BY StepOnlyOf
<1> USE ConstantsAssumption DEF Goto, OnlyOf, Discreet
<1>1. ASSUME NEW b \in Blobs, PutRead(p, b) PROVE Discreet(p)
  <2>1. rec'[p].blob = b /\ b \notin sealed /\ UNCHANGED <<records, jobs, job, withdrawn>>
    BY <1>1 DEF PutRead, db, hist, IInv, TypeOK
  <2>2. QED
    BY <1>0, <2>1 DEF Visible, JobBlob, Stored
<1>2. CASE PutSave(p) \/ StatusSave(p)
  <2>1. rec[p] \in Record /\ rec[p] # NoRecord
    BY <1>2, RecordCopy DEF IInv, Copies, RecordWriters, PutSave, StatusSave
  <2>2. \A v \in Versions : records'[v] = IF v = rec[p].version THEN rec[p] ELSE records[v]
    BY <1>2, <2>1 DEF PutSave, StatusSave, SaveRecord, IInv, TypeOK
  <2>3. /\ UNCHANGED jobs /\ job'[p] \in {job[p], NoJob} /\ rec'[p] \in {rec[p], NoRecord}
        /\ withdrawn' \in {withdrawn, withdrawn \cup {rec[p].blob}}
    BY <1>2 DEF PutSave, StatusSave, ToAudit, Drop, hist, IInv, TypeOK
  <2>4. QED
    BY <1>0, <2>1, <2>2, <2>3 DEF Visible, JobBlob, Stored
<1>3. CASE PutPrint(p)
  <2>1. UNCHANGED <<records, jobs, withdrawn>> /\ job'[p] \in {job[p], NoJob} /\ rec'[p] = NoRecord
    BY <1>3 DEF PutPrint, ToAudit, Drop, hist, IInv, TypeOK
  <2>2. QED
    BY <1>0, <2>1 DEF Visible, JobBlob, Stored
<1>4. CASE GetLoad(p) \/ \E s \in {"disabled", "destroyed"} : StatusLoad(p, s)
  <2>1. ASSUME NEW v \in Versions, IsLatest(v)
        PROVE  Stored(v) /\ records[v] \in Record
    BY <2>1 DEF IsLatest, Stored, IInv, TypeOK, Versions
  <2>2. CASE GetLoad(p)
    BY <1>0, <2>1, <2>2 DEF GetLoad, db, hist, IInv, TypeOK, Visible, JobBlob, Stored
  <2>3. ASSUME NEW s \in {"disabled", "destroyed"}, StatusLoad(p, s)
        PROVE  Discreet(p)
    <3>1. PICK v \in Versions : IsLatest(v) /\ rec' = [rec EXCEPT ![p] = [records[v] EXCEPT !.status = s]]
      BY <2>3 DEF StatusLoad
    <3>2. rec'[p].blob = records[v].blob
      BY <2>1, <3>1, Restatused DEF IInv, TypeOK
    <3>3. UNCHANGED <<records, jobs, job, withdrawn>>
      BY <2>3 DEF StatusLoad, db, hist
    <3>4. QED
      BY <1>0, <2>1, <3>1, <3>2, <3>3 DEF Visible, JobBlob, Stored
  <2>4. QED
    BY <1>4, <2>2, <2>3
<1>5. QED
  BY <1>1, <1>2, <1>3, <1>4 DEF SecretNext

\* So do the handlers of rotations, and a command that ends.
LEMMA RotationStepDiscreet ==
    ASSUME IInv, NEW p \in Procs, RotationNext(p) \/ Audit(p) \/ Abort(p)
    PROVE  Discreet(p)
<1>0. OnlyOf(p)
  BY StepOnlyOf
<1> USE ConstantsAssumption DEF Goto, OnlyOf, Discreet
<1>1. ASSUME NEW j \in JobIds, NEW b \in Blobs, StartRead(p, j, b) PROVE Discreet(p)
  <2>1. job'[p].blob = b /\ b \notin sealed /\ UNCHANGED <<records, jobs, rec, withdrawn>>
    BY <1>1 DEF StartRead, db, hist, IInv, TypeOK
  <2>2. QED
    BY <1>0, <2>1 DEF Visible, JobBlob, Stored
<1>2. CASE PromoteSave(p)
  <2>1. rec[p] \in Record /\ rec[p] # NoRecord
    BY <1>2, RecordCopy DEF IInv, Copies, RecordWriters, PromoteSave
  <2>2. \A v \in Versions : records'[v] = IF v = rec[p].version THEN rec[p] ELSE records[v]
    BY <1>2, <2>1 DEF PromoteSave, SaveRecord, IInv, TypeOK
  <2>3. QED
    BY <1>0, <1>2, <2>1, <2>2 DEF PromoteSave, hist, Visible, JobBlob, Stored
<1>3. CASE PromotePrint(p) \/ Audit(p) \/ Abort(p)
  <2>1. /\ UNCHANGED <<records, jobs, withdrawn>>
        /\ job'[p] \in {job[p], NoJob} /\ rec'[p] \in {rec[p], NoRecord}
    BY <1>3 DEF PromotePrint, Audit, Abort, Finish, Drop, db, hist, IInv, TypeOK
  <2>2. QED
    BY <1>0, <2>1 DEF Visible, JobBlob, Stored
<1>4. ASSUME NEW j \in JobIds, VerifyLoad(p, j) \/ PromoteLoad(p, j) \/ RollbackLoad(p, j)
      PROVE  Discreet(p)
  <2>1. /\ UNCHANGED <<records, jobs, withdrawn>> /\ jobs[j] # NoJob /\ job'[p] = jobs[j]
        /\ rec'[p] = rec[p] \/ rec'[p].blob = jobs[j].blob
    BY <1>4 DEF VerifyLoad, PromoteLoad, RollbackLoad, LoadJob, db, hist, IInv, TypeOK
  <2>2. QED
    BY <1>0, <2>1 DEF Visible, JobBlob, Stored
<1>5. CASE StartSave(p) \/ VerifySave(p) \/ PromoteJob(p) \/ RollbackSave(p)
  <2>1. job[p] \in Job /\ jobId[p] \in JobIds /\ job[p] # NoJob
    BY <1>5, JobCopy DEF StartSave, VerifySave, PromoteJob, RollbackSave, JobWriters, IInv, Copies
  <2>2. /\ UNCHANGED <<records, withdrawn>> /\ rec'[p] = NoRecord /\ job'[p] = NoJob
        /\ \E s \in {"staged", "verified", "promoted", "rolled_back"} : SaveJob(p, s)
    BY <1>5 DEF StartSave, VerifySave, PromoteJob, RollbackSave, ToAudit, Drop, hist, IInv, TypeOK
  <2>3. \A j \in JobIds : jobs'[j] = jobs[j] \/ jobs'[j].blob = job[p].blob
    BY <2>1, <2>2, Transition DEF SaveJob, IInv, TypeOK
  <2>4. QED
    BY <1>0, <2>1, <2>2, <2>3 DEF Visible, JobBlob, Stored
<1>6. QED
  BY <1>1, <1>2, <1>3, <1>4, <1>5 DEF RotationNext

\* What is not saved yet is invisible to the other commands.
LEMMA UnsharedStep ==
    ASSUME IInv, Unshared, NEW p \in Procs,
           SecretNext(p) \/ RotationNext(p) \/ Audit(p) \/ Abort(p)
    PROVE  Unshared'
<1>0. OnlyOf(p) /\ Discreet(p)
  BY StepOnlyOf, RecordStepDiscreet, RotationStepDiscreet
<1>1. ASSUME NEW q \in Procs, q # p, pc'[q] = "put_save"
      PROVE  /\ rec'[q].blob \notin withdrawn'
             /\ ~JobBlob(rec[q].blob)' /\ rec'[q] = rec[q]
             /\ \A v \in Versions : Stored(v)' => records'[v].blob # rec'[q].blob
             /\ \A r \in Procs : r # q /\ rec'[r] # NoRecord => rec'[r].blob # rec'[q].blob
  <2>1. pc[q] = "put_save" /\ rec'[q] = rec[q]
    BY <1>0, <1>1 DEF OnlyOf
  <2>2. rec[q] \in Record /\ rec[q].blob \in sealed
    BY <2>1, RecordCopy DEF RecordWriters
  <2>3. ~Visible(p, rec[q].blob) /\ rec[q].blob \in Blobs
    BY <1>1, <2>1, <2>2 DEF Visible, Unshared, Record
  <2>4. QED
    BY <1>0, <1>1, <2>1, <2>3 DEF OnlyOf, Discreet, Unshared
<1>2. ASSUME pc'[p] = "put_save"
      PROVE  /\ rec'[p].blob \notin withdrawn'
             /\ ~JobBlob(rec[p].blob)'
             /\ \A v \in Versions : Stored(v)' => records'[v].blob # rec'[p].blob
             /\ \A r \in Procs : r # p /\ rec'[r] # NoRecord => rec'[r].blob # rec'[p].blob
  <2>1. PICK b \in Blobs : PutRead(p, b)
    BY <1>2 DEF IInv, TypeOK, Goto, SecretNext, RotationNext, PutSave, PutPrint, GetLoad,
       StatusLoad, StatusSave, StartRead, StartSave, VerifySave, RollbackSave, PromoteSave,
       PromotePrint, PromoteJob, VerifyLoad, PromoteLoad, RollbackLoad, LoadJob, Audit, Abort,
       Finish, ToAudit, Drop
  <2>2. /\ rec'[p].blob = b /\ b \notin sealed
        /\ UNCHANGED <<records, jobs, job, withdrawn>>
    BY <2>1 DEF PutRead, db, hist, IInv, TypeOK
  <2>3. b \notin withdrawn /\ ~JobBlob(b) /\ ~RecordBlob(b)
    BY <2>2 DEF IInv, TypeOK, Provenance
  <2>4. QED
    BY <1>0, <2>2, <2>3 DEF OnlyOf, JobBlob, RecordBlob, Stored
<1>3. QED
  BY <1>1, <1>2 DEF Unshared

\* A job keeps its content, so what was rotated once stays known as such.
LEMMA RotatedStays ==
    ASSUME JInv, NEW p \in Procs, SecretNext(p) \/ RotationNext(p) \/ Audit(p) \/ Abort(p),
           NEW b \in Blobs, Rotated(b)
    PROVE  Rotated(b)'
<1>1. CASE UNCHANGED jobs
  BY <1>1 DEF Rotated
<1>2. CASE StartSave(p) \/ VerifySave(p) \/ PromoteJob(p) \/ RollbackSave(p)
  <2>1. job[p] \in Job /\ jobId[p] \in JobIds
    BY <1>2, JobCopy DEF StartSave, VerifySave, PromoteJob, RollbackSave, JobWriters, JInv
  <2>2. \E s \in {"staged", "verified", "promoted", "rolled_back"} : SaveJob(p, s)
    BY <1>2 DEF StartSave, VerifySave, PromoteJob, RollbackSave
  <2>3. \A j \in JobIds : \/ jobs'[j] = jobs[j]
                          \/ j = jobId[p] /\ jobs'[j] # NoJob /\ jobs'[j].blob = job[p].blob
    <3>1. PICK s \in {"staged", "verified", "promoted", "rolled_back"} : SaveJob(p, s)
      BY <2>2
    <3> DEFINE k == [job[p] EXCEPT !.status = s]
    <3>2. k # NoJob /\ k.blob = job[p].blob
      BY <2>1, Transition
    <3>3. \A j \in JobIds : jobs'[j] = IF j = jobId[p] THEN k ELSE jobs[j]
      BY <2>1, <3>1 DEF SaveJob, JInv, IInv, TypeOK
    <3>4. QED
      BY <3>2, <3>3
  <2>4. jobs[jobId[p]] = NoJob \/ jobs[jobId[p]].blob = job[p].blob
    BY <1>2 DEF StartSave, VerifySave, PromoteJob, RollbackSave, JInv, Starting, HeldJobs,
       Loaded, JobWriters
  <2>5. QED
    BY <2>3, <2>4 DEF Rotated
<1>3. QED
  BY <1>1, <1>2 DEF SecretNext, RotationNext, PutRead, PutSave, PutPrint, GetLoad, StatusLoad,
     StatusSave, StartRead, PromoteSave, PromotePrint, VerifyLoad, PromoteLoad, RollbackLoad,
     Audit, Abort, db

\* Three steps save a record: of a value that is nowhere else, of a rotated one, and
\* of one that is being withdrawn.
LEMMA GoneStep ==
    ASSUME WInv, NEW p \in Procs, SecretNext(p) \/ RotationNext(p) \/ Audit(p) \/ Abort(p)
    PROVE  Gone'
<1>0. \A b \in withdrawn : Rotated(b) => Rotated(b)'
  BY RotatedStays DEF WInv, JInv, IInv, TypeOK
<1>1. CASE UNCHANGED <<records, withdrawn>>
  BY <1>0, <1>1 DEF WInv, Gone, Stored
<1>2. CASE PutSave(p) \/ PromoteSave(p) \/ StatusSave(p)
  <2>1. rec[p] \in Record /\ rec[p] # NoRecord
    BY <1>2, RecordCopy DEF WInv, JInv, IInv, Copies, RecordWriters, PutSave, PromoteSave, StatusSave
  <2>2. \A v \in Versions : records'[v] = IF v = rec[p].version THEN rec[p] ELSE records[v]
    BY <1>2, <2>1 DEF PutSave, PromoteSave, StatusSave, SaveRecord, WInv, JInv, IInv, TypeOK
  <2>3. CASE PutSave(p)
    <3>1. rec[p].blob \notin withdrawn /\ withdrawn' = withdrawn
      BY <2>3 DEF PutSave, hist, WInv, Unshared
    <3>2. QED
      BY <1>0, <2>1, <2>2, <3>1 DEF WInv, Gone, Stored
  <2>4. CASE PromoteSave(p)
    <3>1. jobId[p] \in JobIds
      BY <2>4, JobCopy DEF PromoteSave, JobWriters, WInv, JInv
    <3>2. Rotated(rec[p].blob)
      BY <2>4, <3>1 DEF PromoteSave, WInv, JInv, HeldJobs, Loaded, JobWriters, Rotated
    <3>3. Rotated(rec[p].blob)' /\ withdrawn' = withdrawn
      BY <2>4, <3>2 DEF PromoteSave, hist, Rotated
    <3>4. QED
      BY <1>0, <2>1, <2>2, <2>4, <3>2, <3>3 DEF PromoteSave, WInv, Gone, Stored, Rotated
  <2>5. CASE StatusSave(p)
    <3>1. rec[p].status # "active" /\ withdrawn' = withdrawn \cup {rec[p].blob}
      BY <2>5 DEF StatusSave, WInv, Withdrawing
    <3>2. \A v \in Versions : Stored(v) /\ records[v].blob = rec[p].blob => v = rec[p].version
      BY <2>1 DEF WInv, Pinned, Carries, Record
    <3>3. QED
      BY <1>0, <2>1, <2>2, <3>1, <3>2 DEF WInv, Gone, Stored
  <2>6. QED
    BY <1>2, <2>3, <2>4, <2>5
<1>3. QED
  BY <1>1, <1>2 DEF SecretNext, RotationNext, PutRead, PutPrint, GetLoad, StatusLoad,
     StartRead, StartSave, VerifySave, RollbackSave, PromotePrint, PromoteJob, VerifyLoad,
     PromoteLoad, RollbackLoad, Audit, Abort, db, hist

\* save_updated_secret_status changes the status it loaded.
LEMMA WithdrawingStep ==
    ASSUME IInv, Withdrawing, NEW p \in Procs,
           SecretNext(p) \/ RotationNext(p) \/ Audit(p) \/ Abort(p)
    PROVE  Withdrawing'
<1>0. OnlyOf(p)
  BY StepOnlyOf
<1>1. ASSUME pc'[p] = "status_save" PROVE rec'[p].status # "active"
  <2>1. PICK s \in {"disabled", "destroyed"} : StatusLoad(p, s)
    BY <1>1 DEF IInv, TypeOK, Goto, SecretNext, RotationNext, PutRead, PutSave, PutPrint, GetLoad,
       StatusSave, StartRead, StartSave, VerifySave, RollbackSave, PromoteSave,
       PromotePrint, PromoteJob, VerifyLoad, PromoteLoad, RollbackLoad, LoadJob, Audit, Abort,
       Finish, ToAudit, Drop
  <2>2. PICK v \in Versions : IsLatest(v) /\ rec' = [rec EXCEPT ![p] = [records[v] EXCEPT !.status = s]]
    BY <2>1 DEF StatusLoad
  <2>3. records[v] \in Record
    BY <2>2 DEF IsLatest, IInv, TypeOK, Versions
  <2>4. rec'[p].status = s
    BY <2>2, <2>3 DEF IInv, TypeOK, Record
  <2>5. QED
    BY <2>4
<1>2. QED
  BY <1>0, <1>1 DEF OnlyOf, Withdrawing

\* Where a blob is, under which version and in which status, in every behaviour.
THEOREM BlobsInvariance == Spec => []WInv
<1>1. Init => Pinned /\ Unshared /\ Withdrawing /\ Gone
  BY DEF Init, Pinned, Carries, Stored, Unshared, Withdrawing, Gone
<1>2. ASSUME WInv, [Next]_vars PROVE (Pinned /\ Unshared /\ Withdrawing /\ Gone)'
  <2>1. CASE UNCHANGED vars
    BY <1>2, <2>1 DEF vars, WInv, Pinned, Carries, Stored, Unshared, JobBlob, Withdrawing, Gone, Rotated
  <2>2. CASE Next
    BY <1>2, <2>2, PinnedStep, UnsharedStep, WithdrawingStep, GoneStep DEF Next, WInv, JInv
  <2>3. QED
    BY <1>2, <2>1, <2>2
<1>3. WInv /\ [Next]_vars => (Pinned /\ Unshared /\ Withdrawing /\ Gone)'
  BY <1>2
<1>4. QED
  BY <1>1, <1>3, JobsInvariance, PTL DEF Spec, WInv

\* get_secret reads an active row.
LEMMA ReadStep ==
    ASSUME WInv, [Next]_vars, NEW p \in Procs, pc[p] = "idle", pc'[p] = "get_audit"
    PROVE  rec'[p].blob \notin withdrawn \/ Rotated(rec'[p].blob)
<1>1. PICK q \in Procs : SecretNext(q) \/ RotationNext(q) \/ Audit(q) \/ Abort(q)
  BY DEF Next, vars
<1>2. q = p
  BY <1>1, StepOnlyOf DEF OnlyOf, WInv, JInv
<1>3. GetLoad(p)
  BY <1>1, <1>2 DEF WInv, JInv, IInv, TypeOK, Goto, SecretNext, RotationNext, PutRead, PutSave,
     PutPrint, StatusLoad, StatusSave, StartRead, StartSave, VerifySave, RollbackSave,
     PromoteSave, PromotePrint, PromoteJob, VerifyLoad, PromoteLoad, RollbackLoad, LoadJob,
     Audit, Abort, Finish, ToAudit, Drop
<1>4. PICK v \in Versions : IsLatest(v) /\ records[v].status = "active" /\ rec'[p] = records[v]
  BY <1>3 DEF GetLoad, Goto, WInv, JInv, IInv, TypeOK
<1>5. Stored(v)
  BY <1>4 DEF IsLatest, Stored, Versions
<1>6. QED
  BY <1>4, <1>5 DEF WInv, Gone

\* A value of put_secret that was disabled or destroyed is not read again, whatever
\* commands hold older copies of its row.
THEOREM WithdrawnForGood == Spec => WithdrawnIsNotRead
<1>1. WInv /\ [Next]_vars =>
        [\A p \in Procs :
            pc[p] = "idle" /\ pc'[p] = "get_audit" =>
                \/ rec'[p].blob \notin withdrawn
                \/ \E j \in JobIds : jobs[j] # NoJob /\ jobs[j].blob = rec'[p].blob]_vars
  BY ReadStep DEF Rotated
<1>2. QED
  BY <1>1, BlobsInvariance, PTL DEF Spec, WithdrawnIsNotRead
==============================================================================
