-------------------------- MODULE BackupJobsProofs --------------------------
(***************************************************************************)
(* The safety properties of BackupJobs, for any number of archives, rows,  *)
(* tables, admins and commands: `Inv` is inductive and implies them.  One  *)
(* lemma per action; JobMoves serves those that change nothing but one     *)
(* process, RowsMove those of the data, Deletes those of a deletion.       *)
(***************************************************************************)
EXTENDS BackupJobs, FiniteSetTheorems, TLAPS

(* A process that does nothing.                                           *)
LEMMA IdleIsJob == Idle \in Job /\ Idle.at = "idle" /\ Idle.goal = "backup" /\ Idle.doomed = {}
                   /\ Idle.image = {} /\ Idle.left = {}
  BY DEF Idle, Job, Steps, Goals

(* Become gives one process its new job, and the others keep theirs.      *)
LEMMA Moved ==
    ASSUME TypeOK, NEW p \in Processes, NEW j \in Job, Become(p, j)
    PROVE  /\ job' \in [Processes -> Job] /\ job'[p] = j
           /\ \A q \in Processes : q # p => job'[q] = job[q]
  BY DEF TypeOK, Become

(* What a new job of a process has to satisfy, when nothing else changes.  *)
LEMMA JobMoves ==
    ASSUME Inv, NEW p \in Processes, NEW j \in Job, Become(p, j),
           UNCHANGED <<data, archive, table, queue, torn, history>>,
           since' \in [Processes -> SUBSET Rows],
           \A q \in Processes : q # p => since'[q] = since[q],
           since'[p] \subseteq rows, \A r \in since'[p] \cap Kids : ParentsOf[r] \subseteq since'[p],
           j.at # "record",
           job[p].at # "record",
           j.at \in {"erase", "enqueue", "unlist"} => j.of \in Recorded /\ (p \in Commands => Spared(j.of)),
           j.at \in {"enqueue", "unlist"} => j.of \in asked,
           j.at = "unlist" => j.of \notin stored \ queue,
           \A k \in j.doomed : Spared(k),
           j.at \in {"fetch", "commit"} => j.key \in listed \cup asked /\ since'[p] \subseteq holds[j.key],
           j.at = "read" =>
              /\ \A t \in Tables \ j.left : Before[t] \cap j.left = {}
              /\ j.goal = "restore" => \A r \in since'[p] : TableOf[r] \notin j.left => r \in j.image
              /\ p \notin torn =>
                   /\ \A q \in rows \cap (Parents \ Late) : TableOf[q] \notin j.left => q \in j.image
                   /\ \A r \in j.image \cap Kids : \A q \in ParentsOf[r] :
                        q \in (IF TableOf[q] \in j.left THEN rows \cap Late ELSE j.image)
    PROVE  Inv'
<1> USE DEF data, archive, table, history
<1>1. /\ job' \in [Processes -> Job] /\ job'[p] = j
      /\ \A q \in Processes : q # p => job'[q] = job[q]
    BY Moved DEF Inv
<1>2. TypeOK' BY <1>1 DEF Inv, TypeOK
<1>3. DataSound' BY DEF Inv, DataSound
<1>4. KeysSound' BY DEF Inv, KeysSound, Recorded
<1>5. MakersSound' BY <1>1 DEF Inv, MakersSound, Recorded
<1>6. DeletersSound' BY <1>1 DEF Inv, DeletersSound, Recorded
<1>7. ReadersSound'
  <2>1. ASSUME NEW q \in Processes, q # p, job'[q].at = "read" PROVE ReaderSound(q)'
      BY <1>1, <2>1 DEF Inv, ReadersSound, ReaderSound
  <2>2. job'[p].at = "read" => ReaderSound(p)' BY <1>1 DEF ReaderSound
  <2> QED BY <2>1, <2>2 DEF ReadersSound
<1>8. SnapshotsSound' BY <1>1 DEF Inv, SnapshotsSound
<1>9. \A k : Spared(k)' <=> Spared(k) BY DEF Spared, Newer
<1>10. PrunersSound' BY <1>1, <1>9, JobsAssumption DEF Inv, PrunersSound
<1>11. NoArchiveUnnoticed' BY <1>1 DEF Inv, NoArchiveUnnoticed, Unrecorded
<1>12. RowsHaveArchives' BY DEF Inv, RowsHaveArchives
<1>13. PruneSparesNewest' BY <1>1, <1>9 DEF Inv, PruneSparesNewest
<1>14. SnapshotKeepsReplaced' BY <1>1 DEF Inv, SnapshotKeepsReplaced
<1>15. QuietBackupsRestore' BY DEF Inv, QuietBackupsRestore, Whole, Landing
<1> QED BY <1>2, <1>3, <1>4, <1>5, <1>6, <1>7, <1>8, <1>10, <1>11, <1>12, <1>13, <1>14, <1>15 DEF Inv

(* The types of a process and its history.                                *)
LEMMA JobAt == ASSUME Inv, NEW p \in Processes
               PROVE  /\ job[p] \in Job
                      /\ since[p] \in SUBSET Rows /\ since \in [Processes -> SUBSET Rows]
                      /\ since[p] \subseteq rows
                      /\ \A r \in since[p] \cap Kids : ParentsOf[r] \subseteq since[p]
  BY DEF Inv, TypeOK, DataSound

(* JobMoves for the steps that read or make nothing.                      *)
LEMMA NothingElse ==
    ASSUME Inv, NEW p \in Processes, NEW j \in Job, Become(p, j),
           UNCHANGED <<data, archive, table, queue, since, torn, history>>,
           j.at \in {"idle", "check", "list", "prune", "erase"},
           job[p].at # "record",
           j.at = "erase" => j.of \in Recorded /\ (p \in Commands => Spared(j.of)),
           \A k \in j.doomed : Spared(k)
    PROVE  Inv'
<1>1. since' = since OBVIOUS
<1> QED BY <1>1, JobMoves, JobAt DEF Steps

(* A backup begins with every table to read.                              *)
LEMMA StartBackupStep == ASSUME Inv, NEW p \in Processes, StartBackup(p) PROVE Inv'
<1> DEFINE j == [Idle EXCEPT !.at = "read", !.left = Tables]
<1>1. j \in Job /\ j.at = "read" /\ j.image = {} /\ j.goal = "backup" /\ j.doomed = {} /\ j.left = Tables
    BY DEF Idle, Job, Steps, Goals
<1>2. job[p].at = "idle" BY IdleIsJob DEF StartBackup
<1>3. Become(p, j) /\ UNCHANGED <<data, archive, table, queue, since, torn, history>>
    BY DEF StartBackup
<1> HIDE DEF j
<1> QED BY <1>1, <1>2, <1>3, JobMoves, JobAt, RowsAssumption DEF Rows

(* The rows a query finds, and what they name.                            *)
LEMMA ReadTableStep ==
    ASSUME Inv, NEW p \in Processes, NEW t \in Tables, ReadTable(p, t) PROVE Inv'
<1> DEFINE j == [job[p] EXCEPT !.left = @ \ {t}, !.image = @ \cup Found(@, t)]
<1>1. /\ job[p] \in Job /\ rows \subseteq Rows /\ since[p] \subseteq rows
      /\ \A r \in since[p] \cap Kids : ParentsOf[r] \subseteq since[p]
    BY JobAt DEF Inv, TypeOK
<1>2. /\ j \in Job /\ j.at = "read" /\ j.goal = job[p].goal /\ j.doomed = job[p].doomed
      /\ j.left = job[p].left \ {t} /\ j.image = job[p].image \cup Found(job[p].image, t)
    BY <1>1 DEF ReadTable, Job, Found
<1>3. /\ Become(p, j) /\ UNCHANGED <<data, archive, table, queue, since, torn, history>>
      /\ job[p].at = "read" /\ t \in job[p].left /\ Before[t] \cap job[p].left = {}
      /\ ReaderSound(p)
    BY DEF ReadTable, NextTable, Inv, ReadersSound
<1> HIDE DEF j
<1>4. ASSUME NEW u \in Tables \ j.left PROVE Before[u] \cap j.left = {}
    BY <1>2, <1>3, <1>4 DEF ReaderSound
<1>5. ASSUME j.goal = "restore", NEW r \in since[p], TableOf[r] \notin j.left
      PROVE  r \in j.image
  <2>1. CASE TableOf[r] # t BY <1>2, <1>3, <1>5, <2>1 DEF ReaderSound
  <2>2. CASE TableOf[r] = t
    <3>1. ASSUME r \in Kids, NEW q \in ParentsOf[r] \ Late PROVE q \in job[p].image
      <4>1. q \in since[p] BY <1>1, <1>5, <3>1
      <4>2. TableOf[q] \in Before[t] BY <2>2, <3>1, OrderAssumption
      <4> QED BY <1>2, <1>3, <1>5, <4>1, <4>2 DEF ReaderSound
    <3>2. r \in Found(job[p].image, t) BY <1>1, <1>5, <2>2, <3>1 DEF Found
    <3> QED BY <1>2, <3>2
  <2> QED BY <2>1, <2>2
<1>6. ASSUME p \notin torn, NEW q \in rows \cap (Parents \ Late), TableOf[q] \notin j.left
      PROVE  q \in j.image
  <2>1. CASE TableOf[q] # t BY <1>2, <1>3, <1>6, <2>1 DEF ReaderSound
  <2>2. CASE TableOf[q] = t BY <1>2, <1>6, <2>2, RowsAssumption DEF Found
  <2> QED BY <2>1, <2>2
<1>7. ASSUME p \notin torn, NEW r \in j.image \cap Kids, NEW q \in ParentsOf[r]
      PROVE  q \in (IF TableOf[q] \in j.left THEN rows \cap Late ELSE j.image)
  <2>1. q \in Parents BY <1>7, RowsAssumption
  <2>2. CASE r \in job[p].image
    <3>1. q \in (IF TableOf[q] \in job[p].left THEN rows \cap Late ELSE job[p].image)
        BY <1>3, <1>7, <2>2 DEF ReaderSound
    <3>2. CASE TableOf[q] = t
        BY <1>2, <1>3, <2>1, <3>1, <3>2, RowsAssumption DEF Found
    <3>3. CASE TableOf[q] # t BY <1>2, <3>1, <3>3
    <3> QED BY <3>2, <3>3
  <2>3. CASE r \in Found(job[p].image, t)
    <3>1. TableOf[r] = t /\ q \in rows BY <1>7, <2>3 DEF Found, Inv, DataSound
    <3>2. CASE q \in Late
      <4>1. TableOf[q] \in Tables /\ t \in Before[TableOf[q]]
          BY <1>7, <2>1, <3>1, <3>2, OrderAssumption, RowsAssumption DEF Rows
      <4>2. TableOf[q] \in job[p].left /\ TableOf[q] # t BY <1>3, <4>1 DEF ReaderSound
      <4> QED BY <1>2, <3>1, <3>2, <4>2
    <3>3. CASE q \notin Late
      <4>1. TableOf[q] \in Before[t] BY <1>7, <3>1, <3>3, OrderAssumption
      <4>2. TableOf[q] \notin job[p].left BY <1>3, <4>1
      <4> QED BY <1>2, <1>3, <1>7, <2>1, <3>1, <3>3, <4>2 DEF ReaderSound
    <3> QED BY <3>2, <3>3
  <2> QED BY <1>2, <1>7, <2>2, <2>3
<1>8. \A k \in j.doomed : Spared(k)
    BY <1>1, <1>2 DEF Inv, PruneSparesNewest, Job
<1> QED BY <1>1, <1>2, <1>3, <1>4, <1>5, <1>6, <1>7, <1>8, JobMoves, JobAt

(* What a command still has to prune, it may prune.                       *)
LEMMA DoomedSpared == ASSUME Inv, NEW p \in Processes PROVE \A k \in job[p].doomed : Spared(k)
  BY JobAt DEF Inv, PruneSparesNewest, Job

(* Outnumbered among some of the automatic backups is outnumbered among   *)
(* all ever made.                                                         *)
LEMMA Outnumbered ==
    ASSUME Inv, NEW k \in Archives, NEW S \in SUBSET automatic, k \in S,
           Cardinality(Newer(S, k)) >= Keep
    PROVE  Spared(k)
<1>1. IsFiniteSet(Newer(automatic, k))
    BY JobsAssumption, FS_Subset DEF Newer, Inv, TypeOK
<1>2. Newer(S, k) \subseteq Newer(automatic, k) BY DEF Newer
<1>3. Cardinality(Newer(S, k)) <= Cardinality(Newer(automatic, k))
    BY <1>1, <1>2, FS_Subset
<1>4. Cardinality(Newer(S, k)) \in Nat /\ Cardinality(Newer(automatic, k)) \in Nat
    BY <1>1, <1>2, FS_Subset, FS_CardinalityType
<1> QED BY <1>3, <1>4, JobsAssumption DEF Spared

(* What the list shows as past the newest is so for good.                 *)
LEMMA ListStep == ASSUME Inv, NEW p \in Processes, List(p) PROVE Inv'
<1> DEFINE j == [job[p] EXCEPT !.at = "prune", !.doomed = ToPrune(listed)]
<1>1. job[p] \in Job /\ listed \subseteq Archives BY JobAt DEF Inv, TypeOK
<1>2. ToPrune(listed) \subseteq listed BY DEF ToPrune
<1>3. j \in Job /\ j.at = "prune" /\ j.doomed = ToPrune(listed) BY <1>1, <1>2 DEF Job, Steps
<1>4. /\ Become(p, j) /\ UNCHANGED <<data, archive, table, queue, since, torn, history>>
      /\ job[p].at = "list"
    BY DEF List
<1>5. \A k \in ToPrune(listed) : Spared(k)
    BY <1>1, Outnumbered DEF ToPrune
<1> HIDE DEF j
<1> QED BY <1>3, <1>4, <1>5, NothingElse

(* The next to prune comes from that list.                                *)
LEMMA PruneNextStep ==
    ASSUME Inv, NEW p \in Processes, NEW k \in Archives, PruneNext(p, k) PROVE Inv'
<1> DEFINE j == IF k \in listed
                THEN [job[p] EXCEPT !.at = "erase", !.of = k, !.doomed = @ \ {k}]
                ELSE [job[p] EXCEPT !.doomed = @ \ {k}]
<1>1. job[p] \in Job BY JobAt
<1>2. /\ Become(p, j) /\ UNCHANGED <<data, archive, table, queue, since, torn, history>>
      /\ job[p].at = "prune" /\ k \in job[p].doomed
    BY DEF PruneNext
<1>3. /\ j \in Job /\ j.at \in {"prune", "erase"} /\ j.doomed \subseteq job[p].doomed
      /\ j.at = "erase" => j.of = k /\ k \in listed
    BY <1>1, <1>2 DEF Job, Steps
<1>4. listed \subseteq Recorded BY DEF Inv, KeysSound
<1> HIDE DEF j
<1> QED BY <1>2, <1>3, <1>4, DoomedSpared, NothingElse

(* A prune with nothing left ends.                                        *)
LEMMA PruneEndStep == ASSUME Inv, NEW p \in Processes, PruneEnd(p) PROVE Inv'
  BY IdleIsJob, NothingElse DEF PruneEnd

(* An admin deletes a backup that is listed.                              *)
LEMMA StartDeleteStep ==
    ASSUME Inv, NEW p \in Processes, NEW k \in Archives, StartDelete(p, k) PROVE Inv'
<1> DEFINE j == [Idle EXCEPT !.at = "erase", !.goal = "delete", !.of = k]
<1>1. j \in Job /\ j.at = "erase" /\ j.of = k /\ j.doomed = {} BY DEF Idle, Job, Steps, Goals
<1>2. /\ Become(p, j) /\ UNCHANGED <<data, archive, table, queue, since, torn, history>>
      /\ job[p].at = "idle" /\ k \in listed /\ p \notin Commands
    BY IdleIsJob DEF StartDelete
<1>3. listed \subseteq Recorded BY DEF Inv, KeysSound
<1> HIDE DEF j
<1> QED BY <1>1, <1>2, <1>3, NothingElse

(* A restore begins, and with it the history of what stays.               *)
LEMMA StartRestoreStep ==
    ASSUME Inv, NEW p \in Processes, NEW k \in Archives, StartRestore(p, k) PROVE Inv'
<1> DEFINE j == [Idle EXCEPT !.at = "check", !.goal = "restore", !.of = k]
<1>1. j \in Job /\ j.at = "check" /\ j.doomed = {} BY DEF Idle, Job, Steps, Goals
<1>2. /\ Become(p, j) /\ UNCHANGED <<data, archive, table, queue, torn, history>>
      /\ job[p].at = "idle" /\ since' = [since EXCEPT ![p] = rows]
    BY IdleIsJob DEF StartRestore
<1>3. /\ since' \in [Processes -> SUBSET Rows] /\ since'[p] = rows
      /\ \A r \in rows \cap Kids : ParentsOf[r] \subseteq rows
      /\ \A q \in Processes : q # p => since'[q] = since[q]
    BY <1>2 DEF Inv, TypeOK, DataSound
<1> HIDE DEF j
<1> QED BY <1>1, <1>2, <1>3, JobMoves

(* The snapshot of a restore begins.                                      *)
LEMMA CheckFormatStep == ASSUME Inv, NEW p \in Processes, CheckFormat(p) PROVE Inv'
<1> DEFINE j == [job[p] EXCEPT !.at = "read", !.left = Tables, !.image = {}]
<1>1. /\ j \in Job /\ j.at = "read" /\ j.left = Tables /\ j.image = {}
      /\ j.doomed = job[p].doomed
    BY JobAt DEF Job, Steps
<1>2. /\ Become(p, j) /\ UNCHANGED <<data, archive, table, queue, since, torn, history>>
      /\ job[p].at = "check"
    BY DEF CheckFormat
<1>3. \A r \in since[p] : TableOf[r] \in Tables BY JobAt, RowsAssumption DEF Rows
<1> HIDE DEF j
<1> QED BY <1>1, <1>2, <1>3, DoomedSpared, JobMoves, JobAt, RowsAssumption DEF Rows

(* The archive is read after the snapshot is listed.                      *)
LEMMA FetchStep == ASSUME Inv, NEW p \in Processes, Fetch(p) PROVE Inv'
<1> DEFINE j == [job[p] EXCEPT !.at = "commit", !.image = holds[job[p].of]]
<1>1. /\ job[p].at = "fetch" /\ job[p].of \in Archives /\ holds[job[p].of] \in SUBSET Rows
    BY JobAt DEF Fetch, Inv, TypeOK
<1>2. /\ j \in Job /\ j.at = "commit" /\ j.key = job[p].key /\ j.doomed = job[p].doomed
    BY <1>1, JobAt DEF Job, Steps
<1>3. /\ Become(p, j) /\ UNCHANGED <<data, archive, table, queue, since, torn, history>>
    BY DEF Fetch
<1>4. j.key \in listed \cup asked /\ since[p] \subseteq holds[j.key]
    BY <1>1, <1>2 DEF Inv, SnapshotKeepsReplaced
<1> HIDE DEF j
<1> QED BY <1>1, <1>2, <1>3, <1>4, DoomedSpared, JobMoves, JobAt

(* What stays when only the database changes.                              *)
LEMMA RowsMove ==
    ASSUME Inv, NEW rs \in SUBSET Rows, rows' = rs,
           \A r \in rs \cap Kids : ParentsOf[r] \subseteq rs,
           since' \in [Processes -> SUBSET Rows],
           \A p \in Processes : since'[p] = {} \/ since'[p] = since[p] \cap rs,
           used' \in SUBSET Parents,
           torn' \in SUBSET Processes, torn \subseteq torn',
           \A p \in Processes : Misses(p, rs) => p \in torn',
           job' \in [Processes -> Job],
           \A p \in Processes : job'[p] = job[p] \/ job'[p] = Idle,
           \A p \in Processes : job[p].at = "record" => job'[p] = job[p],
           UNCHANGED <<archive, table, queue, history>>
    PROVE  Inv'
<1> USE DEF data, archive, table, history
<1>1. TypeOK' BY DEF Inv, TypeOK
<1>2. DataSound' BY DEF Inv, DataSound
<1>3. KeysSound' BY DEF Inv, KeysSound, Recorded
<1>4. MakersSound' BY IdleIsJob DEF Inv, MakersSound, Recorded
<1>5. DeletersSound' BY IdleIsJob DEF Inv, DeletersSound, Recorded
<1>6. ReadersSound'
  <2>1. SUFFICES ASSUME NEW p \in Processes, job'[p].at = "read" PROVE ReaderSound(p)'
      BY DEF ReadersSound
  <2>2. job'[p] = job[p] /\ job[p].at = "read" /\ ReaderSound(p)
      BY <2>1, IdleIsJob DEF Inv, ReadersSound
  <2>3. job[p].goal = "restore" =>
            \A r \in since'[p] : TableOf[r] \notin job[p].left => r \in job[p].image
      BY <2>2 DEF ReaderSound
  <2>4. ASSUME p \notin torn', NEW q \in rs \cap (Parents \ Late), TableOf[q] \notin job[p].left
        PROVE  q \in job[p].image
      BY <2>2, <2>4 DEF ReaderSound, Misses
  <2>5. ASSUME p \notin torn', NEW r \in job[p].image \cap Kids, NEW q \in ParentsOf[r]
        PROVE  q \in (IF TableOf[q] \in job[p].left THEN rs \cap Late ELSE job[p].image)
      BY <2>2, <2>5 DEF ReaderSound, Misses
  <2> QED BY <2>2, <2>3, <2>4, <2>5 DEF ReaderSound
<1>7. SnapshotsSound' BY IdleIsJob DEF Inv, SnapshotsSound
<1>8. \A k : Spared(k)' <=> Spared(k) BY DEF Spared, Newer
<1>9. PrunersSound' BY <1>8, IdleIsJob, JobsAssumption DEF Inv, PrunersSound
<1>10. NoArchiveUnnoticed' BY DEF Inv, NoArchiveUnnoticed, Unrecorded
<1>11. RowsHaveArchives' BY DEF Inv, RowsHaveArchives
<1>12. PruneSparesNewest' BY <1>8, IdleIsJob DEF Inv, PruneSparesNewest
<1>13. SnapshotKeepsReplaced' BY IdleIsJob DEF Inv, SnapshotKeepsReplaced
<1>14. QuietBackupsRestore' BY DEF Inv, QuietBackupsRestore, Whole, Landing
<1> QED BY <1>1, <1>2, <1>3, <1>4, <1>5, <1>6, <1>7, <1>9, <1>10, <1>11, <1>12, <1>13, <1>14 DEF Inv

(* What SetRows does to the histories.                                    *)
LEMMA RowsSet ==
    ASSUME Inv, NEW rs \in SUBSET Rows, NEW ended, SetRows(rs, ended)
    PROVE  /\ rows' = rs /\ since' \in [Processes -> SUBSET Rows]
           /\ \A p \in Processes : since'[p] = {} \/ since'[p] = since[p] \cap rs
           /\ torn' \in SUBSET Processes /\ torn \subseteq torn'
           /\ \A p \in Processes : Misses(p, rs) => p \in torn'
<1>1. since' = [p \in Processes |-> IF p \in ended THEN {} ELSE since[p] \cap rs]
    BY DEF SetRows
<1>2. \A p \in Processes : since[p] \in SUBSET Rows BY JobAt
<1>3. torn \in SUBSET Processes BY DEF Inv, TypeOK
<1> QED BY <1>1, <1>2, <1>3 DEF SetRows

(* No step of a user leaves a row without what it names.                  *)
LEMMA UserSteps == ASSUME Inv, UserStep PROVE Inv'
<1>1. /\ rows \subseteq Rows /\ used \subseteq Parents /\ job \in [Processes -> Job]
      /\ \A r \in rows \cap Kids : ParentsOf[r] \subseteq rows
    BY DEF Inv, TypeOK, DataSound
<1>2. ASSUME NEW rs \in SUBSET Rows, \A r \in rs \cap Kids : ParentsOf[r] \subseteq rs,
             SetRows(rs, {}), used' \in SUBSET Parents,
             UNCHANGED <<archive, table, queue, job, history>>
      PROVE  Inv'
    BY <1>1, <1>2, RowsSet, RowsMove
<1>3. ASSUME NEW q \in Parents, CreateParent(q) PROVE Inv'
  <2> DEFINE rs == rows \cup {q}
  <2>1. rs \in SUBSET Rows /\ \A r \in rs \cap Kids : ParentsOf[r] \subseteq rs
      BY <1>1, RowsAssumption DEF Rows
  <2>2. SetRows(rs, {}) /\ used' \in SUBSET Parents
      BY <1>1, <1>3 DEF CreateParent
  <2> HIDE DEF rs
  <2> QED BY <1>2, <1>3, <2>1, <2>2 DEF CreateParent
<1>4. ASSUME NEW r \in Kids, CreateKid(r) PROVE Inv'
  <2> DEFINE rs == rows \cup {r}
  <2>1. rs \in SUBSET Rows /\ \A k \in rs \cap Kids : ParentsOf[k] \subseteq rs
      BY <1>1, <1>4, RowsAssumption DEF Rows, CreateKid
  <2>2. SetRows(rs, {}) /\ used' \in SUBSET Parents BY <1>1, <1>4 DEF CreateKid
  <2> HIDE DEF rs
  <2> QED BY <1>2, <1>4, <2>1, <2>2 DEF CreateKid
<1>5. ASSUME NEW r \in Kids, DeleteKid(r) PROVE Inv'
  <2> DEFINE rs == rows \ {r}
  <2>1. rs \in SUBSET Rows /\ \A k \in rs \cap Kids : ParentsOf[k] \subseteq rs
      BY <1>1, RowsAssumption
  <2>2. SetRows(rs, {}) /\ used' \in SUBSET Parents BY <1>1, <1>5 DEF DeleteKid
  <2> HIDE DEF rs
  <2> QED BY <1>2, <1>5, <2>1, <2>2 DEF DeleteKid
<1>6. ASSUME NEW q \in Parents, DeleteParent(q) PROVE Inv'
  <2> DEFINE rs == rows \ ({q} \cup {r \in Kids : q \in ParentsOf[r]})
  <2>1. rs \in SUBSET Rows /\ \A k \in rs \cap Kids : ParentsOf[k] \subseteq rs
      BY <1>1, RowsAssumption
  <2>2. SetRows(rs, {}) /\ used' \in SUBSET Parents BY <1>1, <1>6 DEF DeleteParent
  <2> HIDE DEF rs
  <2> QED BY <1>2, <1>6, <2>1, <2>2 DEF DeleteParent
<1> QED BY <1>3, <1>4, <1>5, <1>6 DEF UserStep

(* A restore that commits leaves every row with what it names.            *)
LEMMA CommitStep == ASSUME Inv, NEW p \in Processes, Commit(p) PROVE Inv'
<1> DEFINE rs == Landing(job[p].image)
<1>1. /\ job[p] \in Job /\ job[p].at = "commit" /\ Whole(job[p].image)
      /\ SetRows(rs, {p}) /\ Become(p, Idle)
      /\ UNCHANGED <<used, archive, table, queue, history>>
    BY JobAt DEF Commit
<1>2. job[p].image \subseteq Rows BY <1>1 DEF Job
<1>3. rs \in SUBSET Rows BY <1>2 DEF Landing
<1>4. \A r \in rs \cap Kids : ParentsOf[r] \subseteq rs
    BY <1>1, RowsAssumption DEF Whole, Landing
<1>5. /\ job' \in [Processes -> Job]
      /\ \A q \in Processes : job'[q] = job[q] \/ job'[q] = Idle
      /\ \A q \in Processes : job[q].at = "record" => job'[q] = job[q]
    BY <1>1, IdleIsJob, Moved DEF Inv
<1>6. used' \in SUBSET Parents BY <1>1 DEF Inv, TypeOK
<1> HIDE DEF rs
<1> QED BY <1>1, <1>3, <1>4, <1>5, <1>6, RowsSet, RowsMove

(* A new archive is its maker's alone, and holds what was read.           *)
LEMMA PutArchiveStep ==
    ASSUME Inv, NEW p \in Processes, NEW k \in Archives, PutArchive(p, k) PROVE Inv'
<1> USE DEF data, table
<1> DEFINE j == [job[p] EXCEPT !.at = "record", !.key = k, !.image = {}]
<1>1. /\ job[p].at = "read" /\ job[p].left = {} /\ k \notin minted
      /\ minted' = minted \cup {k} /\ stored' = stored \cup {k}
      /\ holds' = [holds EXCEPT ![k] = job[p].image]
      /\ rent' = IF p \in torn THEN rent \cup {k} ELSE rent
      /\ torn' = torn \ {p}
      /\ UNCHANGED <<data, table, queue, since, unlisted, asked, pruned>>
    BY DEF PutArchive
<1>2. job[p] \in Job /\ job[p].image \subseteq Rows BY JobAt DEF Job
<1>3. j \in Job /\ j.at = "record" /\ j.key = k /\ j.goal = job[p].goal /\ j.doomed = job[p].doomed
    BY <1>2 DEF Job, Steps
<1>4. /\ job' \in [Processes -> Job] /\ job'[p] = j
      /\ \A q \in Processes : q # p => job'[q] = job[q]
    BY <1>3, Moved DEF PutArchive, Inv
<1> HIDE DEF j
<1>5. k \notin stored \cup Recorded \cup listed \cup automatic \cup asked \cup queue
    BY <1>1 DEF Inv, KeysSound
<1>6. /\ holds' \in [Archives -> SUBSET Rows] /\ holds'[k] = job[p].image
      /\ \A l \in Archives : l # k => holds'[l] = holds[l]
    BY <1>1, <1>2 DEF Inv, TypeOK
<1>7. TypeOK' BY <1>1, <1>4, <1>6 DEF Inv, TypeOK
<1>8. DataSound' BY <1>1 DEF Inv, DataSound
<1>9. KeysSound' BY <1>1 DEF Inv, KeysSound, Recorded
<1>10. MakersSound' BY <1>1, <1>3, <1>4, <1>5 DEF Inv, MakersSound, Recorded
<1>11. DeletersSound' BY <1>1, <1>3, <1>4, <1>5 DEF Inv, DeletersSound, Recorded
<1>12. ReadersSound' BY <1>1, <1>3, <1>4 DEF Inv, ReadersSound, ReaderSound
<1>13. job[p].goal = "restore" => since[p] \subseteq job[p].image
    BY <1>1, JobAt, RowsAssumption DEF Inv, ReadersSound, ReaderSound
<1>14. SnapshotsSound'
  <2>1. \A q \in Processes : job[q].at = "record" => job[q].key \in Archives \ {k}
      BY <1>5 DEF Inv, MakersSound, TypeOK
  <2> QED BY <1>1, <1>3, <1>4, <1>6, <1>13, <2>1 DEF Inv, SnapshotsSound
<1>15. \A l : Spared(l)' <=> Spared(l) BY <1>1 DEF Spared, Newer
<1>16. PrunersSound' BY <1>3, <1>4, <1>15, JobsAssumption DEF Inv, PrunersSound
<1>17. NoArchiveUnnoticed' BY <1>1, <1>3, <1>4 DEF Inv, NoArchiveUnnoticed, Unrecorded
<1>18. RowsHaveArchives' BY <1>1 DEF Inv, RowsHaveArchives
<1>19. PruneSparesNewest' BY <1>1, <1>3, <1>4, <1>15 DEF Inv, PruneSparesNewest
<1>20. SnapshotKeepsReplaced'
  <2>1. \A q \in Processes : job[q].at \in {"fetch", "commit"} => job[q].key \in Archives \ {k}
      BY <1>5 DEF Inv, SnapshotKeepsReplaced, TypeOK
  <2> QED BY <1>1, <1>3, <1>4, <1>6, <2>1 DEF Inv, SnapshotKeepsReplaced
<1>21. QuietBackupsRestore'
  <2>1. p \notin torn => Whole(job[p].image)
      BY <1>1 DEF Inv, ReadersSound, ReaderSound, Whole, Landing
  <2>2. \A l \in minted : Whole(holds'[l]) <=> Whole(holds[l])
      BY <1>1, <1>6 DEF Inv, TypeOK
  <2> QED BY <1>1, <1>6, <2>1, <2>2 DEF Inv, QuietBackupsRestore, Whole, Landing
<1> QED BY <1>7, <1>8, <1>9, <1>10, <1>11, <1>12, <1>14, <1>16, <1>17, <1>18, <1>19, <1>20, <1>21 DEF Inv

(* A row appears only for an archive that is stored.                      *)
LEMMA RecordStep == ASSUME Inv, NEW p \in Processes, Record(p) PROVE Inv'
<1> USE DEF data, archive, history
<1> DEFINE k == job[p].key
           j == IF job[p].goal = "restore" THEN [job[p] EXCEPT !.at = "fetch"]
                ELSE IF p \in Commands THEN [Idle EXCEPT !.at = "list"]
                ELSE Idle
<1>1. /\ job[p].at = "record" /\ listed' = listed \cup {k} /\ clock' = clock + 1
      /\ born' = [born EXCEPT ![k] = clock + 1]
      /\ automatic' = IF p \in Commands THEN automatic \cup {k} ELSE automatic
      /\ UNCHANGED <<data, archive, queue, since, torn, history>>
    BY DEF Record
<1>2. /\ k \in Archives /\ k \in stored \ Recorded /\ born[k] = 0
      /\ \A q \in Processes : job[q].at = "record" /\ job[q].key = k => q = p
    BY <1>1 DEF Inv, TypeOK, MakersSound, Recorded
<1>3. /\ j \in Job /\ j.at \in {"fetch", "list", "idle"} /\ j.doomed \subseteq job[p].doomed
      /\ j.at = "fetch" => j.key = k /\ job[p].goal = "restore"
    BY JobAt, IdleIsJob DEF Job, Idle, Steps, Goals
<1>4. /\ job' \in [Processes -> Job] /\ job'[p] = j
      /\ \A q \in Processes : q # p => job'[q] = job[q]
    BY <1>3, Moved DEF Record, Inv
<1>5. /\ born' \in [Archives -> Nat] /\ born'[k] = clock + 1 /\ clock' \in Nat
      /\ \A l \in Archives : l # k => born'[l] = born[l]
    BY <1>1, <1>2 DEF Inv, TypeOK
<1>6. Recorded' = Recorded \cup {k} BY <1>2, <1>5 DEF Recorded, Inv, TypeOK
<1> HIDE DEF j, k
<1>7. TypeOK' BY <1>1, <1>2, <1>4, <1>5 DEF Inv, TypeOK
<1>8. DataSound' BY <1>1 DEF Inv, DataSound
<1>9. KeysSound' BY <1>1, <1>2, <1>6 DEF Inv, KeysSound
<1>10. MakersSound' BY <1>1, <1>2, <1>3, <1>4, <1>6 DEF Inv, MakersSound
<1>11. DeletersSound' BY <1>1, <1>3, <1>4, <1>6 DEF Inv, DeletersSound
<1>12. ReadersSound' BY <1>1, <1>3, <1>4 DEF Inv, ReadersSound, ReaderSound
<1>13. SnapshotsSound' BY <1>1, <1>3, <1>4 DEF Inv, SnapshotsSound
<1>14. ASSUME NEW l \in Archives, Spared(l) PROVE Spared(l)'
  <2>1. automatic \subseteq Archives \ {k} BY <1>2 DEF Inv, KeysSound, TypeOK
  <2>2. l \in automatic' /\ Newer(automatic, l) \subseteq Newer(automatic, l)'
      BY <1>1, <1>5, <1>14, <2>1 DEF Spared, Newer
  <2>3. IsFiniteSet(Newer(automatic, l)')
      BY <1>7, JobsAssumption, FS_Subset DEF Newer, TypeOK
  <2>4. /\ Cardinality(Newer(automatic, l)) <= Cardinality(Newer(automatic, l)')
        /\ Cardinality(Newer(automatic, l)) \in Nat /\ Cardinality(Newer(automatic, l)') \in Nat
      BY <2>2, <2>3, FS_Subset, FS_CardinalityType
  <2>5. Cardinality(Newer(automatic, l)) >= Keep BY <1>14 DEF Spared
  <2> QED BY <2>2, <2>4, <2>5, JobsAssumption DEF Spared
<1>15. PrunersSound'
  <2>1. \A q \in Processes : job[q].at \in {"erase", "enqueue", "unlist"} => job[q].of \in Archives
      BY DEF Inv, DeletersSound, Recorded
  <2> QED BY <1>3, <1>4, <1>14, <2>1, JobsAssumption DEF Inv, PrunersSound
<1>16. NoArchiveUnnoticed'
  <2>1. \A l \in Unrecorded : l = k \/ l \in Unrecorded' BY <1>4 DEF Unrecorded, k
  <2> QED BY <1>1, <2>1 DEF Inv, NoArchiveUnnoticed
<1>17. RowsHaveArchives' BY <1>1, <1>2 DEF Inv, RowsHaveArchives
<1>18. PruneSparesNewest' BY <1>1, <1>3, <1>4, <1>14 DEF Inv, PruneSparesNewest
<1>19. SnapshotKeepsReplaced'
    BY <1>1, <1>3, <1>4 DEF Inv, SnapshotKeepsReplaced, SnapshotsSound, k
<1>20. QuietBackupsRestore' BY <1>1 DEF Inv, QuietBackupsRestore, Whole, Landing
<1> QED BY <1>7, <1>8, <1>9, <1>10, <1>11, <1>12, <1>13, <1>15, <1>16, <1>17, <1>18, <1>19, <1>20 DEF Inv

(* A step of a deletion: what each says of the archive, its row and the    *)
(* outbox, and nothing of the data.                                        *)
LEMMA Deletes ==
    ASSUME Inv, NEW p \in Processes, NEW j \in Job, Become(p, j),
           job[p].at \in {"erase", "enqueue", "unlist"},
           j.at \in {"enqueue", "unlist", "prune", "idle"},
           j.at \in {"enqueue", "unlist"} => j.of = job[p].of,
           j.doomed \subseteq job[p].doomed,
           stored' \subseteq stored, listed' \subseteq listed,
           \A k \in stored \ stored' : k = job[p].of /\ k \in asked',
           \A k \in listed \ listed' : k = job[p].of /\ k \in asked /\ k \notin stored' \ queue',
           j.at \in {"enqueue", "unlist"} => job[p].of \in asked',
           j.at = "unlist" => job[p].of \notin stored' \ queue',
           queue \subseteq queue', queue' \subseteq queue \cup {job[p].of}, queue' \subseteq asked',
           asked \subseteq asked', asked' \subseteq asked \cup {job[p].of},
           pruned \subseteq pruned',
           pruned' \subseteq pruned \cup {k \in {job[p].of} : p \in Commands},
           UNCHANGED <<data, minted, holds, born, clock, automatic, since, torn, rent, unlisted>>
    PROVE  Inv'
<1> USE DEF data
<1>1. /\ job' \in [Processes -> Job] /\ job'[p] = j
      /\ \A q \in Processes : q # p => job'[q] = job[q]
    BY Moved DEF Inv
<1>2. job[p].of \in Recorded /\ Recorded \subseteq Archives BY DEF Inv, DeletersSound, Recorded
<1>3. TypeOK' BY <1>1, <1>2 DEF Inv, TypeOK
<1>4. DataSound' BY DEF Inv, DataSound
<1>5. KeysSound' BY <1>2 DEF Inv, KeysSound, Recorded
<1>6. MakersSound' BY <1>1, <1>2 DEF Inv, MakersSound, Recorded
<1>7. DeletersSound' BY <1>1, <1>2 DEF Inv, DeletersSound, Recorded
<1>8. ReadersSound' BY <1>1 DEF Inv, ReadersSound, ReaderSound
<1>9. SnapshotsSound' BY <1>1 DEF Inv, SnapshotsSound
<1>10. \A l : Spared(l)' <=> Spared(l) BY DEF Spared, Newer
<1>11. p \in Commands => Spared(job[p].of) BY DEF Inv, PrunersSound
<1>12. PrunersSound' BY <1>1, <1>10, <1>11, JobsAssumption DEF Inv, PrunersSound
<1>13. NoArchiveUnnoticed'
  <2>1. Unrecorded \subseteq Unrecorded' BY <1>1 DEF Unrecorded
  <2> QED BY <2>1 DEF Inv, NoArchiveUnnoticed
<1>14. RowsHaveArchives' BY DEF Inv, RowsHaveArchives
<1>15. PruneSparesNewest' BY <1>1, <1>10, <1>11 DEF Inv, PruneSparesNewest
<1>16. SnapshotKeepsReplaced' BY <1>1 DEF Inv, SnapshotKeepsReplaced
<1>17. QuietBackupsRestore' BY DEF Inv, QuietBackupsRestore, Whole, Landing
<1> QED BY <1>3, <1>4, <1>5, <1>6, <1>7, <1>8, <1>9, <1>12, <1>13, <1>14, <1>15, <1>16, <1>17 DEF Inv

(* The archive goes before its row.                                       *)
LEMMA EraseStep == ASSUME Inv, NEW p \in Processes, Erase(p) PROVE Inv'
<1> DEFINE j == [job[p] EXCEPT !.at = "unlist"]
<1>1. j \in Job /\ j.at = "unlist" /\ j.of = job[p].of /\ j.doomed = job[p].doomed
    BY JobAt DEF Job, Steps
<1> HIDE DEF j
<1>2. Become(p, j) BY DEF Erase, j
<1>9. queue \subseteq asked BY DEF Inv, KeysSound
<1> QED BY <1>1, <1>2, <1>9, Deletes DEF Erase, table

(* A refused delete goes to the outbox before the row goes.               *)
LEMMA EraseFailsStep == ASSUME Inv, NEW p \in Processes, EraseFails(p) PROVE Inv'
<1> DEFINE j == [job[p] EXCEPT !.at = "enqueue"]
<1>1. j \in Job /\ j.at = "enqueue" /\ j.of = job[p].of /\ j.doomed = job[p].doomed
    BY JobAt DEF Job, Steps
<1> HIDE DEF j
<1>2. Become(p, j) BY DEF EraseFails, j
<1>9. queue \subseteq asked BY DEF Inv, KeysSound
<1> QED BY <1>1, <1>2, <1>9, Deletes DEF EraseFails, table, archive

(* The outbox takes the key.                                              *)
LEMMA EnqueueStep == ASSUME Inv, NEW p \in Processes, Enqueue(p) PROVE Inv'
<1> DEFINE j == [job[p] EXCEPT !.at = "unlist"]
<1>1. j \in Job /\ j.at = "unlist" /\ j.of = job[p].of /\ j.doomed = job[p].doomed
    BY JobAt DEF Job, Steps
<1> HIDE DEF j
<1>2. Become(p, j) BY DEF Enqueue, j
<1>3. job[p].of \in asked BY DEF Inv, DeletersSound, Enqueue
<1>9. queue \subseteq asked BY DEF Inv, KeysSound
<1> QED BY <1>1, <1>2, <1>3, <1>9, Deletes DEF Enqueue, table, archive, history

(* The row goes once its archive is gone or queued.                       *)
LEMMA UnlistStep == ASSUME Inv, NEW p \in Processes, Unlist(p) PROVE Inv'
<1> DEFINE j == IF p \in Commands THEN [job[p] EXCEPT !.at = "prune", !.of = None] ELSE Idle
<1>1. j \in Job /\ j.at \in {"prune", "idle"} /\ j.doomed \subseteq job[p].doomed
    BY JobAt, IdleIsJob DEF Job, Steps
<1> HIDE DEF j
<1>2. Become(p, j) BY DEF Unlist, j
<1>3. job[p].of \in asked /\ job[p].of \notin stored \ queue BY DEF Inv, DeletersSound, Unlist
<1>9. queue \subseteq asked BY DEF Inv, KeysSound
<1> QED BY <1>1, <1>2, <1>3, <1>9, Deletes DEF Unlist, archive

(* A drain takes only archives someone asked to delete.                   *)
LEMMA DrainSteps == ASSUME Inv, NEW k \in Archives, Drain(k) PROVE Inv'
<1> USE DEF data, table, history
<1>1. /\ k \in queue /\ stored' = stored \ {k} /\ queue' = queue \ {k}
      /\ UNCHANGED <<data, minted, holds, table, job, since, torn, history>>
    BY DEF Drain
<1>2. k \in Recorded BY <1>1 DEF Inv, KeysSound
<1>3. TypeOK' BY <1>1 DEF Inv, TypeOK
<1>4. DataSound' BY <1>1 DEF Inv, DataSound
<1>5. KeysSound' BY <1>1 DEF Inv, KeysSound, Recorded
<1>6. MakersSound' BY <1>1, <1>2 DEF Inv, MakersSound, Recorded
<1>7. DeletersSound' BY <1>1 DEF Inv, DeletersSound, Recorded
<1>8. ReadersSound' BY <1>1 DEF Inv, ReadersSound, ReaderSound
<1>9. SnapshotsSound' BY <1>1 DEF Inv, SnapshotsSound
<1>10. \A l : Spared(l)' <=> Spared(l) BY <1>1 DEF Spared, Newer
<1>11. PrunersSound' BY <1>1, <1>10, JobsAssumption DEF Inv, PrunersSound
<1>12. NoArchiveUnnoticed' BY <1>1 DEF Inv, NoArchiveUnnoticed, Unrecorded
<1>13. RowsHaveArchives' BY <1>1 DEF Inv, RowsHaveArchives, KeysSound
<1>14. PruneSparesNewest' BY <1>1, <1>10 DEF Inv, PruneSparesNewest
<1>15. SnapshotKeepsReplaced' BY <1>1 DEF Inv, SnapshotKeepsReplaced
<1>16. QuietBackupsRestore' BY <1>1 DEF Inv, QuietBackupsRestore, Whole, Landing
<1> QED BY <1>3, <1>4, <1>5, <1>6, <1>7, <1>8, <1>9, <1>11, <1>12, <1>13, <1>14, <1>15, <1>16 DEF Inv

(* Whatever fails, what was done stays done.                              *)
LEMMA AbandonStep == ASSUME Inv, NEW p \in Processes, Abandon(p) PROVE Inv'
<1> USE DEF data, archive, table
<1>1. /\ torn' = torn \ {p} /\ since' = [since EXCEPT ![p] = {}]
      /\ unlisted' = IF job[p].at = "record" THEN unlisted \cup {job[p].key} ELSE unlisted
      /\ UNCHANGED <<data, archive, table, queue, rent, asked, pruned>>
    BY DEF Abandon
<1>2. /\ job' \in [Processes -> Job] /\ job'[p] = Idle
      /\ \A q \in Processes : q # p => job'[q] = job[q]
    BY IdleIsJob, Moved DEF Abandon, Inv
<1>3. /\ since' \in [Processes -> SUBSET Rows] /\ since'[p] = {}
      /\ \A q \in Processes : q # p => since'[q] = since[q]
    BY <1>1 DEF Inv, TypeOK
<1>4. job[p].at = "record" => job[p].key \in Archives BY DEF Inv, MakersSound, TypeOK
<1>5. TypeOK' BY <1>1, <1>2, <1>3, <1>4 DEF Inv, TypeOK
<1>6. DataSound' BY <1>1, <1>3 DEF Inv, DataSound
<1>7. KeysSound' BY <1>1 DEF Inv, KeysSound, Recorded
<1>8. MakersSound' BY <1>1, <1>2, IdleIsJob DEF Inv, MakersSound, Recorded
<1>9. DeletersSound' BY <1>1, <1>2, IdleIsJob DEF Inv, DeletersSound, Recorded
<1>10. ReadersSound' BY <1>1, <1>2, <1>3, IdleIsJob DEF Inv, ReadersSound, ReaderSound
<1>11. SnapshotsSound' BY <1>1, <1>2, <1>3, IdleIsJob DEF Inv, SnapshotsSound
<1>12. \A l : Spared(l)' <=> Spared(l) BY <1>1 DEF Spared, Newer
<1>13. PrunersSound' BY <1>1, <1>2, <1>12, IdleIsJob, JobsAssumption DEF Inv, PrunersSound
<1>14. NoArchiveUnnoticed'
  <2>1. \A l \in Unrecorded : l \in Unrecorded' \/ l \in unlisted' BY <1>1, <1>2 DEF Unrecorded
  <2>2. unlisted \subseteq unlisted' BY <1>1
  <2> QED BY <1>1, <2>1, <2>2 DEF Inv, NoArchiveUnnoticed
<1>15. RowsHaveArchives' BY <1>1 DEF Inv, RowsHaveArchives
<1>16. PruneSparesNewest' BY <1>1, <1>2, <1>12, IdleIsJob DEF Inv, PruneSparesNewest
<1>17. SnapshotKeepsReplaced' BY <1>1, <1>2, <1>3, IdleIsJob DEF Inv, SnapshotKeepsReplaced
<1>18. QuietBackupsRestore' BY <1>1 DEF Inv, QuietBackupsRestore, Whole, Landing
<1> QED BY <1>5, <1>6, <1>7, <1>8, <1>9, <1>10, <1>11, <1>13, <1>14, <1>15, <1>16, <1>17, <1>18 DEF Inv

----------------------------------------------------------------------------
(* It holds to begin with.                                                *)
LEMMA InitInv == Init => Inv
<1> SUFFICES ASSUME Init PROVE Inv OBVIOUS
<1> USE IdleIsJob DEF Init
<1>1. TypeOK BY DEF TypeOK
<1>2. \A p \in Processes : job[p] = Idle OBVIOUS
<1>3. DataSound /\ KeysSound /\ MakersSound /\ DeletersSound
    BY DEF DataSound, KeysSound, MakersSound, DeletersSound, Recorded
<1>4. ReadersSound /\ SnapshotsSound BY DEF ReadersSound, SnapshotsSound
<1>5. PrunersSound BY JobsAssumption DEF PrunersSound
<1>6. NoArchiveUnnoticed /\ RowsHaveArchives /\ PruneSparesNewest
    BY DEF NoArchiveUnnoticed, RowsHaveArchives, PruneSparesNewest
<1>7. SnapshotKeepsReplaced /\ QuietBackupsRestore
    BY DEF SnapshotKeepsReplaced, QuietBackupsRestore
<1> QED BY <1>1, <1>3, <1>4, <1>5, <1>6, <1>7 DEF Inv

(* Every step keeps the invariant.                                        *)
LEMMA NextInv == Inv /\ [Next]_vars => Inv'
<1> SUFFICES ASSUME Inv, [Next]_vars PROVE Inv' OBVIOUS
<1>1. CASE UserStep BY <1>1, UserSteps
<1>2. ASSUME NEW p \in Processes, BackupStep(p) PROVE Inv'
    BY <1>2, StartBackupStep, RecordStep, ReadTableStep, PutArchiveStep DEF BackupStep
<1>3. ASSUME NEW p \in Processes, DeleteStep(p) PROVE Inv'
    BY <1>3, StartDeleteStep, PruneNextStep, ListStep, PruneEndStep, EraseStep,
       EraseFailsStep, EnqueueStep, UnlistStep DEF DeleteStep
<1>4. ASSUME NEW p \in Processes, RestoreStep(p) PROVE Inv'
    BY <1>4, StartRestoreStep, CheckFormatStep, FetchStep, CommitStep DEF RestoreStep
<1>5. ASSUME NEW p \in Processes, ProcessStep(p) PROVE Inv'
    BY <1>2, <1>3, <1>4, <1>5, AbandonStep DEF ProcessStep
<1>6. ASSUME NEW k \in Archives, Drain(k) PROVE Inv' BY <1>6, DrainSteps
<1>7. CASE UNCHANGED vars
  <2> USE <1>7 DEF vars
  <2>1. TypeOK' BY DEF Inv, TypeOK
  <2>2. (DataSound /\ KeysSound /\ MakersSound /\ DeletersSound)'
      BY DEF Inv, DataSound, KeysSound, MakersSound, DeletersSound, Recorded
  <2>3. (ReadersSound /\ SnapshotsSound)' BY DEF Inv, ReadersSound, ReaderSound, SnapshotsSound
  <2>4. (PrunersSound /\ PruneSparesNewest)'
      BY DEF Inv, PrunersSound, PruneSparesNewest, Spared, Newer
  <2>5. (NoArchiveUnnoticed /\ RowsHaveArchives)'
      BY DEF Inv, NoArchiveUnnoticed, RowsHaveArchives, Unrecorded
  <2>6. (SnapshotKeepsReplaced /\ QuietBackupsRestore)'
      BY DEF Inv, SnapshotKeepsReplaced, QuietBackupsRestore, Whole, Landing
  <2> QED BY <2>1, <2>2, <2>3, <2>4, <2>5, <2>6 DEF Inv
<1> QED BY <1>1, <1>5, <1>6, <1>7 DEF Next

(* Every part of the inductive invariant, in every reachable state.        *)
THEOREM SpecInv == Spec => []Inv
  BY InitInv, NextInv, PTL DEF Spec

(* No archive is left in S3 that neither a row nor the outbox knows of,    *)
(* but for the backups that ended between their put and their row.         *)
THEOREM SpecNoArchiveUnnoticed == Spec => []NoArchiveUnnoticed
<1>1. Inv => NoArchiveUnnoticed BY DEF Inv
<1> QED BY <1>1, SpecInv, PTL

(* A listed backup has its archive until someone begins to delete it.      *)
THEOREM SpecRowsHaveArchives == Spec => []RowsHaveArchives
<1>1. Inv => RowsHaveArchives BY DEF Inv
<1> QED BY <1>1, SpecInv, PTL

(* The list of backups and the archives in S3 agree, whoever deletes,      *)
(* prunes, fails or is killed (delete_backup and create_backup, backup.rs).*)
THEOREM SpecListAgreesWithStorage == Spec => []ListAgreesWithStorage
<1>1. NoArchiveUnnoticed /\ RowsHaveArchives => ListAgreesWithStorage
    BY DEF ListAgreesWithStorage
<1> QED BY <1>1, SpecNoArchiveUnnoticed, SpecRowsHaveArchives, PTL

(* Pruning spares the newest automatic backups, and every admin's, however *)
(* old the list it works from is.                                          *)
THEOREM SpecPruneSparesNewest == Spec => []PruneSparesNewest
<1>1. Inv => PruneSparesNewest BY DEF Inv
<1> QED BY <1>1, SpecInv, PTL

(* What a restore replaces is in the backup it took first.                 *)
THEOREM SpecSnapshotKeepsReplaced == Spec => []SnapshotKeepsReplaced
<1>1. Inv => SnapshotKeepsReplaced BY DEF Inv
<1> QED BY <1>1, SpecInv, PTL

(* A backup can be restored, unless a node or a person was made, or a tag  *)
(* went, at the wrong moment of its reading.                               *)
THEOREM SpecQuietBackupsRestore == Spec => []QuietBackupsRestore
<1>1. Inv => QuietBackupsRestore BY DEF Inv
<1> QED BY <1>1, SpecInv, PTL
=============================================================================
