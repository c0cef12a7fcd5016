----------------------------- MODULE BackupJobs -----------------------------
(***************************************************************************)
(* Backups: the `backup_jobs` rows, the archives in S3 they name, the      *)
(* outbox that retries a refused delete, and what takes, prunes, deletes   *)
(* and restores them: an admin's requests and the `backup create` command, *)
(* which is a process of its own.  A backup reads one table after another  *)
(* while users write; a restore takes a backup of its own first.           *)
(*                                                                         *)
(* The data is a set of rows: nodes, tags and people, and the rows of      *)
(* other tables that name some of them.  A backup reads nodes and people   *)
(* before the rows that name them, but tags after: the tags of the nodes   *)
(* are read with the nodes.  What files a restore puts back is             *)
(* StoredFiles' matter.                                                    *)
(***************************************************************************)
EXTENDS Naturals, FiniteSets

CONSTANTS
    Archives,    \* archive keys; each backup is given one of its own
    Parents,     \* ids of nodes, tags and people
    Late,        \* those read after the rows that name them: the tags
    Kids,        \* ids of rows that name parents: notes, links, node_tags, ...
    ParentsOf,   \* the parents such a row names
    Tables,      \* the tables a backup reads
    Before,      \* the tables read before each of them
    TableOf,     \* the table of each row
    Embedded,    \* tables read for the parents read so far: node_tags
    Skipping,    \* tables whose restore skips rows without their parents
    Processes,   \* admin requests and commands that run at once
    Commands,    \* the processes that run `backup create`
    Keep,        \* AUTOMATIC_KEPT
    Refusable,   \* archives whose delete S3 may refuse, all of them but for
                 \* the bound of an instance
    None

Rows == Parents \cup Kids

ASSUME RowsAssumption ==
    /\ Parents \cap Kids = {} /\ Late \subseteq Parents
    /\ ParentsOf \in [Kids -> SUBSET Parents] /\ TableOf \in [Rows -> Tables]
    /\ Before \in [Tables -> SUBSET Tables] /\ Embedded \subseteq Tables
ASSUME OrderAssumption ==
    \A r \in Kids : \A q \in ParentsOf[r] :
        IF q \in Late THEN TableOf[r] \in Before[TableOf[q]]
                     ELSE TableOf[q] \in Before[TableOf[r]]
ASSUME JobsAssumption ==
    /\ IsFiniteSet(Archives) /\ None \notin Archives
    /\ Commands \subseteq Processes /\ Skipping \subseteq Tables
    /\ Keep \in Nat /\ Refusable \subseteq Archives

VARIABLES
    rows,      \* the database's rows
    used,      \* ids ever given to a parent
    minted,    \* archive keys handed out so far
    stored,    \* archives in S3
    holds,     \* the rows in each archive
    listed,    \* archives named by a row of backup_jobs
    born,      \* created_at of that row, 0 when there never was one
    clock,     \* the last created_at given
    automatic, \* archives whose row says AUTOMATIC_ACTOR made them
    queue,     \* archives in object_deletions
    job,       \* each process: what it does and where it stands
    since,     \* history: rows there ever since a process began its restore
    torn,      \* history: processes that missed a parent while reading
    rent,      \* history: archives of such a reading
    unlisted,  \* history: archives whose backup ended before their row
    asked,     \* history: archives someone began to delete
    pruned     \* history: rows a command pruned

data    == <<rows, used>>
table   == <<listed, born, clock, automatic>>
archive == <<minted, stored, holds>>
history == <<rent, unlisted, asked, pruned>>
vars == <<rows, used, minted, stored, holds, listed, born, clock, automatic,
          queue, job, since, torn, rent, unlisted, asked, pruned>>

Steps == {"idle", "check", "read", "record", "fetch", "commit", "list",
          "prune", "erase", "enqueue", "unlist"}
Goals == {"backup", "delete", "restore"}

Job == [at : Steps, goal : Goals,
        image : SUBSET Rows,           \* rows read so far, or fetched
        left : SUBSET Tables,          \* tables still to be read
        key : Archives \cup {None},    \* the archive it makes
        of : Archives \cup {None},     \* the archive it deletes or restores
        doomed : SUBSET Archives]      \* what it still has to prune

Idle == [at |-> "idle", goal |-> "backup", image |-> {}, left |-> {},
         key |-> None, of |-> None, doomed |-> {}]

TypeOK ==
    /\ rows \in SUBSET Rows /\ used \in SUBSET Parents
    /\ minted \in SUBSET Archives /\ stored \in SUBSET Archives
    /\ holds \in [Archives -> SUBSET Rows]
    /\ listed \in SUBSET Archives /\ born \in [Archives -> Nat] /\ clock \in Nat
    /\ automatic \in SUBSET Archives /\ queue \in SUBSET Archives
    /\ job \in [Processes -> Job]
    /\ since \in [Processes -> SUBSET Rows] /\ torn \in SUBSET Processes
    /\ rent \in SUBSET Archives /\ unlisted \in SUBSET Archives
    /\ asked \in SUBSET Archives /\ pruned \in SUBSET Archives

Init ==
    /\ rows = {} /\ used = {}
    /\ minted = {} /\ stored = {} /\ holds = [k \in Archives |-> {}]
    /\ listed = {} /\ born = [k \in Archives |-> 0] /\ clock = 0
    /\ automatic = {} /\ queue = {}
    /\ job = [p \in Processes |-> Idle]
    /\ since = [p \in Processes |-> {}] /\ torn = {}
    /\ rent = {} /\ unlisted = {} /\ asked = {} /\ pruned = {}

-----------------------------------------------------------------------------
(* The users' data.                                                        *)

(* A change of the rows that a reader misses: a parent that is read first  *)
(* is made after that, or one that is read last goes before that, though a *)
(* row that was read names it.                                             *)
Misses(p, rs) ==
    /\ job[p].at = "read"
    /\ \/ \E q \in (rs \ rows) \cap (Parents \ Late) : TableOf[q] \notin job[p].left
       \/ \E q \in (rows \ rs) \cap Late : /\ TableOf[q] \in job[p].left
                                         /\ \E r \in job[p].image \cap Kids : q \in ParentsOf[r]

(* Every step that changes rows: a row that goes is no longer there since. *)
(* The restore that ends with it, if any, has no more use for the history. *)
SetRows(rs, ended) ==
    /\ rows' = rs
    /\ since' = [p \in Processes |-> IF p \in ended THEN {} ELSE since[p] \cap rs]
    /\ torn' = torn \cup {p \in Processes : Misses(p, rs)}

CreateParent(q) ==
    /\ q \notin used
    /\ used' = used \cup {q} /\ SetRows(rows \cup {q}, {})
    /\ UNCHANGED <<archive, table, queue, job, history>>

(* Foreign keys: what it names is there.  An id comes twice when Undo takes *)
(* a row out of its bin, which no backup reads, or a tag is put back.      *)
CreateKid(r) ==
    /\ r \notin rows /\ ParentsOf[r] \subseteq rows
    /\ SetRows(rows \cup {r}, {})
    /\ UNCHANGED <<used, archive, table, queue, job, history>>

(* For good, or into the bin.                                              *)
DeleteKid(r) ==
    /\ r \in rows
    /\ SetRows(rows \ {r}, {})
    /\ UNCHANGED <<used, archive, table, queue, job, history>>

(* ON DELETE CASCADE.                                                      *)
DeleteParent(q) ==
    /\ q \in rows
    /\ SetRows(rows \ ({q} \cup {r \in Kids : q \in ParentsOf[r]}), {})
    /\ UNCHANGED <<used, archive, table, queue, job, history>>

UserStep ==
    \/ \E q \in Parents : CreateParent(q) \/ DeleteParent(q)
    \/ \E r \in Kids : CreateKid(r) \/ DeleteKid(r)

-----------------------------------------------------------------------------
(* Taking a backup.                                                        *)

Become(p, j) == job' = [job EXCEPT ![p] = j]

(* Mutated form of NextTable: the tables come in any order.                *)
NextTableAny(left, t) == t \in left

(* Which table of those left a backup may read next.                       *)
NextTable(left, t) == t \in left /\ Before[t] \cap left = {}

(* The rows a query of one finds: of the tags of nodes, those of the nodes *)
(* read before it.                                                         *)
Found(im, t) ==
    {r \in rows : /\ TableOf[r] = t
                  /\ r \in Kids /\ t \in Embedded => ParentsOf[r] \ Late \subseteq im}

(* create_backup: from the command, or from an admin.                      *)
StartBackup(p) ==
    /\ job[p] = Idle
    /\ Become(p, [Idle EXCEPT !.at = "read", !.left = Tables])
    /\ UNCHANGED <<data, archive, table, queue, since, torn, history>>

(* Each table in a query of its own.                                       *)
ReadTable(p, t) ==
    /\ job[p].at = "read" /\ NextTable(job[p].left, t)
    /\ Become(p, [job[p] EXCEPT !.left = @ \ {t},
                                !.image = @ \cup Found(@, t)])
    /\ UNCHANGED <<data, archive, table, queue, since, torn, history>>

(* The archive goes to S3 under the id just drawn.                         *)
PutArchive(p, k) ==
    /\ job[p].at = "read" /\ job[p].left = {}
    /\ k \notin minted
    /\ minted' = minted \cup {k}
    /\ stored' = stored \cup {k}
    /\ holds' = [holds EXCEPT ![k] = job[p].image]
    /\ rent' = IF p \in torn THEN rent \cup {k} ELSE rent
    /\ torn' = torn \ {p}
    /\ Become(p, [job[p] EXCEPT !.at = "record", !.key = k, !.image = {}])
    /\ UNCHANGED <<data, table, queue, since, unlisted, asked, pruned>>

(* The row.  What follows is up to who asked: a restore goes on, a command *)
(* prunes, an admin's request ends.                                        *)
Record(p) ==
    /\ job[p].at = "record"
    /\ listed' = listed \cup {job[p].key}
    /\ clock' = clock + 1
    /\ born' = [born EXCEPT ![job[p].key] = clock + 1]
    /\ automatic' = IF p \in Commands THEN automatic \cup {job[p].key} ELSE automatic
    /\ Become(p, IF job[p].goal = "restore" THEN [job[p] EXCEPT !.at = "fetch"]
                 ELSE IF p \in Commands THEN [Idle EXCEPT !.at = "list"]
                 ELSE Idle)
    /\ UNCHANGED <<data, archive, queue, since, torn, history>>

BackupStep(p) ==
    \/ StartBackup(p) \/ Record(p)
    \/ \E t \in Tables : ReadTable(p, t)
    \/ \E k \in Archives : PutArchive(p, k)

-----------------------------------------------------------------------------
(* Deleting a backup, and pruning the automatic ones.                      *)

Newer(ks, k) == {j \in ks : born[j] > born[k]}

(* Mutated form of ToPrune: one fewer is kept.                              *)
ToPruneOneMore(ks) == {k \in ks \cap automatic :
                         Cardinality(Newer(ks \cap automatic, k)) + 1 >= Keep}

(* automatic_to_prune: the automatic ones past the newest `keep`.          *)
ToPrune(ks) == {k \in ks \cap automatic :
                  Cardinality(Newer(ks \cap automatic, k)) >= Keep}

(* prune_automatic reads the table once.                                   *)
List(p) ==
    /\ job[p].at = "list"
    /\ Become(p, [job[p] EXCEPT !.at = "prune", !.doomed = ToPrune(listed)])
    /\ UNCHANGED <<data, archive, table, queue, since, torn, history>>

(* The next of them, newest first; one already gone is passed over.        *)
PruneNext(p, k) ==
    /\ job[p].at = "prune"
    /\ k \in job[p].doomed /\ \A j \in job[p].doomed : born[j] <= born[k]
    /\ Become(p, IF k \in listed
                 THEN [job[p] EXCEPT !.at = "erase", !.of = k, !.doomed = @ \ {k}]
                 ELSE [job[p] EXCEPT !.doomed = @ \ {k}])
    /\ UNCHANGED <<data, archive, table, queue, since, torn, history>>

PruneEnd(p) ==
    /\ job[p].at = "prune" /\ job[p].doomed = {}
    /\ Become(p, Idle)
    /\ UNCHANGED <<data, archive, table, queue, since, torn, history>>

(* delete_backup, from an admin: the row names the archive.                *)
StartDelete(p, k) ==
    /\ job[p] = Idle /\ p \notin Commands
    /\ k \in listed
    /\ Become(p, [Idle EXCEPT !.at = "erase", !.goal = "delete", !.of = k])
    /\ UNCHANGED <<data, archive, table, queue, since, torn, history>>

(* The archive goes first.                                                 *)
Erase(p) ==
    /\ job[p].at = "erase"
    /\ stored' = stored \ {job[p].of} /\ asked' = asked \cup {job[p].of}
    /\ Become(p, [job[p] EXCEPT !.at = "unlist"])
    /\ UNCHANGED <<data, minted, holds, table, queue, since, torn, rent,
                   unlisted, pruned>>

(* Mutated form of EraseFails: the refusal is logged and no more.           *)
EraseFailsLogged(p) ==
    /\ job[p].at = "erase" /\ job[p].of \in Refusable
    /\ asked' = asked \cup {job[p].of}
    /\ Become(p, [job[p] EXCEPT !.at = "unlist"])
    /\ UNCHANGED <<data, archive, table, queue, since, torn, rent, unlisted,
                   pruned>>

(* S3 refuses, or its answer is lost: the outbox takes the key.            *)
EraseFails(p) ==
    /\ job[p].at = "erase" /\ job[p].of \in Refusable
    /\ stored' \in {stored, stored \ {job[p].of}}
    /\ asked' = asked \cup {job[p].of}
    /\ Become(p, [job[p] EXCEPT !.at = "enqueue"])
    /\ UNCHANGED <<data, minted, holds, table, queue, since, torn, rent, unlisted,
                   pruned>>

Enqueue(p) ==
    /\ job[p].at = "enqueue"
    /\ queue' = queue \cup {job[p].of}
    /\ Become(p, [job[p] EXCEPT !.at = "unlist"])
    /\ UNCHANGED <<data, archive, table, since, torn, history>>

(* Then the row, if it is still there; a command goes on to the next.      *)
Unlist(p) ==
    /\ job[p].at = "unlist"
    /\ listed' = listed \ {job[p].of}
    /\ pruned' = IF p \in Commands THEN pruned \cup (listed \cap {job[p].of})
                                   ELSE pruned
    /\ Become(p, IF p \in Commands THEN [job[p] EXCEPT !.at = "prune", !.of = None]
                                   ELSE Idle)
    /\ UNCHANGED <<data, archive, born, clock, automatic, queue, since, torn,
                   rent, unlisted, asked>>

(* A drain of the outbox takes the archive; StoredFiles has its steps.     *)
Drain(k) ==
    /\ k \in queue
    /\ stored' = stored \ {k} /\ queue' = queue \ {k}
    /\ UNCHANGED <<data, minted, holds, table, job, since, torn, history>>

DeleteStep(p) ==
    \/ \E k \in Archives : StartDelete(p, k) \/ PruneNext(p, k)
    \/ List(p) \/ PruneEnd(p)
    \/ Erase(p) \/ EraseFails(p) \/ Enqueue(p) \/ Unlist(p)

-----------------------------------------------------------------------------
(* Restoring one.                                                          *)

(* execute_restore: the row names the archive.                             *)
StartRestore(p, k) ==
    /\ job[p] = Idle /\ p \notin Commands
    /\ k \in listed
    /\ Become(p, [Idle EXCEPT !.at = "check", !.goal = "restore", !.of = k])
    /\ since' = [since EXCEPT ![p] = rows]
    /\ UNCHANGED <<data, archive, table, queue, torn, history>>

(* Mutated form of CheckFormat: the restore takes no backup of its own.     *)
CheckFormatOnly(p) ==
    /\ job[p].at = "check" /\ job[p].of \in stored
    /\ Become(p, [job[p] EXCEPT !.at = "fetch"])
    /\ UNCHANGED <<data, archive, table, queue, since, torn, history>>

(* The archive can be read; the backup of what is there now starts.        *)
CheckFormat(p) ==
    /\ job[p].at = "check" /\ job[p].of \in stored
    /\ Become(p, [job[p] EXCEPT !.at = "read", !.left = Tables, !.image = {}])
    /\ UNCHANGED <<data, archive, table, queue, since, torn, history>>

(* The archive is read again.                                              *)
Fetch(p) ==
    /\ job[p].at = "fetch" /\ job[p].of \in stored
    /\ Become(p, [job[p] EXCEPT !.at = "commit", !.image = holds[job[p].of]])
    /\ UNCHANGED <<data, archive, table, queue, since, torn, history>>

(* The rows of an image a restore inserts.                                 *)
Landing(im) == {r \in im : r \in Kids /\ TableOf[r] \in Skipping => ParentsOf[r] \subseteq im}

(* Whether each row inserted finds what it names.                          *)
Whole(im) == \A r \in Landing(im) \cap Kids : ParentsOf[r] \subseteq im

(* restore_into and its commit: all of the archive, or nothing.            *)
Commit(p) ==
    /\ job[p].at = "commit" /\ Whole(job[p].image)
    /\ SetRows(Landing(job[p].image), {p})
    /\ Become(p, Idle)
    /\ UNCHANGED <<used, archive, table, queue, history>>

RestoreStep(p) ==
    \/ \E k \in Archives : StartRestore(p, k)
    \/ CheckFormat(p) \/ Fetch(p) \/ Commit(p)

(* A call fails and its error ends the request; or the request is dropped, *)
(* the command is killed, the process dies.  What was done stays done.     *)
Abandon(p) ==
    /\ job[p] # Idle
    /\ Become(p, Idle)
    /\ torn' = torn \ {p} /\ since' = [since EXCEPT ![p] = {}]
    /\ unlisted' = IF job[p].at = "record" THEN unlisted \cup {job[p].key} ELSE unlisted
    /\ UNCHANGED <<data, archive, table, queue, rent, asked, pruned>>

ProcessStep(p) ==
    \/ BackupStep(p) \/ DeleteStep(p) \/ RestoreStep(p) \/ Abandon(p)

Next ==
    \/ UserStep
    \/ \E p \in Processes : ProcessStep(p)
    \/ \E k \in Archives : Drain(k)

Spec == Init /\ [][Next]_vars

(* The outbox is drained: QueueDrains of StoredFiles.                      *)
FairSpec == Spec /\ \A k \in Archives : WF_vars(Drain(k))

-----------------------------------------------------------------------------
(* Properties.                                                             *)

(* The archive a process has put and not yet recorded.                     *)
Unrecorded == {k \in Archives : \E p \in Processes :
                                   job[p].at = "record" /\ job[p].key = k}

(* "No backup archive outlives its row unnoticed": an archive in S3 has a  *)
(* row, waits in the outbox, or is about to be recorded.  The exception is *)
(* a backup that ended between the two.                                    *)
NoArchiveUnnoticed == stored \subseteq listed \cup queue \cup Unrecorded \cup unlisted

(* A backup that is listed has its archive, unless someone began to delete *)
(* it: no order of two deletes, a prune and a drain loses another's.       *)
RowsHaveArchives == listed \subseteq stored \cup asked

(* The list and the storage agree: no archive beyond the list, and none    *)
(* missing from it.                                                        *)
ListAgreesWithStorage == NoArchiveUnnoticed /\ RowsHaveArchives

Spared(k) == k \in automatic /\ Cardinality(Newer(automatic, k)) >= Keep

(* A prune that works from an old list still spares the newest: whatever   *)
(* it removed, or is about to, is automatic, and Keep automatic backups    *)
(* are newer, those an admin deleted meanwhile included.                   *)
PruneSparesNewest ==
    \A k \in Archives :
        k \in pruned \/ (\E p \in Processes : k \in job[p].doomed) => Spared(k)

(* Before a restore changes anything, what it is about to replace is in a  *)
(* backup that is listed: every row that was there when the restore began  *)
(* and still is, unless someone began to delete that backup.               *)
SnapshotKeepsReplaced ==
    \A p \in Processes : job[p].at \in {"fetch", "commit"} =>
        /\ job[p].key \in listed \cup asked
        /\ since[p] \subseteq holds[job[p].key]

(* A backup can be restored, unless while it read its tables a node or a   *)
(* person was made, or put back by a restore, after its table was read, or *)
(* a tag went after the tags of the nodes were read and before the tags:   *)
(* no other write tears it, the deletes of nodes and people included.      *)
QuietBackupsRestore == \A k \in minted \ rent : Whole(holds[k])

(* A backup taken beside live users "restores the same way" (README): no   *)
(* restore finds a row whose parent the archive lacks.  restore_activity   *)
(* skips such rows of the log, since one "would fail the FK and abort the  *)
(* whole restore"; nothing does for notes, links, tags of nodes, ...       *)
BackupsRestore == \A p \in Processes : job[p].at = "commit" => Whole(job[p].image)

(* Everything of a deleted backup goes in the end.                         *)
DeletedArchivesGo ==
    \A k \in Archives : (k \in asked /\ k \notin listed) ~> k \notin stored

-----------------------------------------------------------------------------
(* The inductive invariant behind the safety properties.                   *)

Recorded == {k \in Archives : born[k] # 0}

(* The foreign keys of each row, and what `since` is.                      *)
DataSound ==
    /\ \A r \in rows \cap Kids : ParentsOf[r] \subseteq rows
    /\ \A p \in Processes :
          /\ since[p] \subseteq rows
          /\ \A r \in since[p] \cap Kids : ParentsOf[r] \subseteq since[p]

KeysSound ==
    /\ listed \cup automatic \cup asked \subseteq Recorded
    /\ queue \subseteq asked
    /\ Recorded \cup stored \subseteq minted

(* A key about to be recorded is in storage, and nobody else's.            *)
MakersSound ==
    \A p \in Processes : job[p].at = "record" =>
        /\ job[p].key \in stored \ Recorded
        /\ \A q \in Processes : job[q].at = "record" /\ job[q].key = job[p].key => q = p

(* What a process deletes was recorded, and before its row goes its        *)
(* archive is gone or queued.                                              *)
DeletersSound ==
    \A p \in Processes :
        /\ job[p].at \in {"erase", "enqueue", "unlist"} => job[p].of \in Recorded
        /\ job[p].at \in {"enqueue", "unlist"} => job[p].of \in asked
        /\ job[p].at = "unlist" => job[p].of \notin stored \ queue

(* The order of reading, and what it has found: all that stayed, and with  *)
(* each row what it names, but for tags still to be read.                  *)
ReaderSound(p) ==
    /\ \A t \in Tables \ job[p].left : Before[t] \cap job[p].left = {}
    /\ job[p].goal = "restore" =>
          \A r \in since[p] : TableOf[r] \notin job[p].left => r \in job[p].image
    /\ p \notin torn =>
          /\ \A q \in rows \cap (Parents \ Late) :
                TableOf[q] \notin job[p].left => q \in job[p].image
          /\ \A r \in job[p].image \cap Kids : \A q \in ParentsOf[r] :
                q \in (IF TableOf[q] \in job[p].left THEN rows \cap Late ELSE job[p].image)

ReadersSound == \A p \in Processes : job[p].at = "read" => ReaderSound(p)

(* The backup a restore has just made holds what stayed.                   *)
SnapshotsSound ==
    \A p \in Processes : job[p].at = "record" /\ job[p].goal = "restore" =>
        since[p] \subseteq holds[job[p].key]

(* A command only ever deletes what it may prune.                          *)
PrunersSound ==
    \A p \in Commands : job[p].at \in {"erase", "enqueue", "unlist"} => Spared(job[p].of)

Inv ==
    /\ TypeOK
    /\ DataSound /\ KeysSound /\ MakersSound /\ DeletersSound /\ ReadersSound
    /\ SnapshotsSound /\ PrunersSound
    /\ NoArchiveUnnoticed /\ RowsHaveArchives /\ PruneSparesNewest
    /\ SnapshotKeepsReplaced /\ QuietBackupsRestore

=============================================================================
