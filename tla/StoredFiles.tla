---------------------------- MODULE StoredFiles ----------------------------
(***************************************************************************)
(* Attached files: the `attachments` rows in Postgres, the objects in S3,  *)
(* the `object_deletions` outbox between them, and everything that writes  *)
(* to them: uploads, deletes, the two drains of the outbox, backups and    *)
(* restores.  A database transaction is one step; every S3 call and every  *)
(* `await` between two transactions is a point where anything else runs.   *)
(*                                                                         *)
(* Storage is the set of keys that hold an object: which bytes a key holds *)
(* can only change when an archive gives two files one path, and PathOf is *)
(* what shows that.                                                        *)
(***************************************************************************)
EXTENDS Naturals, FiniteSets

CONSTANTS
    Keys,        \* S3 keys; each upload is given a key of its own
    Nodes,       \* nodes a file can be attached to
    Users,       \* node owners
    NodeOf,      \* a key starts with the id of the node it was minted for
    OwnerOf,     \* the owner of each node
    PathOf,      \* the path of a key's file inside a backup archive
    Requests,    \* concurrent HTTP requests that touch files
    Admins,      \* concurrent restores
    DrainLimit,  \* DRAIN_LIMIT: keys one batch of a drain tries
    MaxBatches,  \* MAX_BATCHES: batches one drain runs
    Faults,      \* the failures the environment may produce
    MaxBackups,  \* bound: backups taken
    MaxRestores, \* bound: restores run
    MaxCrashes   \* bound: crashes of the API process

FaultKinds == {"store", "db", "crash"}

ASSUME KeysAssumption ==
    /\ NodeOf \in [Keys -> Nodes]
    /\ OwnerOf \in [Nodes -> Users]
ASSUME BoundsAssumption ==
    /\ DrainLimit \in Nat \ {0}
    /\ MaxBatches \in Nat \ {0}
    /\ MaxBackups \in Nat
    /\ MaxRestores \in Nat
    /\ MaxCrashes \in Nat
ASSUME FaultsAssumption == Faults \subseteq FaultKinds

(* The background drain a request starts, and the daily one.               *)
Workers == {"kicked", "daily"}

VARIABLES
    nodes,       \* rows of `nodes`
    rows,        \* keys named by a row of `attachments`
    queue,       \* keys in `object_deletions`
    store,       \* keys that hold an object
    minted,      \* keys handed to an upload so far
    rpc, rkey,   \* each request: where it stands, and its key
    draining,    \* AppState.draining
    dpc,         \* each drain: where it stands
    batch,       \* keys its batch still has to try
    settling,    \* the key whose object it just deleted, if any
    full,        \* whether the batch was full
    progress,    \* whether the batch deleted anything
    rounds,      \* batches it has started
    bpc, image, bleft,  \* the running backup: step, data read, files to read
    archives,    \* finished backups
    todo,        \* each restore: files still to be put back in storage
    restores, crashes,  \* counters for the bounds
    forgotten,   \* history: uploads whose object no one was told about
    unrestored,  \* history: restored rows whose file did not come back
    contended    \* history: keys a restore and a delete both worked on

database == <<nodes, rows, queue>>
request  == <<rpc, rkey>>
drain    == <<dpc, batch, settling, full, progress, rounds>>
backup   == <<bpc, image, bleft, archives>>
history  == <<forgotten, unrestored, contended>>
vars == <<nodes, rows, queue, store, minted, rpc, rkey, draining, dpc, batch,
          settling, full, progress, rounds, bpc, image, bleft, archives, todo,
          restores, crashes, forgotten, unrestored, contended>>

Image == [nodes : SUBSET Nodes, rows : SUBSET Keys, files : SUBSET Keys]
NoImage == [nodes |-> {}, rows |-> {}, files |-> {}]

RequestSteps == {"idle", "put", "insert", "enqueue", "delete", "kick"}
DrainSteps   == {"idle", "clean", "select", "try", "settle"}

TypeOK ==
    /\ nodes \in SUBSET Nodes
    /\ rows \in SUBSET Keys /\ queue \in SUBSET Keys /\ store \in SUBSET Keys
    /\ minted \in SUBSET Keys
    /\ rpc \in [Requests -> RequestSteps] /\ rkey \in [Requests -> SUBSET Keys]
    /\ draining \in BOOLEAN
    /\ dpc \in [Workers -> DrainSteps]
    /\ batch \in [Workers -> SUBSET Keys]
    /\ settling \in [Workers -> SUBSET Keys]
    /\ full \in [Workers -> BOOLEAN] /\ progress \in [Workers -> BOOLEAN]
    /\ rounds \in [Workers -> 0..MaxBatches]
    /\ bpc \in {"idle", "list", "fetch"}
    /\ image \in Image /\ bleft \in SUBSET Keys
    /\ archives \in SUBSET Image
    /\ todo \in [Admins -> SUBSET Keys]
    /\ restores \in Nat /\ crashes \in Nat
    /\ forgotten \in SUBSET Keys /\ unrestored \in SUBSET Keys
    /\ contended \in SUBSET Keys

(* Keys a drain has read from the queue and not settled.                   *)
Hand(w) == batch[w] \cup settling[w]
InHand  == {k \in Keys : \E w \in Workers : k \in Hand(w)}
(* Files some restore still has to put back.                               *)
Todo == {k \in Keys : \E a \in Admins : k \in todo[a]}
(* Objects an upload put in storage and has not yet named or queued.       *)
Unfiled == {k \in Keys : \E r \in Requests :
                              rpc[r] \in {"insert", "enqueue"} /\ k \in rkey[r]}

Init ==
    /\ nodes = Nodes /\ rows = {} /\ queue = {} /\ store = {} /\ minted = {}
    /\ rpc = [r \in Requests |-> "idle"] /\ rkey = [r \in Requests |-> {}]
    /\ draining = FALSE
    /\ dpc = [w \in Workers |-> "idle"]
    /\ batch = [w \in Workers |-> {}] /\ settling = [w \in Workers |-> {}]
    /\ full = [w \in Workers |-> FALSE] /\ progress = [w \in Workers |-> FALSE]
    /\ rounds = [w \in Workers |-> 0]
    /\ bpc = "idle" /\ image = NoImage /\ bleft = {} /\ archives = {}
    /\ todo = [a \in Admins |-> {}]
    /\ restores = 0 /\ crashes = 0
    /\ forgotten = {} /\ unrestored = {} /\ contended = {}

-----------------------------------------------------------------------------
(* Requests.                                                               *)

Goto(r, step) == rpc' = [rpc EXCEPT ![r] = step]
Leave(r) ==
    /\ rpc' = [rpc EXCEPT ![r] = "idle"]
    /\ rkey' = [rkey EXCEPT ![r] = {}]

(* upload_attachment: the caller may edit the node; the key is fresh.      *)
UploadStart(r, k) ==
    /\ rpc[r] = "idle"
    /\ k \notin minted /\ NodeOf[k] \in nodes
    /\ minted' = minted \cup {k}
    /\ Goto(r, "put") /\ rkey' = [rkey EXCEPT ![r] = {k}]
    /\ UNCHANGED <<database, store, draining, drain, backup, todo, restores,
                   crashes, history>>

UploadPut(r) ==
    /\ rpc[r] = "put"
    /\ store' = store \cup rkey[r]
    /\ Goto(r, "insert")
    /\ UNCHANGED <<database, minted, rkey, draining, drain, backup, todo,
                   restores, crashes, history>>

(* A put that reports an error ends the request; the object may be there.  *)
UploadPutFails(r) ==
    /\ "store" \in Faults
    /\ rpc[r] = "put"
    /\ \/ UNCHANGED <<store, forgotten>>
       \/ store' = store \cup rkey[r] /\ forgotten' = forgotten \cup rkey[r]
    /\ Leave(r)
    /\ UNCHANGED <<database, minted, draining, drain, backup, todo, restores,
                   crashes, unrestored, contended>>

UploadInsert(r) ==
    /\ rpc[r] = "insert"
    /\ \A k \in rkey[r] : NodeOf[k] \in nodes
    /\ rows' = rows \cup rkey[r]
    /\ Leave(r)
    /\ UNCHANGED <<nodes, queue, store, minted, draining, drain, backup, todo,
                   restores, crashes, history>>

(* The insert reports an error: the node is gone, the statement failed, or *)
(* it committed and the answer was lost.                                   *)
UploadInsertFails(r) ==
    /\ rpc[r] = "insert"
    /\ \/ (\E k \in rkey[r] : NodeOf[k] \notin nodes) /\ UNCHANGED rows
       \/ "db" \in Faults /\ UNCHANGED rows
       \/ /\ "db" \in Faults /\ \A k \in rkey[r] : NodeOf[k] \in nodes
          /\ rows' = rows \cup rkey[r]
    /\ Goto(r, "enqueue")
    /\ UNCHANGED <<nodes, queue, store, minted, rkey, draining, drain, backup,
                   todo, restores, crashes, history>>

(* enqueue: the row may exist after all; `due` removes such a key again,   *)
(* unless it is already past the statement that does.                      *)
UploadEnqueue(r) ==
    /\ rpc[r] = "enqueue"
    /\ queue' = queue \cup rkey[r]
    /\ contended' = contended \cup
         (IF \E w \in Workers : dpc[w] = "select" THEN rkey[r] \cap rows ELSE {})
    /\ Goto(r, "kick") /\ rkey' = [rkey EXCEPT ![r] = {}]
    /\ UNCHANGED <<nodes, rows, store, minted, draining, drain, backup, todo,
                   restores, crashes, forgotten, unrestored>>

UploadEnqueueFails(r) ==
    /\ "db" \in Faults
    /\ rpc[r] = "enqueue"
    /\ forgotten' = forgotten \cup rkey[r]
    /\ Goto(r, "kick") /\ rkey' = [rkey EXCEPT ![r] = {}]
    /\ UNCHANGED <<database, store, minted, draining, drain, backup, todo,
                   restores, crashes, unrestored, contended>>

(* Mutated form of DeleteRows: no trigger on the attachments' deletion.     *)
DeleteRowsUntold(ks) ==
    /\ rows' = rows \ ks
    /\ UNCHANGED <<queue, contended>>

(* Deletes rows; the trigger queues their keys in the same transaction.    *)
DeleteRows(ks) ==
    /\ rows' = rows \ ks
    /\ queue' = queue \cup (rows \cap ks)
    /\ contended' = contended \cup (rows \cap ks \cap Todo)

(* delete_attachment reads the row first, and deletes it in a second query.*)
DeleteStart(r, k) ==
    /\ rpc[r] = "idle" /\ k \in rows
    /\ Goto(r, "delete") /\ rkey' = [rkey EXCEPT ![r] = {k}]
    /\ UNCHANGED <<database, store, minted, draining, drain, backup, todo,
                   restores, crashes, history>>

DeleteRow(r) ==
    /\ rpc[r] = "delete" /\ rkey[r] \subseteq rows
    /\ DeleteRows(rkey[r])
    /\ Goto(r, "kick") /\ rkey' = [rkey EXCEPT ![r] = {}]
    /\ UNCHANGED <<nodes, store, minted, draining, drain, backup, todo,
                   restores, crashes, forgotten, unrestored>>

DeleteRowGone(r) ==
    /\ rpc[r] = "delete" /\ ~(rkey[r] \subseteq rows)
    /\ Leave(r)
    /\ UNCHANGED <<database, store, minted, draining, drain, backup, todo,
                   restores, crashes, history>>

DeleteNodes(r, ns) ==
    /\ rpc[r] = "idle"
    /\ nodes' = nodes \ ns
    /\ DeleteRows({k \in Keys : NodeOf[k] \in ns})
    /\ Goto(r, "kick")
    /\ UNCHANGED <<store, minted, rkey, draining, drain, backup, todo, restores,
                   crashes, forgotten, unrestored>>

DeleteNode(r, n) == n \in nodes /\ DeleteNodes(r, {n})

(* delete_user: every node of the account goes in one transaction.         *)
PurgeAccount(r, u) == DeleteNodes(r, {n \in nodes : OwnerOf[n] = u})

(* Mutated form of Kick: the flag is set, but not looked at.               *)
KickAlways(r) ==
    /\ rpc[r] = "kick"
    /\ draining' = TRUE
    /\ dpc' = [dpc EXCEPT !["kicked"] = "clean"]
    /\ rounds' = [rounds EXCEPT !["kicked"] = 1]
    /\ Leave(r)
    /\ UNCHANGED <<database, store, minted, batch, settling, full, progress,
                   backup, todo, restores, crashes, history>>

(* drain_object_deletions: one background drain at a time.                 *)
Kick(r) ==
    /\ rpc[r] = "kick"
    /\ draining' = TRUE
    /\ IF draining THEN UNCHANGED <<dpc, rounds>>
                   ELSE /\ dpc' = [dpc EXCEPT !["kicked"] = "clean"]
                        /\ rounds' = [rounds EXCEPT !["kicked"] = 1]
    /\ Leave(r)
    /\ UNCHANGED <<database, store, minted, batch, settling, full, progress,
                   backup, todo, restores, crashes, history>>

RequestStep(r) ==
    \/ \E k \in Keys : UploadStart(r, k) \/ DeleteStart(r, k)
    \/ UploadPut(r) \/ UploadPutFails(r)
    \/ UploadInsert(r) \/ UploadInsertFails(r)
    \/ UploadEnqueue(r) \/ UploadEnqueueFails(r)
    \/ DeleteRow(r) \/ DeleteRowGone(r)
    \/ \E n \in Nodes : DeleteNode(r, n)
    \/ \E u \in Users : PurgeAccount(r, u)
    \/ Kick(r)

-----------------------------------------------------------------------------
(* Draining the outbox.                                                    *)

(* Mutated form of DailyTick: it gives way to a drain that runs.           *)
DailyTickGivesWay ==
    /\ dpc["daily"] = "idle" /\ ~draining
    /\ dpc' = [dpc EXCEPT !["daily"] = "clean"]
    /\ rounds' = [rounds EXCEPT !["daily"] = 1]
    /\ UNCHANGED <<database, store, minted, request, draining, batch, settling,
                   full, progress, backup, todo, restores, crashes, history>>

(* The daily loop, which does not look at the `draining` flag.             *)
DailyTick ==
    /\ dpc["daily"] = "idle"
    /\ dpc' = [dpc EXCEPT !["daily"] = "clean"]
    /\ rounds' = [rounds EXCEPT !["daily"] = 1]
    /\ UNCHANGED <<database, store, minted, request, draining, batch, settling,
                   full, progress, backup, todo, restores, crashes, history>>

EndDrain(w) ==
    /\ dpc' = [dpc EXCEPT ![w] = "idle"]
    /\ rounds' = [rounds EXCEPT ![w] = 0]
    /\ full' = [full EXCEPT ![w] = FALSE]
    /\ progress' = [progress EXCEPT ![w] = FALSE]
    /\ draining' = IF w = "kicked" THEN FALSE ELSE draining

(* Mutated form of DrainClean: `due` reads the queue as it is.             *)
DrainCleanNothing(w) ==
    /\ dpc[w] = "clean"
    /\ dpc' = [dpc EXCEPT ![w] = "select"]
    /\ UNCHANGED <<database, store, minted, request, draining, batch, settling,
                   full, progress, rounds, backup, todo, restores, crashes,
                   history>>

(* `due`, first statement: what a row names leaves the queue.              *)
DrainClean(w) ==
    /\ dpc[w] = "clean"
    /\ queue' = queue \ rows
    /\ dpc' = [dpc EXCEPT ![w] = "select"]
    /\ UNCHANGED <<nodes, rows, store, minted, request, draining, batch,
                   settling, full, progress, rounds, backup, todo, restores,
                   crashes, history>>

(* `due`, second statement.  Which keys come first is DrainOrder's matter. *)
DrainSelect(w) ==
    /\ dpc[w] = "select"
    /\ \E ks \in SUBSET queue :
         /\ Cardinality(ks) <= DrainLimit
         /\ Cardinality(ks) = DrainLimit \/ ks = queue
         /\ batch' = [batch EXCEPT ![w] = ks]
         /\ full' = [full EXCEPT ![w] = Cardinality(ks) = DrainLimit]
    /\ progress' = [progress EXCEPT ![w] = FALSE]
    /\ dpc' = [dpc EXCEPT ![w] = "try"]
    /\ UNCHANGED <<database, store, minted, request, draining, settling, rounds,
                   backup, todo, restores, crashes, history>>

(* Either statement fails: the drain stops.                                *)
DrainReadFails(w) ==
    /\ "db" \in Faults
    /\ dpc[w] \in {"clean", "select"}
    /\ EndDrain(w)
    /\ UNCHANGED <<database, store, minted, request, batch, settling, backup,
                   todo, restores, crashes, history>>

DrainDelete(w, k) ==
    /\ dpc[w] = "try" /\ k \in batch[w]
    /\ store' = store \ {k}
    /\ batch' = [batch EXCEPT ![w] = @ \ {k}]
    /\ settling' = [settling EXCEPT ![w] = {k}]
    /\ dpc' = [dpc EXCEPT ![w] = "settle"]
    /\ UNCHANGED <<database, minted, request, draining, full, progress, rounds,
                   backup, todo, restores, crashes, history>>

(* The delete reports an error (the object may be gone): `failed` counts   *)
(* the try and keeps the queue's row.                                      *)
DrainDeleteFails(w, k) ==
    /\ "store" \in Faults
    /\ dpc[w] = "try" /\ k \in batch[w]
    /\ store' \in {store, store \ {k}}
    /\ batch' = [batch EXCEPT ![w] = @ \ {k}]
    /\ UNCHANGED <<database, minted, request, draining, dpc, settling, full,
                   progress, rounds, backup, todo, restores, crashes, history>>

(* `done`: the object is gone, drop its row.                               *)
DrainDone(w) ==
    /\ dpc[w] = "settle"
    /\ queue' = queue \ settling[w]
    /\ settling' = [settling EXCEPT ![w] = {}]
    /\ progress' = [progress EXCEPT ![w] = TRUE]
    /\ dpc' = [dpc EXCEPT ![w] = "try"]
    /\ UNCHANGED <<nodes, rows, store, minted, request, draining, batch, full,
                   rounds, backup, todo, restores, crashes, history>>

DrainDoneFails(w) ==
    /\ "db" \in Faults
    /\ dpc[w] = "settle"
    /\ settling' = [settling EXCEPT ![w] = {}]
    /\ dpc' = [dpc EXCEPT ![w] = "try"]
    /\ UNCHANGED <<database, store, minted, request, draining, batch, full,
                   progress, rounds, backup, todo, restores, crashes, history>>

(* The batch is done: another one, if it was full and deleted something.   *)
DrainAgain(w) ==
    /\ dpc[w] = "try" /\ batch[w] = {}
    /\ full[w] /\ progress[w] /\ rounds[w] < MaxBatches
    /\ rounds' = [rounds EXCEPT ![w] = @ + 1]
    /\ dpc' = [dpc EXCEPT ![w] = "clean"]
    /\ UNCHANGED <<database, store, minted, request, draining, batch, settling,
                   full, progress, backup, todo, restores, crashes, history>>

DrainEnd(w) ==
    /\ dpc[w] = "try" /\ batch[w] = {}
    /\ ~(full[w] /\ progress[w] /\ rounds[w] < MaxBatches)
    /\ EndDrain(w)
    /\ UNCHANGED <<database, store, minted, request, batch, settling, backup,
                   todo, restores, crashes, history>>

DrainStep(w) ==
    \/ DrainClean(w) \/ DrainSelect(w) \/ DrainReadFails(w)
    \/ \E k \in Keys : DrainDelete(w, k) \/ DrainDeleteFails(w, k)
    \/ DrainDone(w) \/ DrainDoneFails(w)
    \/ DrainAgain(w) \/ DrainEnd(w)

-----------------------------------------------------------------------------
(* Backups and restores.                                                   *)

(* create_backup reads the nodes, and the attachments some queries later.  *)
BackupStart ==
    /\ bpc = "idle" /\ Cardinality(archives) < MaxBackups
    /\ bpc' = "list"
    /\ image' = [nodes |-> nodes, rows |-> {}, files |-> {}]
    /\ UNCHANGED <<database, store, minted, request, draining, drain, bleft,
                   archives, todo, restores, crashes, history>>

BackupList ==
    /\ bpc = "list"
    /\ bpc' = "fetch"
    /\ image' = [image EXCEPT !.rows = rows]
    /\ bleft' = rows
    /\ UNCHANGED <<database, store, minted, request, draining, drain, archives,
                   todo, restores, crashes, history>>

(* One file; one that is missing or can't be read is left out.             *)
BackupFetch(k) ==
    /\ bpc = "fetch" /\ k \in bleft
    /\ bleft' = bleft \ {k}
    /\ \/ k \in store /\ image' = [image EXCEPT !.files = @ \cup {k}]
       \/ (k \notin store \/ "store" \in Faults) /\ UNCHANGED image
    /\ UNCHANGED <<database, store, minted, request, draining, drain, bpc,
                   archives, todo, restores, crashes, history>>

BackupEnd ==
    /\ bpc = "fetch" /\ bleft = {}
    /\ archives' = archives \cup {image}
    /\ bpc' = "idle" /\ image' = NoImage
    /\ UNCHANGED <<database, store, minted, request, draining, drain, bleft,
                   todo, restores, crashes, history>>

(* A file's bytes go to the first archived row with the entry's path.      *)
Target(im, e) == CHOOSE k \in im.rows : PathOf[k] = PathOf[e]
Targets(im) == {Target(im, e) : e \in im.files}

(* Mutated form of RestoreCommit: restored keys stay in the outbox.         *)
RestoreCommitLeavesQueue(a) ==
    /\ todo[a] = {} /\ restores < MaxRestores
    /\ \E im \in archives :
         /\ \A k \in im.rows : NodeOf[k] \in im.nodes
         /\ nodes' = im.nodes
         /\ rows' = im.rows
         /\ queue' = queue \cup rows
         /\ todo' = [todo EXCEPT ![a] = Targets(im)]
         /\ contended' = contended \cup (im.rows \cap InHand)
                                   \cup (Todo \ im.rows)
         /\ unrestored' = unrestored \cup (im.rows \ (store \cup Targets(im)))
    /\ restores' = restores + 1
    /\ UNCHANGED <<store, minted, request, draining, drain, backup, crashes,
                   forgotten>>

(* restore_into and its commit: the archive's rows replace all rows (every *)
(* old key is queued by the trigger) and what they name leaves the queue.  *)
(* An attachment whose node is not in the archive fails the transaction.   *)
RestoreCommit(a) ==
    /\ todo[a] = {} /\ restores < MaxRestores
    /\ \E im \in archives :
         /\ \A k \in im.rows : NodeOf[k] \in im.nodes
         /\ nodes' = im.nodes
         /\ rows' = im.rows
         /\ queue' = (queue \cup rows) \ im.rows
         /\ todo' = [todo EXCEPT ![a] = Targets(im)]
         /\ contended' = contended \cup (im.rows \cap InHand)
                                   \cup (Todo \ im.rows)
         /\ unrestored' = unrestored \cup (im.rows \ (store \cup Targets(im)))
    /\ restores' = restores + 1
    /\ UNCHANGED <<store, minted, request, draining, drain, backup, crashes,
                   forgotten>>

RestorePut(a, k) ==
    /\ k \in todo[a]
    /\ todo' = [todo EXCEPT ![a] = @ \ {k}]
    /\ store' = store \cup {k}
    /\ UNCHANGED <<database, minted, request, draining, drain, backup, restores,
                   crashes, history>>

RestorePutFails(a, k) ==
    /\ "store" \in Faults
    /\ k \in todo[a]
    /\ todo' = [todo EXCEPT ![a] = @ \ {k}]
    /\ unrestored' = unrestored \cup ({k} \ store)
    /\ UNCHANGED <<database, store, minted, request, draining, drain, backup,
                   restores, crashes, forgotten, contended>>

BackupStep ==
    \/ BackupStart \/ BackupList \/ BackupEnd
    \/ \E k \in Keys : BackupFetch(k)

RestoreStep(a) ==
    \/ RestoreCommit(a)
    \/ \E k \in Keys : RestorePut(a, k) \/ RestorePutFails(a, k)

-----------------------------------------------------------------------------
(* The API process dies and starts again: Postgres and S3 stay, every      *)
(* request, drain, backup and restore in progress is lost.                 *)
Crash ==
    /\ "crash" \in Faults /\ crashes < MaxCrashes
    /\ crashes' = crashes + 1
    /\ rpc' = [r \in Requests |-> "idle"] /\ rkey' = [r \in Requests |-> {}]
    /\ draining' = FALSE
    /\ dpc' = [w \in Workers |-> "idle"]
    /\ batch' = [w \in Workers |-> {}] /\ settling' = [w \in Workers |-> {}]
    /\ full' = [w \in Workers |-> FALSE] /\ progress' = [w \in Workers |-> FALSE]
    /\ rounds' = [w \in Workers |-> 0]
    /\ bpc' = "idle" /\ image' = NoImage /\ bleft' = {}
    /\ todo' = [a \in Admins |-> {}]
    /\ forgotten' = forgotten \cup Unfiled
    /\ unrestored' = unrestored \cup (Todo \ store)
    /\ UNCHANGED <<database, store, minted, archives, restores, contended>>

Next ==
    \/ \E r \in Requests : RequestStep(r)
    \/ DailyTick
    \/ \E w \in Workers : DrainStep(w)
    \/ BackupStep
    \/ \E a \in Admins : RestoreStep(a)
    \/ Crash

Spec == Init /\ [][Next]_vars

(* The daily loop keeps ticking, a drain that runs goes on, and S3 does    *)
(* not refuse one key for ever.                                            *)
Fairness ==
    /\ WF_vars(DailyTick)
    /\ WF_vars(DrainStep("daily"))
    /\ SF_vars(DrainClean("daily"))
    /\ SF_vars(DrainSelect("daily"))
    /\ SF_vars(DrainDone("daily"))
    /\ \A k \in Keys : SF_vars(DrainDelete("daily", k))

FairSpec == Spec /\ Fairness

-----------------------------------------------------------------------------
(* Properties.                                                             *)

(* No stored object is orphaned: whatever holds bytes in S3 is named by a  *)
(* row, waits in the outbox, or is in the hands of an upload about to file *)
(* it.  The exceptions are the uploads no one was told about (a crash or a *)
(* failing insert and enqueue between put and row) and the keys a restore  *)
(* and a delete worked on at the same time.                                *)
NoOrphan == store \subseteq rows \cup queue \cup Unfiled \cup forgotten \cup contended

(* Storage keeps what a row names: a row whose object is missing waits for *)
(* a running restore to put it back, was restored without its file, or was *)
(* contended for.                                                          *)
RowsKeepFiles == rows \subseteq store \cup Todo \cup unrestored \cup contended

(* A drain never holds a key that a row names, except a contended one: the *)
(* two statements of `due` and the restore's last one see to it.           *)
HandsOffNamed == InHand \cap rows \subseteq contended

(* A step takes no object out of storage while a row names it, contended   *)
(* keys apart: what the outbox is trusted with, as a property of each step.*)
DeletesNothingNamed ==
    [][\A k \in store : k \notin store' => k \notin rows \/ k \in contended]_vars

(* Every queued key leaves the queue: its object is gone or a row names it *)
(* again.  No file is stuck in the outbox behind a lost kick or a crash.   *)
QueueDrains == \A k \in Keys : k \in queue ~> k \notin queue

-----------------------------------------------------------------------------
(* The inductive invariant behind NoOrphan and RowsKeepFiles.              *)

(* A key in an upload's hands before its insert is nobody else's.          *)
Fresh(k) ==
    /\ k \in minted
    /\ k \notin rows \cup queue \cup InHand \cup Todo \cup image.rows
    /\ \A im \in archives : k \notin im.rows

UploadsFresh ==
    \A r \in Requests : rpc[r] \in {"put", "insert"} =>
        /\ \A k \in rkey[r] : Fresh(k)
        /\ \A q \in Requests \ {r} : rkey[q] \cap rkey[r] = {}

(* An upload at its insert has put its object, and no drain can take it.   *)
UploadsStored == \A r \in Requests : rpc[r] = "insert" => rkey[r] \subseteq store

AllMinted ==
    /\ rows \cup queue \cup store \cup InHand \cup Todo \subseteq minted
    /\ image.rows \subseteq minted
    /\ \A r \in Requests : rkey[r] \subseteq minted
    /\ \A im \in archives : im.rows \subseteq minted

ImagesSound ==
    /\ image.files \cup bleft \subseteq image.rows
    /\ bpc # "fetch" => image.rows = {} /\ bleft = {}
    /\ \A im \in archives : im.files \subseteq im.rows

(* Between its two statements, `due` can only return a named key that an   *)
(* upload's enqueue slipped in.                                            *)
SelectSeesNoNamed ==
    (\E w \in Workers : dpc[w] = "select") => queue \cap rows \subseteq contended

SettledGone == \A w \in Workers : settling[w] \cap store \subseteq contended

(* A file a restore still owes lost its row only to a later delete.        *)
TodoNamed == Todo \subseteq rows \cup contended

(* `draining` is up exactly while a kicked drain runs: no kick restarts one.*)
FlagSound == draining <=> dpc["kicked"] # "idle"

HandsSound == \A w \in Workers :
    /\ dpc[w] # "settle" => settling[w] = {}
    /\ dpc[w] \notin {"try", "settle"} => batch[w] = {}

Inv ==
    /\ TypeOK
    /\ UploadsFresh /\ UploadsStored /\ AllMinted /\ ImagesSound
    /\ SelectSeesNoNamed /\ SettledGone /\ TodoNamed
    /\ FlagSound /\ HandsSound
    /\ HandsOffNamed /\ NoOrphan /\ RowsKeepFiles
=============================================================================
