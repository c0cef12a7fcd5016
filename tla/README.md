# Ember Trove: a verification project

TLA+ models of Ember Trove, a self-hosted knowledge base: a Rust API
(`src/api`, axum over Postgres and S3), a shared crate of types and pure rules
(`src/common`), a WASM interface (`src/ui/src`) and a service worker
(`src/ui/public/sw.js`). The models follow the source; `PROJECT.json` maps each
definition to the lines it stands for.

- `tlc -config X.cfg MCModule` checks a run, `tlapm XProofs.tla` a proof.
- [Inventory](#inventory) · [Modules](#modules) · [Stored files](#stored-files) ·
  [Links](#links-between-nodes) · [Accounts](#accounts) · [Saves](#saves-of-a-node) ·
  [Backups](#backups) · [Editor](#the-editor) · [Tasks and captures](#tasks-and-captures) ·
  [Session](#session) · [What is not modelled](#what-is-not-modelled)

## Inventory

Everything the server keeps is in Postgres and S3. Requests run concurrently
in one process; between two `await`s anything else may run, and only a database
transaction is atomic. Three loops run beside the requests: the kicked drain of
the deletion outbox, the daily sweep, and the refresh of the suspended set.

| component | state | operations | meets | hard behaviour |
|---|---|---|---|---|
| stored files | `attachments`, `object_deletions`, S3 objects, `AppState.draining` | upload, delete a file, a node or an account, kick and run a drain | backups, restores, node deletes | three stores, no common transaction; two drains; crashes |
| backup and restore | `backup_jobs`, archives in S3 | create, list, delete, prune, preview, restore | every table; stored files; links | many queries without a snapshot; a restore against live writers |
| links between nodes | `edges`, one advisory lock per type | create, delete, convert, set_home, wiki-link sync | node deletes, captures, restores | check-then-insert over a graph; writers that take no lock |
| nodes | `nodes`, versions, activity | create, save, delete, restore a version, duplicate | links, files, webhooks | lost updates (412 precondition), best-effort steps after a save |
| accounts and suspension | suspended and deleted accounts tables, an in-memory set, the directory | suspend, reactivate, delete, refresh, daily re-purge | every request's authentication | a cached set that races the table |
| captures | `captures` with a bin | create, convert, delete, undo, purge | nodes, homes | conversion must neither lose nor double |
| task series | `tasks` with a parent | update, next occurrence, retract | nodes | the effect is decided on an earlier read |
| sign-in, session renewal | `pkce` rows, cookies, `RefreshGate` | store, take, sweep; renew once for many calls | the browser's calls | single use, time limits, shared waiting |
| editor save state | `SaveWatch`, drafts in local storage | edit, save, answer, conflict, recover | node saves | answers late or out of order |
| service worker | Cache Storage | fetch, fallback, purge | logout, 401s | a response in flight during a purge |

What makes each of them correct:

- **Stored files.** No object is left behind that nothing will ever delete; no
  drain takes an object a row names; every queued key is served in the end; at
  most one kicked drain runs.
- **Backup and restore.** A restore is all or nothing in the database, files go
  back under the keys their rows name, an archive never outlives its row, and a
  backup that was taken can be restored.
- **Links.** One home per node, no loop of an acyclic type, one link per pair and
  type (either direction for `related_to`); a node in a move is never homeless.
- **Nodes.** A save that read an old version is refused; every state a reader can
  see has its version and its history entry.
- **Accounts.** A suspension in the table is in the set; a deleted account's data
  does not come back.
- **Captures.** A capture becomes one node, once, or stays a capture.
- **Task series.** A completed occurrence has one successor; reopening retracts it.
- **Session renewal.** One renewal at a time, none for a call already superseded,
  no waiter left behind.
- **Editor.** No answer clears edits it did not save.
- **Service worker.** After a logout no cached personal data is served.

`PROJECT.json` lists, under `hazards`, each place where one of these can go wrong
and a test would hardly reach it, with the properties that would notice.

## Modules

| module | abstracts | checked by | proofs |
|---|---|---|---|
| `StoredFiles` | files, outbox, drains, backup and restore of files | 2 runs | `StoredFilesProofs` |
| `Links` | what a link is, which links the indexes keep apart, loops | through `EdgeGraph` | |
| `LinkGraph` | what creating a link and setting a home promise | through `EdgeGraph` | |
| `EdgeGraph` | links, type locks, moves, conversions, restores of links; implements `LinkGraph` | 2 runs | `EdgeGraphProofs` |
| `Accounts` | suspended set against its table and the identity provider; deletion and the sweep | `accounts` | `AccountsProofs` |
| `VersionedNode` | what saving a node promises | through `NodeSave` | |
| `NodeSave` | the save of a node, its log, links and snapshots; implements `VersionedNode` | `saves` | `NodeSaveProofs` |
| `BackupJobs` | backups' rows and archives, pruning, deletes, restores beside users and the backup command | 2 runs, 1 that fails | `BackupJobsProofs` |
| `NodeEditor` | autosave, watchdog, conflicts, drafts and logout in the web client | `editor` | `NodeEditorProofs` |
| `TaskSeries` | tasks, recurring series, captures and their bins | `tasks` | `TaskSeriesProofs` |
| `Session` | calls, the shared renewal, cookies, the service worker's cache, logout | `session` | `SessionProofs` |

Each `MC…` module declares the model values of its instance. A module composes
another where the code's components share state and a property relates them.
Node deletes and restores write both files and links, but no property relates the
two, so each module has its own copy of those operations. `NodeEditor` has the
server's save as two steps, a decision and its answer; that the server's
transaction decides at one instant is what `NodeSave` shows.
Captures are in `TaskSeries`, which has the tasks they become.

Parameters are CONSTANTS with named assumptions. Actions are one per operation
or per step between two `await`s. Definitions marked *Mutant* are wrong versions
of the one they precede; `PROJECT.json` names for each property one that breaks it.

What a backup is to each module: to `StoredFiles` and `EdgeGraph`, an image of their
own tables that a restore writes back, one table deep; to `BackupJobs`, a row, an
archive, and the consistency of many tables.

Left for later: the order in which the outbox is drained, what stored files
promise of one key as an abstract specification, permissions revoked under a
request, a second tab.

## Stored files

`StoredFiles.tla` models `routes/nodes.rs` (upload, node delete),
`routes/attachments.rs`, `repo/attachment.rs`, `repo/object_deletion.rs`,
`object_store/outbox.rs`, `state.rs` (the kick), the daily sweep of `main.rs`,
`repo/account.rs` (purge), the trigger of migration 044 and the file half of
`backup.rs`.

**State.** `nodes`, `rows` and `queue` are the committed rows of three tables;
`store` is S3, as the set of keys that hold an object. `rpc`/`rkey` say
where each request stands, `dpc`, `batch`, `settling`, `full`, `progress` and
`rounds` where each of the two drains does, `bpc`/`image`/`bleft` the running
backup, `todo` the files a restore still has to put back. `draining` is the flag
of `AppState`. Three history variables record what an exception clause
needs: `forgotten` (uploads whose object no one was told about), `unrestored`
(restored rows whose file did not come back) and `contended` (keys a delete and
a restore, or a drain, worked on at once; or that an upload whose insert
reported a false failure queued between a drain's two reads). No action's guard reads them.

**Steps.** A transaction, or a single statement, is a step; so is each S3 call.
An upload puts, then inserts; a failed insert enqueues and kicks. An insert
that reports an error may have committed: the lost answer is a case of its own.
`due` is two statements and two steps. A drain deletes one object and settles
it in the next step. The daily drain does not look at the flag. A restore's
transaction is one step (its locks make everything else wait) and each
re-upload another. A crash keeps Postgres and S3 and loses everything else.

**Abstractions.** Keys are model values; which bytes a key holds is not
kept, and `PathOf` gives the archive path that two files may share. The batch is
any `DrainLimit` keys of the queue (the code's order is by last attempt;
safety is shown for every order). A failed batch's `attempts`
counter is left out. The snapshot a restore takes first is a backup that only adds an
archive, so it is `BackupStart` … `BackupEnd` of its own. Nodes are never created:
an upload to a node that came later is an upload to a node that was there.
The daily re-purge of deleted accounts deletes nodes without a kick: the
delete is covered by `PurgeAccount`, whose kick may come arbitrarily late.
Backup archives share the outbox; they are in `BackupJobs`.

**Runs.**

| run | instance | shows |
|---|---|---|
| `files_restores` | 1 key, 2 requests, 2 restores of 1 backup, all faults, 1 crash | `RowsKeepFiles` and the proofs' inductive `Inv`; `DeletesNothingNamed` of every step |
| `files_live` | 2 keys, 1 request, both drains, batches of 1 and two to a drain, storage faults, 1 crash, under `FairSpec` | `NoOrphan`, `QueueDrains` |

Bounds. Two keys let one key's batch run while the other is queued; batches of one
with `MaxBatches = 2` reach a full batch, a second one and the cap. Two
requests suffice for a delete racing an upload. Two restores and one archive
reach the restore of a key that another restore is putting back; one key is enough
there, as every exception is about a single key. One crash can fall between any
two steps. The proofs remove the bounds for safety.

Fairness. The daily loop ticks for ever and a drain that runs goes on (weak
fairness of `DailyTick` and of the daily drain's steps). Its statements succeed and
S3 does not refuse one key for ever (strong fairness of the two reads, of each
key's delete and of `done`): the interval is a day, so an outage that never
ends would have to strike at each of infinitely many tries. Nothing is
assumed of requests, restores, kicks or the kicked drain, which may be lost with the
process. Two keys and batches of one have each key wait while the other is tried and
refused; that a queue longer than a drain's batches is served in turn needs the order of
`due`, which is not modelled.

**Noted.** What the exceptions below stand for:

1. `drain_batch` deletes what `due` returned without looking again: a restore that names
   the key meanwhile loses the file it put back. The comment on `due`
   (`repo/object_deletion.rs:14`) says "storage must keep what a row names".
2. A restore re-uploads after its commit without looking: a file deleted
   meanwhile stays in S3 for good, though migration 044 says "no object is orphaned".
3. A kick is dropped because "a running drain keeps going until the queue is
   empty" (`state.rs:90`); a drain whose last batch was not full does not look
   again. The key waits for another kick or the daily drain (`QueueDrains` holds
   all the same).
4. Two files of one node with one name have the same archive path, and both
   entries go back under the first one's key.

The exceptions in `NoOrphan`, `RowsKeepFiles` and `DeletesNothingNamed`
(`contended`, `unrestored`, `forgotten`) are exactly these cases and the faults;
the passing runs and the proofs show that there are no others.

**Proofs** (`StoredFilesProofs.tla`). `Inv` is inductive: it adds to the three
safety properties what each step relies on.

- `UploadsFresh`, `UploadsStored`: a key between put and row is nobody else's, so
  no drain can hold it when its row appears.
- `AllMinted`, `ImagesSound`: nothing names a key that was never minted, so a new
  upload's key is fresh; an archive's files are files of its rows.
- `HandsOffNamed`, `SelectSeesNoNamed`: why `due` deletes first and selects then;
  the one way in between is an upload whose insert lied.
- `SettledGone`: a key to be settled has no object left, so `done` orphans nothing.
- `TodoNamed`: a file a restore owes has its row, unless a delete contended for it.
- `FlagSound`, `HandsSound`: the flag is up exactly while a kicked drain runs.

One lemma per action, one step per conjunct; the theorems `SpecTypeOK`,
`SpecNoOrphan`, `SpecRowsKeepFiles`, `SpecHandsOffNamed` and
`SpecDeletesNothingNamed` follow for all constants that satisfy
`KeysAssumption`, `BoundsAssumption` and `FaultsAssumption`. `QueueDrains` is
model-checked only.

## Links between nodes

`LinkGraph.tla` is what the requests that write links promise: each takes effect at
one instant between its request and its answer, on the links there are then, or not
at all; what is created clashes with nothing there and, like a home that is set,
closes no loop. `EdgeGraph.tla` is how the server does it, in several statements of
concurrent transactions; `Links.tla` is the vocabulary of both. `EdgeGraph` models
`repo/edge.rs` (`create`, `delete`, `convert`,
`set_home` and their helpers), its routes, the home a capture's conversion gives
(`repo/capture.rs`), the foreign keys' cascade on node deletes, and what
`backup.rs` reads and restores of `edges`.

**State.** `nodes` and `edges` are committed rows. A writer is a transaction of
`create` or `set_home`: `wpc` is its next statement, `wop` and `wreq` what it
was asked, `gone` and `added` its own uncommitted changes. A writer past
`lock_type` holds its type's advisory lock until it ends. `archive` is the one
backup, read in two steps. `overrun` is history: the types a restore came in between
for, which `LinkGraph` calls `contended`.

**Steps.** Postgres runs at READ COMMITTED, so each statement of a writer sees
what is committed when it starts and is a step of its own. An
insert waits for a pending row it clashes with, a delete for a pending delete.
Conversions, deletes and new nodes are single steps: their transactions have one
statement that others can see or wait for. A restore is a single step too; it
waits for pending rows (it deletes every node, and their links with them), and an
insert that was waiting for it fails on its foreign keys. `Clash` is what the three unique
indexes refuse: the same link twice (034), a second home (042), a pair of `related_to` from
both ends (041). `ON CONFLICT DO
NOTHING` in `insert_home` is modelled as it is: any unique violation is absorbed.

**The graph.** `Reaches` is the recursive query of `closes_loop`, stated without
recursion: `to` is reached from `from` iff it lies in every set of nodes that holds
the successors of `from` and is closed under links. `Acyclic` is that no
node reaches itself.

**Runs.**

| run | instance | shows |
|---|---|---|
| `edges_homes` | 3 nodes (one not made yet), `contains`, 2 writers, 1 backup and restore | `NoLoops`, `ChecksStand`; `MovesKeepAHome` of every step; `WritesAreAtomic` |
| `edges_types` | 2 nodes, 4 types, 2 writers, failing statements, under `FairSpec` | `Inv` (with `LinkedOnce`), `WritersEnd` |

`WritesAreAtomic` says that `EdgeGraph` implements `LinkGraph`. The instant is
the commit, and what has to be shown is that the checks, made statements earlier, are
still true there: a move frees exactly the homes there are when it commits, its link closes no
loop of that graph, and its ends are still there. Two answers fall to `Refuse`, which
has no effect, although they are not refusals: a move absorbed by a home it
already has (or, after a restore, by another), and a release of a home when there was none at
its DELETE. An abstract delete is anyone's, so a home that went before its
move committed would pass there as a delete; that it doesn't happen is
`MovesKeepAHome`.

Bounds. Three nodes have loops of length two and three, moves between two homes, and a
node that goes or comes in the middle; two writers suffice for two checks
that each miss the other's insert. Four types stand for the six: two acyclic ones
(the home, and one without a home's rules), the symmetric one, and one free
one. The vault may run out of nodes, as ids are not used again, so the system
may stop and deadlock is not checked.

Fairness. A transaction that has begun goes on, and Postgres grants an advisory
lock in the order it was asked for, so a waiter is not passed over for ever.
Statements may still fail.

**Where restores come in.** A restore writes links without the type's lock. If it
commits after a writer's loop check and before its insert, the insert can close a
loop with a restored link, which "writes refuse" according to
`common/src/edge.rs`. If it comes between the two statements of a `set_home`, the
insert is absorbed by the restored home and the request answers Ok, where the
comment on `insert_home` promises a 422. `NoLoops` and `ChecksStand` except
just the types a restore overran, and otherwise both hold: the lock keeps writers from doing this to each other.

**Proofs** (`EdgeGraphProofs.tla`). Two lemmas carry the argument: fewer links
reach less (`ReachesMonotone`), and a link whose target does not reach its source
closes no loop (`AcyclicAdd`); a third, `ReachesLeaf`, is why a capture's
conversion needs no lock. `Inv` adds to `NoLoops` that a link past its check still
closes none (`CheckedForLoops`): only its own transaction may add links of its type
(`OneHolder`), and everything else takes links away or adds one to a node that has
none (`FreshUnlinked`). `PendingFits` is what waiting for pending rows gives, and
`LinkedOnce` follows. `MoveSound` says that a home a move frees is still there until the
move commits, and never freed unless the new one fits: `MovesKeepAHome` is the
action property that follows from it. For the refinement, `SameLinks` says that `Links` means the same
in both specifications, and `CommitDoes` takes a commit to the step of `LinkGraph` it is:
`CheckedForLoops` is why its link may still be made, `NoDangling` why its ends are there,
`PendingFits` why it clashes with nothing, and `LinkedOnce` with
`MoveSound` why the homes freed are all the homes there are. Every other step of a writer
leaves `LinkGraph`'s state alone, or ends the request with no effect. The theorems `SpecNoLoops`, `SpecChecksStand`,
`SpecMovesKeepAHome`, `SpecWritesAreAtomic`, `SpecLinkedOnce` and `SpecTypeOK` hold for every set of nodes, types and writers
with `TypesAssumption`, which says what `EdgeType` says: a home is acyclic, the
types a link can be converted to are not. `WritersEnd` is model-checked only.

## Accounts

`Accounts.tla` models `auth/suspended.rs`, the admin routes that suspend,
reactivate and delete (`routes/admin.rs`), `repo/account.rs`, the sign-in's check
(`routes/auth.rs`), the middleware's, and the refresh loop and daily sweep of
`main.rs`.

**State.** `row` is `suspended_accounts` (a deleted row becomes *expired* after a
day), `user` the accounts at the identity provider, `token` who holds an ID token
that has not expired. `set` is each instance's `SuspendedSet`; `read` and `moved`
are its refresh: what the SELECT gave, and whether the generation has moved since.
`job` is each admin request's next step, `sweep` each instance's.
`passed` holds requests that the middleware let through and that have yet to write.

**Steps.** Each statement, each call to the provider and each change of the set is a
step: suspend is row, set, provider; reactivate is provider, row, set; delete is
row, set, purge, provider, mark. The sweep lists the deleted, purges
each once more, and drops rows a day old. A restart keeps the table and the provider.
That tokens and requests last less than a day, which the sweep's cutoff rests on,
is the guard of `Age`.

**Run** `accounts`: one account, two instances, two admin requests at once, one
late write, one fault or restart. Accounts don't share state but in the sweep's loop,
which treats each by itself, so one account is enough; two instances have one that is
told of a suspension and one that must read it.

- `SuspendedStaysRefused`: the generation check keeps a read from before a
  suspension from undoing it, through restarts as well.
- `NobodyIsLockedOutUnseen`: enabling first and dropping the row second
  is the order that a failure in between survives; the reverse is the mutant. Excepted
  are accounts a suspension and a reactivation crossed on (`crossed`).
- `DeletedLeavesNothing`: the second purge catches what a request under way wrote.
- `MirrorsCatchUp` (under fairness): every set comes to equal the table.

Fairness: the refresh loop of each instance goes on (`tokio::time::interval` in a task
of its own); its statement may fail, a bounded number of times.

**Proofs** (`AccountsProofs.tla`). `FencedSound`: what an instance must refuse is also in
every read that a refresh may still take over. `LockSound`: a row outlives the lock at the
provider. `SweepSound`: when a row is dropped, nobody can act as the account any more
(`Dead`): no token, no request let through, no account to sign in to.
`DeletedIsGone` ties the mark to the provider. `MirrorsCatchUp` is model-checked only.

**Noted.** "The daily sweep purges each again before dropping its row"
(`repo/account.rs:37`); the sweep (`main.rs:299`) drops rows a day old even when the repeated
purge, or the list of accounts to repeat it for, failed. The accounts
concerned are in `unpurged`, which `DeletedLeavesNothing` excepts.

## Saves of a node

`VersionedNode.tla` is what saving a node promises: a save is stored or
refused at one instant between its request and its answer, only on the version
it named (if it named one), and gives the node a version it never had. `NodeSave.tla`
is how the server does it: `routes/nodes.rs` (create, update, restore of a
version, wiki-link sync, snapshots), `repo/node.rs`, `repo/edge.rs`
(`sync_wikilinks`), `repo/activity.rs`, `repo/node_version.rs`.

**State.** `node`, `links`, `versions` and `log` are committed rows; `target` says of each node
that links may point to whether it is made, found under the title a body names, hidden
(renamed, or no longer shared) or gone. `pins` are pins that wait for the row. `job` is where each request stands: its transaction's start, the
status it read under the lock, the body it stored, the targets it resolved, the links its
sync saw, the latest snapshot it read. `used`, `held`, `cut`,
`loose` and `steady` (targets neither made nor renamed since titles were resolved) are history.

**Steps.** Begin (which fixes `NOW()`, and so the next `updated_at`), lock and read the row,
then write, log and commit as one step, as nobody sees them apart. After the commit
the request resolves titles, replaces the links in a transaction of two
statements, lists the snapshots and records one: each is a step that may fail, and a failure
of the train doesn't fail the save. A commit may go unanswered. A pin is one statement in two
steps, its start and its effect, as it may wait for the row in between. A target is made, renamed
and deleted at any time: nothing in the code looks at the bodies that name it then. `clock`
orders the starts and the stamps of the log. Its entry at stamp 0 is history, the first
status; the *Created* entry, a best effort after the links, is not modelled.

**Run** `saves`: two requests at once out of three saves, pins or changes of a target, one failure or crash
anywhere, two bodies (one with a link, one without), two statuses, one link target.
Two requests have every pair of steps in every order; the third one meets what the
two have left. Symmetry permutes requests and statuses. Nothing is live here; a vault whose
requests are used up stops, so deadlock is not checked.

- `SavesAreAtomic`: `NodeSave` implements `VersionedNode` (`Text`, `Ver`, `Want`
  and `Verdict` map its state). The version of a save is when it *began*, so a pin
  that began later and commits first is followed by a smaller version; it is a new one all
  the same, which is all the precondition needs.
- `StatusChain`: the log in the order of its stamps is the node's status history,
  since the stamp is taken under the row's lock; with the start of the
  transaction (the mutant) it is not.
- `HistoryKeepsBodies`: each body a save gave the node is in History or about to
  be, unless its train was cut short.
- `QuietNodeAgrees`: with no train under way, and unless the last save's train overlapped
  another or one was cut short since (`loose`), the latest snapshot is the body, no link
  is one the body does not ask for, and on every target neither made nor renamed since
  titles were resolved (`steady`) the links are just those it asks for (`LinksAgree`).

**Noted.** Two ways in which links and body part on a node that no save is at work on.
When trains overlap, the links of the older body may stay: the route syncs after the commit
and outside its lock. And titles are resolved when the body that names them is saved, and
only then (`nodes.rs:1221`): a node made or renamed later to a title a body names gets no link,
and one renamed away from it keeps the link. The next save of the body by itself
heals both.

**Proofs** (`NodeSaveProofs.tla`). Initial states map to initial states and each step to
a step or a stutter of `VersionedNode`, from the first half of the invariant, `RowInv`: one save at
a time has the row, a version about to be given is new (`StartsAreFresh`), and nothing is asked
before the node is there. The other half is about what a save leaves behind. `LogSound` and
`LastBefore`: no two stamps are equal, each entry begins where the last before it ended, the newest
ends at the row's status, and the save that holds the row's lock has that status in mind; its own
stamp, taken under the lock, is later than all logged ones. `StatusChain` follows.
`HistorySound`: a body is in History, or the train of the save that gave it is still to bring it
there; `HistoryKeepsBodies` follows. `TrainSound` and `TrainOf`: as long as trains have not
overlapped, the one train under way is for the row's body, and links and snapshot agree with it up
to the steps the train has left, and to targets that were made or renamed under it; `QuietNodeAgrees` is the case of no train. The theorems
`SpecSavesAreAtomic`, `SpecStatusChain`, `SpecHistoryKeepsBodies` and `SpecQuietNodeAgrees` hold for
any number of requests, connections, bodies and statuses.

## Backups

`BackupJobs.tla` models `backup.rs`, its routes, `repo/backup.rs`, the command
`backup create` (`cli.rs`), which runs in a process of its own beside the server, and
`common/src/backup.rs` (what is pruned).

**State.** `rows` are the database's rows: `Parents` (nodes, tags, people) and `Kids` that name
some of them (notes, links, `node_tags`, `node_people`, ...). `Before` is the order in which a
backup reads their tables: nodes and people before what names them, but the tags of nodes with
the nodes (`repo/node.rs:819`, one more query) and tags after (`backup.rs:184`). `listed`, `born`
and `automatic` are `backup_jobs`; `stored` and `holds` the archives in S3 and what is
in them; `queue` the outbox's archives. `job` is where each admin's request and each
command stands: tables still to be read, rows read, the archive it makes (`key`), the one it
deletes or restores (`of`), the automatic ones still to be pruned. The rest is history:
`since` (rows that stayed since a restore began), `torn` and `rent` (while the tables were read a node or person appeared too late to be read, or
a tag went too early: `Misses`), `unlisted` (a backup ended between its archive and its row), `asked`,
`pruned`.

**Steps.** A backup reads each table in a query, puts the archive, inserts the row; the
command then lists the rows, and deletes the automatic ones past the newest `Keep`, each by
archive, outbox if S3 refuses, row. A restore reads the archive, takes a backup,
reads the archive again and commits. `Abandon` ends a process anywhere: it stands for each
call that fails, a dropped request, a killed command, a crash. Users make and delete rows
at any time. Rows in a bin are not read by a backup and count as gone.

**Runs.**

| run | instance | shows |
|---|---|---|
| `backups_deletes` | an admin and a command, 2 archives, no rows, one automatic backup kept, under `FairSpec` | `ListAgreesWithStorage`, `PruneSparesNewest`, `DeletedArchivesGo` |
| `backups_restores` | two admins, 2 archives, a node, a tag and the tag on the node | `Inv`, `SnapshotKeepsReplaced`, `QuietBackupsRestore` |
| `backups_torn` | the same admins and archives, a node, a note on it and an entry of its log | `BackupsRestore` fails |

Bounds. Two archives are the newest, and one past it that an admin and a prune delete at once;
what is in them plays no part in deletes, so there are no rows. The proofs have any number. One node, one tag
and one row that names both are enough for restores: a row is torn from one of its parents, and
other rows neither help nor harm it. A person is read before `node_people`, as a node is
before its rows. `Refusable` bounds which archives' deletes S3 may refuse: none in
`backups_restores`, all in the others. `Keep` is 10 in the code; one kept is where pruning starts soonest, and the proofs
have any number. Archives, and admins, are interchangeable in the runs of restores. Archives run
out, but a process may always begin another delete or restore, or abandon it: no run stops.

Fairness. The outbox's entries are drained in the end (weak fairness of `Drain`), which is what
`QueueDrains` of `StoredFiles` shows from the daily loop. Nothing is assumed of requests and
commands.

**What the failing run says.** A backup reads the nodes first. A node and a note made before the
notes are read leave the note in the archive without its node. `restore_activity` skips
such rows and says why; notes, tasks, links, files, versions and the rest do not, and one
of them makes every restore of that backup fail on its foreign key (`BackupsRestore`).
The tags of nodes tear a backup the other way round: they are read with the nodes, in one
query, and the tags afterwards, so a tag that is *deleted* in between (`repo/tag.rs:164`) leaves
the archive a node's tag without the tag, and the insert into `node_tags` (`backup.rs:640`) fails
on its foreign key. People are read before `node_people` (`repo/person.rs:471`), so
a person made in between tears it as a node does. `QuietBackupsRestore` shows that these are
the only ways: a backup in which no node or person came too late and no tag went too early can
be restored, and deletes of nodes, of people and of the rows that name them do no harm.

**Noted.** A command killed, or a row refused, after the archive is put leaves an archive in
S3 that nothing lists ("it must never outlive its row unnoticed", `backup.rs:337`, is about
deletes): `unlisted` is the exception in `ListAgreesWithStorage`, and the only one.
The comment on `restore_activity` (`backup.rs:970`) knows of nodes created while a backup is
taken, not of tags deleted meanwhile.

**Proofs** (`BackupJobsProofs.tla`) of the five safety properties. `MakersSound`: an archive about
to be recorded is its maker's alone. `DeletersSound`: a row goes only when its
archive is gone or queued. `ReadersSound`: what a reader has found names only
what it has found too, or tags that are there and still to be read; and a restore's snapshot has
all that stayed. `PrunersSound`: a backup outnumbered by newer
automatic ones stays outnumbered, since `born` only grows and `automatic` keeps the deleted, so
an old list does no harm. `DeletedArchivesGo` is model-checked only.

## The editor

`NodeEditor.tla` models `components/node_editor.rs` (the editor of a node that
exists), `common/src/save_watch.rs`, the edit drafts of `ui/src/draft.rs`,
`api/nodes.rs` of the interface, and the server's conditional update as the one
instant that `NodeSave` shows it to be.

**State.** `ed` holds the signals: the text on the screen and as opened, `baseline`,
`base_version`, `own_fps`, `conflict_version`, the save state, `nav_after_save`, the
debounce, the `SaveWatch`'s last and current save, the offered draft. `tasks` are running
`put_unless_changed` calls, `wire` saves whose sender is gone but which may still
arrive. `draft` is the slot in local storage. A text stands for the (title, body,
status) snapshot and its fingerprint.

**Steps.** Opening is three steps (mount, the server's answer, its arrival), so the
answer may be stale. Typing, Restore, Discard, Retry, Done and Revert,
leaving (with its flush), logout, unload with and without `beforeunload`; the debounce and
the give-up timer; for each call the PUT, the read after a 412, one second PUT, a lost request or
answer; delivery to the editor, or to nobody. The effect that saves
(`autosave_now`) runs to its first `await` at once, as the reactive runtime does.
`AbortFails` has a save without an `AbortController`.

**Run** `editor`: two visits, two inputs, one change from elsewhere, one loss,
three texts. Two visits have a first visit's requests meet a second one's
editor and draft; two inputs have an edit during a save; one change
elsewhere is what a 412 needs; a loss is a lost message, a killed page, an expired draft or
a logout. Texts other than the first are interchangeable.

- `StatusIsTrue` (`SavedIsTrue` and `NoForgottenEdit`): no order of answers, losses and edits makes
  the editor call saved what isn't, or leave an edit with nothing to save it.
- `NeverOverwritesUnseen`: of every step; the text replaced was shown to or sent by the
  visit whose save replaces it, or the user was told of that version.
- `LeftEditsKept`: the text an editor was closed on, where the node may not hold it (it is
  not the baseline, or other text was sent since the baseline was stored), has been stored
  since or is in the draft. Excepted are two cases, recorded in `left`: it was the baseline
  again while a save of other text was out (`reverted`), and the answer to an earlier visit's
  flush cleared the slot (`crossed`), which it does without looking whose draft it is.
- `OfferTellsTruth`: a draft is offered as still fitting only over a text an earlier visit
  showed or sent.
- `Inv`: among its parts, that a logged-out page leaves no draft (`PageSound`).

**Noted.** The flush "persist[s] any edits younger than the debounce window"
(`node_editor.rs:1006`), but does nothing when the text is back at the baseline (`:1015`), though
a save of other text may be in flight, and lands: the user leaves an editor that shows A, and
the node holds B. `beforeunload` counts that state (`dirty || saving`, `:990`).

**Proofs** (`NodeEditorProofs.tla`) of all of them, for any number of visits, texts,
inputs and losses. `Fits` is the key: every version a visit may name is one it may save
over, and since versions only grow, that stays so while the row moves on
(`FitsStays`). `RequestsSound` says so of calls and orphans, `EditorSound` of the open editor,
`DraftSound` that what a draft was taken over was known to a visit no later than this, and `FlushSound` that a
flush of the last visit carries the text it was closed on: once its answer clears the slot, that
text is stored.

## Tasks and captures

`TaskSeries.tla` models `routes/tasks.rs` and `repo/task.rs`,
`common/src/task.rs`, migration 032, and captures (`routes/captures.rs`,
`repo/capture.rs`) with the tasks, notes and nodes they become.

**State.** `task` are the rows (status, whether they recur, node, parent, bin), `capture` and
`nodes` likewise; `job` is what each request has read and decided. `owed` says
for which tasks the last completion scheduled an occurrence, `strayed` which series
met one of the cases below, `made` counts what a capture became.

**Steps.** An update is three: read and decide the effect on the series
(`series_effect`), write, and then schedule or retract as a best effort.
A conversion is a DELETE that locks the capture, the inserts, the commit. Deletes go to a bin
from which Undo restores; the daily purge empties it. A failure or a crash may
come before every effect. Only one request can hold a capture's row, so the loser of two conversions
waits and then finds nothing.

**Run** `tasks`: three ids (an occurrence, its successor, and theirs), two requests
at once out of four, one capture, one node that is a project, one fault. Symmetry
permutes ids and requests. `NewStatuses` bounds the statuses a new task is given (open, done);
updates set any.

- `SeriesInStep`: an unfinished task has no occurrence waiting and a finished recurring one
  has exactly one. Excepted are series in `strayed`: two updates overlapped (both read
  the task as open, and both schedule), the effect was lost, somebody
  touched the occurrence, or a finished task was cancelled. These are what goes wrong in the code,
  and the property does not notice it. With one update of a task at a time it
  holds through every mixture of completions, reopenings, rules set and cleared, deletes, Undo and purges.
- `CapturesAreKept` (`CapturesBecomeOne` and `CapturesAreNotLost`): with no exception.

**Proofs** (`TaskSeriesProofs.tla`) of all three. `InStep` is the
invariant per task: one update at a time, whose decision still holds when it writes,
and one waiting occurrence just when one is owed, or is about to be scheduled.
`JobsSound` has a conversion own its capture from the DELETE on.

## Session

`Session.tla` models `common/src/session_retry.rs` (the gate through which refused
calls share a renewal), `ui/src/api/mod.rs`, the startup probe (`ui/src/auth.rs`), the
logout button (`sidebar.rs`), `routes/auth.rs` and `auth/oidc.rs` of the server, and
the API cache of the service worker (`sw.js`).

**State.** `call` are the calls of the page, `gen` and `slot` the gate, `renewal` the
requests to `/auth/refresh`, `jar` the two cookies, `issued`, `expired` and `good` the
tokens as server and provider see them, `cached` and `puts` the worker's
cache and its writes under way, `leaving` the logout. A renewal
may rotate the refresh token; the one it replaces is no longer honoured.

**Steps.** Send, serve and arrive are separate, for calls and for renewals. A refused
call waits, leads or is sent again, as `RefreshGate::refresh` says. The leader's
request may be answered, refused, fail, or be given up on after ten seconds while the
browser still takes its cookies. A failing provider looks to the page like an unavailable
server (no answer) or like a refusal (any answer but success); or it gives tokens that are lost
in the server. The leader may also be dropped. Logging in starts
a new page. The worker answers from the network and writes the cache afterwards, so that a
purge can come between.

**Run** `session`: two calls at once out of three, three tokens, one fault; two
calls are one that leads and one that waits, and the third token is one renewed
twice.

- `LoginMeansOver`: calls end at the login page only if the session was over, a renewal's
  answer was lost, the provider's failure was taken for a refusal (`misread`), or a log-out was
  served and the page is on its way out. In particular no call goes there on a refusal that another
  call's renewal has made stale.
- `RenewsTheExpired`, `WaitersResume` (under fairness), and within `Inv` that a call sent again
  takes effect once (`AppliedOnce`).
- `CacheEndsWithTheSession`: nothing cached outlives its sign-in, but for
  answers under way at the purge and sessions renewed after it (`strays`).

Fairness: a leader's request ends, as a timer aborts it after ten seconds
(`Abandon`; the browser has an AbortController); nothing is assumed of the network.

**Noted.** The logout endpoint reads the refresh cookie to "Revoke the refresh token
server-side" (`routes/auth.rs:355`), but the cookie's path is `/api/auth/refresh`, so the
browser never sends it to `/api/auth/logout`, nor drops it. `Logout` models that: the next start's
probe renews the session, and the application opens signed in. `good` and `jar` keep their refresh
token through a logout, which is why `CacheEndsWithTheSession` excepts sessions renewed after it.

A refresh that got no verdict, "network error, 5xx", is "not a logout"
(`session_retry.rs:37`). That is so of the server's own answers; but the server answers 401
to whatever the provider says that isn't success, 5xx and throttling included (`auth/oidc.rs:312`),
and the page takes a 401 for the end of the session: `RenewalFails` has it, and
`LoginMeansOver` excepts it.

`to_login` fetches the login page's address before it leaves, and stays for good when that fails;
in the model the call stays at *login* meanwhile, and `ToLogin` is the departure. A failing
fetch of the provider's keys when they rotate is not modelled.

`sw.js:13` says that "any 401 from the API" purges the cache; only GETs pass
through that code, so a refused write does not.

**Proofs** (`SessionProofs.tla`) of `LoginMeansOver`, `AppliedOnce`,
`RenewsTheExpired` and `CacheEndsWithTheSession`, for any number of calls and tokens, in two
layers. `GateInv` is inductive by itself and carries the first three. `GateSound`: nobody waits
on an empty slot. `RenewalSound`: who was refused and has seen the last renewal
holds the jar's token. `RefreshSound`: while the session is good, the jar holds the token that
renews it, or the renewal under way will bring it, and only a failing provider refuses it. `TokensSound`: until a log-out is served, each
renewal's token is newer than all before it, so that a call refused for good has an ended session
and no renewal to come.

`Inv` adds what the worker's purges achieve. `PurgeSound`: once the sign-in is logged out, a GET of
it is refused for good or for now, or it has ended, it is *barren* (nothing cached, nothing under
way, and a cookie that fetches nothing) or a stray. `EndedSound`: an ended sign-in that is no stray
has no page open and no renewal that could bring it back (`NotRenewed`); that is where
`TokensSound` comes in, and why `ToLogin` ends a sign-in only if no renewal was lost or misread.
`CacheEndsWithTheSession` is its second conjunct. `WaitersResume` is model-checked only.

## What is not modelled

- Stored files and backups: the order in which the outbox is drained; previews, downloads
  and older archive formats; sizes and counts of a backup.
- Links: node kinds, permissions, labels, and the folds a restore applies to links
  older than the unique indexes.
- Nodes: duplication, kinds, favorites, the coalescing of *Edited* log entries, the
  backfill of migration 035, webhooks sent after a save.
- Accounts: groups, roles and invitations, which change nothing of a suspension.
- Tasks and captures: dates, priorities, order and texts are data.
- Editor: creating a node and the drafts of dialogs; the *stalled* label.
- Session: the PKCE exchange, and a second tab, whose gate is its own: what happens
  when two tabs spend one rotating refresh token is up to the provider.
- Service worker: the shell, its updates, the share target.
- Permissions, webhooks, notes, tags, people, templates and search: single-statement
  reads and writes, and rights read before a write, of which nothing in the
  repository states what a revocation under way promises.
- Rendering, markdown, names, layout, deployment: string and floating-point
  computations, without state that a model would reach.

Out of the prover's reach, and checked by TLC alone: liveness under fairness
(`QueueDrains`, `WritersEnd`, `MirrorsCatchUp`, `WaitersResume`, `DeletedArchivesGo`). Every
other property of the passing runs is a theorem. All bounds (`Max…`) are in guards of the
models; the proofs hold for each of their values, the runs for those of the `.cfg` files.
