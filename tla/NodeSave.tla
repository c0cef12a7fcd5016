------------------------------ MODULE NodeSave ------------------------------
(***************************************************************************)
(* One node's row and what its saves keep beside it: the log of project    *)
(* status changes, the wiki links its body asks for, and the body          *)
(* snapshots of its History.  A save is a transaction (begin, lock the     *)
(* row, write under a precondition, log, commit) and then a train of       *)
(* statements of their own: resolve titles, replace the links, look up the *)
(* latest snapshot, record another.  The request may end, or the server    *)
(* stop, between any two of them.                                          *)
(*                                                                         *)
(* `updated_at` is the transaction's start (NOW()), not its commit; the    *)
(* log is stamped as it is written (clock_timestamp()).  clock gives both. *)
(***************************************************************************)
EXTENDS Naturals, Sequences, SequencesExt

CONSTANTS
    Saves,      \* requests that may run at once
    Bodies, Statuses, Targets,
    LinksOf,    \* body -> the nodes whose titles it names
    Keep,       \* a field a request leaves alone
    None,       \* no node
    MaxSaves,   \* bound: requests sent, pins and what is done to targets included
    MaxFaults   \* bound: failing statements and crashes

ASSUME LinksAssumption == LinksOf \in [Bodies -> SUBSET Targets]
ASSUME BoundsAssumption == MaxSaves \in Nat /\ MaxFaults \in Nat
ASSUME ValuesAssumption == Keep \notin Bodies \cup Statuses

Fields == [body : Bodies \cup {Keep}, status : Statuses \cup {Keep}, expected : Nat]
Texts == [body : Bodies, status : Statuses]
Row(vers) == [body : Bodies, status : Statuses, ver : vers]
Link == [to : Targets, by : Saves]

ASSUME NoneAssumption == None \notin Fields \cup Texts \cup Row(Nat)

VARIABLES
    node,      \* the row: body, status, version; or None
    target,    \* link target -> not made yet, its title found, hidden (renamed,
               \* no longer shared) or gone
    links,     \* wiki-link rows: target, and the save that wrote the row
    versions,  \* History: body snapshots, oldest first
    log,       \* status_changed entries, and at stamp 0 (history) the first status
    clock,
    job,       \* what each request is doing
    pins,      \* the starts of set_pinned statements that wait for the row
    sent, faults,
    used,      \* history: versions the node has had
    held,      \* history: bodies saves have given the node
    cut,       \* history: bodies whose train a failure or a crash ended
    loose,     \* history: the last save's train overlapped another's, or it or a
               \* later one was ended
    steady     \* history: targets neither made nor renamed since titles were resolved

vars == <<node, target, links, versions, log, clock, job, pins, sent, faults, used,
          held, cut, loose, steady>>

Nothing == [body |-> Keep, status |-> Keep, expected |-> 0]
Idle == [at |-> "idle", kind |-> "save", want |-> Nothing, start |-> 0, was |-> Keep,
         body |-> Keep, found |-> {}, seen |-> {}, latest |-> Keep, verdict |-> "none"]
Places == {"idle", "sent", "begun", "locked", "applied", "resolved", "syncing",
           "synced", "recording"}
Job == [at : Places, kind : {"create", "save", "restore"}, want : Fields, start : Nat,
        was : Statuses \cup {Keep}, body : Bodies \cup {Keep}, found : SUBSET Targets,
        seen : SUBSET Link, latest : Bodies \cup {Keep},
        verdict : {"none", "stored", "stale", "missing"}]

Goto(r, place) == job' = [job EXCEPT ![r].at = place]
End(r, verdict) == job' = [job EXCEPT ![r] = [Idle EXCEPT !.verdict = verdict]]
InTrain(r) == job[r].at \in {"applied", "resolved", "syncing", "synced", "recording"}
Locked == \E r \in Saves : job[r].at = "locked"
Named(L) == {l.to : l \in L}
Alive == {t \in Targets : target[t] \in {"found", "hidden"}}
Titled == {t \in Targets : target[t] = "found"}

TypeOK ==
    /\ clock \in Nat /\ used \subseteq 1..clock
    /\ node = None \/ node \in Row(used)
    /\ target \in [Targets -> {"unborn", "found", "hidden", "gone"}]
    /\ pins \subseteq 1..clock /\ steady \subseteq Targets /\ links \subseteq Link
    /\ \A k, l \in links : k.to = l.to => k = l
    /\ versions \in Seq(Bodies)
    /\ job \in [Saves -> Job]
    /\ \A r \in Saves : InTrain(r) => job[r].body \in Bodies
    /\ cut \subseteq Bodies /\ held \subseteq Bodies
    /\ loose \in BOOLEAN

Init ==
    /\ node = None /\ used = {} /\ held = {} /\ cut = {} /\ loose = FALSE
    /\ target \in [Targets -> {"unborn", "found"}] /\ steady = {}
    /\ pins = {} /\ links = {} /\ versions = <<>> /\ log = {}
    /\ clock = 0 /\ sent = 0 /\ faults = 0
    /\ job = [r \in Saves |-> Idle]

----------------------------------------------------------------------------
(* Creating the node.  Its links follow as after a save, a snapshot of its *)
(* body does not.  (The Created entry, a best effort after the links, is   *)
(* not modelled: the log's entry at stamp 0 is what it would say.)         *)

Create(r) ==
    /\ used = {} /\ job[r].at = "idle"
    /\ \E b \in Bodies, s \in Statuses :
        /\ node' = [body |-> b, status |-> s, ver |-> clock + 1]
        /\ log' = {[from |-> s, to |-> s, at |-> 0]}
        /\ job' = [job EXCEPT ![r].at = "applied", ![r].kind = "create", ![r].body = b]
    /\ used' = {clock + 1} /\ clock' = clock + 1
    /\ UNCHANGED <<target, links, versions, sent, faults, held, cut, loose, pins,
                   steady>>

----------------------------------------------------------------------------
(* PgNodeRepo::update.                                                     *)

Ask(r, kind, want) ==
    job' = [job EXCEPT ![r] = [Idle EXCEPT !.at = "sent", !.kind = kind, !.want = want]]

(* A save of the body, conditional on the version its sender saw or not; a *)
(* status chip; a version put back.                                        *)
Send(r) ==
    /\ job[r].at = "idle" /\ node # None /\ sent < MaxSaves
    /\ sent' = sent + 1
    /\ \/ \E b \in Bodies, v \in {0, node.ver} :
              Ask(r, "save", [body |-> b, status |-> Keep, expected |-> v])
       \/ \E s \in Statuses : Ask(r, "save", [Nothing EXCEPT !.status = s])
       \/ \E b \in ToSet(versions) : Ask(r, "restore", [Nothing EXCEPT !.body = b])
    /\ UNCHANGED <<node, target, links, versions, log, clock, faults, used, held, cut,
                   loose, pins, steady>>

Begin(r) ==
    /\ job[r].at = "sent"
    /\ clock' = clock + 1
    /\ job' = [job EXCEPT ![r].at = "begun", ![r].start = clock + 1]
    /\ UNCHANGED <<node, target, links, versions, log, sent, faults, used, held, cut,
                   loose, pins, steady>>

(* Mutant: the row is read without FOR NO KEY UPDATE.                      *)
LockNotTaken(r) ==
    /\ job[r].at = "begun"
    /\ IF node = None
       THEN End(r, "missing")
       ELSE job' = [job EXCEPT ![r].at = "locked", ![r].was = node.status]
    /\ UNCHANGED <<node, target, links, versions, log, clock, sent, faults, used, held,
                   cut, loose, pins, steady>>

(* SELECT ... FOR NO KEY UPDATE waits for the writer that has the row.     *)
Lock(r) ==
    /\ job[r].at = "begun" /\ ~Locked
    /\ IF node = None
       THEN End(r, "missing")
       ELSE job' = [job EXCEPT ![r].at = "locked", ![r].was = node.status]
    /\ UNCHANGED <<node, target, links, versions, log, clock, sent, faults, used, held,
                   cut, loose, pins, steady>>

(* Mutant: any version from the expected one back will do.                 *)
AppliesToOlder(w) == w.expected = 0 \/ node.ver <= w.expected
Applies(w) == w.expected = 0 \/ node.ver = w.expected

Or(new, old) == IF new = Keep THEN old ELSE new

(* Mutant: the log is stamped with the transaction's start.                *)
StampAtStart(r) == job[r].start
Stamp(r) == clock + 1

(* The row, the log and the commit; the stamp of the log comes after every *)
(* transaction that has begun.                                             *)
Store(r) ==
    LET w == job[r].want
        s == Or(w.status, node.status)
        b == Or(w.body, node.body) IN
    /\ Applies(w)
    /\ node' = [body |-> b, status |-> s, ver |-> job[r].start]
    /\ log' = IF s = job[r].was THEN log
              ELSE log \cup {[from |-> job[r].was, to |-> s, at |-> Stamp(r)]}
    /\ clock' = clock + 1
    /\ used' = used \cup {job[r].start}
    /\ held' = held \cup {b}
    /\ UNCHANGED <<target, links, versions, pins, sent, steady>>

Apply(r) ==
    /\ job[r].at = "locked"
    /\ Store(r)
    /\ loose' = (\E q \in Saves : InTrain(q))
    /\ job' = [job EXCEPT ![r].at = "applied", ![r].body = node'.body, ![r].want = Nothing,
                          ![r].verdict = "stored"]
    /\ UNCHANGED <<faults, cut>>

Stale(r) ==
    /\ job[r].at = "locked" /\ ~Applies(job[r].want)
    /\ End(r, "stale")
    /\ UNCHANGED <<node, target, links, versions, log, clock, sent, faults, used, held,
                   cut, loose, pins, steady>>

(* A failed statement ends the request and rolls back; a commit whose      *)
(* answer is lost ends it all the same.                                    *)
Fail == faults < MaxFaults /\ faults' = faults + 1
UpdateFails(r) ==
    /\ job[r].at \in {"sent", "begun", "locked"} /\ Fail
    /\ End(r, job[r].verdict)
    /\ UNCHANGED <<node, target, links, versions, log, clock, sent, used, held, cut,
                   loose, pins, steady>>
CommitUnanswered(r) ==
    /\ job[r].at = "locked" /\ Fail
    /\ Store(r) /\ loose' = TRUE
    /\ cut' = cut \cup {node'.body}
    /\ End(r, "stored")

----------------------------------------------------------------------------
(* sync_wikilinks.                                                         *)

Resolve(r) ==
    /\ job[r].at = "applied"
    /\ job' = [job EXCEPT ![r].at = "resolved", ![r].found = LinksOf[job[r].body] \cap Titled]
    /\ steady' = Targets
    /\ UNCHANGED <<node, target, links, versions, log, clock, pins, sent, faults, used,
                   held, cut, loose>>

(* DELETE removes the rows that are committed when it starts ...           *)
SyncBegin(r) ==
    /\ job[r].at = "resolved"
    /\ job' = [job EXCEPT ![r].at = "syncing", ![r].seen = links]
    /\ UNCHANGED <<node, target, links, versions, log, clock, sent, faults, used, held,
                   cut, loose, pins, steady>>

(* Mutant: the links that were there stay.                                 *)
KeptLinksAll(r) == links
(* ... and not those that another save has committed since.                *)
KeptLinks(r) == links \ job[r].seen

Cut(r) == /\ cut' = IF job[r].kind = "create" THEN cut ELSE cut \cup {job[r].body}
          /\ loose' = TRUE

(* An end that no longer exists fails the transaction, and the request.    *)
SyncEnd(r) ==
    /\ job[r].at = "syncing"
    /\ LET kept == KeptLinks(r)
           ends == job[r].found = {} \/ (node # None /\ job[r].found \subseteq Alive) IN
       IF ends
       THEN /\ links' = kept \cup {[to |-> t, by |-> r] : t \in job[r].found \ Named(kept)}
            /\ IF job[r].kind = "create" THEN End(r, "none") ELSE Goto(r, "synced")
            /\ UNCHANGED <<cut, loose>>
       ELSE Cut(r) /\ End(r, job[r].verdict) /\ UNCHANGED links
    /\ UNCHANGED <<node, target, versions, log, clock, sent, faults, used, held, pins,
                   steady>>

SyncFails(r) ==
    /\ job[r].at \in {"applied", "resolved", "syncing"} /\ Fail
    /\ Cut(r)
    /\ End(r, job[r].verdict)
    /\ UNCHANGED <<node, target, links, versions, log, clock, sent, used, held, pins,
                   steady>>

----------------------------------------------------------------------------
(* The body snapshot.                                                      *)

Latest == IF versions = <<>> THEN Keep ELSE Last(versions)

(* A lookup that fails counts as no snapshot; a version put back records   *)
(* its snapshot without looking, in a task of its own.                     *)
ListVersions(r) ==
    /\ job[r].at = "synced"
    /\ \/ /\ job' = [job EXCEPT ![r].at = "recording",
                        ![r].latest = IF job[r].kind = "restore" THEN Keep ELSE Latest]
          /\ UNCHANGED faults
       \/ Fail /\ Goto(r, "recording")
    /\ UNCHANGED <<node, target, links, versions, log, clock, sent, used, held, cut,
                   loose, pins, steady>>

(* Mutant: the snapshot is compared with the row, which has it already.    *)
SnapshotNeededByRow(r) == node = None \/ job[r].body # node.body
SnapshotNeeded(r) == job[r].body # job[r].latest

Record(r) ==
    /\ job[r].at = "recording"
    /\ versions' = IF node # None /\ SnapshotNeeded(r) THEN Append(versions, job[r].body)
                   ELSE versions
    /\ End(r, job[r].verdict)
    /\ UNCHANGED <<node, target, links, log, clock, sent, faults, used, held, cut,
                   loose, pins, steady>>

RecordFails(r) ==
    /\ job[r].at = "recording" /\ Fail
    /\ Cut(r)
    /\ End(r, job[r].verdict)
    /\ UNCHANGED <<node, target, links, versions, log, clock, sent, used, held, pins,
                   steady>>

----------------------------------------------------------------------------
(* The others: set_pinned, node deletes, and a server that stops.          *)

(* UPDATE nodes SET pinned, updated_at = NOW(): the statement's start is   *)
(* the version, and it waits for who has the row.                          *)
PinBegin ==
    /\ node # None /\ sent < MaxSaves
    /\ sent' = sent + 1 /\ clock' = clock + 1
    /\ pins' = pins \cup {clock + 1}
    /\ UNCHANGED <<node, target, links, versions, log, job, faults, used, held, cut,
                   loose, steady>>

Pin(p) ==
    /\ ~Locked
    /\ pins' = pins \ {p}
    /\ IF node = None THEN UNCHANGED <<node, used>>
       ELSE node' = [node EXCEPT !.ver = p] /\ used' = used \cup {p}
    /\ UNCHANGED <<target, links, versions, log, clock, job, sent, faults, held, cut,
                   loose, steady>>

DeleteNode ==
    /\ node # None /\ ~Locked
    /\ node' = None /\ links' = {} /\ versions' = <<>> /\ log' = {}
    /\ UNCHANGED <<target, clock, job, sent, faults, used, held, cut, loose, pins,
                   steady>>

(* A target is made under the title, or renamed to or from it: no body     *)
(* that names the title is looked at again.                                *)
Retitle(t) ==
    /\ target[t] # "gone" /\ sent < MaxSaves
    /\ sent' = sent + 1
    /\ \E s \in {"found", "hidden"} \ {target[t]} : target' = [target EXCEPT ![t] = s]
    /\ steady' = steady \ {t}
    /\ UNCHANGED <<node, links, versions, log, clock, job, faults, used, held, cut, loose,
                   pins>>

DeleteTarget(t) ==
    /\ t \in Alive /\ sent < MaxSaves
    /\ sent' = sent + 1
    /\ target' = [target EXCEPT ![t] = "gone"]
    /\ links' = {l \in links : l.to # t}
    /\ UNCHANGED <<node, versions, log, clock, job, faults, used, held, cut, loose, pins,
                   steady>>

Crash ==
    /\ Fail
    /\ cut' = cut \cup {job[r].body : r \in {s \in Saves : InTrain(s) /\ job[s].kind # "create"}}
    /\ loose' = (loose \/ \E r \in Saves : InTrain(r))
    /\ job' = [r \in Saves |-> [Idle EXCEPT !.verdict = job[r].verdict]]
    /\ UNCHANGED <<node, target, links, versions, log, clock, sent, used, held, pins,
                   steady>>

Next ==
    \/ \E r \in Saves :
        \/ Create(r) \/ Send(r) \/ Begin(r) \/ Lock(r)
        \/ Apply(r) \/ Stale(r) \/ UpdateFails(r) \/ CommitUnanswered(r)
        \/ Resolve(r) \/ SyncBegin(r) \/ SyncEnd(r) \/ SyncFails(r)
        \/ ListVersions(r) \/ Record(r) \/ RecordFails(r)
    \/ PinBegin \/ DeleteNode \/ Crash
    \/ \E p \in pins : Pin(p)
    \/ \E t \in Targets : Retitle(t) \/ DeleteTarget(t)

Spec == Init /\ [][Next]_vars

----------------------------------------------------------------------------
(* Properties.                                                             *)

(* What VersionedNode sees of the state: a save takes effect at the commit *)
(* of its transaction, or is refused under the row's lock.                 *)
Undecided(r) == job[r].at \in {"sent", "begun", "locked"}
Text == IF node = None THEN None ELSE [body |-> node.body, status |-> node.status]
Ver == IF node = None THEN 0 ELSE node.ver
Want == [r \in Saves |-> IF Undecided(r) THEN job[r].want ELSE None]
Verdict == [r \in Saves |-> job[r].verdict]

Promise == INSTANCE VersionedNode WITH
    text <- Text, ver <- Ver, want <- Want, verdict <- Verdict

(* Saves behave as the abstract specification says: each is decided at one *)
(* instant, on the version it named or not at all.                         *)
SavesAreAtomic == Promise!Spec

StatusBefore(t) ==
    LET earlier == {e \in log : e.at < t}
    IN (CHOOSE e \in earlier : \A f \in earlier : f.at <= e.at).to

(* The status log, in the order of its stamps, is the history of the       *)
(* node's status: each change starts where the one before it ended, and    *)
(* the last one ends at what the node says.                                *)
StatusChain ==
    node # None =>
        /\ node.status = StatusBefore(clock + 1)
        /\ \A e \in log : e.at # 0 => e.from = StatusBefore(e.at)

(* Whatever body a save gave the node is in its History, or about to be,   *)
(* unless a failure or a crash ended that save's train: skipping a body    *)
(* that is the latest snapshot loses nothing, however saves interleave.    *)
HistoryKeepsBodies ==
    node # None =>
        \A b \in held \ cut :
            \/ b \in ToSet(versions)
            \/ \E r \in Saves : InTrain(r) /\ job[r].body = b /\ job[r].kind # "create"

(* The links name only what the body names, and agree with its titles on   *)
(* every target that was not made or renamed since they were resolved.     *)
LinksAgree ==
    /\ Named(links) \subseteq LinksOf[node.body]
    /\ Named(links) \cap steady = LinksOf[node.body] \cap Titled \cap steady

(* Once the train of the last save is over, and none was ended or ran      *)
(* beside it, links and snapshot are the body's, whatever earlier trains   *)
(* left behind.                                                            *)
QuietNodeAgrees ==
    node # None /\ ~loose /\ (\A r \in Saves : ~InTrain(r)) =>
        LinksAgree /\ (held # {} => Latest = node.body)

----------------------------------------------------------------------------
(* The inductive invariant: first what the refinement rests on.            *)

(* One save at a time has the row.                                         *)
OneHasTheRow ==
    /\ \A q, r \in Saves : job[q].at = "locked" /\ job[r].at = "locked" => q = r
    /\ Locked => node # None

(* What a transaction that has begun will call its version is no version   *)
(* the node has had, nor what another will call its own.                   *)
Began(r) == job[r].at \in {"begun", "locked"}
StartsAreFresh ==
    /\ \A r \in Saves : Began(r) => job[r].start \in 1..clock /\ job[r].start \notin used
    /\ \A q, r \in Saves : Began(q) /\ Began(r) /\ job[q].start = job[r].start => q = r
    /\ pins \cap used = {} /\ \A r \in Saves : Began(r) => job[r].start \notin pins

(* Nothing is asked of a node that is not there yet, and its creation is   *)
(* not a save.                                                             *)
CreatedFirst == \A r \in Saves :
    /\ used = {} \/ job[r].kind = "create" => job[r].verdict = "none"
    /\ Undecided(r) => used # {} /\ job[r].kind # "create"

RowInv == TypeOK /\ OneHasTheRow /\ StartsAreFresh /\ CreatedFirst

(* Behind StatusChain: no two entries of the log have one stamp, none has  *)
(* a stamp to come, each follows the one it starts from, and who has the   *)
(* row's lock has seen the status it is about to change.                   *)
LastBefore(t, e) == e.at < t /\ \A f \in log : f.at < t => f.at <= e.at
LogSound ==
    /\ \A e \in log : e.at \in 0..clock
    /\ \A e, f \in log : e.at = f.at => e = f
    /\ node # None =>
        /\ \E e \in log : LastBefore(clock + 1, e) /\ e.to = node.status
        /\ \A e \in log : e.at # 0 => \E p \in log : LastBefore(e.at, p) /\ p.to = e.from
    /\ \A r \in Saves : job[r].at = "locked" => job[r].was = node.status

(* Behind HistoryKeepsBodies: the snapshot a save compares its body with   *)
(* is in the History, and a node without a version has nothing yet.        *)
HistorySound ==
    /\ HistoryKeepsBodies
    /\ node # None => \A r \in Saves : job[r].latest \in {Keep} \cup ToSet(versions)
    /\ \A r \in Saves : job[r].latest # Keep => job[r].at = "recording"
    /\ used = {} => held = {} /\ \A r \in Saves : job[r].at = "idle"

(* Behind QuietNodeAgrees: how far the one train there is has come.        *)
TrainOf(r) ==
    LET asked == LinksOf[node.body] IN
    /\ job[r].body = node.body
    /\ job[r].kind = "create" => held = {}
    /\ job[r].at \in {"resolved", "syncing"} =>
          /\ job[r].found \subseteq asked
          /\ job[r].found \cap Alive \cap steady = asked \cap Titled \cap steady
    /\ job[r].at = "syncing" => links \subseteq job[r].seen
    /\ job[r].at \in {"synced", "recording"} => LinksAgree
    /\ job[r].latest \in {Keep, Latest}
TrainSound ==
    node # None /\ ~loose =>
        /\ \A q, r \in Saves : InTrain(q) /\ InTrain(r) => q = r
        /\ \A r \in Saves : InTrain(r) => TrainOf(r)
        /\ QuietNodeAgrees

Inv == RowInv /\ LogSound /\ HistorySound /\ TrainSound
============================================================================
