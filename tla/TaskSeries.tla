----------------------------- MODULE TaskSeries -----------------------------
(***************************************************************************)
(* Tasks, the series of a recurring task, and the captures that become     *)
(* tasks, notes or nodes.  An update reads its task, decides from what it  *)
(* read whether a next occurrence is to be scheduled or retracted, writes  *)
(* the task, and then does so, best effort: anything may happen between    *)
(* the three.  Deleted tasks and captures lie in a bin, from which Undo    *)
(* takes them and which the daily sweep empties.                           *)
(***************************************************************************)
EXTENDS Naturals, FiniteSets

CONSTANTS
    Tasks,        \* ids, each used once
    Nodes, Projects,
    Captures,
    Requests,     \* requests that may run at once
    Free,         \* no node, no task, nothing
    Keep,         \* a field an update leaves alone
    NewStatuses,  \* bound: the statuses new tasks are given
    MaxSent,      \* bound: requests
    MaxFaults     \* bound: failed effects, failed transactions and crashes

ASSUME NodesAssumption == Projects \subseteq Nodes /\ Free \notin Nodes \cup Tasks \cup Captures
ASSUME IdsAssumption == Tasks \cap Captures = {}
ASSUME BoundsAssumption == MaxSent \in Nat /\ MaxFaults \in Nat

VARIABLES
    nodes,       \* nodes that exist
    task,        \* the rows of node_tasks, Free where there is none
    minted,      \* ids used
    capture,     \* live, binned or gone
    job,         \* what each request is doing
    sent, faults,
    owed,        \* history: tasks whose last completion scheduled an occurrence
    strayed,     \* history: tasks whose series the code may have lost track of
    made         \* history: things each capture was made into

vars == <<nodes, task, minted, capture, job, sent, faults, owed, strayed, made>>

Statuses == {"open", "in_progress", "done", "cancelled"}
Terminal == {"done", "cancelled"}
Effects == {"unchanged", "schedule", "retract"}
Row == [status : Statuses, rule : BOOLEAN, node : Nodes \cup {Free},
        parent : Tasks \cup {Free}, binned : BOOLEAN]
Job == [at : {"idle", "read", "effect", "asked", "taken"}, on : Tasks \cup Captures \cup {Free},
        status : Statuses \cup {Keep, "task", "other"}, rule : BOOLEAN \cup {Keep},
        node : Nodes \cup {Free, Keep}, effect : Effects]
Idle == [at |-> "idle", on |-> Free, status |-> Keep, rule |-> Keep, node |-> Keep,
         effect |-> "unchanged"]

ASSUME StatusesAssumption == NewStatuses \subseteq Statuses
ASSUME ValuesAssumption == Free \notin Row /\ Keep \notin Statuses

Exists(t) == task[t] # Free
Live(t) == Exists(t) /\ ~task[t].binned
Waiting(t) == {c \in Tasks : Live(c) /\ task[c].parent = t /\ task[c].status = "open"}
Running(t) == \E r \in Requests : job[r].on = t
Goto(r, place) == job' = [job EXCEPT ![r].at = place]
End(r) == job' = [job EXCEPT ![r] = Idle]
Send(r) == job[r] = Idle /\ sent < MaxSent /\ sent' = sent + 1
Fail == faults < MaxFaults /\ faults' = faults + 1

TypeOK ==
    /\ nodes \subseteq Nodes /\ minted \subseteq Tasks
    /\ task \in [Tasks -> Row \cup {Free}]
    /\ capture \in [Captures -> {"live", "binned", "gone"}] /\ made \in [Captures -> Nat]
    /\ job \in [Requests -> Job]
    /\ owed \subseteq Tasks /\ strayed \subseteq Tasks

Init ==
    /\ nodes = Nodes
    /\ task = [t \in Tasks |-> Free] /\ minted = {}
    /\ capture = [c \in Captures |-> "live"]
    /\ job = [r \in Requests |-> Idle]
    /\ sent = 0 /\ faults = 0
    /\ owed = {} /\ strayed = {} /\ made = [c \in Captures |-> 0]

----------------------------------------------------------------------------
(* Creating, deleting and restoring.                                       *)

Insert(t, row) ==
    /\ t \notin minted /\ minted' = minted \cup {t}
    /\ task' = [task EXCEPT ![t] = row]

(* A new task goes on a Project, or on no node, in whatever status.        *)
CreateTask ==
    /\ sent < MaxSent /\ sent' = sent + 1
    /\ \E t \in Tasks, n \in (nodes \cap Projects) \cup {Free}, s \in NewStatuses, rule \in BOOLEAN :
          Insert(t, [status |-> s, rule |-> rule, node |-> n, parent |-> Free,
                     binned |-> FALSE])
    /\ UNCHANGED <<nodes, capture, job, faults, owed, strayed, made>>

(* Whoever touches an occurrence makes it the user's own.                  *)
Touched(ts) == strayed' = strayed \cup ({task[t].parent : t \in ts} \ {Free})

DeleteTask(t) ==
    /\ Live(t) /\ sent < MaxSent /\ sent' = sent + 1
    /\ task' = [task EXCEPT ![t].binned = TRUE]
    /\ Touched({t})
    /\ UNCHANGED <<nodes, minted, capture, job, faults, owed, made>>

RestoreTask(t) ==
    /\ Exists(t) /\ task[t].binned /\ sent < MaxSent /\ sent' = sent + 1
    /\ task' = [task EXCEPT ![t].binned = FALSE]
    /\ Touched({t})
    /\ UNCHANGED <<nodes, minted, capture, job, faults, owed, made>>

(* Rows that go take their links from the occurrences they scheduled.      *)
(* Mutant: the links stay, naming rows that are gone.                      *)
WithoutLinks(ts) == [t \in Tasks |-> IF t \in ts THEN Free ELSE task[t]]
Without(ts) ==
    [t \in Tasks |->
        IF t \in ts THEN Free
        ELSE IF Exists(t) /\ task[t].parent \in ts THEN [task[t] EXCEPT !.parent = Free]
        ELSE task[t]]

(* The daily sweep drops what has been in the bins for long enough.        *)
Purge ==
    /\ \/ \E t \in Tasks : Exists(t) /\ task[t].binned /\ task' = Without({t})
                           /\ UNCHANGED capture
       \/ \E c \in Captures : capture[c] = "binned" /\ capture' = [capture EXCEPT ![c] = "gone"]
                              /\ UNCHANGED task
    /\ UNCHANGED <<nodes, minted, job, sent, faults, owed, strayed, made>>

(* A node's tasks go with it.                                              *)
DeleteNode(n) ==
    LET ts == {t \in Tasks : Exists(t) /\ task[t].node = n} IN
    /\ nodes' = nodes \ {n}
    /\ task' = Without(ts)
    /\ Touched(ts)
    /\ UNCHANGED <<minted, capture, job, sent, faults, owed, made>>

----------------------------------------------------------------------------
(* update_task.                                                            *)

(* Mutant: reopening is told by the rule, which may have been cleared.     *)
SeriesEffectByRule(pre, status) ==
    CASE status = "done" /\ pre.status \notin Terminal /\ pre.rule -> "schedule"
      [] pre.status = "done" /\ status \in {"open", "in_progress"} /\ pre.rule -> "retract"
      [] OTHER -> "unchanged"
SeriesEffect(pre, status) ==
    CASE status = "done" /\ pre.status \notin Terminal /\ pre.rule -> "schedule"
      [] pre.status = "done" /\ status \in {"open", "in_progress"} -> "retract"
      [] OTHER -> "unchanged"

(* A move must be onto a Project; staying is no move.                      *)
Destinations(t) == {Keep, Free, task[t].node} \cup (nodes \cap Projects)

UpdateRead(r) ==
    /\ Send(r)
    /\ \E t \in {u \in Tasks : Live(u)} :
       \E s \in Statuses \cup {Keep}, rule \in BOOLEAN \cup {Keep}, n \in Destinations(t) :
        /\ job' = [job EXCEPT ![r] = [at |-> "read", on |-> t, status |-> s, rule |-> rule,
                                      node |-> n, effect |-> SeriesEffect(task[t], s)]]
        /\ strayed' = IF Running(t) THEN strayed \cup {t} ELSE strayed
    /\ UNCHANGED <<nodes, task, minted, capture, faults, owed, made>>

Or(new, old) == IF new = Keep THEN old ELSE new

(* One UPDATE.  Its effect is the one decided before it.                   *)
UpdateWrite(r) ==
    /\ job[r].at = "read"
    /\ LET j == job[r]
           t == j.on
           n == Or(j.node, task[t].node) IN
       IF Live(t) /\ n \in nodes \cup {Free}
       THEN /\ task' = [task EXCEPT ![t].status = Or(j.status, @), ![t].rule = Or(j.rule, @),
                                    ![t].node = n]
            /\ job' = [job EXCEPT ![r] = IF j.effect = "unchanged" THEN Idle
                                         ELSE [j EXCEPT !.at = "effect", !.node = n]]
            /\ owed' = CASE j.effect = "schedule" -> owed \cup {t}
                         [] j.effect = "retract" -> owed \ {t}
                         [] OTHER -> owed
            /\ strayed' = strayed
                   \cup (IF task[t].status = "done" /\ j.status = "cancelled" THEN {t} ELSE {})
                   \cup (IF j.status \in {Keep, task[t].status} THEN {} ELSE {task[t].parent} \ {Free})
       ELSE End(r) /\ UNCHANGED <<task, owed, strayed>>
    /\ UNCHANGED <<nodes, minted, capture, sent, faults, made>>

(* create_occurrence: on the node of the task as written.  A task or node  *)
(* that is gone by now fails the insert.                                   *)
Schedule(r) ==
    /\ job[r].at = "effect" /\ job[r].effect = "schedule"
    /\ LET t == job[r].on IN
       IF Exists(t) /\ job[r].node \in nodes \cup {Free}
       THEN /\ \E c \in Tasks :
                  Insert(c, [status |-> "open", rule |-> TRUE, node |-> job[r].node,
                             parent |-> t, binned |-> FALSE])
            /\ UNCHANGED strayed
       ELSE strayed' = strayed \cup {t} /\ UNCHANGED <<task, minted>>
    /\ End(r)
    /\ UNCHANGED <<nodes, capture, sent, faults, owed, made>>

(* What has been started, or finished, is the user's own.                  *)
Retracted(t) == Waiting(t)

(* retract_occurrence: occurrences not yet started go to the bin.          *)
Retract(r) ==
    /\ job[r].at = "effect" /\ job[r].effect = "retract"
    /\ task' = [t \in Tasks |-> IF t \in Retracted(job[r].on)
                                THEN [task[t] EXCEPT !.binned = TRUE] ELSE task[t]]
    /\ End(r)
    /\ UNCHANGED <<nodes, minted, capture, sent, faults, owed, strayed, made>>

EffectFails(r) ==
    /\ job[r].at = "effect" /\ Fail
    /\ strayed' = strayed \cup {job[r].on}
    /\ End(r)
    /\ UNCHANGED <<nodes, task, minted, capture, sent, owed, made>>

----------------------------------------------------------------------------
(* Captures.                                                               *)

Taken(c) == \E r \in Requests : job[r].at = "taken" /\ job[r].on = c

(* A capture's delete, and its Undo, wait for a conversion that has it.    *)
BinCapture(c) ==
    /\ capture[c] = "live" /\ ~Taken(c) /\ sent < MaxSent /\ sent' = sent + 1
    /\ capture' = [capture EXCEPT ![c] = "binned"]
    /\ UNCHANGED <<nodes, task, minted, job, faults, owed, strayed, made>>
RestoreCapture(c) ==
    /\ capture[c] = "binned" /\ sent < MaxSent /\ sent' = sent + 1
    /\ capture' = [capture EXCEPT ![c] = "live"]
    /\ UNCHANGED <<nodes, task, minted, job, faults, owed, strayed, made>>

(* convert_capture checks the destination first: a Project for a task, any *)
(* node for a note or for the home of a node, none for a node by itself.   *)
ConvertAsk(r) ==
    /\ Send(r)
    /\ \E c \in Captures, n \in nodes \cup {Free}, into \in {"task", "other"} :
        /\ into = "task" => n \in Projects
        /\ job' = [job EXCEPT ![r] = [Idle EXCEPT !.at = "asked", !.on = c, !.node = n,
                                                  !.status = into]]
    /\ UNCHANGED <<nodes, task, minted, capture, faults, owed, strayed, made>>

Found(c) == capture[c] = "live"

(* The DELETE that opens the transaction, and takes the row.               *)
ConvertTake(r) ==
    /\ job[r].at = "asked" /\ ~Taken(job[r].on)
    /\ IF Found(job[r].on) THEN Goto(r, "taken") ELSE End(r)
    /\ UNCHANGED <<nodes, task, minted, capture, sent, faults, owed, strayed, made>>

(* The insert and the commit, or the rollback when the destination is gone.*)
ConvertMake(r) ==
    /\ job[r].at = "taken"
    /\ LET c == job[r].on IN
       IF job[r].node \in nodes \cup {Free}
       THEN /\ capture' = [capture EXCEPT ![c] = "gone"]
            /\ made' = [made EXCEPT ![c] = @ + 1]
            /\ IF job[r].status = "task"
               THEN \E t \in Tasks :
                        Insert(t, [status |-> "open", rule |-> FALSE, node |-> job[r].node,
                                   parent |-> Free, binned |-> FALSE])
               ELSE UNCHANGED <<task, minted>>
       ELSE UNCHANGED <<task, minted, capture, made>>
    /\ End(r)
    /\ UNCHANGED <<nodes, sent, faults, owed, strayed>>

(* Mutant: the DELETE is committed by itself.                              *)
ConvertFailsTaken(r) ==
    /\ job[r].at = "taken" /\ Fail
    /\ capture' = [capture EXCEPT ![job[r].on] = "gone"]
    /\ End(r)
    /\ UNCHANGED <<nodes, task, minted, sent, owed, strayed, made>>
(* A failed statement rolls the conversion back.                           *)
ConvertFails(r) ==
    /\ job[r].at = "taken" /\ Fail
    /\ End(r)
    /\ UNCHANGED <<nodes, task, minted, capture, sent, owed, strayed, made>>

Crash ==
    /\ Fail
    /\ strayed' = strayed \cup {job[r].on : r \in {q \in Requests : job[q].at = "effect"}}
    /\ job' = [r \in Requests |-> Idle]
    /\ UNCHANGED <<nodes, task, minted, capture, sent, owed, made>>

Next ==
    \/ CreateTask \/ Purge \/ Crash
    \/ \E t \in Tasks : DeleteTask(t) \/ RestoreTask(t)
    \/ \E n \in nodes : DeleteNode(n)
    \/ \E r \in Requests :
        \/ UpdateRead(r) \/ UpdateWrite(r) \/ Schedule(r) \/ Retract(r) \/ EffectFails(r)
        \/ ConvertAsk(r) \/ ConvertTake(r) \/ ConvertMake(r) \/ ConvertFails(r)
    \/ \E c \in Captures : BinCapture(c) \/ RestoreCapture(c)

Spec == Init /\ [][Next]_vars

----------------------------------------------------------------------------
(* Properties.                                                             *)

(* A completion schedules one occurrence, and a reopening takes it back:   *)
(* an unfinished task has none waiting, a finished recurring one has just  *)
(* one.  Excepted are series in which updates overlapped, an effect was    *)
(* lost, an occurrence was touched, or a finished task was cancelled.      *)
SeriesInStep ==
    \A t \in Tasks \ strayed : Live(t) /\ ~Running(t) =>
        /\ t \in owed => task[t].status = "done"
        /\ Cardinality(Waiting(t)) = IF t \in owed THEN 1 ELSE 0

(* A capture becomes one thing, or stays a capture, or is thrown away: it  *)
(* is never both there and made into something, nor made into two.         *)
CapturesBecomeOne ==
    \A c \in Captures : made[c] \in {0, 1} /\ (made[c] = 1 => capture[c] = "gone")

(* A live capture only goes by becoming something, or through the bin.     *)
CapturesAreNotLost ==
    [][\A c \in Captures : capture[c] = "live" /\ capture'[c] = "gone" =>
          made'[c] = made[c] + 1]_vars

(* Both: a capture becomes one thing, and nothing else takes it away.      *)
CapturesAreKept == []CapturesBecomeOne /\ CapturesAreNotLost

----------------------------------------------------------------------------
(* The inductive invariant.                                                *)

(* A row's id was minted, and what it names is there.                      *)
RowsSound ==
    /\ \A t \in Tasks : Exists(t) => /\ t \in minted
                                     /\ task[t].node \in nodes \cup {Free}
                                     /\ task[t].parent = Free \/ Exists(task[t].parent)
    /\ owed \subseteq minted

(* An update is about a task; a conversion, about a capture, which it has  *)
(* to itself, and which is there, from the DELETE on.                      *)
JobsSound ==
    \A r \in Requests :
        /\ job[r].at = "idle" => job[r].on = Free
        /\ job[r].at \in {"read", "effect"} => /\ job[r].on \in minted
                                               /\ job[r].status \in Statuses \cup {Keep}
        /\ job[r].at = "effect" => job[r].effect # "unchanged" /\ job[r].node \in Nodes \cup {Free}
        /\ job[r].at \in {"asked", "taken"} => job[r].on \in Captures
        /\ job[r].at = "taken" =>
              /\ capture[job[r].on] = "live"
              /\ \A q \in Requests : job[q].at = "taken" /\ job[q].on = job[r].on => q = r

(* While one update at a time is about a task, what it decided from its    *)
(* read holds when it writes; and an occurrence waits just when the last   *)
(* completion scheduled one, but for an effect that is still to come.      *)
InStep(t) ==
    /\ \A r, q \in Requests : job[r].on = t /\ job[q].on = t => r = q
    /\ \A r \in Requests : job[r].on = t /\ job[r].at = "read" =>
          job[r].effect = SeriesEffect(task[t], job[r].status)
    /\ t \in owed => task[t].status = "done"
    /\ \A r \in Requests : job[r].on = t /\ job[r].at = "effect" =>
          IF job[r].effect = "schedule" THEN t \in owed /\ Waiting(t) = {} ELSE t \notin owed
    /\ (\A r \in Requests : ~(job[r].on = t /\ job[r].at = "effect")) =>
          IF t \in owed THEN \E c \in Tasks : Waiting(t) = {c} ELSE Waiting(t) = {}
SeriesSound == \A t \in Tasks \ strayed : Exists(t) => InStep(t)

Inv == TypeOK /\ RowsSound /\ JobsSound /\ CapturesBecomeOne /\ SeriesSound
============================================================================
