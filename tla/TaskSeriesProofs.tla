-------------------------- MODULE TaskSeriesProofs --------------------------
(***************************************************************************)
(* Proofs about TaskSeries, for any number of tasks, captures and          *)
(* requests: a series stays in step with the completions of its tasks, and *)
(* a capture becomes one thing.  What the parts of an action do comes      *)
(* first, then one lemma per action, then the theorems.                    *)
(***************************************************************************)
EXTENDS TaskSeries, FiniteSetTheorems, TLAPS

----------------------------------------------------------------------------
(* The parts of an action.                                                 *)

(* What an id that was never used cannot be.                               *)
LEMMA FreshId ==
    ASSUME Inv, NEW t \in Tasks, t \notin minted
    PROVE  /\ task[t] = Free /\ t \notin owed
           /\ \A r \in Requests : job[r].on # t
           /\ \A u \in Tasks : Exists(u) => task[u].parent # t
<1>1. ~Exists(t) /\ t \notin owed BY DEF Inv, RowsSound
<1>2. \A u \in Tasks : Exists(u) => task[u].parent # t
    BY <1>1, NodesAssumption DEF Inv, RowsSound
<1>3. \A r \in Requests : job[r].on # t
  <2>1. \A r \in Requests : job[r].at \in {"idle", "read", "effect", "asked", "taken"}
      BY DEF Inv, TypeOK, Job
  <2> QED BY <2>1, NodesAssumption, IdsAssumption DEF Inv, JobsSound
<1> QED BY <1>1, <1>2, <1>3 DEF Exists

LEMMA IdleIsJob == Idle \in Job
  BY DEF Idle, Job, Effects

LEMMA JobMoved ==
    ASSUME TypeOK, NEW r \in Requests, NEW j \in Job, job' = [job EXCEPT ![r] = j]
    PROVE  /\ job' \in [Requests -> Job] /\ job'[r] = j
           /\ \A q \in Requests : q # r => job'[q] = job[q]
  BY DEF TypeOK

(* Requests that go on as they were, or end.                               *)
LEMMA JobsStay ==
    ASSUME Inv, minted \subseteq minted',
           \A q \in Requests : job'[q] = job[q] \/ job'[q] = Idle,
           \A q \in Requests : job'[q].at = "taken" => capture'[job'[q].on] = capture[job'[q].on]
    PROVE  JobsSound'
<1>1. Idle.at = "idle" /\ Idle.on = Free BY DEF Idle
<1> SUFFICES ASSUME NEW r \in Requests
             PROVE  /\ job'[r].at = "idle" => job'[r].on = Free
                    /\ job'[r].at \in {"read", "effect"} =>
                          job'[r].on \in minted' /\ job'[r].status \in Statuses \cup {Keep}
                    /\ job'[r].at = "effect" =>
                          job'[r].effect # "unchanged" /\ job'[r].node \in Nodes \cup {Free}
                    /\ job'[r].at \in {"asked", "taken"} => job'[r].on \in Captures
                    /\ job'[r].at = "taken" =>
                          /\ capture'[job'[r].on] = "live"
                          /\ \A q \in Requests :
                                job'[q].at = "taken" /\ job'[q].on = job'[r].on => q = r
    BY DEF JobsSound
<1>2. CASE job'[r] = Idle BY <1>1, <1>2
<1>3. CASE job'[r] = job[r]
  <2>1. job'[r].at = "taken" => \A q \in Requests :
            job'[q].at = "taken" /\ job'[q].on = job'[r].on => q = r
      BY <1>1, <1>3 DEF Inv, JobsSound
  <2> QED BY <1>3, <2>1 DEF Inv, JobsSound
<1> QED BY <1>2, <1>3

(* A row that is inserted.                                                 *)
LEMMA Inserted ==
    ASSUME Inv, NEW t \in Tasks, NEW row \in Row, Insert(t, row),
           row.node \in nodes \cup {Free}, row.parent = Free \/ Exists(row.parent),
           UNCHANGED <<nodes, owed>>
    PROVE  /\ task' \in [Tasks -> Row \cup {Free}] /\ minted' \subseteq Tasks
           /\ RowsSound' /\ minted \subseteq minted' /\ t \notin minted
           /\ task'[t] = row /\ \A u \in Tasks : u # t => task'[u] = task[u]
<1>1. /\ task' \in [Tasks -> Row \cup {Free}] /\ minted' \subseteq Tasks
      /\ minted \subseteq minted' /\ t \in minted' /\ t \notin minted
      /\ task'[t] = row /\ \A u \in Tasks : u # t => task'[u] = task[u]
    BY DEF Inv, TypeOK, Insert
<1>2. row # Free BY ValuesAssumption
<1>3. \A u \in Tasks \cup {Free} : Exists(u) /\ u \in Tasks => task'[u] = task[u] /\ task'[u] # Free
    BY <1>1, FreshId DEF Exists
<1>4. RowsSound'
  <2>1. ASSUME NEW u \in Tasks, task'[u] # Free
        PROVE  /\ u \in minted' /\ task'[u].node \in nodes' \cup {Free}
               /\ task'[u].parent = Free \/ task'[task'[u].parent] # Free
    <3>1. CASE u = t
      <4>1. row.parent \in Tasks \cup {Free} BY DEF Row
      <4> QED BY <1>1, <1>3, <3>1, <4>1
    <3>2. CASE u # t
      <4>1. task'[u] = task[u] /\ task[u] \in Row BY <1>1, <2>1, <3>2 DEF Inv, TypeOK
      <4>2. task[u].parent \in Tasks \cup {Free} BY <4>1 DEF Row
      <4> QED BY <1>1, <1>3, <2>1, <4>1, <4>2 DEF Inv, RowsSound, Exists
    <3> QED BY <3>1, <3>2
  <2>2. owed' \subseteq minted' BY <1>1 DEF Inv, RowsSound
  <2> QED BY <2>1, <2>2 DEF RowsSound, Exists
<1> QED BY <1>1, <1>4

(* Rows that go.                                                           *)
LEMMA Removed ==
    ASSUME Inv, NEW ts \in SUBSET Tasks, task' = Without(ts), UNCHANGED <<minted, owed>>,
           \A t \in Tasks \ ts : Exists(t) => task[t].node \in nodes' \cup {Free}
    PROVE  /\ task' \in [Tasks -> Row \cup {Free}] /\ RowsSound'
           /\ \A t \in Tasks : task'[t] # Free => Exists(t) /\ t \notin ts
           /\ \A t \in Tasks : Exists(t) /\ t \notin ts =>
                 /\ task'[t] # Free /\ task'[t].status = task[t].status
                 /\ task'[t].rule = task[t].rule /\ task'[t].binned = task[t].binned
                 /\ task'[t].parent = IF task[t].parent \in ts THEN Free ELSE task[t].parent
<1>1. \A t \in Tasks : task[t] \in Row \cup {Free} BY DEF Inv, TypeOK
<1>2. \A t \in Tasks : task[t] # Free => [task[t] EXCEPT !.parent = Free] \in Row
    BY <1>1 DEF Row
<1>3. \A t \in Tasks : task'[t] = IF t \in ts THEN Free
                                  ELSE IF Exists(t) /\ task[t].parent \in ts
                                       THEN [task[t] EXCEPT !.parent = Free] ELSE task[t]
    BY DEF Without
<1>4. task' \in [Tasks -> Row \cup {Free}] BY <1>1, <1>2 DEF Without, Exists
<1>5. \A t \in Tasks : task'[t] # Free => Exists(t) /\ t \notin ts BY <1>3 DEF Exists
<1>6. \A t \in Tasks : Exists(t) /\ t \notin ts =>
         /\ task'[t] # Free /\ task'[t].status = task[t].status
         /\ task'[t].rule = task[t].rule /\ task'[t].binned = task[t].binned
         /\ task'[t].node = task[t].node
         /\ task'[t].parent = IF task[t].parent \in ts THEN Free ELSE task[t].parent
  <2> SUFFICES ASSUME NEW t \in Tasks, Exists(t), t \notin ts
               PROVE  /\ task'[t] # Free /\ task'[t].status = task[t].status
                      /\ task'[t].rule = task[t].rule /\ task'[t].binned = task[t].binned
                      /\ task'[t].node = task[t].node
                      /\ task'[t].parent = IF task[t].parent \in ts THEN Free ELSE task[t].parent
      OBVIOUS
  <2>1. task[t] \in Row /\ task[t] # Free BY <1>1 DEF Exists
  <2>2. CASE task[t].parent \in ts
    <3>1. task'[t] = [task[t] EXCEPT !.parent = Free] BY <1>3, <2>2
    <3>2. task'[t] # Free BY <1>2, <2>1, <3>1, ValuesAssumption
    <3> QED BY <2>1, <2>2, <3>1, <3>2 DEF Row
  <2>3. CASE task[t].parent \notin ts BY <1>3, <2>1, <2>3
  <2> QED BY <2>2, <2>3
<1>7. RowsSound'
  <2>1. ASSUME NEW t \in Tasks, task'[t] # Free
        PROVE  /\ t \in minted' /\ task'[t].node \in nodes' \cup {Free}
               /\ task'[t].parent = Free \/ task'[task'[t].parent] # Free
    <3>1. Exists(t) /\ t \notin ts BY <1>5, <2>1
    <3>2. task[t].parent \in Tasks \cup {Free} BY <1>1, <3>1 DEF Exists, Row
    <3>3. task[t].parent = Free \/ Exists(task[t].parent) BY <3>1 DEF Inv, RowsSound
    <3> QED BY <1>6, <3>1, <3>2, <3>3 DEF Inv, RowsSound
  <2> QED BY <2>1 DEF Inv, RowsSound, Exists
<1> QED BY <1>4, <1>5, <1>6, <1>7

(* A task whose row, occurrences and updates an action leaves alone.       *)
LEMMA StaysInStep ==
    ASSUME Inv, NEW t \in Tasks \ strayed, Exists(t),
           task'[t].status = task[t].status, task'[t].rule = task[t].rule,
           t \in owed' <=> t \in owed,
           \A c \in Tasks : c \in Waiting(t)' <=> c \in Waiting(t),
           \A r \in Requests : \/ job'[r] = job[r]
                               \/ /\ job'[r].on # t
                                  /\ ~(job[r].on = t /\ job[r].at = "effect")
    PROVE  InStep(t)'
<1>1. InStep(t) BY DEF Inv, SeriesSound
<1>2. Waiting(t)' = Waiting(t) BY DEF Waiting
<1>3. \A s \in Statuses \cup {Keep} : SeriesEffect(task'[t], s) = SeriesEffect(task[t], s)
    BY DEF SeriesEffect
<1>4. \A r, q \in Requests : job'[r].on = t /\ job'[q].on = t => r = q
    BY <1>1 DEF InStep
<1>5. ASSUME NEW r \in Requests, job'[r].on = t, job'[r].at = "read"
      PROVE  job'[r].effect = SeriesEffect(task'[t], job'[r].status)
  <2>1. job'[r] = job[r] BY <1>5
  <2>2. job[r].status \in Statuses \cup {Keep} BY <1>5, <2>1 DEF Inv, JobsSound
  <2> QED BY <1>1, <1>3, <1>5, <2>1, <2>2 DEF InStep
<1>6. t \in owed' => task'[t].status = "done" BY <1>1 DEF InStep
<1>7. ASSUME NEW r \in Requests, job'[r].on = t, job'[r].at = "effect"
      PROVE  IF job'[r].effect = "schedule" THEN t \in owed' /\ Waiting(t)' = {}
             ELSE t \notin owed'
  <2>1. job'[r] = job[r] BY <1>7
  <2> QED BY <1>1, <1>2, <1>7, <2>1 DEF InStep
<1>8. ASSUME \A r \in Requests : ~(job'[r].on = t /\ job'[r].at = "effect")
      PROVE  IF t \in owed' THEN \E c \in Tasks : Waiting(t)' = {c} ELSE Waiting(t)' = {}
  <2>1. \A r \in Requests : ~(job[r].on = t /\ job[r].at = "effect") BY <1>8
  <2>2. IF t \in owed THEN \E c \in Tasks : Waiting(t) = {c} ELSE Waiting(t) = {}
      BY <1>1, <2>1 DEF InStep
  <2> QED BY <1>2, <2>2
<1> HIDE DEF Waiting
<1> QED BY <1>4, <1>5, <1>6, <1>7, <1>8 DEF InStep

(* Waiting occurrences, one by one.                                        *)
LEMMA WaitsOn ==
    ASSUME NEW t \in Tasks, NEW c \in Tasks
    PROVE  /\ c \in Waiting(t) <=> /\ task[c] # Free /\ ~task[c].binned
                                   /\ task[c].parent = t /\ task[c].status = "open"
           /\ c \in Waiting(t)' <=> /\ task'[c] # Free /\ ~task'[c].binned
                                    /\ task'[c].parent = t /\ task'[c].status = "open"
  BY DEF Waiting, Live, Exists

(* Series whose rows and effects an action leaves alone.                   *)
LEMMA SeriesStay ==
    ASSUME Inv, UNCHANGED <<task, owed>>, strayed \subseteq strayed',
           \A r \in Requests : \/ job'[r] = job[r]
                               \/ /\ job'[r].on \notin Tasks \ strayed'
                                  /\ job[r].at = "effect" => job[r].on \notin Tasks \ strayed'
    PROVE  SeriesSound'
<1> SUFFICES ASSUME NEW t \in Tasks \ strayed', Exists(t)' PROVE InStep(t)'
    BY DEF SeriesSound
<1>1. t \in Tasks \ strayed /\ Exists(t) BY DEF Exists
<1>2. \A c \in Tasks : c \in Waiting(t)' <=> c \in Waiting(t) BY WaitsOn
<1>3. \A r \in Requests : \/ job'[r] = job[r]
                          \/ job'[r].on # t /\ ~(job[r].on = t /\ job[r].at = "effect")
    OBVIOUS
<1> QED BY <1>1, <1>2, <1>3, StaysInStep

(* A new task, of which no series knows.                                   *)
LEMMA NewInStep ==
    ASSUME Inv, NEW t \in Tasks, t \notin minted, t \notin owed',
           \A c \in Tasks : c \notin Waiting(t)',
           \A r \in Requests : job'[r].on # t
    PROVE  InStep(t)'
<1>1. Waiting(t)' = {} BY DEF Waiting
<1> HIDE DEF Waiting
<1> QED BY <1>1 DEF InStep

(* Series around a new task that is no occurrence.                         *)
LEMMA SeriesAround ==
    ASSUME Inv, NEW t \in Tasks, NEW row \in Row, Insert(t, row),
           row.node \in nodes \cup {Free}, row.parent = Free,
           UNCHANGED <<nodes, owed, strayed>>,
           \A r \in Requests : job'[r] = job[r] \/ (job'[r] = Idle /\ job[r].on \notin Tasks)
    PROVE  SeriesSound'
<1> SUFFICES ASSUME NEW u \in Tasks \ strayed', Exists(u)' PROVE InStep(u)'
    BY DEF SeriesSound
<1>1. /\ task'[t] = row /\ t \notin minted
      /\ \A v \in Tasks : v # t => task'[v] = task[v]
    BY Inserted
<1>2. Idle.on = Free BY DEF Idle
<1>3. \A c \in Tasks : c \in Waiting(u)' <=> c \in Waiting(u)
    BY <1>1, FreshId, WaitsOn, NodesAssumption
<1>4. CASE u = t
  <2>1. \A c \in Tasks : c \notin Waiting(u)' BY <1>3, <1>4, <1>1, FreshId, WaitsOn DEF Exists
  <2>2. \A r \in Requests : job'[r].on # u BY <1>1, <1>2, <1>4, FreshId, NodesAssumption
  <2>3. u \notin owed' BY <1>1, <1>4, FreshId
  <2> QED BY <1>1, <1>4, <2>1, <2>2, <2>3, NewInStep
<1>5. CASE u # t
  <2>1. task'[u] = task[u] /\ Exists(u) BY <1>1, <1>5 DEF Exists
  <2>2. \A r \in Requests : \/ job'[r] = job[r]
                            \/ job'[r].on # u /\ ~(job[r].on = u /\ job[r].at = "effect")
      BY <1>2, NodesAssumption
  <2> QED BY <1>3, <2>1, <2>2, StaysInStep
<1> QED BY <1>4, <1>5

----------------------------------------------------------------------------
(* Creating, deleting and restoring.                                       *)

LEMMA CreateTaskStep ==
    ASSUME Inv, CreateTask
    PROVE  Inv'
<1>1. PICK t \in Tasks, n \in (nodes \cap Projects) \cup {Free}, s \in Statuses,
           rule \in BOOLEAN :
        Insert(t, [status |-> s, rule |-> rule, node |-> n, parent |-> Free,
                   binned |-> FALSE])
    BY StatusesAssumption DEF CreateTask
<1> DEFINE row == [status |-> s, rule |-> rule, node |-> n, parent |-> Free,
                   binned |-> FALSE]
<1>2. /\ row \in Row /\ row.node \in nodes \cup {Free} /\ row.parent = Free
      /\ UNCHANGED <<nodes, capture, job, owed, strayed, made>>
    BY DEF Inv, TypeOK, Row, Statuses, CreateTask
<1>a. Insert(t, row) BY <1>1
<1> HIDE DEF row
<1>3. /\ task' \in [Tasks -> Row \cup {Free}] /\ minted' \subseteq Tasks /\ RowsSound'
      /\ minted \subseteq minted'
    BY <1>a, <1>2, Inserted
<1>4. TypeOK' BY <1>2, <1>3 DEF Inv, TypeOK
<1>5. JobsSound' BY <1>2, <1>3, JobsStay
<1>6. CapturesBecomeOne' BY <1>2 DEF Inv, CapturesBecomeOne
<1>7. SeriesSound' BY <1>a, <1>2, SeriesAround
<1> QED BY <1>3, <1>4, <1>5, <1>6, <1>7 DEF Inv

(* To the bin, or back.                                                    *)
LEMMA BinStep ==
    ASSUME Inv, NEW u \in Tasks, Exists(u), NEW bin \in BOOLEAN,
           task' = [task EXCEPT ![u].binned = bin], Touched({u}),
           UNCHANGED <<nodes, minted, capture, job, owed, made>>
    PROVE  Inv'
<1>1. task[u] \in Row /\ task[u] # Free BY DEF Inv, TypeOK, Exists
<1> DEFINE row == [task[u] EXCEPT !.binned = bin]
<1>2. /\ row \in Row /\ row.status = task[u].status /\ row.rule = task[u].rule
      /\ row.node = task[u].node /\ row.parent = task[u].parent /\ row # Free
  <2>1. row \in Row /\ row.status = task[u].status /\ row.rule = task[u].rule
        /\ row.node = task[u].node /\ row.parent = task[u].parent
      BY <1>1 DEF Row
  <2> QED BY <2>1, ValuesAssumption
<1>3. /\ task' \in [Tasks -> Row \cup {Free}] /\ task'[u] = row
      /\ \A t \in Tasks : t # u => task'[t] = task[t]
  <2>1. task' = [task EXCEPT ![u] = row] BY DEF Inv, TypeOK
  <2> HIDE DEF row
  <2> QED BY <1>2, <2>1 DEF Inv, TypeOK
<1> HIDE DEF row
<1>4. strayed' = strayed \cup ({task[u].parent} \ {Free}) BY DEF Touched
<1>5. TypeOK'
  <2>1. task[u].parent \in Tasks \cup {Free} BY <1>1 DEF Row
  <2>2. strayed' \subseteq Tasks BY <1>4, <2>1 DEF Inv, TypeOK
  <2> QED BY <1>3, <2>2 DEF Inv, TypeOK
<1>6. RowsSound'
  <2>1. \A t \in Tasks : task'[t] # Free <=> task[t] # Free BY <1>1, <1>2, <1>3
  <2>2. \A t \in Tasks : task'[t].node = task[t].node /\ task'[t].parent = task[t].parent
      BY <1>2, <1>3
  <2>3. \A t \in Tasks : task[t] # Free => task[t].parent \in Tasks \cup {Free}
      BY DEF Inv, TypeOK, Row
  <2> QED BY <2>1, <2>2, <2>3 DEF Inv, RowsSound, Exists
<1>7. JobsSound' BY JobsStay
<1>8. CapturesBecomeOne' BY DEF Inv, CapturesBecomeOne
<1>9. SeriesSound'
  <2> SUFFICES ASSUME NEW t \in Tasks \ strayed', Exists(t)' PROVE InStep(t)'
      BY DEF SeriesSound
  <2>1. Exists(t) /\ t \notin strayed /\ task[u].parent # t
      BY <1>1, <1>3, <1>4, NodesAssumption DEF Exists
  <2>2. task'[t].status = task[t].status /\ task'[t].rule = task[t].rule BY <1>2, <1>3
  <2>3. \A c \in Tasks : c \in Waiting(t)' <=> c \in Waiting(t)
      BY <1>2, <1>3, <2>1, WaitsOn
  <2> QED BY <2>1, <2>2, <2>3, StaysInStep
<1> QED BY <1>5, <1>6, <1>7, <1>8, <1>9 DEF Inv

LEMMA PurgeStep ==
    ASSUME Inv, Purge
    PROVE  Inv'
<1>a. UNCHANGED <<nodes, minted, job, owed, strayed, made>> BY DEF Purge
<1>1. CASE \E u \in Tasks : Exists(u) /\ task[u].binned /\ task' = Without({u})
                           /\ UNCHANGED capture
  <2>1. PICK u \in Tasks : Exists(u) /\ task[u].binned /\ task' = Without({u})
                           /\ UNCHANGED capture
      BY <1>1
  <2>2. /\ task' \in [Tasks -> Row \cup {Free}] /\ RowsSound'
        /\ \A t \in Tasks : task'[t] # Free => Exists(t) /\ t # u
        /\ \A t \in Tasks : Exists(t) /\ t # u =>
             /\ task'[t] # Free /\ task'[t].status = task[t].status
             /\ task'[t].rule = task[t].rule /\ task'[t].binned = task[t].binned
             /\ task'[t].parent = IF task[t].parent = u THEN Free ELSE task[t].parent
    <3>1. \A t \in Tasks : Exists(t) => task[t].node \in nodes' \cup {Free}
        BY <1>a DEF Inv, RowsSound
    <3> DEFINE ts == {u}
    <3>2. /\ task' \in [Tasks -> Row \cup {Free}] /\ RowsSound'
          /\ \A t \in Tasks : task'[t] # Free => Exists(t) /\ t \notin ts
          /\ \A t \in Tasks : Exists(t) /\ t \notin ts =>
               /\ task'[t] # Free /\ task'[t].status = task[t].status
               /\ task'[t].rule = task[t].rule /\ task'[t].binned = task[t].binned
               /\ task'[t].parent = IF task[t].parent \in ts THEN Free ELSE task[t].parent
      <4>1. ts \in SUBSET Tasks /\ task' = Without(ts) BY <2>1
      <4> HIDE DEF ts
      <4> QED BY <1>a, <3>1, <4>1, Removed
    <3> QED BY <3>2
  <2>3. TypeOK' BY <1>a, <2>1, <2>2 DEF Inv, TypeOK
  <2>4. JobsSound' BY <1>a, <2>1, JobsStay
  <2>5. CapturesBecomeOne' BY <1>a, <2>1 DEF Inv, CapturesBecomeOne
  <2>6. SeriesSound'
    <3> SUFFICES ASSUME NEW t \in Tasks \ strayed', Exists(t)' PROVE InStep(t)'
        BY DEF SeriesSound
    <3>1. Exists(t) /\ t # u /\ t \notin strayed BY <1>a, <2>2 DEF Exists
    <3>2. task'[t].status = task[t].status /\ task'[t].rule = task[t].rule BY <2>2, <3>1
    <3>3. \A c \in Tasks : c \in Waiting(t)' <=> c \in Waiting(t)
      <4> SUFFICES ASSUME NEW c \in Tasks PROVE c \in Waiting(t)' <=> c \in Waiting(t)
          OBVIOUS
      <4>1. CASE task[c] = Free \/ c = u
          BY <2>1, <2>2, <4>1, WaitsOn DEF Exists
      <4>2. CASE task[c] # Free /\ c # u
          BY <2>2, <3>1, <4>2, WaitsOn, NodesAssumption DEF Exists
      <4> QED BY <4>1, <4>2
    <3> QED BY <1>a, <3>1, <3>2, <3>3, StaysInStep
  <2> QED BY <2>2, <2>3, <2>4, <2>5, <2>6 DEF Inv
<1>2. CASE \E c \in Captures : capture[c] = "binned" /\ capture' = [capture EXCEPT ![c] = "gone"]
                              /\ UNCHANGED task
  <2>1. PICK c \in Captures : capture[c] = "binned" /\ capture' = [capture EXCEPT ![c] = "gone"]
                              /\ UNCHANGED task
      BY <1>2
  <2>2. TypeOK' BY <1>a, <2>1 DEF Inv, TypeOK
  <2>3. RowsSound' BY <1>a, <2>1 DEF Inv, RowsSound, Exists
  <2>4. JobsSound'
    <3>1. \A q \in Requests : job[q].at = "taken" => job[q].on \in Captures \ {c}
        BY <2>1 DEF Inv, JobsSound
    <3>2. \A q \in Requests : job'[q].at = "taken" => capture'[job'[q].on] = capture[job'[q].on]
        BY <1>a, <2>1, <3>1 DEF Inv, TypeOK
    <3> QED BY <1>a, <3>2, JobsStay
  <2>5. CapturesBecomeOne' BY <1>a, <2>1 DEF Inv, TypeOK, CapturesBecomeOne
  <2>6. SeriesSound' BY <1>a, <2>1, SeriesStay
  <2> QED BY <2>2, <2>3, <2>4, <2>5, <2>6 DEF Inv
<1> QED BY <1>1, <1>2 DEF Purge

LEMMA DeleteNodeStep ==
    ASSUME Inv, NEW n \in nodes, DeleteNode(n)
    PROVE  Inv'
<1> DEFINE ts == {t \in Tasks : Exists(t) /\ task[t].node = n}
<1>1. /\ nodes' = nodes \ {n} /\ task' = Without(ts)
      /\ strayed' = strayed \cup ({task[t].parent : t \in ts} \ {Free})
      /\ UNCHANGED <<minted, capture, job, owed, made>>
    BY DEF DeleteNode, Touched
<1>2. \A t \in Tasks \ ts : Exists(t) => task[t].node \in nodes' \cup {Free}
    BY <1>1 DEF Inv, RowsSound
<1>3. /\ task' \in [Tasks -> Row \cup {Free}] /\ RowsSound'
      /\ \A t \in Tasks : task'[t] # Free => Exists(t) /\ t \notin ts
      /\ \A t \in Tasks : Exists(t) /\ t \notin ts =>
           /\ task'[t] # Free /\ task'[t].status = task[t].status
           /\ task'[t].rule = task[t].rule /\ task'[t].binned = task[t].binned
           /\ task'[t].parent = IF task[t].parent \in ts THEN Free ELSE task[t].parent
  <2>1. ts \in SUBSET Tasks OBVIOUS
  <2> HIDE DEF ts
  <2> QED BY <1>1, <1>2, <2>1, Removed
<1>4. TypeOK'
  <2>1. \A t \in ts : task[t].parent \in Tasks \cup {Free} BY DEF Inv, TypeOK, Exists, Row
  <2>2. strayed' \subseteq Tasks BY <1>1, <2>1 DEF Inv, TypeOK
  <2> QED BY <1>1, <1>3, <2>2 DEF Inv, TypeOK
<1>5. JobsSound' BY <1>1, JobsStay
<1>6. CapturesBecomeOne' BY <1>1 DEF Inv, CapturesBecomeOne
<1>7. SeriesSound'
  <2> SUFFICES ASSUME NEW t \in Tasks \ strayed', Exists(t)' PROVE InStep(t)'
      BY DEF SeriesSound
  <2>1. Exists(t) /\ t \notin ts /\ t \notin strayed BY <1>1, <1>3 DEF Exists
  <2>2. task'[t].status = task[t].status /\ task'[t].rule = task[t].rule BY <1>3, <2>1
  <2>3. \A c \in ts : task[c].parent # t BY <1>1, NodesAssumption
  <2>4. \A c \in Tasks : c \in Waiting(t)' <=> c \in Waiting(t)
    <3> SUFFICES ASSUME NEW c \in Tasks PROVE c \in Waiting(t)' <=> c \in Waiting(t)
        OBVIOUS
    <3> HIDE DEF ts
    <3>1. CASE task[c] = Free \/ c \in ts
        BY <1>3, <2>3, <3>1, WaitsOn DEF Exists
    <3>2. CASE task[c] # Free /\ c \notin ts
        BY <1>3, <2>1, <3>2, WaitsOn, NodesAssumption DEF Exists
    <3> QED BY <3>1, <3>2
  <2> QED BY <1>1, <2>1, <2>2, <2>4, StaysInStep
<1> QED BY <1>3, <1>4, <1>5, <1>6, <1>7 DEF Inv

----------------------------------------------------------------------------
(* Updates.                                                                *)

(* A request that ends, with its task or without.                          *)
LEMMA Ended ==
    ASSUME Inv, NEW r \in Requests, End(r)
    PROVE  /\ job' \in [Requests -> Job] /\ job'[r] = Idle
           /\ \A q \in Requests : q # r => job'[q] = job[q]
           /\ \A q \in Requests : job'[q] = job[q] \/ job'[q] = Idle
           /\ job'[r].on = Free /\ job'[r].at = "idle"
<1>1. job' = [job EXCEPT ![r] = Idle] BY DEF End
<1>2. Idle.on = Free /\ Idle.at = "idle" BY DEF Idle
<1> QED BY <1>1, <1>2, IdleIsJob, JobMoved DEF Inv

LEMMA UpdateReadStep ==
    ASSUME Inv, NEW r \in Requests, UpdateRead(r)
    PROVE  Inv'
<1>a. PICK t \in {u \in Tasks : Live(u)} :
        \E s \in Statuses \cup {Keep}, rule \in BOOLEAN \cup {Keep}, n \in Destinations(t) :
          /\ job' = [job EXCEPT ![r] = [at |-> "read", on |-> t, status |-> s, rule |-> rule,
                                        node |-> n, effect |-> SeriesEffect(task[t], s)]]
          /\ strayed' = IF Running(t) THEN strayed \cup {t} ELSE strayed
    BY DEF UpdateRead
<1>1. PICK s \in Statuses \cup {Keep}, rule \in BOOLEAN \cup {Keep}, n \in Destinations(t) :
        /\ job' = [job EXCEPT ![r] = [at |-> "read", on |-> t, status |-> s, rule |-> rule,
                                      node |-> n, effect |-> SeriesEffect(task[t], s)]]
        /\ strayed' = IF Running(t) THEN strayed \cup {t} ELSE strayed
    BY <1>a
<1> DEFINE j == [at |-> "read", on |-> t, status |-> s, rule |-> rule, node |-> n,
                 effect |-> SeriesEffect(task[t], s)]
<1>2. t \in Tasks /\ Exists(t) /\ t \in minted BY DEF Live, Inv, RowsSound
<1>3. job[r] = Idle /\ UNCHANGED <<nodes, task, minted, capture, owed, made>>
    BY DEF UpdateRead, Send
<1>4. /\ j \in Job /\ j.at = "read" /\ j.on = t /\ j.status = s
      /\ j.effect = SeriesEffect(task[t], s)
  <2>1. SeriesEffect(task[t], s) \in Effects BY DEF SeriesEffect, Effects
  <2>2. n \in Nodes \cup {Free, Keep}
    <3>1. task[t] \in Row BY <1>2 DEF Inv, TypeOK, Exists
    <3> QED BY <3>1, NodesAssumption DEF Inv, TypeOK, Destinations, Row
  <2> HIDE DEF Destinations
  <2> QED BY <1>2, <2>1, <2>2 DEF Job
<1>5. job' = [job EXCEPT ![r] = j] BY <1>1
<1> HIDE DEF j
<1>6. /\ job' \in [Requests -> Job] /\ job'[r] = j
      /\ \A q \in Requests : q # r => job'[q] = job[q]
    BY <1>4, <1>5, JobMoved DEF Inv
<1>7. TypeOK'
  <2>1. strayed' \subseteq Tasks BY <1>1, <1>2 DEF Inv, TypeOK
  <2> QED BY <1>3, <1>6, <2>1 DEF Inv, TypeOK
<1>8. RowsSound' BY <1>3 DEF Inv, RowsSound, Exists
<1>9. JobsSound' BY <1>2, <1>3, <1>4, <1>6 DEF Inv, JobsSound
<1>10. CapturesBecomeOne' BY <1>3 DEF Inv, CapturesBecomeOne
<1>11. SeriesSound'
  <2> SUFFICES ASSUME NEW u \in Tasks \ strayed', Exists(u)' PROVE InStep(u)'
      BY DEF SeriesSound
  <2>1. u \notin strayed /\ Exists(u) BY <1>1, <1>3 DEF Exists
  <2>2. \A c \in Tasks : c \in Waiting(u)' <=> c \in Waiting(u) BY <1>3, WaitsOn
  <2>3. CASE u # t
    <3>1. \A q \in Requests : \/ job'[q] = job[q]
                              \/ job'[q].on # u /\ ~(job[q].on = u /\ job[q].at = "effect")
      <4>1. job'[r].on # u BY <1>4, <1>6, <2>3
      <4>2. job[r].on # u BY <1>3, NodesAssumption DEF Idle
      <4> QED BY <1>6, <4>1, <4>2
    <3> QED BY <1>3, <2>1, <2>2, <3>1, StaysInStep
  <2>4. CASE u = t
    <3>1. \A q \in Requests : job[q].on # t BY <1>1, <2>1, <2>4 DEF Running
    <3>2. \A q \in Requests : job'[q].on = t => q = r BY <1>6, <3>1
    <3>3. InStep(t) BY <1>2, <2>1, <2>4 DEF Inv, SeriesSound
    <3>4. IF t \in owed THEN \E c \in Tasks : Waiting(t) = {c} ELSE Waiting(t) = {}
        BY <3>1, <3>3 DEF InStep
    <3>5. Waiting(t)' = Waiting(t) BY <2>2, <2>4 DEF Waiting
    <3>6. t \in owed' => task'[t].status = "done" BY <1>3, <3>3 DEF InStep
    <3>7. job'[r].effect = SeriesEffect(task'[t], job'[r].status) BY <1>3, <1>4, <1>6
    <3>8. job'[r].at = "read" BY <1>4, <1>6
    <3> HIDE DEF Waiting
    <3> QED BY <1>3, <2>4, <3>2, <3>4, <3>5, <3>6, <3>7, <3>8 DEF InStep
  <2> QED BY <2>3, <2>4
<1> QED BY <1>7, <1>8, <1>9, <1>10, <1>11 DEF Inv

LEMMA UpdateWriteStep ==
    ASSUME Inv, NEW r \in Requests, UpdateWrite(r)
    PROVE  Inv'
<1> DEFINE j == job[r]
           t == j.on
           n == Or(j.node, task[t].node)
           row == [task[t] EXCEPT !.status = Or(j.status, @), !.rule = Or(j.rule, @), !.node = n]
<1>1. /\ j \in Job /\ j.at = "read" /\ t \in Tasks /\ t \in minted
      /\ j.status \in Statuses \cup {Keep}
      /\ UNCHANGED <<nodes, minted, capture, made>>
    BY DEF Inv, TypeOK, JobsSound, UpdateWrite
<1>2. CASE Live(t) /\ n \in nodes \cup {Free}
  <2>1. /\ task' = [task EXCEPT ![t].status = Or(j.status, @), ![t].rule = Or(j.rule, @),
                                ![t].node = n]
        /\ job' = [job EXCEPT ![r] = IF j.effect = "unchanged" THEN Idle
                                     ELSE [j EXCEPT !.at = "effect", !.node = n]]
        /\ owed' = CASE j.effect = "schedule" -> owed \cup {t}
                     [] j.effect = "retract" -> owed \ {t}
                     [] OTHER -> owed
        /\ strayed' = strayed
               \cup (IF task[t].status = "done" /\ j.status = "cancelled" THEN {t} ELSE {})
               \cup (IF j.status \in {Keep, task[t].status} THEN {} ELSE {task[t].parent} \ {Free})
      BY <1>2 DEF UpdateWrite
  <2>2. task[t] \in Row /\ task[t] # Free BY <1>1, <1>2 DEF Inv, TypeOK, Live, Exists
  <2>3. /\ row \in Row /\ row.node = n /\ row.parent = task[t].parent
        /\ row.binned = task[t].binned /\ ~task[t].binned
        /\ row.status = IF j.status = Keep THEN task[t].status ELSE j.status
    <3>1. Or(j.status, task[t].status) \in Statuses BY <1>1, <2>2 DEF Or, Row
    <3>2. Or(j.rule, task[t].rule) \in BOOLEAN BY <1>1, <2>2 DEF Or, Row, Job
    <3>3. n \in Nodes \cup {Free} BY <1>2 DEF Inv, TypeOK
    <3> HIDE DEF n
    <3> QED BY <1>2, <2>2, <3>1, <3>2, <3>3 DEF Row, Or, Live
  <2>4. /\ task' \in [Tasks -> Row \cup {Free}] /\ task'[t] = row /\ row # Free
        /\ \A u \in Tasks : u # t => task'[u] = task[u]
    <3>1. task' = [task EXCEPT ![t] = row] BY <1>1, <2>1 DEF Inv, TypeOK
    <3> HIDE DEF row
    <3> QED BY <1>1, <2>3, <3>1, ValuesAssumption DEF Inv, TypeOK
  <2>5. /\ job' \in [Requests -> Job]
        /\ \A q \in Requests : q # r => job'[q] = job[q]
        /\ IF j.effect = "unchanged" THEN job'[r] = Idle
           ELSE /\ job'[r].at = "effect" /\ job'[r].on = t /\ job'[r].effect = j.effect
                /\ job'[r].node = n /\ job'[r].status = j.status
    <3> DEFINE k == IF j.effect = "unchanged" THEN Idle ELSE [j EXCEPT !.at = "effect", !.node = n]
    <3>1. n \in Nodes \cup {Free} BY <1>2 DEF Inv, TypeOK
    <3> HIDE DEF n
    <3>2. /\ k \in Job
          /\ IF j.effect = "unchanged" THEN k = Idle
             ELSE /\ k.at = "effect" /\ k.on = t /\ k.effect = j.effect
                  /\ k.node = n /\ k.status = j.status
      <4>1. CASE j.effect = "unchanged" BY <4>1, IdleIsJob
      <4>2. CASE j.effect # "unchanged" BY <1>1, <3>1, <4>2 DEF Job
      <4> QED BY <4>1, <4>2
    <3>3. job' = [job EXCEPT ![r] = k] BY <2>1 DEF n
    <3> HIDE DEF k
    <3> QED BY <3>2, <3>3, JobMoved DEF Inv
  <2>6. Idle.at = "idle" /\ Idle.on = Free BY DEF Idle
  <2> HIDE DEF row
  <2>7. TypeOK'
    <3>1. task[t].parent \in Tasks \cup {Free} BY <2>2 DEF Row
    <3>2. strayed' \subseteq Tasks BY <1>1, <2>1, <3>1 DEF Inv, TypeOK
    <3>3. owed' \subseteq Tasks BY <1>1, <2>1 DEF Inv, TypeOK
    <3> QED BY <1>1, <2>4, <2>5, <3>2, <3>3 DEF Inv, TypeOK
  <2>8. RowsSound'
    <3>1. \A u \in Tasks : task'[u] # Free <=> task[u] # Free BY <2>2, <2>4
    <3>2. \A u \in Tasks : task'[u].parent = task[u].parent BY <2>3, <2>4
    <3>3. \A u \in Tasks : task[u] # Free => /\ task'[u].node \in nodes' \cup {Free}
                                             /\ task[u].parent \in Tasks \cup {Free}
        BY <1>1, <1>2, <2>3, <2>4 DEF Inv, RowsSound, Exists, TypeOK, Row
    <3>4. owed' \subseteq minted' BY <1>1, <2>1 DEF Inv, RowsSound
    <3> QED BY <1>1, <3>1, <3>2, <3>3, <3>4 DEF Inv, RowsSound, Exists
  <2>9. JobsSound'
    <3>1. n \in Nodes \cup {Free} BY <1>2 DEF Inv, TypeOK
    <3> HIDE DEF n
    <3> QED BY <1>1, <2>5, <2>6, <3>1 DEF Inv, JobsSound
  <2>10. CapturesBecomeOne' BY <1>1 DEF Inv, CapturesBecomeOne
  <2>11. SeriesSound'
    <3> SUFFICES ASSUME NEW u \in Tasks \ strayed', Exists(u)' PROVE InStep(u)'
        BY DEF SeriesSound
    <3>1. Exists(u) /\ u \notin strayed BY <2>1, <2>2, <2>4 DEF Exists
    <3>2. InStep(u) BY <3>1 DEF Inv, SeriesSound
    <3>3. task[t].parent = u => row.status = task[t].status
        BY <2>1, <2>3, NodesAssumption
    <3>4. \A c \in Tasks : c \in Waiting(u)' <=> c \in Waiting(u)
      <4> SUFFICES ASSUME NEW c \in Tasks PROVE c \in Waiting(u)' <=> c \in Waiting(u)
          OBVIOUS
      <4>1. CASE c = t BY <2>2, <2>3, <2>4, <3>3, <4>1, WaitsOn
      <4>2. CASE c # t BY <2>4, <4>2, WaitsOn
      <4> QED BY <4>1, <4>2
    <3>5. CASE u # t
      <4>1. u \in owed' <=> u \in owed BY <2>1, <3>5
      <4>2. \A q \in Requests : \/ job'[q] = job[q]
                                \/ job'[q].on # u /\ ~(job[q].on = u /\ job[q].at = "effect")
          BY <2>5, <2>6, <3>5, NodesAssumption
      <4> QED BY <2>4, <3>1, <3>4, <3>5, <4>1, <4>2, StaysInStep
    <3>6. CASE u = t
      <4>1. \A q \in Requests : job[q].on = t => q = r BY <3>2, <3>6 DEF InStep
      <4>2. \A q \in Requests : job'[q].on = t => q = r
          BY <2>5, <4>1
      <4>3. j.effect = SeriesEffect(task[t], j.status) BY <1>1, <3>2, <3>6 DEF InStep
      <4>4. t \in owed => task[t].status = "done" BY <3>2, <3>6 DEF InStep
      <4>5. \A q \in Requests : ~(job[q].on = t /\ job[q].at = "effect") BY <1>1, <4>1
      <4>6. IF t \in owed THEN \E c \in Tasks : Waiting(t) = {c} ELSE Waiting(t) = {}
          BY <3>2, <3>6, <4>5 DEF InStep
      <4>7. Waiting(u)' = Waiting(u) BY <3>4 DEF Waiting
      <4>8. ~(task[t].status = "done" /\ j.status = "cancelled") BY <2>1, <3>6
      <4>9. Keep \notin Statuses /\ task[t].status \in Statuses
          BY <2>2, ValuesAssumption DEF Row
      <4> HIDE DEF Waiting
      <4>10. CASE j.effect = "schedule"
        <5>1. j.status = "done" /\ task[t].status # "done"
            BY <4>3, <4>10 DEF SeriesEffect, Terminal
        <5>2. t \in owed' /\ row.status = "done" /\ Waiting(u)' = {}
            BY <1>1, <2>1, <2>3, <3>6, <4>4, <4>6, <4>7, <4>9, <4>10, <5>1 DEF Statuses
        <5>3. job'[r].at = "effect" /\ job'[r].effect = "schedule" /\ job'[r].on = t
            BY <2>5, <4>10
        <5> QED BY <2>4, <3>6, <4>2, <5>2, <5>3 DEF InStep
      <4>11. CASE j.effect = "retract"
        <5>1. t \notin owed' BY <2>1, <4>11
        <5>2. job'[r].at = "effect" /\ job'[r].effect = "retract" /\ job'[r].on = t
            BY <2>5, <4>11
        <5> QED BY <3>6, <4>2, <5>1, <5>2 DEF InStep
      <4>12. CASE j.effect = "unchanged"
        <5>1. owed' = owed /\ job'[r] = Idle BY <2>1, <2>5, <4>12
        <5>2. t \in owed' => row.status = "done"
            BY <1>1, <2>3, <4>3, <4>4, <4>8, <4>12, <5>1 DEF SeriesEffect, Statuses
        <5>3. \A q \in Requests : job'[q].on # t BY <2>6, <4>2, <5>1, <1>1, NodesAssumption
        <5>4. IF u \in owed' THEN \E c \in Tasks : Waiting(u)' = {c} ELSE Waiting(u)' = {}
            BY <3>6, <4>6, <4>7, <5>1
        <5> HIDE DEF t
        <5> QED BY <2>4, <3>6, <5>2, <5>3, <5>4 DEF InStep
      <4>13. j.effect \in {"schedule", "retract", "unchanged"} BY <1>1 DEF Job, Effects
      <4> QED BY <4>10, <4>11, <4>12, <4>13
    <3> QED BY <3>5, <3>6
  <2> QED BY <2>7, <2>8, <2>9, <2>10, <2>11 DEF Inv
<1>3. CASE ~(Live(t) /\ n \in nodes \cup {Free})
  <2>1. End(r) /\ UNCHANGED <<task, owed, strayed>> BY <1>3 DEF UpdateWrite
  <2>2. TypeOK' BY <1>1, <2>1, Ended DEF Inv, TypeOK
  <2>3. RowsSound' BY <1>1, <2>1 DEF Inv, RowsSound, Exists
  <2>4. JobsSound' BY <1>1, <2>1, Ended, JobsStay
  <2>5. CapturesBecomeOne' BY <1>1 DEF Inv, CapturesBecomeOne
  <2>6. SeriesSound'
    <3>1. \A q \in Requests : \/ job'[q] = job[q]
                              \/ /\ job'[q].on \notin Tasks \ strayed'
                                 /\ job[q].at = "effect" => job[q].on \notin Tasks \ strayed'
        BY <1>1, <2>1, Ended, NodesAssumption
    <3> QED BY <2>1, <3>1, SeriesStay
  <2> QED BY <2>2, <2>3, <2>4, <2>5, <2>6 DEF Inv
<1> QED BY <1>2, <1>3

LEMMA ScheduleStep ==
    ASSUME Inv, NEW r \in Requests, Schedule(r)
    PROVE  Inv'
<1>1. PICK t \in Tasks : t = job[r].on /\ t \in minted
    BY DEF Inv, TypeOK, JobsSound, Schedule
<1>2. /\ job[r].at = "effect" /\ job[r].effect = "schedule" /\ End(r)
      /\ UNCHANGED <<nodes, capture, owed, made>>
    BY DEF Schedule
<1>3. CASE Exists(t) /\ job[r].node \in nodes \cup {Free}
  <2>1. PICK c \in Tasks : Insert(c, [status |-> "open", rule |-> TRUE, node |-> job[r].node,
                                      parent |-> t, binned |-> FALSE])
      BY <1>1, <1>3 DEF Schedule
  <2> DEFINE row == [status |-> "open", rule |-> TRUE, node |-> job[r].node, parent |-> t,
                     binned |-> FALSE]
  <2>2. /\ row \in Row /\ row.node \in nodes \cup {Free} /\ row.parent = t
        /\ row.status = "open" /\ ~row.binned
      BY <1>3 DEF Inv, TypeOK, Row, Statuses
  <2>3. Insert(c, row) /\ UNCHANGED strayed BY <1>1, <1>3, <2>1 DEF Schedule
  <2> HIDE DEF row
  <2>4. /\ task' \in [Tasks -> Row \cup {Free}] /\ minted' \subseteq Tasks /\ RowsSound'
        /\ minted \subseteq minted' /\ c \notin minted
        /\ task'[c] = row /\ \A u \in Tasks : u # c => task'[u] = task[u]
      BY <1>2, <1>3, <2>2, <2>3, Inserted
  <2>5. TypeOK' BY <1>2, <2>3, <2>4, Ended DEF Inv, TypeOK
  <2>6. JobsSound' BY <1>2, <2>4, Ended, JobsStay
  <2>7. CapturesBecomeOne' BY <1>2 DEF Inv, CapturesBecomeOne
  <2>8. SeriesSound'
    <3> SUFFICES ASSUME NEW u \in Tasks \ strayed', Exists(u)' PROVE InStep(u)'
        BY DEF SeriesSound
    <3>1. c # t /\ task[c] = Free BY <1>1, <2>4, FreshId
    <3>2. \A x \in Tasks : x \in Waiting(u)' <=> x \in Waiting(u) \/ (x = c /\ u = t)
      <4>1. row # Free BY <2>2, ValuesAssumption
      <4> QED BY <2>2, <2>4, <3>1, <4>1, WaitsOn
    <3>3. CASE u = c
      <4>1. \A x \in Tasks : x \notin Waiting(u)'
          BY <2>4, <3>1, <3>2, <3>3, FreshId, WaitsOn DEF Exists
      <4>2. \A q \in Requests : job'[q].on # u
          BY <1>2, <2>4, <3>3, Ended, FreshId, NodesAssumption
      <4>3. u \notin owed' BY <1>2, <2>4, <3>3, FreshId
      <4> QED BY <2>4, <3>3, <4>1, <4>2, <4>3, NewInStep
    <3>4. CASE u # c /\ u # t
      <4>1. task'[u] = task[u] /\ Exists(u) /\ u \notin strayed
          BY <2>3, <2>4, <3>4 DEF Exists
      <4>2. \A q \in Requests : \/ job'[q] = job[q]
                                \/ job'[q].on # u /\ ~(job[q].on = u /\ job[q].at = "effect")
          BY <1>1, <1>2, <3>4, Ended, NodesAssumption
      <4>3. \A x \in Tasks : x \in Waiting(u)' <=> x \in Waiting(u) BY <3>2, <3>4
      <4> QED BY <1>2, <4>1, <4>2, <4>3, StaysInStep
    <3>5. CASE u = t
      <4>1. InStep(t) BY <1>3, <2>3, <3>5 DEF Inv, SeriesSound
      <4>2. t \in owed /\ Waiting(t) = {} /\ task[t].status = "done"
          BY <1>1, <1>2, <4>1 DEF InStep
      <4>3. \A q \in Requests : job'[q].on # t
          BY <1>1, <1>2, <4>1, Ended, NodesAssumption DEF InStep
      <4>4. Waiting(u)' = {c} BY <3>2, <3>5, <4>2 DEF Waiting
      <4>5. t \in owed' /\ task'[t].status = "done" BY <1>2, <2>4, <3>1, <4>2
      <4> HIDE DEF Waiting
      <4> QED BY <3>5, <4>3, <4>4, <4>5 DEF InStep
    <3> QED BY <3>3, <3>4, <3>5
  <2> QED BY <2>4, <2>5, <2>6, <2>7, <2>8 DEF Inv
<1>4. CASE ~(Exists(t) /\ job[r].node \in nodes \cup {Free})
  <2>1. strayed' = strayed \cup {t} /\ UNCHANGED <<task, minted>>
      BY <1>1, <1>4 DEF Schedule
  <2>2. TypeOK' BY <1>2, <2>1, Ended DEF Inv, TypeOK
  <2>3. RowsSound' BY <1>2, <2>1 DEF Inv, RowsSound, Exists
  <2>4. JobsSound' BY <1>2, <2>1, Ended, JobsStay
  <2>5. CapturesBecomeOne' BY <1>2 DEF Inv, CapturesBecomeOne
  <2>6. SeriesSound'
    <3>1. \A q \in Requests : \/ job'[q] = job[q]
                              \/ /\ job'[q].on \notin Tasks \ strayed'
                                 /\ job[q].at = "effect" => job[q].on \notin Tasks \ strayed'
        BY <1>1, <1>2, <2>1, Ended, NodesAssumption
    <3> QED BY <1>2, <2>1, <3>1, SeriesStay
  <2> QED BY <2>2, <2>3, <2>4, <2>5, <2>6 DEF Inv
<1> QED BY <1>3, <1>4

LEMMA RetractStep ==
    ASSUME Inv, NEW r \in Requests, Retract(r)
    PROVE  Inv'
<1>1. PICK t \in Tasks : t = job[r].on /\ t \in minted
    BY DEF Inv, TypeOK, JobsSound, Retract
<1>2. /\ job[r].at = "effect" /\ job[r].effect = "retract" /\ End(r)
      /\ UNCHANGED <<nodes, minted, capture, owed, strayed, made>>
      /\ task' = [c \in Tasks |-> IF c \in Waiting(t) THEN [task[c] EXCEPT !.binned = TRUE]
                                  ELSE task[c]]
    BY <1>1 DEF Retract, Retracted
<1>3. \A c \in Tasks : IF c \in Waiting(t)
          THEN /\ task'[c] \in Row /\ task'[c] # Free /\ task[c] # Free /\ task'[c].binned
               /\ task'[c].status = task[c].status /\ task'[c].rule = task[c].rule
               /\ task'[c].node = task[c].node /\ task'[c].parent = task[c].parent
               /\ task[c].parent = t
          ELSE task'[c] = task[c]
  <2> SUFFICES ASSUME NEW c \in Tasks, c \in Waiting(t)
               PROVE  /\ task'[c] \in Row /\ task'[c] # Free /\ task[c] # Free /\ task'[c].binned
                      /\ task'[c].status = task[c].status /\ task'[c].rule = task[c].rule
                      /\ task'[c].node = task[c].node /\ task'[c].parent = task[c].parent
                      /\ task[c].parent = t
      BY <1>2
  <2>1. task[c] # Free /\ task[c].parent = t BY WaitsOn
  <2>2. task[c] \in Row BY <2>1 DEF Inv, TypeOK
  <2>3. task'[c] = [task[c] EXCEPT !.binned = TRUE] BY <1>2
  <2>4. task'[c] \in Row BY <2>2, <2>3 DEF Row
  <2> QED BY <2>1, <2>2, <2>3, <2>4, ValuesAssumption DEF Row
<1>4. TypeOK'
  <2>1. task' \in [Tasks -> Row \cup {Free}]
    <3>1. \A c \in Tasks : task'[c] \in Row \cup {Free} BY <1>3 DEF Inv, TypeOK
    <3> QED BY <1>2, <3>1
  <2> QED BY <1>2, <2>1, Ended DEF Inv, TypeOK
<1>5. RowsSound'
  <2>1. \A c \in Tasks : task'[c] # Free <=> task[c] # Free BY <1>3
  <2>2. \A c \in Tasks : task'[c].node = task[c].node /\ task'[c].parent = task[c].parent
      BY <1>3
  <2>3. \A c \in Tasks : task[c] # Free => task[c].parent \in Tasks \cup {Free}
      BY DEF Inv, TypeOK, Row
  <2> QED BY <1>2, <2>1, <2>2, <2>3 DEF Inv, RowsSound, Exists
<1>6. JobsSound' BY <1>2, Ended, JobsStay
<1>7. CapturesBecomeOne' BY <1>2 DEF Inv, CapturesBecomeOne
<1>8. SeriesSound'
  <2> SUFFICES ASSUME NEW u \in Tasks \ strayed', Exists(u)' PROVE InStep(u)'
      BY DEF SeriesSound
  <2>1. Exists(u) /\ u \notin strayed BY <1>2, <1>3 DEF Exists
  <2>2. task'[u].status = task[u].status /\ task'[u].rule = task[u].rule BY <1>3
  <2>3. CASE u # t
    <3>1. \A c \in Tasks : c \in Waiting(u)' <=> c \in Waiting(u)
      <4> SUFFICES ASSUME NEW c \in Tasks PROVE c \in Waiting(u)' <=> c \in Waiting(u)
          OBVIOUS
      <4>1. CASE c \in Waiting(t) BY <1>3, <2>3, <4>1, WaitsOn
      <4>2. CASE c \notin Waiting(t) BY <1>3, <4>2, WaitsOn
      <4> QED BY <4>1, <4>2
    <3>2. \A q \in Requests : \/ job'[q] = job[q]
                              \/ job'[q].on # u /\ ~(job[q].on = u /\ job[q].at = "effect")
        BY <1>1, <1>2, <2>3, Ended, NodesAssumption
    <3> QED BY <1>2, <2>1, <2>2, <3>1, <3>2, StaysInStep
  <2>4. CASE u = t
    <3>1. InStep(t) BY <2>1, <2>4 DEF Inv, SeriesSound
    <3>2. t \notin owed BY <1>1, <1>2, <3>1 DEF InStep
    <3>3. \A q \in Requests : job'[q].on # t
        BY <1>1, <1>2, <3>1, Ended, NodesAssumption DEF InStep
    <3>4. \A c \in Tasks : c \notin Waiting(u)'
      <4> SUFFICES ASSUME NEW c \in Tasks PROVE c \notin Waiting(u)'
          OBVIOUS
      <4>1. CASE c \in Waiting(t) BY <1>3, <4>1, WaitsOn
      <4>2. CASE c \notin Waiting(t) BY <1>3, <2>4, <4>2, WaitsOn
      <4> QED BY <4>1, <4>2
    <3>5. Waiting(u)' = {} BY <3>4 DEF Waiting
    <3> HIDE DEF Waiting
    <3> QED BY <1>2, <2>4, <3>2, <3>3, <3>5 DEF InStep
  <2> QED BY <2>3, <2>4
<1> QED BY <1>4, <1>5, <1>6, <1>7, <1>8 DEF Inv

LEMMA EffectFailsStep ==
    ASSUME Inv, NEW r \in Requests, EffectFails(r)
    PROVE  Inv'
<1>1. /\ job[r].at = "effect" /\ strayed' = strayed \cup {job[r].on} /\ End(r)
      /\ UNCHANGED <<nodes, task, minted, capture, owed, made>>
    BY DEF EffectFails
<1>2. job[r].on \in Tasks BY <1>1 DEF Inv, TypeOK, JobsSound
<1>3. TypeOK' BY <1>1, <1>2, Ended DEF Inv, TypeOK
<1>4. RowsSound' BY <1>1 DEF Inv, RowsSound, Exists
<1>5. JobsSound' BY <1>1, Ended, JobsStay
<1>6. CapturesBecomeOne' BY <1>1 DEF Inv, CapturesBecomeOne
<1>7. SeriesSound'
  <2>1. \A q \in Requests : \/ job'[q] = job[q]
                            \/ /\ job'[q].on \notin Tasks \ strayed'
                               /\ job[q].at = "effect" => job[q].on \notin Tasks \ strayed'
      BY <1>1, Ended, NodesAssumption
  <2> QED BY <1>1, <2>1, SeriesStay
<1> QED BY <1>3, <1>4, <1>5, <1>6, <1>7 DEF Inv

----------------------------------------------------------------------------
(* Captures.                                                               *)

(* To the bin, or back, while no conversion has it.                        *)
LEMMA CaptureStep ==
    ASSUME Inv, NEW c \in Captures, BinCapture(c) \/ RestoreCapture(c)
    PROVE  Inv'
<1>1. UNCHANGED <<nodes, task, minted, job, owed, strayed, made>>
    BY DEF BinCapture, RestoreCapture
<1>2. /\ capture' \in [Captures -> {"live", "binned", "gone"}]
      /\ \A d \in Captures \ {c} : capture'[d] = capture[d]
      /\ capture[c] # "gone"
    BY DEF Inv, TypeOK, BinCapture, RestoreCapture
<1>3. TypeOK' BY <1>1, <1>2 DEF Inv, TypeOK
<1>4. RowsSound' BY <1>1 DEF Inv, RowsSound, Exists
<1>5. JobsSound'
  <2>1. \A q \in Requests : job[q].at = "taken" => job[q].on \in Captures \ {c}
      BY DEF Inv, JobsSound, BinCapture, RestoreCapture, Taken
  <2>2. \A q \in Requests : job'[q].at = "taken" => capture'[job'[q].on] = capture[job'[q].on]
      BY <1>1, <1>2, <2>1
  <2> QED BY <1>1, <2>2, JobsStay
<1>6. CapturesBecomeOne' BY <1>1, <1>2 DEF Inv, CapturesBecomeOne
<1>7. SeriesSound' BY <1>1, SeriesStay
<1> QED BY <1>3, <1>4, <1>5, <1>6, <1>7 DEF Inv

LEMMA ConvertAskStep ==
    ASSUME Inv, NEW r \in Requests, ConvertAsk(r)
    PROVE  Inv'
<1>1. PICK c \in Captures, n \in nodes \cup {Free}, into \in {"task", "other"} :
        job' = [job EXCEPT ![r] = [Idle EXCEPT !.at = "asked", !.on = c, !.node = n,
                                               !.status = into]]
    BY DEF ConvertAsk
<1> DEFINE j == [Idle EXCEPT !.at = "asked", !.on = c, !.node = n, !.status = into]
<1>2. job[r] = Idle /\ UNCHANGED <<nodes, task, minted, capture, owed, strayed, made>>
    BY DEF ConvertAsk, Send
<1>3. j \in Job /\ j.at = "asked" /\ j.on = c
    BY DEF Inv, TypeOK, Idle, Job, Effects
<1> HIDE DEF j
<1>4. /\ job' \in [Requests -> Job] /\ job'[r] = j
      /\ \A q \in Requests : q # r => job'[q] = job[q]
  <2>1. job' = [job EXCEPT ![r] = j] BY <1>1 DEF j
  <2> QED BY <1>3, <2>1, JobMoved DEF Inv
<1>5. TypeOK' BY <1>2, <1>4 DEF Inv, TypeOK
<1>6. RowsSound' BY <1>2 DEF Inv, RowsSound, Exists
<1>7. JobsSound' BY <1>2, <1>3, <1>4 DEF Inv, JobsSound
<1>8. CapturesBecomeOne' BY <1>2 DEF Inv, CapturesBecomeOne
<1>9. SeriesSound'
  <2>1. Idle.at = "idle" BY DEF Idle
  <2>2. \A q \in Requests : \/ job'[q] = job[q]
                            \/ /\ job'[q].on \notin Tasks \ strayed'
                               /\ job[q].at = "effect" => job[q].on \notin Tasks \ strayed'
      BY <1>2, <1>3, <1>4, <2>1, IdsAssumption
  <2> QED BY <1>2, <2>2, SeriesStay
<1> QED BY <1>5, <1>6, <1>7, <1>8, <1>9 DEF Inv

LEMMA ConvertTakeStep ==
    ASSUME Inv, NEW r \in Requests, ConvertTake(r)
    PROVE  Inv'
<1>1. /\ job[r].at = "asked" /\ ~Taken(job[r].on) /\ job[r].on \in Captures
      /\ UNCHANGED <<nodes, task, minted, capture, owed, strayed, made>>
    BY DEF Inv, JobsSound, ConvertTake
<1>2. TypeOK' /\ JobsSound' /\ SeriesSound'
  <2>1. CASE capture[job[r].on] = "live"
    <3> DEFINE j == [job[r] EXCEPT !.at = "taken"]
    <3>1. job[r] \in Job BY DEF Inv, TypeOK
    <3>2. j \in Job /\ j.at = "taken" /\ j.on = job[r].on BY <3>1 DEF Job
    <3>3. job' = [job EXCEPT ![r] = j] BY <2>1 DEF Inv, TypeOK, ConvertTake, Found, Goto
    <3> HIDE DEF j
    <3>4. /\ job' \in [Requests -> Job] /\ job'[r] = j
          /\ \A q \in Requests : q # r => job'[q] = job[q]
        BY <3>2, <3>3, JobMoved DEF Inv
    <3>5. TypeOK' BY <1>1, <3>4 DEF Inv, TypeOK
    <3>6. JobsSound' BY <1>1, <2>1, <3>2, <3>4 DEF Inv, JobsSound, Taken
    <3>7. \A q \in Requests : \/ job'[q] = job[q]
                              \/ /\ job'[q].on \notin Tasks \ strayed'
                                 /\ job[q].at = "effect" => job[q].on \notin Tasks \ strayed'
        BY <1>1, <3>2, <3>4, IdsAssumption
    <3>8. SeriesSound' BY <1>1, <3>7, SeriesStay
    <3> QED BY <3>5, <3>6, <3>8
  <2>2. CASE capture[job[r].on] # "live"
    <3>1. End(r) BY <2>2 DEF ConvertTake, Found
    <3>2. TypeOK' BY <1>1, <3>1, Ended DEF Inv, TypeOK
    <3>3. JobsSound' BY <1>1, <3>1, Ended, JobsStay
    <3>4. \A q \in Requests : \/ job'[q] = job[q]
                              \/ /\ job'[q].on \notin Tasks \ strayed'
                                 /\ job[q].at = "effect" => job[q].on \notin Tasks \ strayed'
        BY <1>1, <3>1, Ended, NodesAssumption
    <3>5. SeriesSound' BY <1>1, <3>4, SeriesStay
    <3> QED BY <3>2, <3>3, <3>5
  <2> QED BY <2>1, <2>2
<1>3. RowsSound' BY <1>1 DEF Inv, RowsSound, Exists
<1>4. CapturesBecomeOne' BY <1>1 DEF Inv, CapturesBecomeOne
<1> QED BY <1>2, <1>3, <1>4 DEF Inv

LEMMA ConvertMakeStep ==
    ASSUME Inv, NEW r \in Requests, ConvertMake(r)
    PROVE  Inv'
<1> DEFINE c == job[r].on
<1>1. /\ job[r].at = "taken" /\ c \in Captures /\ capture[c] = "live" /\ c \notin Tasks
      /\ \A q \in Requests : job[q].at = "taken" /\ job[q].on = c => q = r
      /\ End(r) /\ UNCHANGED <<nodes, owed, strayed>>
    BY IdsAssumption DEF Inv, JobsSound, ConvertMake
<1>2. \A q \in Requests : job'[q] = job[q] \/ (job'[q] = Idle /\ job[q].on \notin Tasks)
    BY <1>1, Ended
<1>3. capture' \in [Captures -> {"live", "binned", "gone"}] /\ made' \in [Captures -> Nat]
    BY DEF Inv, TypeOK, ConvertMake
<1>4. CapturesBecomeOne'
  <2>1. made[c] = 0 BY <1>1 DEF Inv, CapturesBecomeOne
  <2> QED BY <1>1, <2>1 DEF Inv, TypeOK, CapturesBecomeOne, ConvertMake
<1>5. \A q \in Requests : job'[q].at = "taken" => capture'[job'[q].on] = capture[job'[q].on]
  <2>1. \A d \in Captures \ {c} : capture'[d] = capture[d] BY DEF Inv, TypeOK, ConvertMake
  <2>2. \A q \in Requests : job'[q].at = "taken" => job'[q].on \in Captures \ {c}
      BY <1>1, Ended DEF Inv, JobsSound
  <2> QED BY <2>1, <2>2
<1>6. CASE job[r].node \in nodes \cup {Free} /\ job[r].status = "task"
  <2>1. PICK t \in Tasks : Insert(t, [status |-> "open", rule |-> FALSE, node |-> job[r].node,
                                      parent |-> Free, binned |-> FALSE])
      BY <1>6 DEF ConvertMake
  <2> DEFINE row == [status |-> "open", rule |-> FALSE, node |-> job[r].node, parent |-> Free,
                     binned |-> FALSE]
  <2>2. row \in Row /\ row.node \in nodes \cup {Free} /\ row.parent = Free /\ Insert(t, row)
      BY <1>6, <2>1 DEF Inv, TypeOK, Row, Statuses
  <2> HIDE DEF row
  <2>3. /\ task' \in [Tasks -> Row \cup {Free}] /\ minted' \subseteq Tasks /\ RowsSound'
        /\ minted \subseteq minted'
      BY <1>1, <2>2, Inserted
  <2>4. TypeOK' BY <1>1, <1>3, <2>3, Ended DEF Inv, TypeOK
  <2>5. JobsSound' BY <1>1, <1>5, <2>3, Ended, JobsStay
  <2>6. SeriesSound' BY <1>1, <1>2, <2>2, SeriesAround
  <2> QED BY <1>4, <2>3, <2>4, <2>5, <2>6 DEF Inv
<1>7. CASE ~(job[r].node \in nodes \cup {Free} /\ job[r].status = "task")
  <2>1. UNCHANGED <<task, minted>> BY <1>7 DEF ConvertMake
  <2>2. TypeOK' BY <1>1, <1>3, <2>1, Ended DEF Inv, TypeOK
  <2>3. RowsSound' BY <1>1, <2>1 DEF Inv, RowsSound, Exists
  <2>4. JobsSound' BY <1>1, <1>5, <2>1, Ended, JobsStay
  <2>5. SeriesSound'
    <3>1. Idle.on = Free BY DEF Idle
    <3> QED BY <1>1, <1>2, <2>1, <3>1, SeriesStay, NodesAssumption
  <2> QED BY <1>4, <2>2, <2>3, <2>4, <2>5 DEF Inv
<1> QED BY <1>6, <1>7

LEMMA ConvertFailsStep ==
    ASSUME Inv, NEW r \in Requests, ConvertFails(r)
    PROVE  Inv'
<1>1. /\ job[r].at = "taken" /\ End(r)
      /\ UNCHANGED <<nodes, task, minted, capture, owed, strayed, made>>
    BY DEF ConvertFails
<1>2. TypeOK' BY <1>1, Ended DEF Inv, TypeOK
<1>3. RowsSound' BY <1>1 DEF Inv, RowsSound, Exists
<1>4. JobsSound' BY <1>1, Ended, JobsStay
<1>5. CapturesBecomeOne' BY <1>1 DEF Inv, CapturesBecomeOne
<1>6. SeriesSound'
  <2>1. \A q \in Requests : \/ job'[q] = job[q]
                            \/ /\ job'[q].on \notin Tasks \ strayed'
                               /\ job[q].at = "effect" => job[q].on \notin Tasks \ strayed'
      BY <1>1, Ended, NodesAssumption
  <2> QED BY <1>1, <2>1, SeriesStay
<1> QED BY <1>2, <1>3, <1>4, <1>5, <1>6 DEF Inv

LEMMA CrashStep ==
    ASSUME Inv, Crash
    PROVE  Inv'
<1>1. /\ strayed' = strayed \cup {job[q].on : q \in {p \in Requests : job[p].at = "effect"}}
      /\ job' = [q \in Requests |-> Idle]
      /\ UNCHANGED <<nodes, task, minted, capture, owed, made>>
    BY DEF Crash
<1>2. Idle.on = Free /\ Idle.at = "idle" BY DEF Idle
<1>3. \A q \in Requests : job'[q] = Idle BY <1>1
<1>4. TypeOK'
  <2>1. \A q \in Requests : job[q].at = "effect" => job[q].on \in Tasks
      BY DEF Inv, TypeOK, JobsSound
  <2>2. strayed' \subseteq Tasks BY <1>1, <2>1 DEF Inv, TypeOK
  <2> QED BY <1>1, <2>2, IdleIsJob DEF Inv, TypeOK
<1>5. RowsSound' BY <1>1 DEF Inv, RowsSound, Exists
<1>6. JobsSound' BY <1>1, <1>2, <1>3, JobsStay
<1>7. CapturesBecomeOne' BY <1>1 DEF Inv, CapturesBecomeOne
<1>8. SeriesSound'
  <2>1. \A q \in Requests : /\ job'[q].on \notin Tasks \ strayed'
                            /\ job[q].at = "effect" => job[q].on \notin Tasks \ strayed'
      BY <1>1, <1>2, <1>3, NodesAssumption
  <2> QED BY <1>1, <2>1, SeriesStay
<1> QED BY <1>4, <1>5, <1>6, <1>7, <1>8 DEF Inv

----------------------------------------------------------------------------
(* The invariant.                                                          *)

LEMMA InitInv == Init => Inv
<1> SUFFICES ASSUME Init PROVE Inv OBVIOUS
<1>1. \A r \in Requests : job[r] = Idle BY DEF Init
<1>2. TypeOK BY IdleIsJob DEF Init, TypeOK
<1>3. \A t \in Tasks : ~Exists(t) BY DEF Init, Exists
<1>4. RowsSound BY <1>3 DEF Init, RowsSound
<1>5. JobsSound BY <1>1 DEF JobsSound, Idle
<1>6. CapturesBecomeOne BY DEF Init, CapturesBecomeOne
<1>7. SeriesSound BY <1>3 DEF SeriesSound
<1> QED BY <1>2, <1>4, <1>5, <1>6, <1>7 DEF Inv

LEMMA StutterInv == Inv /\ UNCHANGED vars => Inv'
<1> SUFFICES ASSUME Inv, UNCHANGED vars PROVE Inv' OBVIOUS
<1>1. UNCHANGED <<nodes, task, minted, capture, job, owed, strayed, made>> BY DEF vars
<1>2. TypeOK' BY <1>1 DEF Inv, TypeOK
<1>3. RowsSound' BY <1>1 DEF Inv, RowsSound, Exists
<1>4. JobsSound' BY <1>1, JobsStay
<1>5. CapturesBecomeOne' BY <1>1 DEF Inv, CapturesBecomeOne
<1>6. SeriesSound' BY <1>1, SeriesStay
<1> QED BY <1>2, <1>3, <1>4, <1>5, <1>6 DEF Inv

LEMMA NextInv == Inv /\ [Next]_vars => Inv'
<1> SUFFICES ASSUME Inv, [Next]_vars PROVE Inv' OBVIOUS
<1>1. CASE CreateTask BY <1>1, CreateTaskStep
<1>2. CASE Purge BY <1>2, PurgeStep
<1>3. CASE Crash BY <1>3, CrashStep
<1>4. CASE \E t \in Tasks : DeleteTask(t) \/ RestoreTask(t)
  <2>1. PICK t \in Tasks, bin \in BOOLEAN :
          /\ Exists(t) /\ task' = [task EXCEPT ![t].binned = bin] /\ Touched({t})
          /\ UNCHANGED <<nodes, minted, capture, job, owed, made>>
      BY <1>4 DEF DeleteTask, RestoreTask, Live
  <2> QED BY <2>1, BinStep
<1>5. CASE \E n \in nodes : DeleteNode(n) BY <1>5, DeleteNodeStep
<1>6. CASE \E r \in Requests :
        \/ UpdateRead(r) \/ UpdateWrite(r) \/ Schedule(r) \/ Retract(r) \/ EffectFails(r)
    BY <1>6, UpdateReadStep, UpdateWriteStep, ScheduleStep, RetractStep, EffectFailsStep
<1>7. CASE \E r \in Requests :
        ConvertAsk(r) \/ ConvertTake(r) \/ ConvertMake(r) \/ ConvertFails(r)
    BY <1>7, ConvertAskStep, ConvertTakeStep, ConvertMakeStep, ConvertFailsStep
<1>8. CASE \E c \in Captures : BinCapture(c) \/ RestoreCapture(c) BY <1>8, CaptureStep
<1>9. CASE UNCHANGED vars BY <1>9, StutterInv
<1> QED BY <1>1, <1>2, <1>3, <1>4, <1>5, <1>6, <1>7, <1>8, <1>9 DEF Next

(* Rows, requests, captures and series stay sound whatever runs at once    *)
(* (tasks.rs, captures.rs).                                                *)
THEOREM SpecInv == Spec => []Inv
<1>1. Init => Inv BY InitInv
<1>2. Inv /\ [Next]_vars => Inv' BY NextInv
<1> QED BY <1>1, <1>2, PTL DEF Spec

(* A completion schedules one occurrence, and a reopening takes it back,   *)
(* for a series that nothing else touched (update_task in routes/tasks.rs).*)
THEOREM SpecSeriesInStep == Spec => []SeriesInStep
<1>1. Inv => SeriesInStep
  <2> SUFFICES ASSUME Inv, NEW t \in Tasks \ strayed, Live(t), ~Running(t)
               PROVE  /\ t \in owed => task[t].status = "done"
                      /\ Cardinality(Waiting(t)) = IF t \in owed THEN 1 ELSE 0
      BY DEF SeriesInStep
  <2>1. InStep(t) BY DEF Inv, SeriesSound, Live
  <2>2. IF t \in owed THEN \E c \in Tasks : Waiting(t) = {c} ELSE Waiting(t) = {}
      BY <2>1 DEF InStep, Running
  <2>3. t \in owed => task[t].status = "done" BY <2>1 DEF InStep
  <2> HIDE DEF Waiting
  <2>4. CASE t \in owed
    <3>1. PICK c \in Tasks : Waiting(t) = {c} BY <2>2, <2>4
    <3>2. Cardinality({c}) = 1 BY FS_Singleton
    <3> QED BY <2>3, <2>4, <3>1, <3>2
  <2>5. CASE t \notin owed
    <3>1. Waiting(t) = {} BY <2>2, <2>5
    <3>2. Cardinality({}) = 0 BY FS_EmptySet
    <3> QED BY <2>5, <3>1, <3>2
  <2> QED BY <2>4, <2>5
<1> QED BY <1>1, SpecInv, PTL

(* Two conversions of a capture, or a conversion and a delete, do not both *)
(* have it (convert_capture in routes/captures.rs).                        *)
THEOREM SpecCapturesBecomeOne == Spec => []CapturesBecomeOne
<1>1. Inv => CapturesBecomeOne BY DEF Inv
<1> QED BY <1>1, SpecInv, PTL

(* A conversion that fails leaves the capture (routes/captures.rs).        *)
THEOREM SpecCapturesAreNotLost == Spec => CapturesAreNotLost
<1>1. Inv /\ [Next]_vars =>
        [\A c \in Captures : capture[c] = "live" /\ capture'[c] = "gone" =>
            made'[c] = made[c] + 1]_vars
  <2> SUFFICES ASSUME Inv, Next, NEW c \in Captures, capture[c] = "live", capture'[c] = "gone"
               PROVE  made'[c] = made[c] + 1
      OBVIOUS
  <2>1. CASE \E r \in Requests : ConvertMake(r)
    <3>1. PICK r \in Requests : ConvertMake(r) BY <2>1
    <3>2. job[r].on = c BY <3>1 DEF Inv, TypeOK, ConvertMake
    <3> QED BY <3>1, <3>2 DEF Inv, TypeOK, ConvertMake
  <2>2. CASE Purge BY <2>2 DEF Inv, TypeOK, Purge
  <2>3. CASE \E d \in Captures : BinCapture(d) \/ RestoreCapture(d)
      BY <2>3 DEF Inv, TypeOK, BinCapture, RestoreCapture
  <2>4. CASE \/ CreateTask \/ Crash
             \/ \E t \in Tasks : DeleteTask(t) \/ RestoreTask(t)
             \/ \E n \in nodes : DeleteNode(n)
             \/ \E r \in Requests :
                  \/ UpdateRead(r) \/ UpdateWrite(r) \/ Schedule(r) \/ Retract(r)
                  \/ EffectFails(r) \/ ConvertAsk(r) \/ ConvertTake(r) \/ ConvertFails(r)
      BY <2>4 DEF CreateTask, Crash, DeleteTask, RestoreTask, DeleteNode, UpdateRead,
         UpdateWrite, Schedule, Retract, EffectFails, ConvertAsk, ConvertTake, ConvertFails
  <2> QED BY <2>1, <2>2, <2>3, <2>4 DEF Next
<1> QED BY <1>1, SpecInv, PTL DEF Spec, CapturesAreNotLost

(* However conversions, deletes, Undo and the purge interleave and fail, a *)
(* capture becomes one thing or stays (convert_capture in                  *)
(* routes/captures.rs, repo/capture.rs).                                   *)
THEOREM SpecCapturesAreKept == Spec => CapturesAreKept
  BY SpecCapturesBecomeOne, SpecCapturesAreNotLost DEF CapturesAreKept
=============================================================================
