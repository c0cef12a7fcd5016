--------------------------- MODULE NodeSaveProofs ---------------------------
(***************************************************************************)
(* The server's saves implement VersionedNode, for any number of requests, *)
(* bodies and statuses.  First what a step of one request does to what     *)
(* VersionedNode sees; then one lemma per action, each for the invariant   *)
(* and for the step it maps to; then the status log, the History and the   *)
(* trains, a lemma each for the steps of a request and for every step; then*)
(* the theorems.                                                           *)
(***************************************************************************)
EXTENDS NodeSave, TLAPS

(* Only the request that takes a step changes.                             *)
Only(r) == /\ job' \in [Saves -> Job]
           /\ \A q \in Saves : q # r => job'[q] = job[q]
Mapped == [Promise!Next]_(Promise!vars)

(* What the abstract node sees of such a step.                             *)
LEMMA Seen ==
    ASSUME TypeOK, NEW r \in Saves, Only(r)
    PROVE  /\ Want' = [Want EXCEPT ![r] = IF Undecided(r)' THEN job'[r].want ELSE None]
           /\ Verdict' = [Verdict EXCEPT ![r] = job'[r].verdict]
           /\ Want[r] = IF Undecided(r) THEN job[r].want ELSE None
           /\ Verdict[r] = job[r].verdict
BY DEF TypeOK, Only, Want, Verdict, Undecided

(* A step within a transaction, or within its train, is not seen.          *)
LEMMA Unseen ==
    ASSUME TypeOK, NEW r \in Saves, Only(r), UNCHANGED <<node, used>>,
           Undecided(r)' <=> Undecided(r), job'[r].want = job[r].want,
           job'[r].verdict = job[r].verdict
    PROVE  Mapped
<1>1. Want' = Want /\ Verdict' = Verdict
    BY DEF TypeOK, Only, Want, Verdict, Undecided
<1> QED BY <1>1 DEF Mapped, Promise!vars, Text, Ver

LEMMA UnseenEnd ==
    ASSUME TypeOK, NEW r \in Saves, Only(r), UNCHANGED <<node, used>>,
           ~Undecided(r), ~Undecided(r)', job'[r].verdict = job[r].verdict
    PROVE  Mapped
<1>1. Want' = Want /\ Verdict' = Verdict
    BY DEF TypeOK, Only, Want, Verdict, Undecided
<1> QED BY <1>1 DEF Mapped, Promise!vars, Text, Ver

(* A request that goes from place to place keeps the invariant, so long as *)
(* it does not begin, take the row or store.                               *)
LEMMA Kept ==
    ASSUME RowInv, NEW r \in Saves, Only(r), UNCHANGED <<node, used, clock, pins>>,
           ~Undecided(r)',
           InTrain(r)' => job'[r].body \in Bodies,
           used = {} \/ job'[r].kind = "create" => job'[r].verdict = "none"
    PROVE  /\ OneHasTheRow' /\ StartsAreFresh' /\ CreatedFirst'
           /\ \A q \in Saves : InTrain(q)' => job'[q].body \in Bodies
<1>1. OneHasTheRow'
    BY DEF RowInv, TypeOK, Only, OneHasTheRow, Locked, Undecided
<1>2. StartsAreFresh' BY DEF RowInv, TypeOK, Only, StartsAreFresh, Began, Undecided
<1>3. CreatedFirst' BY DEF RowInv, TypeOK, Only, CreatedFirst, Undecided
<1>4. \A q \in Saves : InTrain(q)' => job'[q].body \in Bodies
    BY DEF RowInv, TypeOK, Only, InTrain
<1> QED BY <1>1, <1>2, <1>3, <1>4

(* A request that ends is idle again, with what came of it.                *)
LEMMA Ended ==
    ASSUME TypeOK, NEW r \in Saves,
           NEW v \in {"none", "stored", "stale", "missing"}, End(r, v)
    PROVE  /\ Only(r) /\ job'[r].at = "idle" /\ job'[r].kind = "save"
           /\ job'[r].verdict = v /\ job'[r].latest = Keep
           /\ ~InTrain(r)' /\ ~Undecided(r)'
<1> DEFINE j == [Idle EXCEPT !.verdict = v]
<1>1. j \in Job BY DEF Job, Places, Idle, Nothing, Fields
<1>2. j.at = "idle" /\ j.kind = "save" /\ j.verdict = v /\ j.latest = Keep BY DEF Idle
<1>3. job' = [job EXCEPT ![r] = j] BY DEF End
<1> HIDE DEF j
<1>4. Only(r) /\ job'[r] = j BY <1>1, <1>3 DEF TypeOK, Only
<1> QED BY <1>2, <1>4 DEF InTrain, Undecided

LEMMA Verdicts ==
    ASSUME TypeOK, NEW r \in Saves
    PROVE  job[r].verdict \in {"none", "stored", "stale", "missing"}
BY DEF TypeOK, Job

(* sync_wikilinks.                                                         *)
LEMMA ResolveStep ==
    ASSUME RowInv, NEW r \in Saves, Resolve(r)
    PROVE  RowInv' /\ Mapped
<1>1. Only(r) /\ job'[r] = [job[r] EXCEPT !.at = "resolved",
                                       !.found = LinksOf[job[r].body] \cap Titled]
  <2>1. DEFINE j == [job[r] EXCEPT !.at = "resolved",
                                       !.found = LinksOf[job[r].body] \cap Titled]
  <2>2. job' = [job EXCEPT ![r] = j] BY DEF RowInv, TypeOK, Job, Resolve
  <2>3. job[r] \in Job /\ LinksOf[job[r].body] \cap Titled \subseteq Targets
      BY DEF RowInv, TypeOK, Titled
  <2>4. j \in Job BY <2>3 DEF Job, Places
  <2> QED BY <2>2, <2>4 DEF RowInv, TypeOK, Only
<1>2. job'[r].at = "resolved" /\ UNCHANGED <<node, used, clock, pins>>
    BY <1>1 DEF RowInv, TypeOK, Job, Resolve
<1>3. /\ job'[r].want = job[r].want /\ job'[r].verdict = job[r].verdict
      /\ job'[r].body = job[r].body /\ job'[r].kind = job[r].kind
    BY <1>1 DEF RowInv, TypeOK, Job
<1>4. /\ OneHasTheRow' /\ StartsAreFresh' /\ CreatedFirst'
      /\ \A q \in Saves : InTrain(q)' => job'[q].body \in Bodies
    BY <1>1, <1>2, <1>3, Kept DEF RowInv, TypeOK, InTrain, Undecided, CreatedFirst, Resolve
<1>5. TypeOK' BY <1>1, <1>2, <1>4 DEF RowInv, TypeOK, Only, Resolve
<1>6. Mapped BY <1>1, <1>2, <1>3, Unseen DEF RowInv, Undecided, Resolve
<1> QED BY <1>4, <1>5, <1>6 DEF RowInv

LEMMA SyncBeginStep ==
    ASSUME RowInv, NEW r \in Saves, SyncBegin(r)
    PROVE  RowInv' /\ Mapped
<1>1. Only(r) /\ job'[r] = [job[r] EXCEPT !.at = "syncing", !.seen = links]
  <2>1. DEFINE j == [job[r] EXCEPT !.at = "syncing", !.seen = links]
  <2>2. job' = [job EXCEPT ![r] = j] BY DEF RowInv, TypeOK, Job, SyncBegin
  <2>3. job[r] \in Job /\ links \subseteq Link BY DEF RowInv, TypeOK
  <2>4. j \in Job BY <2>3 DEF Job, Places
  <2> QED BY <2>2, <2>4 DEF RowInv, TypeOK, Only
<1>2. job'[r].at = "syncing" /\ UNCHANGED <<node, used, clock, pins>>
    BY <1>1 DEF RowInv, TypeOK, Job, SyncBegin
<1>3. /\ job'[r].want = job[r].want /\ job'[r].verdict = job[r].verdict
      /\ job'[r].body = job[r].body /\ job'[r].kind = job[r].kind
    BY <1>1 DEF RowInv, TypeOK, Job
<1>4. /\ OneHasTheRow' /\ StartsAreFresh' /\ CreatedFirst'
      /\ \A q \in Saves : InTrain(q)' => job'[q].body \in Bodies
    BY <1>1, <1>2, <1>3, Kept DEF RowInv, TypeOK, InTrain, Undecided, CreatedFirst, SyncBegin
<1>5. TypeOK' BY <1>1, <1>2, <1>4 DEF RowInv, TypeOK, Only, SyncBegin
<1>6. Mapped BY <1>1, <1>2, <1>3, Unseen DEF RowInv, Undecided, SyncBegin
<1> QED BY <1>4, <1>5, <1>6 DEF RowInv

LEMMA SyncFailsStep ==
    ASSUME RowInv, NEW r \in Saves, SyncFails(r)
    PROVE  RowInv' /\ Mapped
<1>1. /\ Only(r) /\ job'[r].at = "idle" /\ job'[r].kind = "save"
      /\ job'[r].verdict = job[r].verdict /\ ~InTrain(r)' /\ ~Undecided(r)'
    BY Ended, Verdicts DEF RowInv, SyncFails
<1>2. UNCHANGED <<node, used, clock, pins>> /\ ~Undecided(r) BY DEF Undecided, SyncFails
<1>3. /\ OneHasTheRow' /\ StartsAreFresh' /\ CreatedFirst'
      /\ \A q \in Saves : InTrain(q)' => job'[q].body \in Bodies
    BY <1>1, <1>2, Kept DEF RowInv, CreatedFirst
<1>4. TypeOK' BY <1>1, <1>2, <1>3 DEF RowInv, TypeOK, InTrain, Only, SyncFails, Cut
<1>5. Mapped BY <1>1, <1>2, UnseenEnd DEF RowInv
<1> QED BY <1>3, <1>4, <1>5 DEF RowInv

LEMMA SyncEndStep ==
    ASSUME RowInv, NEW r \in Saves, SyncEnd(r)
    PROVE  RowInv' /\ Mapped
<1>1. UNCHANGED <<node, used, clock, pins>> /\ ~Undecided(r) BY DEF Undecided, SyncEnd
<1> DEFINE kept == KeptLinks(r)
           ends == job[r].found = {} \/ (node # None /\ job[r].found \subseteq Alive)
<1>2. /\ Only(r) /\ Mapped /\ ~Undecided(r)'
      /\ InTrain(r)' => job'[r].body \in Bodies
      /\ used = {} \/ job'[r].kind = "create" => job'[r].verdict = "none"
  <2>1. CASE ends /\ job[r].kind # "create"
    <3>1. Only(r) /\ job'[r] = [job[r] EXCEPT !.at = "synced"]
      <4>1. DEFINE j == [job[r] EXCEPT !.at = "synced"]
      <4>2. job' = [job EXCEPT ![r] = j] BY <2>1 DEF RowInv, TypeOK, Job, SyncEnd, Goto
      <4>3. job[r] \in Job BY DEF RowInv, TypeOK
      <4>4. j \in Job BY <4>3 DEF Job, Places
      <4> QED BY <4>2, <4>4 DEF RowInv, TypeOK, Only
    <3>2. /\ job'[r].at = "synced" /\ job'[r].want = job[r].want
          /\ job'[r].verdict = job[r].verdict
          /\ job'[r].body = job[r].body /\ job'[r].kind = job[r].kind
          /\ ~Undecided(r)'
        BY <3>1 DEF RowInv, TypeOK, Job, Undecided
    <3>3. Mapped BY <1>1, <3>1, <3>2, Unseen DEF RowInv, Undecided
    <3>4. InTrain(r) BY DEF InTrain, SyncEnd
    <3>5. /\ InTrain(r)' => job'[r].body \in Bodies
          /\ used = {} \/ job'[r].kind = "create" => job'[r].verdict = "none"
        BY <3>2, <3>4 DEF RowInv, TypeOK, CreatedFirst
    <3> QED BY <3>1, <3>2, <3>3, <3>5
  <2>2. CASE ~(ends /\ job[r].kind # "create")
    <3>1. End(r, job[r].verdict)
        BY <2>2 DEF RowInv, CreatedFirst, SyncEnd
    <3>2. /\ Only(r) /\ job'[r].at = "idle" /\ job'[r].kind = "save"
          /\ job'[r].verdict = job[r].verdict /\ ~InTrain(r)' /\ ~Undecided(r)'
        BY <3>1, Ended, Verdicts DEF RowInv
    <3>3. Mapped BY <1>1, <3>2, UnseenEnd DEF RowInv
    <3>4. used = {} \/ job'[r].kind = "create" => job'[r].verdict = "none"
        BY <3>2 DEF RowInv, CreatedFirst
    <3> QED BY <3>2, <3>3, <3>4
  <2> QED BY <2>1, <2>2
<1>3. /\ OneHasTheRow' /\ StartsAreFresh' /\ CreatedFirst'
      /\ \A q \in Saves : InTrain(q)' => job'[q].body \in Bodies
    BY <1>1, <1>2, Kept
<1>4. links' \subseteq Link /\ \A k, l \in links' : k.to = l.to => k = l
  <2>1. CASE ~ends BY <2>1 DEF RowInv, TypeOK, SyncEnd
  <2>2. CASE ends
    <3>1. links' = kept \cup {[to |-> t, by |-> r] : t \in job[r].found \ Named(kept)}
        BY <2>2 DEF SyncEnd
    <3>2. kept \subseteq links /\ job[r].found \subseteq Targets
        BY DEF KeptLinks, RowInv, TypeOK, Job
    <3> QED BY <3>1, <3>2 DEF RowInv, TypeOK, Link, Named
  <2> QED BY <2>1, <2>2
<1>5. TypeOK'
  <2>1. /\ cut' \subseteq Bodies /\ loose' \in BOOLEAN
    <3>1. CASE ends BY <3>1 DEF RowInv, TypeOK, SyncEnd
    <3>2. CASE ~ends
      <4>1. Cut(r) BY <3>2 DEF SyncEnd
      <4>2. job[r].body \in Bodies BY DEF RowInv, TypeOK, InTrain, SyncEnd
      <4> QED BY <4>1, <4>2 DEF RowInv, TypeOK, Cut
    <3> QED BY <3>1, <3>2
  <2> QED BY <1>1, <1>2, <1>3, <1>4, <2>1 DEF RowInv, TypeOK, Only, SyncEnd
<1> QED BY <1>2, <1>3, <1>5 DEF RowInv

(* The body snapshot.                                                      *)
LEMMA ListVersionsStep ==
    ASSUME RowInv, NEW r \in Saves, ListVersions(r)
    PROVE  RowInv' /\ Mapped
<1>1. PICK l \in Bodies \cup {Keep} :
        job' = [job EXCEPT ![r].at = "recording", ![r].latest = l]
  <2>1. job[r].latest \in Bodies \cup {Keep} /\ job[r] \in Job BY DEF RowInv, TypeOK, Job
  <2>2. CASE Goto(r, "recording")
    <3>1. job' = [job EXCEPT ![r].at = "recording", ![r].latest = job[r].latest]
        BY <2>1, <2>2 DEF RowInv, TypeOK, Job, Goto
    <3> QED BY <2>1, <3>1
  <2>3. CASE job' = [job EXCEPT ![r].at = "recording",
                       ![r].latest = IF job[r].kind = "restore" THEN Keep ELSE Latest]
    <3>1. Latest \in Bodies \cup {Keep} BY DEF RowInv, TypeOK, Latest, Last
    <3> QED BY <2>3, <3>1
  <2> QED BY <2>2, <2>3 DEF ListVersions
<1>2. Only(r) /\ job'[r] = [job[r] EXCEPT !.at = "recording", !.latest = l]
  <2>1. DEFINE j == [job[r] EXCEPT !.at = "recording", !.latest = l]
  <2>2. job' = [job EXCEPT ![r] = j] BY <1>1 DEF RowInv, TypeOK, Job
  <2>3. job[r] \in Job BY DEF RowInv, TypeOK
  <2>4. j \in Job BY <2>3 DEF Job, Places
  <2> QED BY <2>2, <2>4 DEF RowInv, TypeOK, Only
<1>3. job'[r].at = "recording" /\ UNCHANGED <<node, used, clock, pins>>
    BY <1>2 DEF RowInv, TypeOK, Job, ListVersions
<1>4. /\ job'[r].want = job[r].want /\ job'[r].verdict = job[r].verdict
      /\ job'[r].body = job[r].body /\ job'[r].kind = job[r].kind
    BY <1>2 DEF RowInv, TypeOK, Job
<1>5. /\ OneHasTheRow' /\ StartsAreFresh' /\ CreatedFirst'
      /\ \A q \in Saves : InTrain(q)' => job'[q].body \in Bodies
    BY <1>2, <1>3, <1>4, Kept DEF RowInv, TypeOK, InTrain, Undecided, CreatedFirst,
       ListVersions
<1>6. TypeOK' BY <1>2, <1>3, <1>5 DEF RowInv, TypeOK, Only, ListVersions
<1>7. Mapped BY <1>2, <1>3, <1>4, Unseen DEF RowInv, Undecided, ListVersions
<1> QED BY <1>5, <1>6, <1>7 DEF RowInv

LEMMA RecordStep ==
    ASSUME RowInv, NEW r \in Saves, Record(r)
    PROVE  RowInv' /\ Mapped
<1>1. /\ Only(r) /\ job'[r].at = "idle" /\ job'[r].kind = "save"
      /\ job'[r].verdict = job[r].verdict /\ ~InTrain(r)' /\ ~Undecided(r)'
    BY Ended, Verdicts DEF RowInv, Record
<1>2. UNCHANGED <<node, used, clock, pins>> /\ ~Undecided(r) BY DEF Undecided, Record
<1>3. /\ OneHasTheRow' /\ StartsAreFresh' /\ CreatedFirst'
      /\ \A q \in Saves : InTrain(q)' => job'[q].body \in Bodies
    BY <1>1, <1>2, Kept DEF RowInv, CreatedFirst
<1>4. TypeOK'
  <2>1. job[r].body \in Bodies BY DEF RowInv, TypeOK, InTrain, Record
  <2>2. versions' \in Seq(Bodies) BY <2>1 DEF RowInv, TypeOK, Record
  <2> QED BY <1>1, <1>2, <1>3, <2>2 DEF RowInv, TypeOK, Only, Record
<1>5. Mapped BY <1>1, <1>2, UnseenEnd DEF RowInv
<1> QED BY <1>3, <1>4, <1>5 DEF RowInv

LEMMA RecordFailsStep ==
    ASSUME RowInv, NEW r \in Saves, RecordFails(r)
    PROVE  RowInv' /\ Mapped
<1>1. /\ Only(r) /\ job'[r].at = "idle" /\ job'[r].kind = "save"
      /\ job'[r].verdict = job[r].verdict /\ ~InTrain(r)' /\ ~Undecided(r)'
    BY Ended, Verdicts DEF RowInv, RecordFails
<1>2. UNCHANGED <<node, used, clock, pins>> /\ ~Undecided(r) BY DEF Undecided, RecordFails
<1>3. /\ OneHasTheRow' /\ StartsAreFresh' /\ CreatedFirst'
      /\ \A q \in Saves : InTrain(q)' => job'[q].body \in Bodies
    BY <1>1, <1>2, Kept DEF RowInv, CreatedFirst
<1>4. TypeOK' BY <1>1, <1>2, <1>3 DEF RowInv, TypeOK, InTrain, Only, RecordFails, Cut
<1>5. Mapped BY <1>1, <1>2, UnseenEnd DEF RowInv
<1> QED BY <1>3, <1>4, <1>5 DEF RowInv

(* A transaction begins, and takes the row.                                *)
LEMMA BeginStep ==
    ASSUME RowInv, NEW r \in Saves, Begin(r)
    PROVE  RowInv' /\ Mapped
<1>1. Only(r) /\ job'[r] = [job[r] EXCEPT !.at = "begun", !.start = clock + 1]
  <2>1. DEFINE j == [job[r] EXCEPT !.at = "begun", !.start = clock + 1]
  <2>2. job' = [job EXCEPT ![r] = j] BY DEF RowInv, TypeOK, Job, Begin
  <2>3. job[r] \in Job /\ clock + 1 \in Nat BY DEF RowInv, TypeOK
  <2>4. j \in Job BY <2>3 DEF Job, Places
  <2> QED BY <2>2, <2>4 DEF RowInv, TypeOK, Only
<1>2. /\ job'[r].at = "begun" /\ job'[r].start = clock + 1 /\ clock' = clock + 1
      /\ job'[r].want = job[r].want /\ job'[r].verdict = job[r].verdict
      /\ job'[r].kind = job[r].kind /\ UNCHANGED <<node, used, pins>>
    BY <1>1 DEF RowInv, TypeOK, Job, Begin
<1>3. OneHasTheRow'
  <2>1. \A q \in Saves : job'[q].at = "locked" => q # r /\ job[q].at = "locked"
      BY <1>1, <1>2 DEF Only
  <2> QED BY <1>2, <2>1 DEF RowInv, OneHasTheRow, Locked
<1>4. StartsAreFresh'
  <2>1. clock \in Nat /\ used \subseteq 1..clock /\ pins \subseteq 1..clock
      BY DEF RowInv, TypeOK
  <2>2. \A q \in Saves : q # r /\ Began(q)' =>
           /\ job'[q].start \in 1..clock /\ job'[q].start \notin used
           /\ job'[q].start = job[q].start /\ Began(q)
      BY <1>1 DEF RowInv, Only, StartsAreFresh, Began
  <2>3. pins' \cap used' = {} /\ \A q \in Saves : Began(q)' => job'[q].start \notin pins'
      BY <1>2, <2>1, <2>2 DEF RowInv, StartsAreFresh, Began
  <2> QED BY <1>2, <2>1, <2>2, <2>3 DEF RowInv, StartsAreFresh, Began
<1>5. CreatedFirst' BY <1>1, <1>2 DEF RowInv, Only, CreatedFirst, Undecided, Begin
<1>6. TypeOK'
  <2>1. \A q \in Saves : InTrain(q)' => job'[q].body \in Bodies
      BY <1>1, <1>2 DEF RowInv, TypeOK, Only, InTrain
  <2>2. clock' \in Nat /\ used' \subseteq 1..clock' /\ pins' \subseteq 1..clock'
      BY <1>2 DEF RowInv, TypeOK
  <2> QED BY <1>1, <1>2, <2>1, <2>2 DEF RowInv, TypeOK, Only, Begin
<1>7. Mapped BY <1>1, <1>2, Unseen DEF RowInv, Undecided, Begin
<1> QED BY <1>3, <1>4, <1>5, <1>6, <1>7 DEF RowInv

(* A request under way is decided: the abstract node sees it go.           *)
LEMMA SeenDecided ==
    ASSUME RowInv, NEW r \in Saves, Only(r), Undecided(r), ~Undecided(r)'
    PROVE  /\ Want[r] = job[r].want /\ Want[r] # None
           /\ Want' = [Want EXCEPT ![r] = None]
           /\ Verdict' = [Verdict EXCEPT ![r] = job'[r].verdict]
<1>1. job[r].want # None BY NoneAssumption DEF RowInv, TypeOK, Job
<1> QED BY <1>1, Seen DEF RowInv

LEMMA TextIsNone == ASSUME TypeOK PROVE Text = None <=> node = None
<1>1. CASE node = None BY <1>1 DEF Text
<1>2. CASE node # None
  <2>1. Text \in Texts BY <1>2 DEF TypeOK, Text, Texts, Row
  <2> QED BY <1>2, <2>1, NoneAssumption
<1> QED BY <1>1, <1>2

LEMMA LockStep ==
    ASSUME RowInv, NEW r \in Saves, Lock(r)
    PROVE  RowInv' /\ Mapped
<1>0. UNCHANGED <<node, used, clock, pins>> /\ Undecided(r) BY DEF Undecided, Lock
<1>1. CASE node = None
  <2>1. /\ Only(r) /\ job'[r].at = "idle" /\ job'[r].kind = "save"
        /\ job'[r].verdict = "missing" /\ ~InTrain(r)' /\ ~Undecided(r)'
      BY <1>1, Ended DEF RowInv, Lock
  <2>2. used # {} BY <1>0 DEF RowInv, CreatedFirst
  <2>3. /\ OneHasTheRow' /\ StartsAreFresh' /\ CreatedFirst'
        /\ \A q \in Saves : InTrain(q)' => job'[q].body \in Bodies
      BY <1>0, <2>1, <2>2, Kept
  <2>4. TypeOK' BY <1>0, <2>1, <2>3 DEF RowInv, TypeOK, Only, Lock
  <2>5. Promise!Decide(r)
      BY <1>0, <1>1, <2>1, SeenDecided, TextIsNone DEF RowInv, Promise!Decide, Text, Ver
  <2> QED BY <2>3, <2>4, <2>5 DEF RowInv, Mapped, Promise!Next
<1>2. CASE node # None
  <2>1. Only(r) /\ job'[r] = [job[r] EXCEPT !.at = "locked", !.was = node.status]
    <3>1. DEFINE j == [job[r] EXCEPT !.at = "locked", !.was = node.status]
    <3>2. job' = [job EXCEPT ![r] = j] BY <1>2 DEF RowInv, TypeOK, Job, Lock
    <3>3. job[r] \in Job /\ node.status \in Statuses BY <1>2 DEF RowInv, TypeOK, Row
    <3>4. j \in Job BY <3>3 DEF Job, Places
    <3> QED BY <3>2, <3>4 DEF RowInv, TypeOK, Only
  <2>2. /\ job'[r].at = "locked" /\ job'[r].start = job[r].start
        /\ job'[r].want = job[r].want /\ job'[r].verdict = job[r].verdict
        /\ job'[r].kind = job[r].kind
      BY <2>1 DEF RowInv, TypeOK, Job
  <2>3. OneHasTheRow' BY <1>0, <1>2, <2>1, <2>2 DEF RowInv, Only, OneHasTheRow, Locked, Lock
  <2>4. StartsAreFresh'
    <3>1. \A q \in Saves : Began(q)' => Began(q) /\ job'[q].start = job[q].start
        BY <2>1, <2>2 DEF Only, Began, Lock
    <3> QED BY <1>0, <3>1 DEF RowInv, StartsAreFresh
  <2>5. CreatedFirst' BY <1>0, <2>1, <2>2 DEF RowInv, Only, CreatedFirst, Undecided
  <2>6. \A q \in Saves : InTrain(q)' => job'[q].body \in Bodies
      BY <2>1, <2>2 DEF RowInv, TypeOK, Only, InTrain
  <2>7. TypeOK' BY <1>0, <2>1, <2>6 DEF RowInv, TypeOK, Only, Lock
  <2>8. Mapped BY <1>0, <2>1, <2>2, Unseen DEF RowInv, Undecided
  <2> QED BY <2>3, <2>4, <2>5, <2>7, <2>8 DEF RowInv
<1> QED BY <1>1, <1>2

(* The commit gives the node what its save wants, and a fresh version.     *)
LEMMA Stored ==
    ASSUME RowInv, NEW r \in Saves, job[r].at = "locked", Store(r)
    PROVE  /\ node # None /\ node' \in Row(used') /\ node' # None
           /\ clock' = clock + 1 /\ used' = used \cup {job[r].start}
           /\ used' \subseteq 1..clock' /\ clock' \in Nat
           /\ pins' \subseteq 1..clock' /\ held' \subseteq Bodies /\ node'.body \in Bodies
           /\ Text # None /\ job[r].want.expected \in {0, Ver}
           /\ Text' = Promise!Renewed(job[r].want) /\ Promise!NewVersion
<1> DEFINE w == job[r].want
           s == Or(w.status, node.status)
           b == Or(w.body, node.body)
<1>1. node # None BY DEF RowInv, OneHasTheRow, Locked
<1>2. node.body \in Bodies /\ node.status \in Statuses /\ node.ver \in used
    BY <1>1 DEF RowInv, TypeOK, Row
<1>3. w \in Fields BY DEF RowInv, TypeOK, Job
<1>4. s \in Statuses /\ b \in Bodies BY <1>2, <1>3 DEF Fields, Or
<1>5. /\ Applies(w) /\ node' = [body |-> b, status |-> s, ver |-> job[r].start]
      /\ clock' = clock + 1 /\ used' = used \cup {job[r].start} /\ held' = held \cup {b}
    BY DEF Store
<1> HIDE DEF s, b, w
<1>6. /\ clock \in Nat /\ used \subseteq 1..clock
      /\ job[r].start \in 1..clock /\ job[r].start \notin used
    BY DEF RowInv, TypeOK, StartsAreFresh, Began
<1>7. node' \in Row(used') BY <1>4, <1>5 DEF Row
<1>8. node' # None
  <2>1. node' \in Row(Nat) BY <1>4, <1>5, <1>6 DEF Row
  <2> QED BY <2>1, NoneAssumption
<1>9. used' \subseteq 1..clock' /\ clock' \in Nat /\ pins' \subseteq 1..clock'
  <2>1. clock' \in Nat /\ 1..clock \subseteq 1..clock' BY <1>5, <1>6
  <2>2. pins \subseteq 1..clock /\ pins' = pins BY DEF RowInv, TypeOK, Store
  <2> QED BY <1>5, <1>6, <2>1, <2>2
<1>10. Text # None BY <1>1, TextIsNone DEF RowInv
<1>11. w.expected \in {0, Ver} BY <1>1, <1>5 DEF Applies, Ver
<1>12. Text' = [body |-> b, status |-> s] BY <1>5, <1>8 DEF Text
<1>13. Text = [body |-> node.body, status |-> node.status] BY <1>1 DEF Text
<1>14. Text' = Promise!Renewed(w)
  <2>1. Text.body = node.body /\ Text.status = node.status BY <1>13
  <2>2. Promise!Or(w.body, Text.body) = b /\ Promise!Or(w.status, Text.status) = s
      BY <2>1 DEF Promise!Or, Or, b, s
  <2> QED BY <1>12, <2>2 DEF Promise!Renewed
<1>15. Ver' = job[r].start BY <1>5, <1>8 DEF Ver
<1>16. Promise!NewVersion BY <1>5, <1>6, <1>15 DEF Promise!NewVersion
<1>17. held' \subseteq Bodies /\ node'.body \in Bodies BY <1>4, <1>5 DEF RowInv, TypeOK
<1> QED BY <1>1, <1>5, <1>7, <1>8, <1>9, <1>10, <1>11, <1>14, <1>16, <1>17 DEF w

(* So does whatever becomes of its request.                                *)
LEMMA StoredStep ==
    ASSUME RowInv, NEW r \in Saves, job[r].at = "locked", Store(r), Only(r),
           ~Undecided(r)', job'[r].verdict = "stored",
           InTrain(r)' => job'[r].body \in Bodies,
           job'[r].kind # "create", cut' \subseteq Bodies, loose' \in BOOLEAN
    PROVE  RowInv' /\ Mapped
<1>1. OneHasTheRow' BY Stored DEF RowInv, Only, OneHasTheRow, Undecided, Locked
<1>2. StartsAreFresh'
  <2>1. \A q \in Saves : Began(q)' => q # r /\ Began(q) /\ job'[q].start = job[q].start
      BY DEF Only, Began, Undecided
  <2>2. \A q \in Saves : Began(q)' => job[q].start # job[r].start
      BY <2>1 DEF RowInv, StartsAreFresh, Began
  <2>3. clock \in Nat BY DEF RowInv, TypeOK
  <2>4. pins' \cap used' = {} /\ \A q \in Saves : Began(q)' => job'[q].start \notin pins'
    <3>1. pins' = pins /\ used' = used \cup {job[r].start} BY DEF Store
    <3>2. job[r].start \notin pins BY DEF RowInv, StartsAreFresh, Began
    <3> QED BY <2>1, <3>1, <3>2 DEF RowInv, StartsAreFresh
  <2> QED BY <2>1, <2>2, <2>3, <2>4, Stored DEF RowInv, StartsAreFresh
<1>3. CreatedFirst'
  <2>1. used' # {} BY Stored
  <2> QED BY <2>1 DEF RowInv, Only, CreatedFirst, Undecided
<1>4. TypeOK'
  <2>1. \A q \in Saves : InTrain(q)' => job'[q].body \in Bodies
      BY DEF RowInv, TypeOK, Only, InTrain
  <2>2. UNCHANGED <<target, links, versions, pins, steady>> BY DEF Store
  <2> QED BY <2>1, <2>2, Stored DEF RowInv, TypeOK, Only
<1>5. Promise!Decide(r)
  <2>1. /\ Want[r] = job[r].want /\ Want[r] # None
        /\ Want' = [Want EXCEPT ![r] = None]
        /\ Verdict' = [Verdict EXCEPT ![r] = "stored"]
      BY SeenDecided DEF Undecided
  <2> QED BY <2>1, Stored DEF Promise!Decide
<1> QED BY <1>1, <1>2, <1>3, <1>4, <1>5 DEF RowInv, Mapped, Promise!Next

LEMMA ApplyStep ==
    ASSUME RowInv, NEW r \in Saves, Apply(r)
    PROVE  RowInv' /\ Mapped
<1>1. Only(r) /\ job'[r] = [job[r] EXCEPT !.at = "applied", !.body = node'.body,
                                       !.want = Nothing, !.verdict = "stored"]
  <2>1. DEFINE j == [job[r] EXCEPT !.at = "applied", !.body = node'.body,
                                       !.want = Nothing, !.verdict = "stored"]
  <2>2. job' = [job EXCEPT ![r] = j] BY DEF RowInv, TypeOK, Job, Apply
  <2>3. job[r] \in Job /\ node'.body \in Bodies /\ Nothing \in Fields
      BY Stored DEF RowInv, TypeOK, Nothing, Fields, Apply
  <2>4. j \in Job BY <2>3 DEF Job, Places
  <2> QED BY <2>2, <2>4 DEF RowInv, TypeOK, Only
<1>2. /\ job'[r].at = "applied" /\ job'[r].verdict = "stored"
      /\ job'[r].body = node'.body /\ job'[r].kind = job[r].kind
    BY <1>1 DEF RowInv, TypeOK, Job, Apply
<1>3. job[r].at = "locked" /\ Store(r) /\ UNCHANGED cut /\ loose' \in BOOLEAN
    BY DEF RowInv, TypeOK, Apply
<1>4. job[r].kind # "create" BY DEF RowInv, CreatedFirst, Undecided, Apply
<1> QED BY <1>1, <1>2, <1>3, <1>4, Stored, StoredStep DEF RowInv, TypeOK, Undecided

(* A save that is refused, or fails, leaves the node alone.                *)
LEMMA StaleStep ==
    ASSUME RowInv, NEW r \in Saves, Stale(r)
    PROVE  RowInv' /\ Mapped
<1>1. UNCHANGED <<node, used, clock, pins>> /\ Undecided(r) BY DEF Undecided, Stale
<1>2. /\ Only(r) /\ job'[r].at = "idle" /\ job'[r].kind = "save"
      /\ job'[r].verdict = "stale" /\ ~InTrain(r)' /\ ~Undecided(r)'
    BY Ended DEF RowInv, Stale
<1>3. used # {} /\ node # None BY <1>1 DEF RowInv, CreatedFirst, OneHasTheRow, Locked, Stale
<1>4. /\ OneHasTheRow' /\ StartsAreFresh' /\ CreatedFirst'
      /\ \A q \in Saves : InTrain(q)' => job'[q].body \in Bodies
    BY <1>1, <1>2, <1>3, Kept
<1>5. TypeOK' BY <1>1, <1>2, <1>4 DEF RowInv, TypeOK, Only, Stale
<1>6. job[r].want.expected \notin {0, Ver} /\ Text # None
    BY <1>3, TextIsNone DEF RowInv, Applies, Ver, Stale
<1>7. Promise!Decide(r)
  <2>1. Text' = Text /\ Ver' = Ver BY <1>1 DEF Text, Ver
  <2>2. /\ Want[r] = job[r].want /\ Want[r] # None
        /\ Want' = [Want EXCEPT ![r] = None]
        /\ Verdict' = [Verdict EXCEPT ![r] = "stale"]
      BY <1>1, <1>2, SeenDecided
  <2> QED BY <1>1, <1>6, <2>1, <2>2 DEF Promise!Decide
<1> QED BY <1>4, <1>5, <1>7 DEF RowInv, Mapped, Promise!Next

LEMMA UpdateFailsStep ==
    ASSUME RowInv, NEW r \in Saves, UpdateFails(r)
    PROVE  RowInv' /\ Mapped
<1>1. UNCHANGED <<node, used, clock, pins>> /\ Undecided(r) BY DEF Undecided, UpdateFails
<1>2. /\ Only(r) /\ job'[r].at = "idle" /\ job'[r].kind = "save"
      /\ job'[r].verdict = job[r].verdict /\ ~InTrain(r)' /\ ~Undecided(r)'
    BY Ended, Verdicts DEF RowInv, UpdateFails
<1>3. /\ OneHasTheRow' /\ StartsAreFresh' /\ CreatedFirst'
      /\ \A q \in Saves : InTrain(q)' => job'[q].body \in Bodies
    BY <1>1, <1>2, Kept DEF RowInv, CreatedFirst
<1>4. TypeOK' BY <1>1, <1>2, <1>3 DEF RowInv, TypeOK, Only, UpdateFails
<1>5. Promise!Abandon
  <2>1. Text' = Text /\ Ver' = Ver BY <1>1 DEF Text, Ver
  <2>2. Want' = [q \in Saves |-> IF q \in {r} THEN None ELSE Want[q]]
      BY <1>1, <1>2, SeenDecided DEF Want
  <2>3. Verdict' = Verdict BY <1>2 DEF Only, Verdict
  <2> QED BY <1>1, <2>1, <2>2, <2>3 DEF Promise!Abandon
<1> QED BY <1>3, <1>4, <1>5 DEF RowInv, Mapped, Promise!Next

LEMMA CommitUnansweredStep ==
    ASSUME RowInv, NEW r \in Saves, CommitUnanswered(r)
    PROVE  RowInv' /\ Mapped
<1>1. job[r].at = "locked" /\ Store(r) /\ End(r, "stored") BY DEF CommitUnanswered
<1>2. /\ Only(r) /\ job'[r].at = "idle" /\ job'[r].kind = "save"
      /\ job'[r].verdict = "stored" /\ ~InTrain(r)' /\ ~Undecided(r)'
    BY <1>1, Ended DEF RowInv
<1>3. cut' \subseteq Bodies /\ loose' \in BOOLEAN
    BY <1>1, Stored DEF RowInv, TypeOK, CommitUnanswered
<1> QED BY <1>1, <1>2, <1>3, StoredStep

(* A request is sent.                                                      *)
LEMMA SendStep ==
    ASSUME RowInv, NEW r \in Saves, Send(r)
    PROVE  RowInv' /\ Mapped
<1>1. PICK kind \in {"save", "restore"}, w \in Fields :
        Ask(r, kind, w) /\ w.expected \in {0, node.ver}
  <2>1. versions \in Seq(Bodies) => ToSet(versions) \subseteq Bodies BY DEF ToSet
  <2>2. node.ver \in Nat
    <3>1. node \in Row(used) /\ used \subseteq 1..clock /\ clock \in Nat
        BY DEF RowInv, TypeOK, Send
    <3>2. node.ver \in used BY <3>1 DEF Row
    <3>3. \A i \in 1..clock : i \in Nat BY <3>1
    <3> QED BY <3>1, <3>2, <3>3
  <2>3. CASE \E b \in Bodies, v \in {0, node.ver} :
               Ask(r, "save", [body |-> b, status |-> Keep, expected |-> v])
    <3>1. PICK b \in Bodies, v \in {0, node.ver} :
            Ask(r, "save", [body |-> b, status |-> Keep, expected |-> v]) BY <2>3
    <3> DEFINE w == [body |-> b, status |-> Keep, expected |-> v]
    <3>2. v \in Nat BY <2>2
    <3>3. w \in Fields /\ w.expected = v BY <3>2 DEF Fields
    <3> QED BY <3>1, <3>3
  <2>4. CASE \E s \in Statuses : Ask(r, "save", [Nothing EXCEPT !.status = s])
    <3>1. PICK s \in Statuses : Ask(r, "save", [Nothing EXCEPT !.status = s]) BY <2>4
    <3> DEFINE w == [Nothing EXCEPT !.status = s]
    <3>2. w \in Fields /\ w.expected = 0 BY DEF Nothing, Fields
    <3> QED BY <3>1, <3>2
  <2>5. CASE \E b \in ToSet(versions) : Ask(r, "restore", [Nothing EXCEPT !.body = b])
    <3>1. PICK b \in Bodies : Ask(r, "restore", [Nothing EXCEPT !.body = b])
        BY <2>1, <2>5 DEF RowInv, TypeOK
    <3> DEFINE w == [Nothing EXCEPT !.body = b]
    <3>2. w \in Fields /\ w.expected = 0 BY DEF Nothing, Fields
    <3> QED BY <3>1, <3>2
  <2> QED BY <2>3, <2>4, <2>5 DEF Send
<1>2. Only(r) /\ job'[r] = [Idle EXCEPT !.at = "sent", !.kind = kind, !.want = w]
  <2>1. DEFINE j == [Idle EXCEPT !.at = "sent", !.kind = kind, !.want = w]
  <2>2. job' = [job EXCEPT ![r] = j] BY <1>1 DEF Ask
  <2>3. j \in Job BY DEF Idle, Nothing, Job, Places, Fields
  <2> QED BY <2>2, <2>3 DEF RowInv, TypeOK, Only
<1>3. /\ job'[r].at = "sent" /\ job'[r].kind = kind /\ job'[r].want = w
      /\ job'[r].verdict = "none" /\ job[r].at = "idle"
    BY <1>2 DEF Idle, Send
<1>4. UNCHANGED <<node, used, clock, pins>> BY DEF Send
<1>5. node.ver \in used /\ node # None BY DEF RowInv, TypeOK, Row, Send
<1>6. OneHasTheRow'
  <2>1. \A q \in Saves : job'[q].at = "locked" => q # r /\ job[q].at = "locked"
      BY <1>2, <1>3 DEF Only
  <2> QED BY <1>4, <1>5, <2>1 DEF RowInv, OneHasTheRow, Locked
<1>7. StartsAreFresh'
  <2>1. \A q \in Saves : Began(q)' => q # r /\ Began(q) /\ job'[q].start = job[q].start
      BY <1>2, <1>3 DEF Only, Began
  <2> QED BY <1>4, <2>1 DEF RowInv, StartsAreFresh
<1>8. CreatedFirst' BY <1>2, <1>3, <1>4, <1>5 DEF RowInv, Only, CreatedFirst, Undecided
<1>9. TypeOK'
  <2>1. \A q \in Saves : InTrain(q)' => job'[q].body \in Bodies
      BY <1>2, <1>3 DEF RowInv, TypeOK, Only, InTrain
  <2> QED BY <1>2, <1>4, <2>1 DEF RowInv, TypeOK, Only, Send
<1>10. Promise!Ask(r)
  <2>1. Text' = Text /\ Ver' = Ver BY <1>4 DEF Text, Ver
  <2>2. Want[r] = None BY <1>3 DEF Want, Undecided
  <2>3. Want' = [Want EXCEPT ![r] = w] /\ Verdict' = [Verdict EXCEPT ![r] = "none"]
    <3>1. Undecided(r)' BY <1>3 DEF Undecided
    <3> QED BY <1>2, <1>3, <3>1, Seen DEF RowInv
  <2>4. w \in Promise!Wishes
    <3>1. w.expected \in used \cup {0} BY <1>1, <1>5
    <3> QED BY <3>1 DEF Promise!Wishes, Fields
  <2> QED BY <1>4, <2>1, <2>2, <2>3, <2>4 DEF Promise!Ask
<1> QED BY <1>6, <1>7, <1>8, <1>9, <1>10 DEF RowInv, Mapped, Promise!Next

(* The node is created; its version is the first.                          *)
LEMMA CreateStep ==
    ASSUME RowInv, NEW r \in Saves, Create(r)
    PROVE  RowInv' /\ Mapped
<1>1. PICK b \in Bodies, s \in Statuses :
        /\ node' = [body |-> b, status |-> s, ver |-> clock + 1]
        /\ job' = [job EXCEPT ![r].at = "applied", ![r].kind = "create", ![r].body = b]
    BY DEF Create
<1>2. Only(r) /\ job'[r] = [job[r] EXCEPT !.at = "applied", !.kind = "create", !.body = b]
  <2>1. DEFINE j == [job[r] EXCEPT !.at = "applied", !.kind = "create", !.body = b]
  <2>2. job' = [job EXCEPT ![r] = j] BY <1>1 DEF RowInv, TypeOK, Job
  <2>3. job[r] \in Job BY DEF RowInv, TypeOK
  <2>4. j \in Job BY <2>3 DEF Job, Places
  <2> QED BY <2>2, <2>4 DEF RowInv, TypeOK, Only
<1>3. /\ job'[r].at = "applied" /\ job'[r].kind = "create" /\ job'[r].body = b
      /\ job'[r].verdict = job[r].verdict
    BY <1>2 DEF RowInv, TypeOK, Job
<1>4. used = {} /\ used' = {clock + 1} /\ clock' = clock + 1 /\ clock \in Nat
    BY DEF RowInv, TypeOK, Create
<1>5. node = None BY <1>4 DEF RowInv, TypeOK, Row
<1>6. node' \in Row(used') /\ node' # None
  <2>1. node' \in Row(used') /\ node' \in Row(Nat) BY <1>1, <1>4 DEF Row
  <2> QED BY <2>1, NoneAssumption
<1>7. \A q \in Saves : ~Undecided(q) /\ ~Undecided(q)'
    BY <1>2, <1>3, <1>4 DEF RowInv, Only, CreatedFirst, Undecided
<1>8. OneHasTheRow' BY <1>7 DEF OneHasTheRow, Locked, Undecided
<1>9. StartsAreFresh'
  <2>1. pins' = pins /\ pins \subseteq 1..clock BY DEF RowInv, TypeOK, Create
  <2>2. pins' \cap used' = {} BY <1>4, <2>1
  <2> QED BY <1>7, <2>2 DEF StartsAreFresh, Began, Undecided
<1>10. CreatedFirst' BY <1>2, <1>3, <1>4, <1>7 DEF RowInv, Only, CreatedFirst, Undecided
<1>11. TypeOK'
  <2>1. \A q \in Saves : InTrain(q)' => job'[q].body \in Bodies
      BY <1>2, <1>3 DEF RowInv, TypeOK, Only, InTrain
  <2>2. clock' \in Nat /\ used' \subseteq 1..clock' BY <1>4
  <2>3. pins' \subseteq 1..clock' BY <1>4 DEF RowInv, TypeOK, Create
  <2> QED BY <1>2, <1>6, <2>1, <2>2, <2>3 DEF RowInv, TypeOK, Only, Create
<1>12. Promise!Create
  <2>1. Want' = Want /\ Verdict' = Verdict
      BY <1>2, <1>3, <1>7 DEF Only, Want, Verdict
  <2>2. Text = None BY <1>5 DEF Text
  <2>3. Text' \in [body : Bodies, status : Statuses] BY <1>1, <1>6 DEF Text
  <2>4. Ver' = clock + 1 BY <1>1, <1>6 DEF Ver
  <2>5. Promise!NewVersion BY <1>4, <2>4 DEF Promise!NewVersion
  <2> QED BY <1>4, <2>1, <2>2, <2>3, <2>5 DEF Promise!Create
<1> QED BY <1>8, <1>9, <1>10, <1>11, <1>12 DEF RowInv, Mapped, Promise!Next

(* The others.                                                             *)
LEMMA PinBeginStep ==
    ASSUME RowInv, PinBegin
    PROVE  RowInv' /\ Mapped
<1>1. /\ UNCHANGED <<node, used, job, target, links, versions, held, cut, loose, steady>>
      /\ clock' = clock + 1 /\ pins' = pins \cup {clock + 1}
    BY DEF PinBegin
<1>2. clock \in Nat /\ used \subseteq 1..clock /\ pins \subseteq 1..clock
    BY DEF RowInv, TypeOK
<1>3. OneHasTheRow' /\ CreatedFirst'
    BY <1>1 DEF RowInv, OneHasTheRow, Locked, CreatedFirst, Undecided
<1>4. StartsAreFresh'
  <2>1. \A r \in Saves : Began(r)' <=> Began(r) BY <1>1 DEF Began
  <2>2. pins' \cap used' = {} BY <1>1, <1>2 DEF RowInv, StartsAreFresh
  <2>3. \A r \in Saves : Began(r)' => /\ job'[r].start \in 1..clock'
                                     /\ job'[r].start \notin pins'
      BY <1>1, <1>2, <2>1 DEF RowInv, StartsAreFresh
  <2> QED BY <1>1, <2>1, <2>2, <2>3 DEF RowInv, StartsAreFresh
<1>5. TypeOK'
  <2>1. clock' \in Nat /\ used' \subseteq 1..clock' /\ pins' \subseteq 1..clock'
      BY <1>1, <1>2
  <2> QED BY <1>1, <2>1 DEF RowInv, TypeOK, InTrain
<1>6. Mapped BY <1>1 DEF Mapped, Promise!vars, Text, Ver, Want, Verdict, Undecided
<1> QED BY <1>3, <1>4, <1>5, <1>6 DEF RowInv

(* A pin's version may be older than the node's: no save has it.           *)
LEMMA PinStep ==
    ASSUME RowInv, NEW p \in pins, Pin(p)
    PROVE  RowInv' /\ Mapped
<1>1. /\ UNCHANGED <<clock, job, target, links, versions, held, cut, loose, steady>>
      /\ ~Locked /\ pins' = pins \ {p}
    BY DEF Pin
<1>2. clock \in Nat /\ used \subseteq 1..clock /\ p \in 1..clock /\ p \notin used
    BY DEF RowInv, TypeOK, StartsAreFresh
<1>3. CASE node = None
  <2>1. UNCHANGED <<node, used>> BY <1>3 DEF Pin
  <2>2. OneHasTheRow' /\ StartsAreFresh' /\ CreatedFirst'
      BY <1>1, <2>1
      DEF RowInv, OneHasTheRow, Locked, StartsAreFresh, Began, CreatedFirst, Undecided
  <2>3. TypeOK' BY <1>1, <2>1 DEF RowInv, TypeOK, InTrain
  <2>4. Mapped BY <1>1, <2>1 DEF Mapped, Promise!vars, Text, Ver, Want, Verdict, Undecided
  <2> QED BY <2>2, <2>3, <2>4 DEF RowInv
<1>4. CASE node # None
  <2>1. node' = [node EXCEPT !.ver = p] /\ used' = used \cup {p} BY <1>4 DEF Pin
  <2>2. node.body \in Bodies /\ node.status \in Statuses /\ node \in Row(used)
      BY <1>4 DEF RowInv, TypeOK, Row
  <2>3. /\ node' \in Row(used') /\ node'.body = node.body /\ node'.status = node.status
        /\ node'.ver = p
      BY <2>1, <2>2 DEF Row
  <2>4. node' # None
    <3>1. node' \in Row(Nat) BY <1>2, <2>2, <2>3 DEF Row
    <3> QED BY <3>1, NoneAssumption
  <2>5. OneHasTheRow' BY <1>1, <2>4 DEF RowInv, OneHasTheRow, Locked
  <2>6. StartsAreFresh' BY <1>1, <2>1 DEF RowInv, StartsAreFresh, Began
  <2>7. CreatedFirst' BY <1>1, <2>1 DEF RowInv, CreatedFirst, Undecided
  <2>8. TypeOK'
    <3>1. used' \subseteq 1..clock BY <1>2, <2>1
    <3> QED BY <1>1, <2>3, <3>1 DEF RowInv, TypeOK, InTrain
  <2>9. Promise!Touch
    <3>1. Want' = Want /\ Verdict' = Verdict BY <1>1 DEF Want, Verdict, Undecided
    <3>2. Text # None /\ Text' = Text
        BY <1>4, <2>3, <2>4, TextIsNone DEF RowInv, Text
    <3>3. Ver' = p BY <2>3, <2>4 DEF Ver
    <3>4. Promise!NewVersion BY <1>2, <2>1, <3>3 DEF Promise!NewVersion
    <3> QED BY <3>1, <3>2, <3>4 DEF Promise!Touch
  <2> QED BY <2>5, <2>6, <2>7, <2>8, <2>9 DEF RowInv, Mapped, Promise!Next
<1> QED BY <1>3, <1>4

LEMMA DeleteNodeStep ==
    ASSUME RowInv, DeleteNode
    PROVE  RowInv' /\ Mapped
<1>1. /\ node # None /\ ~Locked /\ node' = None /\ links' = {} /\ versions' = <<>>
      /\ UNCHANGED <<clock, job, used, pins>>
    BY DEF DeleteNode
<1>2. OneHasTheRow' /\ StartsAreFresh' /\ CreatedFirst'
    BY <1>1 DEF RowInv, OneHasTheRow, Locked, StartsAreFresh, Began, CreatedFirst, Undecided
<1>3. TypeOK' BY <1>1 DEF RowInv, TypeOK, InTrain, DeleteNode
<1>4. Promise!Delete
  <2>1. Want' = Want /\ Verdict' = Verdict BY <1>1 DEF Want, Verdict, Undecided
  <2>2. Text # None BY <1>1, TextIsNone DEF RowInv
  <2>3. Text' = None /\ Ver' = 0 BY <1>1 DEF Text, Ver
  <2> QED BY <1>1, <2>1, <2>2, <2>3 DEF Promise!Delete
<1> QED BY <1>2, <1>3, <1>4 DEF RowInv, Mapped, Promise!Next

(* What is done to a target is nothing to the row.                         *)
LEMMA TargetStep ==
    ASSUME RowInv, NEW t \in Targets, Retitle(t) \/ DeleteTarget(t)
    PROVE  RowInv' /\ Mapped
<1>1. UNCHANGED <<node, versions, clock, job, used, pins, held, cut, loose>>
    BY DEF Retitle, DeleteTarget
<1>2. OneHasTheRow' /\ StartsAreFresh' /\ CreatedFirst'
    BY <1>1 DEF RowInv, OneHasTheRow, Locked, StartsAreFresh, Began, CreatedFirst, Undecided
<1>3. /\ target' \in [Targets -> {"unborn", "found", "hidden", "gone"}]
      /\ steady' \subseteq Targets /\ links' \subseteq links
    BY DEF RowInv, TypeOK, Retitle, DeleteTarget
<1>4. TypeOK' BY <1>1, <1>3 DEF RowInv, TypeOK, InTrain
<1>5. Mapped BY <1>1 DEF Mapped, Promise!vars, Text, Ver, Want, Verdict, Undecided
<1> QED BY <1>2, <1>4, <1>5 DEF RowInv

LEMMA CrashStep ==
    ASSUME RowInv, Crash
    PROVE  RowInv' /\ Mapped
<1>1. /\ UNCHANGED <<node, used, clock, pins, target, links, versions, held, steady>>
      /\ job' = [r \in Saves |-> [Idle EXCEPT !.verdict = job[r].verdict]]
    BY DEF Crash
<1>2. job' \in [Saves -> Job]
  <2>1. \A r \in Saves : [Idle EXCEPT !.verdict = job[r].verdict] \in Job
      BY Verdicts DEF RowInv, Idle, Nothing, Job, Places, Fields
  <2> QED BY <1>1, <2>1
<1>3. \A r \in Saves : /\ job'[r].at = "idle" /\ job'[r].kind = "save"
                       /\ job'[r].verdict = job[r].verdict
    BY <1>1 DEF Idle
<1>4. \A r \in Saves : ~Undecided(r)' /\ ~InTrain(r)' /\ ~Began(r)'
    BY <1>3 DEF Undecided, InTrain, Began
<1>5. OneHasTheRow' BY <1>3 DEF OneHasTheRow, Locked
<1>6. StartsAreFresh' BY <1>1, <1>4 DEF RowInv, StartsAreFresh
<1>7. CreatedFirst' BY <1>1, <1>3, <1>4 DEF RowInv, CreatedFirst
<1>8. TypeOK'
  <2>1. cut' \subseteq Bodies /\ loose' \in BOOLEAN BY DEF RowInv, TypeOK, Crash
  <2> QED BY <1>1, <1>2, <1>4, <2>1 DEF RowInv, TypeOK
<1>9. Promise!Abandon
  <2>1. Text' = Text /\ Ver' = Ver BY <1>1 DEF Text, Ver
  <2>2. Want' = [q \in Saves |-> IF q \in Saves THEN None ELSE Want[q]]
      BY <1>4 DEF Want
  <2>3. Verdict' = Verdict BY <1>3 DEF Verdict
  <2> QED BY <1>1, <2>1, <2>2, <2>3 DEF Promise!Abandon
<1> QED BY <1>5, <1>6, <1>7, <1>8, <1>9 DEF RowInv, Mapped, Promise!Next

LEMMA Stuttering == ASSUME RowInv, UNCHANGED vars PROVE RowInv' /\ Mapped
<1>1. TypeOK' BY DEF RowInv, TypeOK, InTrain, vars
<1>2. OneHasTheRow' /\ StartsAreFresh' /\ CreatedFirst'
    BY DEF RowInv, OneHasTheRow, Locked, StartsAreFresh, Began, CreatedFirst, Undecided, vars
<1>3. Mapped BY DEF Mapped, Promise!vars, Text, Ver, Want, Verdict, Undecided, vars
<1> QED BY <1>1, <1>2, <1>3 DEF RowInv

LEMMA NextStep == RowInv /\ [Next]_vars => RowInv' /\ Mapped
<1> SUFFICES ASSUME RowInv, [Next]_vars PROVE RowInv' /\ Mapped
    OBVIOUS
<1>1. CASE \E r \in Saves : \/ Create(r) \/ Send(r) \/ Begin(r) \/ Lock(r)
                            \/ Apply(r) \/ Stale(r) \/ UpdateFails(r) \/ CommitUnanswered(r)
                            \/ Resolve(r) \/ SyncBegin(r) \/ SyncEnd(r) \/ SyncFails(r)
                            \/ ListVersions(r) \/ Record(r) \/ RecordFails(r)
    BY <1>1, CreateStep, SendStep, BeginStep, LockStep, ApplyStep,
       StaleStep, UpdateFailsStep, CommitUnansweredStep, ResolveStep, SyncBeginStep,
       SyncEndStep, SyncFailsStep, ListVersionsStep, RecordStep, RecordFailsStep
<1>2. CASE PinBegin \/ \E p \in pins : Pin(p) BY <1>2, PinBeginStep, PinStep
<1>3. CASE DeleteNode BY <1>3, DeleteNodeStep
<1>4. CASE Crash BY <1>4, CrashStep
<1>5. CASE \E t \in Targets : Retitle(t) \/ DeleteTarget(t) BY <1>5, TargetStep
<1>6. CASE UNCHANGED vars BY <1>6, Stuttering
<1> QED BY <1>1, <1>2, <1>3, <1>4, <1>5, <1>6 DEF Next

LEMMA InitStep == Init => RowInv /\ Promise!Init
<1> SUFFICES ASSUME Init PROVE RowInv /\ Promise!Init
    OBVIOUS
<1>1. Idle \in Job BY DEF Idle, Nothing, Job, Places, Fields
<1>2. \A r \in Saves : job[r] = Idle /\ Idle.at = "idle" /\ Idle.verdict = "none"
    BY DEF Init, Idle
<1>3. \A r \in Saves : ~Undecided(r) /\ ~InTrain(r) /\ ~Began(r) /\ job[r].at # "locked"
    BY <1>2 DEF Undecided, InTrain, Began
<1>4. TypeOK
  <2>1. job \in [Saves -> Job] BY <1>1 DEF Init
  <2>2. versions \in Seq(Bodies) BY DEF Init
  <2> QED BY <1>3, <2>1, <2>2 DEF Init, TypeOK
<1>5. OneHasTheRow /\ StartsAreFresh BY <1>3 DEF Init, OneHasTheRow, Locked, StartsAreFresh
<1>6. CreatedFirst BY <1>2, <1>3 DEF CreatedFirst
<1>7. Promise!Init BY <1>2, <1>3 DEF Promise!Init, Init, Text, Ver, Want, Verdict
<1> QED BY <1>4, <1>5, <1>6, <1>7 DEF RowInv

----------------------------------------------------------------------------
(* What becomes of a request in each step, as the parts below need it.     *)

(* What a request within its train changes of itself.                      *)
Same(r) == /\ \A q \in Saves : q # r => job'[q] = job[q]
           /\ job'[r].kind = job[r].kind /\ job'[r].body = job[r].body

LEMMA Resolves ==
    ASSUME TypeOK, NEW r \in Saves, Resolve(r)
    PROVE  /\ Same(r) /\ job'[r].at = "resolved" /\ job'[r].latest = job[r].latest
           /\ job'[r].found = LinksOf[job[r].body] \cap Titled
BY DEF TypeOK, Job, Resolve, Same

LEMMA SyncsBegin ==
    ASSUME TypeOK, NEW r \in Saves, SyncBegin(r)
    PROVE  /\ Same(r) /\ job'[r].at = "syncing" /\ job'[r].latest = job[r].latest
           /\ job'[r].found = job[r].found /\ job'[r].seen = links
BY DEF TypeOK, Job, SyncBegin, Same

LEMMA Begins ==
    ASSUME TypeOK, NEW r \in Saves, Begin(r)
    PROVE  /\ Same(r) /\ job'[r].at = "begun" /\ job'[r].latest = job[r].latest
BY DEF TypeOK, Job, Begin, Same

LEMMA Sends ==
    ASSUME TypeOK, NEW r \in Saves, Send(r)
    PROVE  /\ \A q \in Saves : q # r => job'[q] = job[q]
           /\ job'[r].at = "sent" /\ job'[r].latest = Keep
<1>1. PICK kind, w : Ask(r, kind, w) BY DEF Send
<1> QED BY <1>1 DEF TypeOK, Ask, Idle

LEMMA Creates ==
    ASSUME TypeOK, NEW r \in Saves, Create(r)
    PROVE  /\ \A q \in Saves : q # r => job'[q] = job[q]
           /\ job'[r].at = "applied" /\ job'[r].latest = job[r].latest
           /\ job'[r].kind = "create" /\ job'[r].body = node'.body
BY DEF TypeOK, Job, Create

LEMMA Locks ==
    ASSUME TypeOK, NEW r \in Saves, Lock(r), node # None
    PROVE  /\ Same(r) /\ job'[r].at = "locked" /\ job'[r].was = node.status
           /\ job'[r].latest = job[r].latest
BY DEF TypeOK, Job, Lock, Same

LEMMA Applied ==
    ASSUME TypeOK, NEW r \in Saves, Apply(r)
    PROVE  /\ \A q \in Saves : q # r => job'[q] = job[q]
           /\ job'[r].at = "applied" /\ job'[r].latest = job[r].latest
           /\ job'[r].kind = job[r].kind /\ job'[r].body = node'.body
BY DEF TypeOK, Job, Apply

LEMMA Listed ==
    ASSUME TypeOK, NEW r \in Saves, ListVersions(r)
    PROVE  /\ Same(r) /\ job'[r].at = "recording"
           /\ job'[r].latest \in {job[r].latest, Keep, Latest}
BY DEF TypeOK, Job, ListVersions, Goto, Same

LEMMA Synced ==
    ASSUME TypeOK, NEW r \in Saves, SyncEnd(r), Goto(r, "synced")
    PROVE  /\ Same(r) /\ job'[r].at = "synced" /\ job'[r].latest = job[r].latest
BY DEF TypeOK, Job, Goto, Same

----------------------------------------------------------------------------
(* The status log.                                                         *)

(* StatusBefore is what the entry last before ended at.                    *)
LEMMA StatusBeforeIs ==
    ASSUME NEW t \in Nat, \A e \in log : e.at \in Nat,
           \A e, f \in log : e.at = f.at => e = f,
           NEW l \in log, LastBefore(t, l)
    PROVE  StatusBefore(t) = l.to
<1> DEFINE earlier == {e \in log : e.at < t}
           P(e) == \A f \in earlier : f.at <= e.at
<1>1. l \in earlier /\ P(l) BY DEF LastBefore
<1>2. \A e \in earlier : P(e) => e = l
  <2> SUFFICES ASSUME NEW e \in earlier, P(e) PROVE e = l
    OBVIOUS
  <2>1. l.at <= e.at /\ e.at <= l.at BY <1>1
  <2> QED BY <2>1
<1>3. (CHOOSE e \in earlier : P(e)) = l BY <1>1, <1>2
<1> QED BY <1>3 DEF StatusBefore

LEMMA ChainHolds == ASSUME RowInv, LogSound PROVE StatusChain
<1> SUFFICES ASSUME node # None PROVE StatusChain
    BY DEF StatusChain
<1>1. clock + 1 \in Nat /\ \A e \in log : e.at \in Nat
    BY DEF RowInv, TypeOK, LogSound
<1>2. node.status = StatusBefore(clock + 1) BY <1>1, StatusBeforeIs DEF LogSound
<1>3. ASSUME NEW e \in log, e.at # 0 PROVE e.from = StatusBefore(e.at)
  <2>1. PICK p \in log : LastBefore(e.at, p) /\ p.to = e.from BY <1>3 DEF LogSound
  <2> QED BY <1>1, <2>1, StatusBeforeIs DEF LogSound
<1> QED BY <1>2, <1>3 DEF StatusChain

(* A step that leaves the log alone, and the status with it.               *)
LEMMA LogKept ==
    ASSUME RowInv, LogSound, UNCHANGED log, clock' \in {clock, clock + 1},
           node' = None \/ (node # None /\ node'.status = node.status),
           \A q \in Saves : job'[q].at = "locked" =>
               /\ job[q].at = "locked" /\ job'[q] = job[q]
               /\ node'.status = node.status
    PROVE  LogSound'
<1>1. clock \in Nat /\ \A e \in log : e.at \in 0..clock BY DEF RowInv, TypeOK, LogSound
<1>2. \A e \in log' : e.at \in 0..clock' BY <1>1
<1>3. \A t, e : LastBefore(t, e)' <=> LastBefore(t, e) BY DEF LastBefore
<1>4. \A e \in log : LastBefore(clock + 1, e) => LastBefore(clock + 1, e)'
    BY <1>1 DEF LastBefore
<1>5. node' # None => \E e \in log' : LastBefore(clock + 1, e)' /\ e.to = node'.status
    BY <1>4 DEF LogSound
<1>6. node' # None =>
        \A e \in log' : e.at # 0 => \E p \in log' : LastBefore(e.at, p)' /\ p.to = e.from
    BY <1>3 DEF LogSound
<1>7. \A q \in Saves : job'[q].at = "locked" => job'[q].was = node'.status
    BY DEF LogSound
<1> QED BY <1>2, <1>5, <1>6, <1>7 DEF LogSound

LEMMA LogStored ==
    ASSUME RowInv, LogSound, NEW r \in Saves, job[r].at = "locked", Store(r),
           \A q \in Saves : q # r => job'[q] = job[q], job'[r].at # "locked"
    PROVE  LogSound'
<1> DEFINE s == Or(job[r].want.status, node.status)
<1>1. node # None /\ node' # None /\ node'.status = s /\ clock' = clock + 1 /\ clock \in Nat
      /\ job[r].was = node.status
    BY Stored DEF RowInv, TypeOK, LogSound, Store
<1>2. \A q \in Saves : job'[q].at # "locked" BY DEF RowInv, OneHasTheRow
<1>3. CASE s = node.status
    BY <1>1, <1>2, <1>3, LogKept DEF Store
<1>4. CASE s # node.status
  <2>0. PICK new : new = [from |-> node.status, to |-> s, at |-> clock + 1]
    OBVIOUS
  <2>1. log' = log \cup {new}
    BY <1>1, <1>4, <2>0 DEF Store, Stamp
  <2>2. new.at = clock + 1 /\ new.from = node.status /\ new.to = s
    BY <2>0
  <2>3. \A e \in log : e.at \in 0..clock BY DEF LogSound
  <2>4. \A e \in log' : e.at \in 0..clock' BY <1>1, <2>1, <2>2, <2>3
  <2>5. \A e, f \in log' : e.at = f.at => e = f
      BY <1>1, <2>1, <2>2, <2>3 DEF LogSound
  <2>6. LastBefore(clock + 1, new)' BY <1>1, <2>1, <2>2, <2>3 DEF LastBefore
  <2>7. \A t \in 0..(clock + 1), e \in log : LastBefore(t, e) => LastBefore(t, e)'
      BY <1>1, <2>1, <2>2, <2>3 DEF LastBefore
  <2>8. ASSUME NEW e \in log', e.at # 0
        PROVE \E p \in log' : LastBefore(e.at, p)' /\ p.to = e.from
    <3>1. CASE e = new
      <4>1. PICK p \in log : LastBefore(clock + 1, p) /\ p.to = node.status
          BY <1>1 DEF LogSound
      <4> QED BY <1>1, <2>1, <2>2, <2>7, <3>1, <4>1
    <3>2. CASE e \in log
      <4>1. PICK p \in log : LastBefore(e.at, p) /\ p.to = e.from
          BY <1>1, <2>8, <3>2 DEF LogSound
      <4>2. e.at \in 0..(clock + 1) BY <1>1, <2>3, <3>2
      <4> QED BY <2>1, <2>7, <4>1, <4>2
    <3> QED BY <2>1, <3>1, <3>2
  <2> QED BY <1>1, <1>2, <2>1, <2>2, <2>4, <2>5, <2>6, <2>8 DEF LogSound
<1> QED BY <1>3, <1>4

(* A request that is not under its transaction's lock afterwards.          *)
LEMMA LogUnlocked ==
    ASSUME RowInv, LogSound, NEW r \in Saves, UNCHANGED <<node, log>>,
           clock' \in {clock, clock + 1},
           \A q \in Saves : q # r => job'[q] = job[q], job'[r].at # "locked"
    PROVE  LogSound'
<1>1. \A q \in Saves : job'[q].at = "locked" => job[q].at = "locked" /\ job'[q] = job[q]
    OBVIOUS
<1>2. \A q \in Saves : job[q].at = "locked" => node # None
    BY DEF RowInv, OneHasTheRow, Locked
<1> QED BY <1>1, <1>2, LogKept

LEMMA LogOfSaves ==
    ASSUME RowInv, LogSound, NEW r \in Saves,
           \/ Create(r) \/ Send(r) \/ Begin(r) \/ Lock(r)
           \/ Apply(r) \/ Stale(r) \/ UpdateFails(r) \/ CommitUnanswered(r)
           \/ Resolve(r) \/ SyncBegin(r) \/ SyncEnd(r) \/ SyncFails(r)
           \/ ListVersions(r) \/ Record(r) \/ RecordFails(r)
    PROVE  LogSound'
<1> USE DEF RowInv
<1>1. CASE Create(r)
  <2>1. PICK s \in Statuses : node'.status = s /\ log' = {[from |-> s, to |-> s, at |-> 0]}
      BY <1>1 DEF Create
  <2>2. clock \in Nat /\ clock' = clock + 1 BY <1>1 DEF TypeOK, Create
  <2>3. \A q \in Saves : job'[q].at # "locked"
    <3>1. job'[r].at = "applied" /\ \A q \in Saves : q # r => job'[q] = job[q]
        BY <1>1, Creates
    <3>2. used = {} BY <1>1 DEF Create
    <3>3. \A q \in Saves : job[q].at # "locked" BY <3>2 DEF CreatedFirst, Undecided
    <3> QED BY <3>1, <3>3
  <2>4. PICK e : e = [from |-> s, to |-> s, at |-> 0]
      OBVIOUS
  <2>5. e.at = 0 /\ e.to = node'.status /\ log' = {e} BY <2>1, <2>4
  <2>6. LastBefore(clock + 1, e)' BY <2>2, <2>5 DEF LastBefore
  <2> QED BY <2>2, <2>3, <2>5, <2>6 DEF LogSound
<1>2. CASE Send(r) BY <1>2, Sends, LogUnlocked DEF Send
<1>3. CASE Begin(r) BY <1>3, Begins, LogUnlocked DEF Begin, Same
<1>4. CASE Lock(r)
  <2>1. CASE node = None
    <3>1. End(r, "missing") /\ UNCHANGED <<node, log, clock>> BY <1>4, <2>1 DEF Lock
    <3> QED BY <3>1, Ended, LogUnlocked DEF Only
  <2>2. CASE node # None
    <3>1. /\ Same(r) /\ job'[r].at = "locked" /\ job'[r].was = node.status
          /\ UNCHANGED <<node, log, clock>> /\ ~Locked
        BY <1>4, <2>2, Locks DEF Lock
    <3>2. \A q \in Saves : job'[q].at = "locked" => job'[q].was = node'.status
        BY <3>1 DEF Same, Locked
    <3> QED BY <3>1, <3>2 DEF LogSound, LastBefore
  <2> QED BY <2>1, <2>2
<1>5. CASE Apply(r) BY <1>5, Applied, LogStored DEF Apply
<1>6. CASE Stale(r) BY <1>6, Ended, LogUnlocked DEF Stale, Only
<1>7. CASE UpdateFails(r) BY <1>7, Ended, Verdicts, LogUnlocked DEF UpdateFails, Only
<1>8. CASE CommitUnanswered(r) BY <1>8, Ended, LogStored DEF CommitUnanswered, Only
<1>9. CASE Resolve(r) BY <1>9, Resolves, LogUnlocked DEF Resolve, Same
<1>10. CASE SyncBegin(r) BY <1>10, SyncsBegin, LogUnlocked DEF SyncBegin, Same
<1>11. CASE SyncEnd(r)
  <2>1. /\ UNCHANGED <<node, log, clock>>
        /\ job[r].kind = "create" => job[r].verdict = "none"
      BY <1>11 DEF SyncEnd, CreatedFirst
  <2>2. CASE Goto(r, "synced") BY <1>11, <2>1, <2>2, Synced, LogUnlocked DEF Same
  <2>3. CASE ~Goto(r, "synced")
    <3>1. End(r, job[r].verdict) BY <1>11, <2>1, <2>3 DEF SyncEnd, CreatedFirst
    <3> QED BY <2>1, <3>1, Ended, Verdicts, LogUnlocked DEF Only
  <2> QED BY <2>2, <2>3
<1>12. CASE SyncFails(r) BY <1>12, Ended, Verdicts, LogUnlocked DEF SyncFails, Only
<1>13. CASE ListVersions(r) BY <1>13, Listed, LogUnlocked DEF ListVersions, Same
<1>14. CASE Record(r) BY <1>14, Ended, Verdicts, LogUnlocked DEF Record, Only
<1>15. CASE RecordFails(r) BY <1>15, Ended, Verdicts, LogUnlocked DEF RecordFails, Only
<1> QED BY <1>1, <1>2, <1>3, <1>4, <1>5, <1>6, <1>7, <1>8, <1>9, <1>10, <1>11, <1>12,
           <1>13, <1>14, <1>15

LEMMA LogStep == ASSUME RowInv, LogSound, [Next]_vars PROVE LogSound'
<1> USE DEF RowInv
<1>1. CASE \E r \in Saves : \/ Create(r) \/ Send(r) \/ Begin(r) \/ Lock(r)
                            \/ Apply(r) \/ Stale(r) \/ UpdateFails(r) \/ CommitUnanswered(r)
                            \/ Resolve(r) \/ SyncBegin(r) \/ SyncEnd(r) \/ SyncFails(r)
                            \/ ListVersions(r) \/ Record(r) \/ RecordFails(r)
    BY <1>1, LogOfSaves
<1>2. CASE PinBegin
  <2>1. UNCHANGED <<node, log, job>> /\ clock' = clock + 1 /\ node # None
      BY <1>2 DEF PinBegin
  <2> QED BY <2>1, LogKept
<1>7. CASE \E p \in pins : Pin(p)
  <2>1. PICK p \in pins : Pin(p) BY <1>7
  <2>2. UNCHANGED <<log, job, clock>> BY <2>1 DEF Pin
  <2>3. CASE node = None
    <3>1. UNCHANGED node BY <2>1, <2>3 DEF Pin
    <3> QED BY <2>2, <3>1 DEF LogSound, LastBefore
  <2>4. CASE node # None
    <3>1. node'.status = node.status BY <2>1, <2>4 DEF Pin, TypeOK, Row
    <3> QED BY <2>2, <2>4, <3>1, LogKept
  <2> QED BY <2>3, <2>4
<1>3. CASE DeleteNode
  <2>1. log' = {} /\ node' = None /\ UNCHANGED job /\ ~Locked BY <1>3 DEF DeleteNode
  <2> QED BY <2>1 DEF LogSound, Locked
<1>4. CASE Crash
  <2>1. \A q \in Saves : job'[q].at = "idle" BY <1>4 DEF Crash, Idle
  <2> QED BY <1>4, <2>1 DEF Crash, LogSound, LastBefore
<1>5. CASE (\E t \in Targets : Retitle(t) \/ DeleteTarget(t)) \/ UNCHANGED vars
  <2>1. UNCHANGED <<node, log, clock, job>> BY <1>5 DEF Retitle, DeleteTarget, vars
  <2> QED BY <2>1 DEF LogSound, LastBefore
<1> QED BY <1>1, <1>2, <1>3, <1>4, <1>5, <1>7 DEF Next

----------------------------------------------------------------------------
(* The History.                                                            *)

(* A step of one request, when the body it was to record is recorded, left *)
(* for its train or given up.                                              *)
Records(r, b) == InTrain(r) /\ job[r].body = b /\ job[r].kind # "create"
LEMMA HistoryKept ==
    ASSUME HistorySound, NEW r \in Saves, used' # {},
           \A q \in Saves : q # r => job'[q] = job[q],
           job'[r].latest # Keep => job'[r].at = "recording",
           node' # None =>
              /\ node # None /\ ToSet(versions) \subseteq ToSet(versions')
              /\ job'[r].latest \in {Keep} \cup ToSet(versions')
              /\ \A b \in held' \ cut' : \/ b \in held \ cut /\ ~Records(r, b)
                                         \/ b \in ToSet(versions') \/ Records(r, b)'
    PROVE  HistorySound'
<1>1. HistoryKeepsBodies'
  <2> SUFFICES ASSUME node' # None, NEW b \in held' \ cut', b \notin ToSet(versions')
               PROVE  \E q \in Saves : Records(q, b)'
      BY DEF HistoryKeepsBodies, Records
  <2>1. CASE b \in held \ cut /\ ~Records(r, b)
    <3>1. PICK q \in Saves : Records(q, b)
        BY <2>1 DEF HistorySound, HistoryKeepsBodies, Records
    <3>2. Records(q, b)' BY <2>1, <3>1 DEF Records, InTrain
    <3> QED BY <3>2
  <2> QED BY <2>1
<1>2. node' # None => \A q \in Saves : job'[q].latest \in {Keep} \cup ToSet(versions')
    BY DEF HistorySound
<1>3. \A q \in Saves : job'[q].latest # Keep => job'[q].at = "recording"
    BY DEF HistorySound
<1> QED BY <1>1, <1>2, <1>3 DEF HistorySound

(* A request that is not in a train, or stays in it with what it had.      *)
LEMMA HistoryOfOthers ==
    ASSUME HistorySound, NEW r \in Saves, used # {},
           UNCHANGED <<node, versions, held, cut, used>>,
           \A q \in Saves : q # r => job'[q] = job[q],
           \/ job'[r].latest = Keep
           \/ job[r].at # "recording" /\ job'[r].latest = job[r].latest,
           \A b : Records(r, b) => Records(r, b)'
    PROVE  HistorySound'
<1>1. job'[r].latest = Keep BY DEF HistorySound
<1> QED BY <1>1, HistoryKept

LEMMA SnapshotKept ==
    ASSUME TypeOK, NEW b \in Bodies
    PROVE  /\ ToSet(Append(versions, b)) = ToSet(versions) \cup {b}
           /\ Append(versions, b) # <<>> /\ Last(Append(versions, b)) = b
           /\ Latest \in {Keep} \cup ToSet(versions)
<1>1. versions \in Seq(Bodies) BY DEF TypeOK
<1> DEFINE v == Append(versions, b)
           n == Len(versions)
<1>2. /\ n \in Nat /\ Len(v) = n + 1 /\ v[n + 1] = b
      /\ \A i \in 1..n : v[i] = versions[i]
    BY <1>1
<1>3. DOMAIN versions = 1..n /\ DOMAIN v = 1..(n + 1) BY <1>1
<1>4. ToSet(v) = ToSet(versions) \cup {b}
  <2>1. ToSet(v) = {v[i] : i \in 1..(n + 1)} BY <1>3 DEF ToSet
  <2>2. ToSet(versions) = {versions[i] : i \in 1..n} BY <1>3 DEF ToSet
  <2>3. 1..(n + 1) = (1..n) \cup {n + 1} BY <1>2
  <2> HIDE DEF v, n
  <2> QED BY <1>2, <2>1, <2>2, <2>3
<1>5. v # <<>> /\ Last(v) = b BY <1>1, <1>2 DEF Last
<1>6. Latest \in {Keep} \cup ToSet(versions)
  <2>1. CASE versions = <<>> BY <2>1 DEF Latest
  <2>2. CASE versions # <<>>
    <3>1. n \in DOMAIN versions BY <1>1, <2>2
    <3> QED BY <2>2, <3>1 DEF Latest, Last, ToSet
  <2> QED BY <2>1, <2>2
<1> QED BY <1>4, <1>5, <1>6

(* A train that a failure ends gives its body up.                          *)
LEMMA HistoryOfFailed ==
    ASSUME RowInv, HistorySound, NEW r \in Saves, used # {}, Cut(r), End(r, job[r].verdict),
           UNCHANGED <<node, versions, held, used>>
    PROVE  HistorySound'
<1>1. /\ \A q \in Saves : q # r => job'[q] = job[q]
      /\ job'[r].latest = Keep
    BY Ended, Verdicts DEF RowInv, Only
<1>2. \A b \in held' \ cut' : b \in held \ cut /\ ~Records(r, b)
    BY DEF Cut, Records
<1> QED BY <1>1, <1>2, HistoryKept

(* A commit that gives the node a body.                                    *)
LEMMA HistoryStored ==
    ASSUME HistorySound, NEW r \in Saves, job[r].at = "locked", Store(r),
           node # None,
           \A q \in Saves : q # r => job'[q] = job[q],
           job'[r].latest = Keep, cut \subseteq cut',
           \A b : b = node'.body => b \in cut' \/ Records(r, b)'
    PROVE  HistorySound'
<1>1. /\ UNCHANGED versions /\ held' = held \cup {node'.body} /\ used' # {}
    BY DEF Store
<1>2. \A b : ~Records(r, b) BY DEF Records, InTrain
<1>3. \A b \in held' \ cut' : (b \in held \ cut /\ ~Records(r, b)) \/ Records(r, b)'
    BY <1>1, <1>2
<1> QED BY <1>1, <1>3, HistoryKept

LEMMA HistoryOfSaves ==
    ASSUME RowInv, HistorySound, NEW r \in Saves,
           \/ Create(r) \/ Send(r) \/ Begin(r) \/ Lock(r)
           \/ Apply(r) \/ Stale(r) \/ UpdateFails(r) \/ CommitUnanswered(r)
           \/ Resolve(r) \/ SyncBegin(r) \/ SyncEnd(r) \/ SyncFails(r)
           \/ ListVersions(r) \/ Record(r) \/ RecordFails(r)
    PROVE  HistorySound'
<1> USE DEF RowInv
<1>0. job[r].at # "idle" => used # {} BY DEF HistorySound
<1>1. CASE Create(r)
  <2>1. /\ \A q \in Saves : q # r => job'[q] = job[q]
        /\ job'[r].at = "applied" /\ job'[r].latest = job[r].latest
      BY <1>1, Creates
  <2>2. /\ used = {} /\ used' # {} /\ held' = {} /\ job[r].at = "idle"
      BY <1>1 DEF Create, HistorySound
  <2>3. \A q \in Saves : job'[q].latest = Keep
      BY <2>1, <2>2 DEF HistorySound
  <2> QED BY <2>2, <2>3 DEF HistorySound, HistoryKeepsBodies
<1>2. CASE Send(r)
  <2>1. used # {} /\ ~InTrain(r) BY <1>2 DEF Send, InTrain, TypeOK, Row
  <2> QED BY <1>2, <2>1, Sends, HistoryOfOthers DEF Send, Records
<1>3. CASE Begin(r)
    BY <1>0, <1>3, Begins, HistoryOfOthers DEF Begin, Same, Records, InTrain
<1>4. CASE Lock(r)
  <2>1. used # {} /\ ~InTrain(r) /\ UNCHANGED <<node, versions, held, cut, used>>
      BY <1>0, <1>4 DEF Lock, InTrain
  <2>2. CASE node = None
    <3>1. End(r, "missing") BY <1>4, <2>2 DEF Lock
    <3> QED BY <2>1, <3>1, Ended, HistoryOfOthers DEF Only, Records
  <2>3. CASE node # None
    <3>1. job[r].at # "recording" BY <1>4 DEF Lock
    <3> QED BY <1>4, <2>1, <2>3, <3>1, Locks, HistoryOfOthers DEF Same, Records
  <2> QED BY <2>2, <2>3
<1>5. CASE Apply(r)
  <2>1. /\ \A q \in Saves : q # r => job'[q] = job[q]
        /\ job'[r].at = "applied" /\ job'[r].latest = job[r].latest
        /\ job'[r].kind = job[r].kind /\ job'[r].body = node'.body
      BY <1>5, Applied
  <2>2. job[r].at = "locked" /\ Store(r) /\ cut' = cut /\ node # None
      BY <1>5 DEF Apply, OneHasTheRow, Locked
  <2>3. job'[r].latest = Keep BY <2>1, <2>2 DEF HistorySound
  <2>4. \A b : b = node'.body => Records(r, b)'
      BY <2>1, <2>2 DEF Records, InTrain, CreatedFirst, Undecided
  <2> QED BY <2>1, <2>2, <2>3, <2>4, HistoryStored
<1>6. CASE Stale(r)
    BY <1>0, <1>6, Ended, HistoryOfOthers DEF Stale, Only, Records, InTrain
<1>7. CASE UpdateFails(r)
    BY <1>0, <1>7, Ended, Verdicts, HistoryOfOthers DEF UpdateFails, Only, Records, InTrain
<1>8. CASE CommitUnanswered(r)
  <2>1. job[r].at = "locked" /\ Store(r) /\ cut' = cut \cup {node'.body} /\ node # None
      BY <1>8 DEF CommitUnanswered, OneHasTheRow, Locked
  <2> QED BY <1>8, <2>1, Ended, HistoryStored DEF CommitUnanswered, Only
<1>9. CASE Resolve(r)
  <2>1. /\ Same(r) /\ job'[r].at = "resolved" /\ job'[r].latest = job[r].latest
        /\ job[r].at = "applied" /\ UNCHANGED <<node, versions, held, cut, used>>
      BY <1>9, Resolves DEF Resolve
  <2>2. \A b : Records(r, b) => Records(r, b)' BY <2>1 DEF Records, Same, InTrain
  <2> QED BY <1>0, <2>1, <2>2, HistoryOfOthers DEF Same
<1>10. CASE SyncBegin(r)
  <2>1. /\ Same(r) /\ job'[r].at = "syncing" /\ job'[r].latest = job[r].latest
        /\ job[r].at = "resolved" /\ UNCHANGED <<node, versions, held, cut, used>>
      BY <1>10, SyncsBegin DEF SyncBegin
  <2>2. \A b : Records(r, b) => Records(r, b)' BY <2>1 DEF Records, Same, InTrain
  <2> QED BY <1>0, <2>1, <2>2, HistoryOfOthers DEF Same
<1>11. CASE SyncEnd(r)
  <2>1. used # {} /\ job[r].at = "syncing" /\ UNCHANGED <<node, versions, held, used>>
      BY <1>0, <1>11 DEF SyncEnd
  <2>2. CASE Goto(r, "synced") /\ UNCHANGED cut
      BY <1>11, <2>1, <2>2, Synced, HistoryOfOthers DEF Same, Records, InTrain
  <2>3. CASE job[r].kind = "create" /\ End(r, "none") /\ UNCHANGED cut
      BY <2>1, <2>3, Ended, HistoryOfOthers DEF Only, Records
  <2>4. CASE Cut(r) /\ End(r, job[r].verdict)
      BY <2>1, <2>4, HistoryOfFailed
  <2> QED BY <1>11, <2>2, <2>3, <2>4 DEF SyncEnd
<1>12. CASE SyncFails(r) BY <1>0, <1>12, HistoryOfFailed DEF SyncFails
<1>13. CASE ListVersions(r)
  <2>1. /\ Same(r) /\ job'[r].at = "recording"
        /\ job'[r].latest \in {job[r].latest, Keep, Latest}
        /\ UNCHANGED <<node, versions, held, cut, used>> /\ used # {}
        /\ job[r].at = "synced" /\ job[r].body \in Bodies
      BY <1>0, <1>13, Listed DEF ListVersions, TypeOK, InTrain
  <2>2. node # None => job'[r].latest \in {Keep} \cup ToSet(versions')
      BY <2>1, SnapshotKept DEF HistorySound
  <2>3. \A b : Records(r, b) => Records(r, b)' BY <2>1 DEF Records, Same, InTrain
  <2> QED BY <2>1, <2>2, <2>3, HistoryKept DEF Same
<1>14. CASE Record(r)
  <2>1. /\ \A q \in Saves : q # r => job'[q] = job[q]
        /\ job'[r].latest = Keep
        /\ UNCHANGED <<node, held, cut, used>> /\ used # {}
        /\ job[r].body \in Bodies
      BY <1>0, <1>14, Ended, Verdicts DEF Record, Only, TypeOK, InTrain
  <2>2. ASSUME node # None
        PROVE  ToSet(versions') = ToSet(versions) \cup {job[r].body}
    <3>1. CASE SnapshotNeeded(r) BY <1>14, <2>1, <2>2, <3>1, SnapshotKept DEF Record
    <3>2. CASE ~SnapshotNeeded(r)
      <4>1. job[r].body = job[r].latest /\ versions' = versions
          BY <1>14, <3>2 DEF Record, SnapshotNeeded
      <4>2. job[r].body \in ToSet(versions)
          BY <2>1, <2>2, <4>1, ValuesAssumption DEF HistorySound
      <4> QED BY <4>1, <4>2
    <3> QED BY <3>1, <3>2
  <2> QED BY <2>1, <2>2, HistoryKept DEF Records
<1>15. CASE RecordFails(r) BY <1>0, <1>15, HistoryOfFailed DEF RecordFails
<1> QED BY <1>1, <1>2, <1>3, <1>4, <1>5, <1>6, <1>7, <1>8, <1>9, <1>10, <1>11, <1>12,
           <1>13, <1>14, <1>15

LEMMA HistoryStep == ASSUME RowInv, HistorySound, [Next]_vars PROVE HistorySound'
<1>1. CASE \E r \in Saves : \/ Create(r) \/ Send(r) \/ Begin(r) \/ Lock(r)
                            \/ Apply(r) \/ Stale(r) \/ UpdateFails(r) \/ CommitUnanswered(r)
                            \/ Resolve(r) \/ SyncBegin(r) \/ SyncEnd(r) \/ SyncFails(r)
                            \/ ListVersions(r) \/ Record(r) \/ RecordFails(r)
    BY <1>1, HistoryOfSaves
<1>2. CASE PinBegin \/ \E p \in pins : Pin(p)
  <2>1. UNCHANGED <<versions, held, cut, job>> BY <1>2 DEF PinBegin, Pin
  <2>2. UNCHANGED <<node, used>> \/ (node # None /\ used' # {})
      BY <1>2 DEF PinBegin, Pin
  <2> QED BY <2>1, <2>2 DEF HistorySound, HistoryKeepsBodies, InTrain
<1>3. CASE DeleteNode
  <2>1. /\ node' = None /\ UNCHANGED <<job, used, held>>
      BY <1>3 DEF DeleteNode
  <2> QED BY <2>1 DEF HistorySound, HistoryKeepsBodies
<1>4. CASE Crash
  <2>1. /\ \A q \in Saves : job'[q].at = "idle" /\ job'[q].latest = Keep
        /\ UNCHANGED <<node, used, held, versions>>
      BY <1>4 DEF Crash, Idle
  <2>2. \A b, q : q \in Saves /\ Records(q, b) => b \in cut' BY <1>4 DEF Crash, Records
  <2>3. cut \subseteq cut' BY <1>4 DEF Crash
  <2> QED BY <2>1, <2>2, <2>3 DEF HistorySound, HistoryKeepsBodies, Records
<1>5. CASE (\E t \in Targets : Retitle(t) \/ DeleteTarget(t)) \/ UNCHANGED vars
  <2>1. UNCHANGED <<node, versions, held, cut, used, job>>
      BY <1>5 DEF Retitle, DeleteTarget, vars
  <2> QED BY <2>1 DEF HistorySound, HistoryKeepsBodies, InTrain
<1> QED BY <1>1, <1>2, <1>3, <1>4, <1>5 DEF Next

----------------------------------------------------------------------------
(* The trains.                                                             *)

(* The links and the latest snapshot are the node's.                       *)
Agrees == LinksAgree /\ (held # {} => Latest = node.body)

(* A step of the one request in its train.                                 *)
LEMMA TrainGoesOn ==
    ASSUME TrainSound, NEW r \in Saves, InTrain(r), UNCHANGED node,
           \A q \in Saves : q # r => job'[q] = job[q],
           node # None /\ ~loose' => /\ ~loose
                                     /\ TrainOf(r) => IF InTrain(r)' THEN TrainOf(r)'
                                                                     ELSE Agrees'
    PROVE  TrainSound'
<1> SUFFICES ASSUME node # None, ~loose' PROVE TrainSound'
    BY DEF TrainSound
<1>1. ~loose /\ TrainOf(r) /\ \A q \in Saves : q # r => ~InTrain(q) BY DEF TrainSound
<1>2. \A q \in Saves : q # r => ~InTrain(q)' BY <1>1 DEF InTrain
<1>3. InTrain(r)' => TrainOf(r)' BY <1>1
<1>4. QuietNodeAgrees'
  <2>1. ~InTrain(r)' => Agrees' BY <1>1
  <2> QED BY <2>1 DEF QuietNodeAgrees, Agrees
<1> QED BY <1>2, <1>3, <1>4 DEF TrainSound

(* A step of a request outside its train.                                  *)
LEMMA TrainOfOthers ==
    ASSUME TrainSound, NEW r \in Saves, ~InTrain(r), ~InTrain(r)',
           UNCHANGED <<node, target, links, versions, held, loose, steady>>,
           \A q \in Saves : q # r => job'[q] = job[q]
    PROVE  TrainSound'
<1> SUFFICES ASSUME node # None, ~loose PROVE TrainSound'
    BY DEF TrainSound
<1>1. \A q \in Saves : InTrain(q)' <=> InTrain(q) BY DEF InTrain
<1>2. \A q \in Saves : InTrain(q)' => TrainOf(q)'
  <2> SUFFICES ASSUME NEW q \in Saves, InTrain(q)' PROVE TrainOf(q)'
      OBVIOUS
  <2>1. job'[q] = job[q] /\ TrainOf(q) BY <1>1 DEF TrainSound
  <2> QED BY <2>1 DEF TrainOf, Latest, LinksAgree, Alive, Titled
<1>3. QuietNodeAgrees'
    BY <1>1 DEF TrainSound, QuietNodeAgrees, Latest, LinksAgree, Titled
<1> QED BY <1>1, <1>2, <1>3 DEF TrainSound

(* A body given to the node while nobody is in a train.                    *)
LEMMA TrainStarts ==
    ASSUME NEW r \in Saves, InTrain(r)',
           \A q \in Saves : q # r => job'[q] = job[q],
           ~loose' => (\A q \in Saves : q # r => ~InTrain(q)) /\ TrainOf(r)'
    PROVE  TrainSound'
<1>1. ~loose' => \A q \in Saves : InTrain(q)' => q = r BY DEF InTrain
<1>2. ~loose' => QuietNodeAgrees' BY DEF QuietNodeAgrees
<1> QED BY <1>1, <1>2 DEF TrainSound

LEMMA TrainLost == ASSUME loose' PROVE TrainSound'
BY DEF TrainSound

(* A link row names the target it was written for.                         *)
LEMMA NamedRows ==
    ASSUME NEW S, NEW r
    PROVE  Named({[to |-> t, by |-> r] : t \in S}) = S
<1> DEFINE L == {[to |-> t, by |-> r] : t \in S}
<1>1. \A t \in S : [to |-> t, by |-> r] \in L /\ [to |-> t, by |-> r].to = t
    OBVIOUS
<1>2. \A l \in L : \E t \in S : l = [to |-> t, by |-> r] /\ l.to = t
    OBVIOUS
<1>3. S \subseteq Named(L) BY <1>1, Zenon DEF Named
<1>4. Named(L) \subseteq S BY <1>2, Zenon DEF Named
<1> QED BY <1>3, <1>4, Zenon

LEMMA TrainOfSaves ==
    ASSUME RowInv, HistorySound, TrainSound, NEW r \in Saves,
           \/ Create(r) \/ Send(r) \/ Begin(r) \/ Lock(r)
           \/ Apply(r) \/ Stale(r) \/ UpdateFails(r) \/ CommitUnanswered(r)
           \/ Resolve(r) \/ SyncBegin(r) \/ SyncEnd(r) \/ SyncFails(r)
           \/ ListVersions(r) \/ Record(r) \/ RecordFails(r)
    PROVE  TrainSound'
<1> USE DEF RowInv
<1>1. CASE Create(r)
  <2>1. /\ \A q \in Saves : q # r => job'[q] = job[q]
        /\ job'[r].at = "applied" /\ job'[r].latest = job[r].latest
        /\ job'[r].kind = "create" /\ job'[r].body = node'.body
      BY <1>1, Creates
  <2>2. held' = {} /\ job[r].latest = Keep /\ \A q \in Saves : ~InTrain(q)
      BY <1>1 DEF Create, HistorySound, InTrain
  <2>3. TrainOf(r)' BY <2>1, <2>2 DEF TrainOf
  <2>4. InTrain(r)' BY <2>1 DEF InTrain
  <2> QED BY <2>1, <2>2, <2>3, <2>4, TrainStarts
<1>2. CASE Send(r) BY <1>2, Sends, TrainOfOthers DEF Send, InTrain
<1>3. CASE Begin(r) BY <1>3, Begins, TrainOfOthers DEF Begin, Same, InTrain
<1>4. CASE Lock(r)
  <2>1. ~InTrain(r) /\ UNCHANGED <<node, target, links, versions, held, loose, steady>>
      BY <1>4 DEF Lock, InTrain
  <2>2. CASE node = None
    <3>1. End(r, "missing") BY <1>4, <2>2 DEF Lock
    <3> QED BY <2>1, <3>1, Ended, TrainOfOthers DEF Only
  <2>3. CASE node # None BY <1>4, <2>1, <2>3, Locks, TrainOfOthers DEF Same, InTrain
  <2> QED BY <2>2, <2>3
<1>5. CASE Apply(r)
  <2>1. /\ \A q \in Saves : q # r => job'[q] = job[q]
        /\ job'[r].at = "applied" /\ job'[r].latest = job[r].latest
        /\ job'[r].kind = job[r].kind /\ job'[r].body = node'.body
      BY <1>5, Applied
  <2>2. job[r].latest = Keep /\ job[r].kind # "create"
      BY <1>5 DEF Apply, HistorySound, CreatedFirst, Undecided
  <2>3. TrainOf(r)' BY <2>1, <2>2 DEF TrainOf
  <2>4. InTrain(r)' BY <2>1 DEF InTrain
  <2>5. ~loose' => \A q \in Saves : ~InTrain(q) BY <1>5 DEF Apply
  <2> QED BY <2>1, <2>3, <2>4, <2>5, TrainStarts
<1>6. CASE Stale(r) BY <1>6, Ended, TrainOfOthers DEF Stale, Only, InTrain
<1>7. CASE UpdateFails(r)
    BY <1>7, Ended, Verdicts, TrainOfOthers DEF UpdateFails, Only, InTrain
<1>8. CASE CommitUnanswered(r) BY <1>8, TrainLost DEF CommitUnanswered
<1>9. CASE Resolve(r)
  <2>1. InTrain(r) BY <1>9 DEF Resolve, InTrain
  <2>4. UNCHANGED <<node, links, versions, held, loose>> BY <1>9 DEF Resolve
  <2>5. job[r].body = node.body =>
          /\ job'[r].found \subseteq LinksOf[node.body]
          /\ job'[r].found \cap Alive' \cap steady' =
                LinksOf[node.body] \cap Titled' \cap steady'
      BY <1>9, Resolves DEF Resolve, Alive, Titled
  <2>2. TrainOf(r) => TrainOf(r)'
      BY <1>9, <2>4, <2>5, Resolves DEF TrainOf, Same, Latest
  <2>3. InTrain(r)' BY <1>9, Resolves DEF InTrain
  <2> QED BY <1>9, <2>1, <2>2, <2>3, <2>4, Resolves, TrainGoesOn DEF Same
<1>10. CASE SyncBegin(r)
  <2>1. InTrain(r) /\ UNCHANGED <<node, target, links, versions, held, loose, steady>>
      BY <1>10 DEF SyncBegin, InTrain
  <2>4. UNCHANGED <<Alive, Titled, Latest>> BY <2>1 DEF Alive, Titled, Latest
  <2>5. /\ Same(r) /\ job[r].at = "resolved" /\ job'[r].at = "syncing"
        /\ job'[r].latest = job[r].latest
        /\ job'[r].found = job[r].found /\ job'[r].seen = links
      BY <1>10, SyncsBegin DEF SyncBegin
  <2>2. TrainOf(r) => TrainOf(r)' BY <2>1, <2>4, <2>5 DEF TrainOf, Same
  <2>3. InTrain(r)' BY <1>10, SyncsBegin DEF InTrain
  <2> QED BY <1>10, <2>1, <2>2, <2>3, SyncsBegin, TrainGoesOn DEF Same
<1>11. CASE SyncEnd(r)
  <2> DEFINE kept == KeptLinks(r)
             new == {[to |-> t, by |-> r] : t \in job[r].found \ Named(kept)}
  <2>1. InTrain(r) /\ job[r].at = "syncing" /\ UNCHANGED <<node, target, versions, held, steady>>
      BY <1>11 DEF SyncEnd, InTrain
  <2>2. CASE Cut(r) BY <2>2, TrainLost DEF Cut
  <2>3. CASE /\ links' = kept \cup new /\ UNCHANGED loose
             /\ job[r].found = {} \/ job[r].found \subseteq Alive
             /\ IF job[r].kind = "create" THEN End(r, "none") ELSE Goto(r, "synced")
    <3>1. TrainOf(r) => LinksAgree'
      <4> SUFFICES ASSUME TrainOf(r) PROVE LinksAgree'
          OBVIOUS
      <4>1. kept = {} BY <2>1 DEF TrainOf, KeptLinks
      <4>2. links' = {[to |-> t, by |-> r] : t \in job[r].found}
          BY <2>3, <4>1 DEF Named
      <4>3. Named(links') = job[r].found BY <4>2, NamedRows, Zenon
      <4>4. /\ job[r].found \subseteq LinksOf[node.body]
            /\ job[r].found \cap steady = LinksOf[node.body] \cap Titled \cap steady
          BY <2>1, <2>3 DEF TrainOf
      <4> QED BY <2>1, <4>3, <4>4 DEF LinksAgree, Titled
    <3>2. CASE job[r].kind = "create"
      <4>1. End(r, "none") BY <2>3, <3>2
      <4>2. \A q \in Saves : q # r => job'[q] = job[q]
          BY <4>1, Ended DEF Only
      <4>3. ~InTrain(r)' BY <4>1, Ended
      <4>4. TrainOf(r) => Agrees'
          BY <2>1, <3>1, <3>2 DEF TrainOf, Agrees
      <4> QED BY <2>1, <2>3, <4>2, <4>3, <4>4, TrainGoesOn
    <3>3. CASE job[r].kind # "create"
      <4>1. /\ Same(r) /\ job'[r].at = "synced" /\ job'[r].latest = job[r].latest
          BY <1>11, <2>3, <3>3, Synced
      <4>2. TrainOf(r) => TrainOf(r)'
          BY <2>1, <3>1, <3>3, <4>1 DEF TrainOf, Same, Latest
      <4>3. InTrain(r)' BY <4>1 DEF InTrain
      <4> QED BY <2>1, <2>3, <4>1, <4>2, <4>3, TrainGoesOn DEF Same
    <3> QED BY <3>2, <3>3
  <2> QED BY <1>11, <2>2, <2>3 DEF SyncEnd
<1>12. CASE SyncFails(r) BY <1>12, TrainLost DEF SyncFails, Cut
<1>13. CASE ListVersions(r)
  <2>1. /\ InTrain(r) /\ UNCHANGED <<node, target, links, versions, held, loose, steady>>
        /\ job[r].at = "synced"
      BY <1>13 DEF ListVersions, InTrain
  <2>2. TrainOf(r) => TrainOf(r)'
      BY <1>13, <2>1, Listed DEF TrainOf, Same, Latest, LinksAgree, Titled
  <2>3. InTrain(r)' BY <1>13, Listed DEF InTrain
  <2> QED BY <1>13, <2>1, <2>2, <2>3, Listed, TrainGoesOn DEF Same
<1>14. CASE Record(r)
  <2>1. /\ \A q \in Saves : q # r => job'[q] = job[q]
        /\ ~InTrain(r)' /\ InTrain(r) /\ job[r].at = "recording" /\ job[r].body \in Bodies
        /\ UNCHANGED <<node, target, links, held, loose, steady>>
      BY <1>14, Ended, Verdicts DEF Record, Only, TypeOK, InTrain
  <2>2. ASSUME node # None, TrainOf(r)
        PROVE  Agrees'
    <3>1. CASE SnapshotNeeded(r)
      <4>1. versions' = Append(versions, job[r].body) BY <1>14, <2>2, <3>1 DEF Record
      <4>2. Latest' = job[r].body BY <2>1, <4>1, SnapshotKept DEF Latest
      <4> QED BY <2>1, <2>2, <4>2 DEF TrainOf, Agrees, LinksAgree, Titled
    <3>2. CASE ~SnapshotNeeded(r)
      <4>1. job[r].body = job[r].latest /\ versions' = versions
          BY <1>14, <3>2 DEF Record, SnapshotNeeded
      <4>2. Latest = job[r].body
          BY <2>1, <2>2, <4>1, ValuesAssumption DEF TrainOf
      <4> QED BY <2>1, <2>2, <4>1, <4>2 DEF TrainOf, Agrees, LinksAgree, Titled, Latest
    <3> QED BY <3>1, <3>2
  <2> QED BY <2>1, <2>2, TrainGoesOn
<1>15. CASE RecordFails(r) BY <1>15, TrainLost DEF RecordFails, Cut
<1> QED BY <1>1, <1>2, <1>3, <1>4, <1>5, <1>6, <1>7, <1>8, <1>9, <1>10, <1>11, <1>12,
           <1>13, <1>14, <1>15

(* A step that leaves trains, links and snapshots, and the body.           *)
LEMMA TrainUntouched ==
    ASSUME TrainSound, UNCHANGED <<target, links, versions, held, loose, job, steady>>,
           node' # None => node # None /\ node'.body = node.body
    PROVE  TrainSound'
<1> SUFFICES ASSUME node' # None PROVE TrainSound'
    BY DEF TrainSound
<1>1. LinksAgree' <=> LinksAgree BY DEF LinksAgree, Titled
<1>2. \A q \in Saves : TrainOf(q) => TrainOf(q)'
    BY <1>1 DEF TrainOf, Latest, Alive, Titled
<1>3. QuietNodeAgrees => QuietNodeAgrees' BY <1>1 DEF QuietNodeAgrees, Latest, InTrain
<1> QED BY <1>2, <1>3 DEF TrainSound, InTrain

LEMMA TrainStep == ASSUME RowInv, HistorySound, TrainSound, [Next]_vars PROVE TrainSound'
<1> USE DEF RowInv
<1>1. CASE \E r \in Saves : \/ Create(r) \/ Send(r) \/ Begin(r) \/ Lock(r)
                            \/ Apply(r) \/ Stale(r) \/ UpdateFails(r) \/ CommitUnanswered(r)
                            \/ Resolve(r) \/ SyncBegin(r) \/ SyncEnd(r) \/ SyncFails(r)
                            \/ ListVersions(r) \/ Record(r) \/ RecordFails(r)
    BY <1>1, TrainOfSaves
<1>2. CASE PinBegin \/ \E p \in pins : Pin(p)
  <2>1. UNCHANGED <<target, links, versions, held, loose, job, steady>>
      BY <1>2 DEF PinBegin, Pin
  <2>2. node' # None => node # None /\ node'.body = node.body
      BY <1>2 DEF PinBegin, Pin, TypeOK, Row
  <2> QED BY <2>1, <2>2, TrainUntouched
<1>3. CASE DeleteNode BY <1>3 DEF DeleteNode, TrainSound
<1>4. CASE Crash
  <2>1. /\ \A q \in Saves : job'[q].at = "idle"
        /\ UNCHANGED <<node, target, links, versions, held, steady>>
        /\ ~loose' => ~loose /\ \A q \in Saves : ~InTrain(q)
      BY <1>4 DEF Crash, Idle
  <2>2. \A q \in Saves : ~InTrain(q)' BY <2>1 DEF InTrain
  <2>3. QuietNodeAgrees => QuietNodeAgrees'
      BY <2>1, <2>2 DEF QuietNodeAgrees, Latest, LinksAgree, Titled
  <2> QED BY <2>1, <2>2, <2>3 DEF TrainSound
<1>5. CASE \E t \in Targets : Retitle(t) \/ DeleteTarget(t)
  <2>1. PICK t \in Targets : Retitle(t) \/ DeleteTarget(t) BY <1>5
  <2>2. UNCHANGED <<node, versions, held, loose, job>> BY <2>1 DEF Retitle, DeleteTarget
  <2>3. /\ links' \subseteq links
        /\ LinksAgree => LinksAgree'
        /\ \A A : A \cap Alive \cap steady = LinksOf[node.body] \cap Titled \cap steady
                  => A \cap Alive' \cap steady'
                        = LinksOf[node.body] \cap Titled' \cap steady'
    <3>1. CASE Retitle(t)
      <4>1. steady' = steady \ {t} /\ UNCHANGED <<links, node>>
            /\ \A u \in Targets : u # t => target'[u] = target[u]
          BY <3>1 DEF RowInv, TypeOK, Retitle
      <4>2. /\ Alive' \cap steady' = (Alive \cap steady) \ {t}
            /\ Titled' \cap steady' = (Titled \cap steady) \ {t}
          BY <4>1 DEF Alive, Titled
      <4> QED BY <4>1, <4>2 DEF LinksAgree
    <3>2. CASE DeleteTarget(t)
      <4>1. /\ UNCHANGED <<steady, node>> /\ links' = {l \in links : l.to # t}
            /\ target'[t] = "gone" /\ \A u \in Targets : u # t => target'[u] = target[u]
          BY <3>2 DEF RowInv, TypeOK, DeleteTarget
      <4>2. Alive' = Alive \ {t} /\ Titled' = Titled \ {t}
          BY <4>1 DEF Alive, Titled
      <4>3. Named(links') = Named(links) \ {t} BY <4>1 DEF Named
      <4> QED BY <4>1, <4>2, <4>3 DEF LinksAgree
    <3> QED BY <2>1, <3>1, <3>2
  <2>4. ASSUME NEW q \in Saves, TrainOf(q) PROVE TrainOf(q)'
    <3>1. job'[q] = job[q] /\ UNCHANGED <<node, held, Latest>> BY <2>2 DEF Latest
    <3>2. job[q].at \in {"resolved", "syncing"} =>
            /\ job[q].found \subseteq LinksOf[node.body]
            /\ job[q].found \cap Alive' \cap steady' =
                  LinksOf[node.body] \cap Titled' \cap steady'
        BY <2>3, <2>4 DEF TrainOf
    <3> QED BY <2>3, <2>4, <3>1, <3>2 DEF TrainOf
  <2>5. QuietNodeAgrees => QuietNodeAgrees'
      BY <2>2, <2>3 DEF QuietNodeAgrees, Latest, InTrain
  <2> QED BY <2>2, <2>4, <2>5 DEF TrainSound, InTrain
<1>6. CASE UNCHANGED vars BY <1>6, TrainUntouched DEF vars
<1> QED BY <1>1, <1>2, <1>3, <1>4, <1>5, <1>6 DEF Next

LEMMA InitSound == Init => LogSound /\ HistorySound /\ TrainSound
<1> SUFFICES ASSUME Init PROVE LogSound /\ HistorySound /\ TrainSound
    OBVIOUS
<1>1. \A r \in Saves : job[r].at = "idle" /\ job[r].latest = Keep BY DEF Init, Idle
<1>2. LogSound BY <1>1 DEF Init, LogSound
<1>3. HistorySound BY <1>1 DEF Init, HistorySound, HistoryKeepsBodies
<1>4. TrainSound BY DEF Init, TrainSound
<1> QED BY <1>2, <1>3, <1>4

----------------------------------------------------------------------------
(* The theorems.                                                           *)

LEMMA InvStep == Inv /\ [Next]_vars => Inv'
BY NextStep, LogStep, HistoryStep, TrainStep DEF Inv

(* Every reachable state satisfies the inductive invariant: types, one     *)
(* save at a time on the row, starts that are no version yet, and what the *)
(* log, the History and the trains owe to that.                            *)
THEOREM SpecInv == Spec => []Inv
<1>1. Init => Inv BY InitStep, InitSound DEF Inv
<1> QED BY <1>1, InvStep, PTL DEF Spec

(* The status log is the history of the status, whatever the saves, their  *)
(* failures and their order (repo/node.rs: update): an entry stamped as it *)
(* is written, under the row's lock, follows the one it starts from.       *)
THEOREM SpecStatusChain == Spec => []StatusChain
<1>1. Inv => StatusChain BY ChainHolds DEF Inv
<1> QED BY <1>1, SpecInv, PTL

(* No body a save gave the node goes missing from its History, but for a   *)
(* failure or a crash (routes/nodes.rs: update_node, restore), though each *)
(* save compares its body with a snapshot that may not be the latest when  *)
(* it records its own.                                                     *)
THEOREM SpecHistoryKeepsBodies == Spec => []HistoryKeepsBodies
<1>1. Inv => HistoryKeepsBodies BY DEF Inv, HistorySound
<1> QED BY <1>1, SpecInv, PTL

(* Links and latest snapshot are the node's once its saves are done, if no *)
(* two of them overlapped (sync_wikilinks and the version that follows).   *)
THEOREM SpecQuietNodeAgrees == Spec => []QuietNodeAgrees
<1>1. Inv => QuietNodeAgrees BY DEF Inv, TrainSound, QuietNodeAgrees
<1> QED BY <1>1, SpecInv, PTL

(* Saves behave as VersionedNode says, for any number of requests, bodies  *)
(* and statuses (repo/node.rs: update): each is stored or refused at one   *)
(* instant, and of two sent on one version at most one is stored.          *)
THEOREM SpecSavesAreAtomic == Spec => SavesAreAtomic
<1>1. Inv /\ [Next]_vars => [Promise!Next]_(Promise!vars) BY NextStep DEF Inv, Mapped
<1>2. Init => Promise!Init BY InitStep
<1> QED BY <1>1, <1>2, SpecInv, PTL DEF Spec, SavesAreAtomic, Promise!Spec

=============================================================================
