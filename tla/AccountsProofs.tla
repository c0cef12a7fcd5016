--------------------------- MODULE AccountsProofs ---------------------------
(***************************************************************************)
(* Proofs about Accounts, for any number of accounts, instances and admin  *)
(* requests.  The invariant is kept conjunct by conjunct; what a request   *)
(* does to the table of requests comes first, since every conjunct leans   *)
(* on it.                                                                  *)
(***************************************************************************)
EXTENDS Accounts, TLAPS

(* What a step of a request does to the requests.                          *)
JobsOK ==
    /\ job \in [Admins -> Job]
    /\ \A r \in Admins : job[r].at = "idle" <=> job[r].on = Free

LEMMA GotoJob ==
    ASSUME TypeOK, NEW r \in Admins, NEW step \in Steps \ {"idle"}, job[r].at # "idle",
           Goto(r, step)
    PROVE  /\ JobsOK'
           /\ job'[r].at = step /\ job[r].on \in Accounts
           /\ \A q \in Admins : job'[q].on = job[q].on /\ (q # r => job'[q].at = job[q].at)
<1>1. job \in [Admins -> Job] /\ job[r] \in Job BY DEF TypeOK
<1>2. job' = [job EXCEPT ![r].at = step] BY DEF Goto
<1>3. job[r].on \in Accounts BY DEF TypeOK, Job
<1>4. job' \in [Admins -> Job] BY <1>1, <1>2 DEF Job
<1>5. \A q \in Admins : job'[q].on = job[q].on /\ (q # r => job'[q].at = job[q].at)
    BY <1>1, <1>2 DEF Job
<1>6. job'[r].at = step BY <1>1, <1>2 DEF Job
<1>7. JobsOK' BY <1>4, <1>5, <1>6 DEF TypeOK, JobsOK
<1> QED BY <1>3, <1>5, <1>6, <1>7

LEMMA EndJob ==
    ASSUME TypeOK, NEW r \in Admins, job[r].at # "idle", End(r)
    PROVE  /\ JobsOK'
           /\ job[r].on \in Accounts /\ job'[r] = NoJob
           /\ \A q \in Admins : q # r => job'[q] = job[q]
BY FreeAssumption DEF TypeOK, JobsOK, Job, Steps, End, NoJob

(* The next request takes a free place; no other place changes.            *)
LEMMA AskJob ==
    ASSUME TypeOK, Ask
    PROVE  \E r \in Admins, a \in Accounts, what \in {"suspend", "delete", "reactivate"} :
             /\ JobsOK'
             /\ job[r] = NoJob
             /\ job'[r].on = a
             /\ job'[r].at = IF what = "reactivate" THEN "enable" ELSE "suspend"
             /\ \A q \in Admins : q # r => job'[q] = job[q]
             /\ crossed' = IF \/ what = "reactivate" /\ Suspending(a)
                              \/ what # "reactivate" /\ Reactivating(a)
                           THEN crossed \cup {a} ELSE crossed
             /\ fenced' = IF what = "reactivate"
                          THEN [j \in Instances |-> fenced[j] \ {a}] ELSE fenced
<1> DEFINE r == CHOOSE r \in Admins : job[r] = NoJob
<1>1. r \in Admins /\ job[r] = NoJob BY DEF Ask
<1> HIDE DEF r
<1>2. PICK a \in Accounts, i \in Instances, what \in {"suspend", "delete", "reactivate"} :
        /\ job' = [job EXCEPT ![r] =
                     [at |-> IF what = "reactivate" THEN "enable" ELSE "suspend",
                      on |-> a, by |-> i, deletes |-> what = "delete"]]
        /\ crossed' = IF \/ what = "reactivate" /\ Suspending(a)
                         \/ what # "reactivate" /\ Reactivating(a)
                      THEN crossed \cup {a} ELSE crossed
        /\ fenced' = IF what = "reactivate"
                     THEN [j \in Instances |-> fenced[j] \ {a}] ELSE fenced
    BY DEF Ask, r
<1> DEFINE new == [at |-> IF what = "reactivate" THEN "enable" ELSE "suspend",
                   on |-> a, by |-> i, deletes |-> what = "delete"]
<1>3. /\ new \in Job /\ new.at # "idle" /\ new.on # Free
      /\ new.on = a /\ new.at = IF what = "reactivate" THEN "enable" ELSE "suspend"
    BY FreeAssumption DEF Job, Steps
<1> HIDE DEF new
<1>4. job'[r] = new /\ \A q \in Admins : q # r => job'[q] = job[q]
    BY <1>1, <1>2 DEF TypeOK, new
<1>5. JobsOK' BY <1>1, <1>2, <1>3, <1>4 DEF TypeOK, JobsOK, new
<1> QED BY <1>1, <1>2, <1>3, <1>4, <1>5

(* The state keeps its types.                                             *)
LEMMA TypeStep ==
    ASSUME TypeOK, [Next]_vars
    PROVE  TypeOK'
<1>1. CASE \E i \in Instances : RefreshRead(i)
    BY <1>1, FreeAssumption DEF TypeOK, JobsOK, mirror, provider, history, Rows, Read,
        Sweep, RefreshRead, Listed
<1>2. CASE \E i \in Instances : RefreshApply(i)
    BY <1>2, FreeAssumption DEF TypeOK, JobsOK, mirror, provider, history, Rows, Read,
        Sweep, RefreshApply, Current, Fresh, NoRead
<1>3. CASE \E i \in Instances : Restart(i)
    BY <1>3, FreeAssumption DEF TypeOK, JobsOK, mirror, provider, history, Rows, Read,
        Sweep, Job, Steps, Restart, Fail, Listed, NoRead, NoJob, NoSweep
<1>4. CASE \E i \in Instances : SweepBegin(i)
    BY <1>4, FreeAssumption DEF TypeOK, JobsOK, mirror, provider, history, Rows, Read,
        Sweep, SweepBegin, Deleted, NoSweep
<1>5. CASE \E i \in Instances : SweepListFails(i)
    BY <1>5, FreeAssumption DEF TypeOK, JobsOK, mirror, provider, history, Rows, Read,
        Sweep, SweepListFails, Fail, Deleted, NoSweep
<1>6. CASE \E i \in Instances : SweepPurge(i)
  <2>1. PICK i \in Instances, a \in Accounts :
            /\ a \in sweep[i].left
            /\ sweep' = [sweep EXCEPT ![i].left = @ \ {a}]
            /\ data' = data \ {a} /\ unpurged' = unpurged \ {a}
      BY <1>6 DEF TypeOK, Sweep, SweepPurge, PurgedAgain
  <2>2. sweep' \in [Instances -> Sweep] BY <2>1 DEF TypeOK, Sweep
  <2>3. data' \subseteq Accounts /\ unpurged' \subseteq Accounts BY <2>1 DEF TypeOK
  <2> QED BY <1>6, <2>2, <2>3 DEF TypeOK, JobsOK, mirror, provider, history, SweepPurge
<1>7. CASE \E i \in Instances : SweepPurgeFails(i)
  <2>1. PICK i \in Instances, a \in Accounts :
            /\ a \in sweep[i].left
            /\ sweep' = [sweep EXCEPT ![i].left = @ \ {a}]
            /\ unpurged' = unpurged \cup {a}
      BY <1>7 DEF TypeOK, Sweep, SweepPurgeFails
  <2>2. sweep' \in [Instances -> Sweep] BY <2>1 DEF TypeOK, Sweep
  <2>3. unpurged' \subseteq Accounts BY <2>1 DEF TypeOK
  <2> QED BY <1>7, <2>2, <2>3
      DEF TypeOK, JobsOK, mirror, provider, history, SweepPurgeFails
<1>8. CASE \E i \in Instances : SweepDrop(i)
    BY <1>8, FreeAssumption DEF TypeOK, JobsOK, mirror, provider, history, Rows, Read,
        Sweep, SweepDrop, NoSweep
<1>9. CASE \E i \in Instances, a \in Accounts : SignIn(i, a)
    BY <1>9 DEF TypeOK, JobsOK, mirror, provider, history, SignIn
<1>10. CASE \E i \in Instances, a \in Accounts : Pass(i, a)
    BY <1>10 DEF TypeOK, JobsOK, mirror, provider, history, Pass
<1>11. CASE \E i \in Instances, a \in Accounts : Write(i, a)
    BY <1>11 DEF TypeOK, JobsOK, mirror, provider, history, Write
<1>12. CASE \E a \in Accounts : ExpireToken(a)
    BY <1>12 DEF TypeOK, JobsOK, mirror, provider, history, Rows, ExpireToken
<1>13. CASE \E a \in Accounts : Age(a)
    BY <1>13 DEF TypeOK, JobsOK, mirror, provider, history, Rows, Age
<1>14. CASE Ask
  <2>1. JobsOK' BY <1>14, AskJob
  <2>2. crossed' \subseteq Accounts BY <1>14, AskJob DEF TypeOK
  <2>3. fenced' \in [Instances -> SUBSET Accounts] BY <1>14, AskJob DEF TypeOK
  <2> QED BY <1>14, <2>1, <2>2, <2>3 DEF TypeOK, JobsOK, mirror, provider, history, Ask
<1>15. CASE \E r \in Admins : Suspend(r)
  <2>1. PICK r \in Admins : Suspend(r) BY <1>15
  <2>2. JobsOK' /\ job[r].on \in Accounts /\ job[r].by \in Instances \cup {Free}
      BY <2>1, GotoJob DEF TypeOK, Job, Steps, Suspend
  <2> QED BY <2>1, <2>2 DEF TypeOK, JobsOK, mirror, provider, history, Rows, Suspend
<1>16. CASE \E r \in Admins : Insert(r)
  <2>1. PICK r \in Admins : Insert(r) BY <1>16
  <2>2. JobsOK' /\ job[r].on \in Accounts /\ job[r].by \in Instances \cup {Free}
      BY <2>1, GotoJob DEF TypeOK, Job, Steps, Insert
  <2> QED BY <2>1, <2>2
      DEF TypeOK, JobsOK, mirror, provider, history, Rows, Insert, Changed
<1>17. CASE \E r \in Admins : Disable(r)
  <2>1. PICK r \in Admins : Disable(r) BY <1>17
  <2>2. JobsOK' /\ job[r].on \in Accounts /\ job[r].by \in Instances \cup {Free}
      BY <2>1, EndJob DEF TypeOK, Job, Steps, Disable
  <2> QED BY <2>1, <2>2 DEF TypeOK, JobsOK, mirror, provider, history, Rows, Disable
<1>18. CASE \E r \in Admins : Purge(r)
  <2>1. PICK r \in Admins : Purge(r) BY <1>18
  <2>2. JobsOK' /\ job[r].on \in Accounts /\ job[r].by \in Instances \cup {Free}
      BY <2>1, GotoJob DEF TypeOK, Job, Steps, Purge
  <2> QED BY <2>1, <2>2 DEF TypeOK, JobsOK, mirror, provider, history, Rows, Purge
<1>19. CASE \E r \in Admins : Remove(r)
  <2>1. PICK r \in Admins : Remove(r) BY <1>19
  <2>2. JobsOK' /\ job[r].on \in Accounts /\ job[r].by \in Instances \cup {Free}
      BY <2>1, GotoJob DEF TypeOK, Job, Steps, Remove
  <2> QED BY <2>1, <2>2 DEF TypeOK, JobsOK, mirror, provider, history, Rows, Remove
<1>20. CASE \E r \in Admins : Mark(r)
  <2>1. PICK r \in Admins : Mark(r) BY <1>20
  <2>2. JobsOK' /\ job[r].on \in Accounts /\ job[r].by \in Instances \cup {Free}
      BY <2>1, EndJob DEF TypeOK, Job, Steps, Mark
  <2> QED BY <2>1, <2>2 DEF TypeOK, JobsOK, mirror, provider, history, Rows, Mark
<1>21. CASE \E r \in Admins : Enable(r)
  <2>1. PICK r \in Admins : Enable(r) BY <1>21
  <2>2. JobsOK' /\ job[r].on \in Accounts /\ job[r].by \in Instances \cup {Free}
      BY <2>1, GotoJob, EndJob DEF TypeOK, Job, Steps, Enable
  <2> QED BY <2>1, <2>2 DEF TypeOK, JobsOK, mirror, provider, history, Rows, Enable
<1>22. CASE \E r \in Admins : Unsuspend(r)
  <2>1. PICK r \in Admins : Unsuspend(r) BY <1>22
  <2>2. JobsOK' /\ job[r].on \in Accounts /\ job[r].by \in Instances \cup {Free}
      BY <2>1, GotoJob DEF TypeOK, Job, Steps, Unsuspend
  <2> QED BY <2>1, <2>2 DEF TypeOK, JobsOK, mirror, provider, history, Rows, Unsuspend,
      DroppedByReactivation
<1>23. CASE \E r \in Admins : Unset(r)
  <2>1. PICK r \in Admins : Unset(r) BY <1>23
  <2>2. JobsOK' /\ job[r].on \in Accounts /\ job[r].by \in Instances \cup {Free}
      BY <2>1, EndJob DEF TypeOK, Job, Steps, Unset
  <2> QED BY <2>1, <2>2
      DEF TypeOK, JobsOK, mirror, provider, history, Rows, Unset, Changed
<1>24. CASE \E r \in Admins : Fails(r)
  <2>1. PICK r \in Admins : Fails(r) BY <1>24
  <2>2. JobsOK' /\ job[r].on \in Accounts /\ job[r].by \in Instances \cup {Free}
      BY <2>1, EndJob DEF TypeOK, Job, Steps, Fails
  <2> QED BY <2>1, <2>2 DEF TypeOK, JobsOK, mirror, provider, history, Rows, Fails, Fail
<1>25. CASE UNCHANGED vars
    BY <1>25 DEF TypeOK, JobsOK, mirror, provider, history, vars
<1> QED BY <1>1, <1>2, <1>3, <1>4, <1>5, <1>6, <1>7, <1>8, <1>9, <1>10, <1>11, <1>12,
    <1>13, <1>14, <1>15, <1>16, <1>17, <1>18, <1>19, <1>20, <1>21, <1>22, <1>23, <1>24,
        <1>25 DEF Next

(* The provider forgets an account for good before its row says deleted.   *)
LEMMA DeletedStep ==
    ASSUME TypeOK, DeletedIsGone, [Next]_vars
    PROVE  DeletedIsGone'
<1>1. CASE UNCHANGED <<row, user, job>>
    BY <1>1 DEF DeletedIsGone
<1>2. CASE \E i \in Instances : Restart(i)
    BY <1>2 DEF TypeOK, DeletedIsGone, provider, Restart, Fail, Listed, NoRead, NoJob,
        NoSweep, Job
<1>3. CASE \E i \in Instances : SweepDrop(i)
    BY <1>3 DEF TypeOK, DeletedIsGone, provider, SweepDrop, NoSweep
<1>4. CASE \E a \in Accounts : Age(a)
    BY <1>4 DEF TypeOK, DeletedIsGone, provider, Age
<1>5. CASE Ask
    BY <1>5, AskJob DEF TypeOK, DeletedIsGone, Ask, provider
<1>6. CASE \E r \in Admins : Suspend(r)
  <2>1. PICK r \in Admins : Suspend(r) BY <1>6
  <2>2. /\ job[r].on \in Accounts
        /\ \A q \in Admins : job'[q].at = "mark" => job[q].at = "mark"
        /\ \A q \in Admins : job'[q].at = "mark" => job'[q].on = job[q].on
      BY <2>1, GotoJob DEF Steps, NoJob, Suspend
  <2> QED BY <2>1, <2>2 DEF TypeOK, Job, DeletedIsGone, provider, Suspend
<1>7. CASE \E r \in Admins : Insert(r)
  <2>1. PICK r \in Admins : Insert(r) BY <1>7
  <2>2. /\ job[r].on \in Accounts
        /\ \A q \in Admins : job'[q].at = "mark" => job[q].at = "mark"
        /\ \A q \in Admins : job'[q].at = "mark" => job'[q].on = job[q].on
      BY <2>1, GotoJob DEF Steps, NoJob, Insert
  <2> QED BY <2>1, <2>2 DEF TypeOK, Job, DeletedIsGone, provider, Insert, Changed
<1>8. CASE \E r \in Admins : Disable(r)
  <2>1. PICK r \in Admins : Disable(r) BY <1>8
  <2>2. /\ job[r].on \in Accounts
        /\ \A q \in Admins : job'[q].at = "mark" => job[q].at = "mark"
        /\ \A q \in Admins : job'[q].at = "mark" => job'[q].on = job[q].on
      BY <2>1, EndJob DEF Steps, NoJob, Disable
  <2> QED BY <2>1, <2>2 DEF TypeOK, Job, DeletedIsGone, provider, Disable
<1>9. CASE \E r \in Admins : Purge(r)
  <2>1. PICK r \in Admins : Purge(r) BY <1>9
  <2>2. /\ job[r].on \in Accounts
        /\ \A q \in Admins : job'[q].at = "mark" => job[q].at = "mark"
        /\ \A q \in Admins : job'[q].at = "mark" => job'[q].on = job[q].on
      BY <2>1, GotoJob DEF Steps, NoJob, Purge
  <2> QED BY <2>1, <2>2 DEF TypeOK, Job, DeletedIsGone, provider, Purge
<1>10. CASE \E r \in Admins : Remove(r)
  <2>1. PICK r \in Admins : Remove(r) BY <1>10
  <2>2. /\ job[r].on \in Accounts
        /\ \A q \in Admins : job'[q].at = "mark" => job[q].at = "mark" \/ q = r
        /\ \A q \in Admins : job'[q].at = "mark" => job'[q].on = job[q].on
      BY <2>1, GotoJob DEF Steps, NoJob, Remove
  <2> QED BY <2>1, <2>2 DEF TypeOK, Job, DeletedIsGone, provider, Remove
<1>11. CASE \E r \in Admins : Mark(r)
  <2>1. PICK r \in Admins : Mark(r) BY <1>11
  <2>2. /\ job[r].on \in Accounts
        /\ \A q \in Admins : job'[q].at = "mark" => job[q].at = "mark"
        /\ \A q \in Admins : job'[q].at = "mark" => job'[q].on = job[q].on
      BY <2>1, EndJob DEF Steps, NoJob, Mark
  <2> QED BY <2>1, <2>2 DEF TypeOK, Job, DeletedIsGone, provider, Mark
<1>12. CASE \E r \in Admins : Enable(r)
  <2>1. PICK r \in Admins : Enable(r) BY <1>12
  <2>2. /\ job[r].on \in Accounts
        /\ \A q \in Admins : job'[q].at = "mark" => job[q].at = "mark"
        /\ \A q \in Admins : job'[q].at = "mark" => job'[q].on = job[q].on
      BY <2>1, GotoJob, EndJob DEF Steps, NoJob, Enable
  <2> QED BY <2>1, <2>2 DEF TypeOK, Job, DeletedIsGone, provider, Enable
<1>13. CASE \E r \in Admins : Unsuspend(r)
  <2>1. PICK r \in Admins : Unsuspend(r) BY <1>13
  <2>2. /\ job[r].on \in Accounts
        /\ \A q \in Admins : job'[q].at = "mark" => job[q].at = "mark"
        /\ \A q \in Admins : job'[q].at = "mark" => job'[q].on = job[q].on
      BY <2>1, GotoJob DEF Steps, NoJob, Unsuspend
  <2> QED BY <2>1, <2>2
      DEF TypeOK, Job, DeletedIsGone, provider, Unsuspend, DroppedByReactivation
<1>14. CASE \E r \in Admins : Unset(r)
  <2>1. PICK r \in Admins : Unset(r) BY <1>14
  <2>2. /\ job[r].on \in Accounts
        /\ \A q \in Admins : job'[q].at = "mark" => job[q].at = "mark"
        /\ \A q \in Admins : job'[q].at = "mark" => job'[q].on = job[q].on
      BY <2>1, EndJob DEF Steps, NoJob, Unset
  <2> QED BY <2>1, <2>2 DEF TypeOK, Job, DeletedIsGone, provider, Unset, Changed
<1>15. CASE \E r \in Admins : Fails(r)
  <2>1. PICK r \in Admins : Fails(r) BY <1>15
  <2>2. /\ job[r].on \in Accounts
        /\ \A q \in Admins : job'[q].at = "mark" => job[q].at = "mark"
        /\ \A q \in Admins : job'[q].at = "mark" => job'[q].on = job[q].on
      BY <2>1, EndJob DEF Steps, NoJob, Fails
  <2> QED BY <2>1, <2>2 DEF TypeOK, Job, DeletedIsGone, provider, Fails, Fail
<1> QED
  <2>1. \/ UNCHANGED <<row, user, job>>
        \/ \E i \in Instances : Restart(i)
        \/ \E i \in Instances : SweepDrop(i)
        \/ \E a \in Accounts : Age(a)
        \/ Ask
        \/ \E r \in Admins : Suspend(r)
        \/ \E r \in Admins : Insert(r)
        \/ \E r \in Admins : Disable(r)
        \/ \E r \in Admins : Purge(r)
        \/ \E r \in Admins : Remove(r)
        \/ \E r \in Admins : Mark(r)
        \/ \E r \in Admins : Enable(r)
        \/ \E r \in Admins : Unsuspend(r)
        \/ \E r \in Admins : Unset(r)
        \/ \E r \in Admins : Fails(r)
      BY DEF Next, mirror, provider, history, vars, RefreshRead, RefreshApply,
          SweepBegin, SweepListFails, SweepPurge, SweepPurgeFails, SignIn, Pass, Write,
          ExpireToken
  <2> QED BY <2>1, <1>1, <1>2, <1>3, <1>4, <1>5, <1>6, <1>7, <1>8, <1>9, <1>10, <1>11,
      <1>12, <1>13, <1>14, <1>15

(* Only Ask lets a suspension, or a reactivation, of an account begin.     *)
LEMMA SuspendingStep ==
    ASSUME TypeOK, NEW a \in Accounts, Suspending(a)', [Next]_vars
    PROVE  Suspending(a) \/ /\ Ask
                            /\ Reactivating(a) => a \in crossed'
<1>1. CASE UNCHANGED <<job>>
    BY <1>1 DEF Suspending
<1>2. CASE \E i \in Instances : Restart(i)
    BY <1>2, FreeAssumption
        DEF Suspending, Job, TypeOK, Restart, Fail, Listed, NoRead, NoJob, NoSweep
<1>3. CASE Ask
    BY <1>3, AskJob DEF Suspending, NoJob
<1>4. CASE \E r \in Admins : Suspend(r)
  <2>1. PICK r \in Admins : Suspend(r) BY <1>4
  <2> QED BY <2>1, GotoJob, FreeAssumption DEF Steps, NoJob, Suspending, Suspend
<1>5. CASE \E r \in Admins : Insert(r)
  <2>1. PICK r \in Admins : Insert(r) BY <1>5
  <2> QED BY <2>1, GotoJob, FreeAssumption DEF Steps, NoJob, Suspending, Insert
<1>6. CASE \E r \in Admins : Disable(r)
  <2>1. PICK r \in Admins : Disable(r) BY <1>6
  <2> QED BY <2>1, EndJob, FreeAssumption DEF Steps, NoJob, Suspending, Disable
<1>7. CASE \E r \in Admins : Purge(r)
  <2>1. PICK r \in Admins : Purge(r) BY <1>7
  <2> QED BY <2>1, GotoJob, FreeAssumption DEF Steps, NoJob, Suspending, Purge
<1>8. CASE \E r \in Admins : Remove(r)
  <2>1. PICK r \in Admins : Remove(r) BY <1>8
  <2> QED BY <2>1, GotoJob, FreeAssumption DEF Steps, NoJob, Suspending, Remove
<1>9. CASE \E r \in Admins : Mark(r)
  <2>1. PICK r \in Admins : Mark(r) BY <1>9
  <2> QED BY <2>1, EndJob, FreeAssumption DEF Steps, NoJob, Suspending, Mark
<1>10. CASE \E r \in Admins : Enable(r)
  <2>1. PICK r \in Admins : Enable(r) BY <1>10
  <2> QED BY <2>1, GotoJob, EndJob, FreeAssumption DEF Steps, NoJob, Suspending, Enable
<1>11. CASE \E r \in Admins : Unsuspend(r)
  <2>1. PICK r \in Admins : Unsuspend(r) BY <1>11
  <2> QED BY <2>1, GotoJob, FreeAssumption DEF Steps, NoJob, Suspending, Unsuspend
<1>12. CASE \E r \in Admins : Unset(r)
  <2>1. PICK r \in Admins : Unset(r) BY <1>12
  <2> QED BY <2>1, EndJob, FreeAssumption DEF Steps, NoJob, Suspending, Unset
<1>13. CASE \E r \in Admins : Fails(r)
  <2>1. PICK r \in Admins : Fails(r) BY <1>13
  <2> QED BY <2>1, EndJob, FreeAssumption DEF Steps, NoJob, Suspending, Fails
<1> QED
  <2>1. \/ UNCHANGED <<job>>
        \/ \E i \in Instances : Restart(i)
        \/ Ask
        \/ \E r \in Admins : Suspend(r)
        \/ \E r \in Admins : Insert(r)
        \/ \E r \in Admins : Disable(r)
        \/ \E r \in Admins : Purge(r)
        \/ \E r \in Admins : Remove(r)
        \/ \E r \in Admins : Mark(r)
        \/ \E r \in Admins : Enable(r)
        \/ \E r \in Admins : Unsuspend(r)
        \/ \E r \in Admins : Unset(r)
        \/ \E r \in Admins : Fails(r)
      BY DEF Next, mirror, provider, history, vars, RefreshRead, RefreshApply,
          SweepBegin, SweepListFails, SweepPurge, SweepPurgeFails, SweepDrop, SignIn,
          Pass, Write, ExpireToken, Age
  <2> QED BY <2>1, <1>1, <1>2, <1>3, <1>4, <1>5, <1>6, <1>7, <1>8, <1>9, <1>10, <1>11,
      <1>12, <1>13

(* A reactivation begins by freeing the account.                           *)
LEMMA ReactivatingStep ==
    ASSUME TypeOK, NEW a \in Accounts, Reactivating(a)', [Next]_vars
    PROVE  Reactivating(a) \/ /\ Ask
                              /\ \A i \in Instances : a \notin fenced'[i]
                              /\ Suspending(a) => a \in crossed'
<1>1. CASE UNCHANGED <<job>>
    BY <1>1 DEF Reactivating
<1>2. CASE \E i \in Instances : Restart(i)
    BY <1>2, FreeAssumption
        DEF Reactivating, Job, TypeOK, Restart, Fail, Listed, NoRead, NoJob, NoSweep
<1>3. CASE Ask
    BY <1>3, AskJob DEF Reactivating, NoJob
<1>4. CASE \E r \in Admins : Suspend(r)
  <2>1. PICK r \in Admins : Suspend(r) BY <1>4
  <2> QED BY <2>1, GotoJob, FreeAssumption DEF Steps, NoJob, Reactivating, Suspend
<1>5. CASE \E r \in Admins : Insert(r)
  <2>1. PICK r \in Admins : Insert(r) BY <1>5
  <2> QED BY <2>1, GotoJob, FreeAssumption DEF Steps, NoJob, Reactivating, Insert
<1>6. CASE \E r \in Admins : Disable(r)
  <2>1. PICK r \in Admins : Disable(r) BY <1>6
  <2> QED BY <2>1, EndJob, FreeAssumption DEF Steps, NoJob, Reactivating, Disable
<1>7. CASE \E r \in Admins : Purge(r)
  <2>1. PICK r \in Admins : Purge(r) BY <1>7
  <2> QED BY <2>1, GotoJob, FreeAssumption DEF Steps, NoJob, Reactivating, Purge
<1>8. CASE \E r \in Admins : Remove(r)
  <2>1. PICK r \in Admins : Remove(r) BY <1>8
  <2> QED BY <2>1, GotoJob, FreeAssumption DEF Steps, NoJob, Reactivating, Remove
<1>9. CASE \E r \in Admins : Mark(r)
  <2>1. PICK r \in Admins : Mark(r) BY <1>9
  <2> QED BY <2>1, EndJob, FreeAssumption DEF Steps, NoJob, Reactivating, Mark
<1>10. CASE \E r \in Admins : Enable(r)
  <2>1. PICK r \in Admins : Enable(r) BY <1>10
  <2> QED BY <2>1, GotoJob, EndJob, FreeAssumption
      DEF Steps, NoJob, Reactivating, Enable
<1>11. CASE \E r \in Admins : Unsuspend(r)
  <2>1. PICK r \in Admins : Unsuspend(r) BY <1>11
  <2> QED BY <2>1, GotoJob, FreeAssumption DEF Steps, NoJob, Reactivating, Unsuspend
<1>12. CASE \E r \in Admins : Unset(r)
  <2>1. PICK r \in Admins : Unset(r) BY <1>12
  <2> QED BY <2>1, EndJob, FreeAssumption DEF Steps, NoJob, Reactivating, Unset
<1>13. CASE \E r \in Admins : Fails(r)
  <2>1. PICK r \in Admins : Fails(r) BY <1>13
  <2> QED BY <2>1, EndJob, FreeAssumption DEF Steps, NoJob, Reactivating, Fails
<1> QED
  <2>1. \/ UNCHANGED <<job>>
        \/ \E i \in Instances : Restart(i)
        \/ Ask
        \/ \E r \in Admins : Suspend(r)
        \/ \E r \in Admins : Insert(r)
        \/ \E r \in Admins : Disable(r)
        \/ \E r \in Admins : Purge(r)
        \/ \E r \in Admins : Remove(r)
        \/ \E r \in Admins : Mark(r)
        \/ \E r \in Admins : Enable(r)
        \/ \E r \in Admins : Unsuspend(r)
        \/ \E r \in Admins : Unset(r)
        \/ \E r \in Admins : Fails(r)
      BY DEF Next, mirror, provider, history, vars, RefreshRead, RefreshApply,
          SweepBegin, SweepListFails, SweepPurge, SweepPurgeFails, SweepDrop, SignIn,
          Pass, Write, ExpireToken, Age
  <2> QED BY <2>1, <1>1, <1>2, <1>3, <1>4, <1>5, <1>6, <1>7, <1>8, <1>9, <1>10, <1>11,
      <1>12, <1>13

(* Whom an instance must refuse, it goes on refusing.                      *)
LEMMA FencedStep ==
    ASSUME TypeOK, FencedSound, [Next]_vars
    PROVE  FencedSound'
<1> SUFFICES ASSUME NEW j \in Instances, NEW b \in fenced'[j]
             PROVE  /\ b \in set'[j] /\ row'[b] # "none" /\ ~Reactivating(b)'
                    /\ read'[j].at = "read" /\ ~moved'[j] => b \in read'[j].subjects
    BY DEF FencedSound
<1>0. b \in Accounts BY TypeStep DEF TypeOK
<1>1. CASE UNCHANGED <<row, mirror, job, fenced>>
    BY <1>0, <1>1 DEF FencedSound, Reactivating, mirror
<1>2. CASE \E i \in Instances : RefreshRead(i)
  <2>1. b \in fenced[j] BY <1>2 DEF history, RefreshRead
  <2>2. ~Reactivating(b)' BY <1>2, <1>0, <2>1, ReactivatingStep
      DEF FencedSound, Reactivating
  <2> QED BY <1>2, <1>0, <2>1, <2>2
      DEF TypeOK, FencedSound, Reactivating, mirror, RefreshRead, Listed
<1>3. CASE \E i \in Instances : RefreshApply(i)
  <2>1. b \in fenced[j] BY <1>3 DEF history, RefreshApply
  <2>2. ~Reactivating(b)' BY <1>3, <1>0, <2>1, ReactivatingStep
      DEF FencedSound, Reactivating
  <2> QED BY <1>3, <1>0, <2>1, <2>2 DEF TypeOK, FencedSound, Reactivating, mirror,
      RefreshApply, Current, Fresh, NoRead
<1>4. CASE \E i \in Instances : Restart(i)
  <2>1. b \in fenced[j] BY <1>4 DEF history, Restart
  <2>2. ~Reactivating(b)' BY <1>4, <1>0, <2>1, ReactivatingStep
      DEF FencedSound, Reactivating
  <2> QED BY <1>4, <1>0, <2>1, <2>2 DEF TypeOK, FencedSound, Reactivating, mirror,
      Restart, Fail, Listed, NoRead, NoJob, NoSweep, Job
<1>5. CASE \E i \in Instances : SweepDrop(i)
  <2>1. b \in fenced[j] /\ row'[b] # "none" BY <1>5, <1>0
      DEF TypeOK, FencedSound, SweepDrop
  <2>2. ~Reactivating(b)' BY <1>5, <1>0, <2>1, ReactivatingStep
      DEF FencedSound, Reactivating
  <2> QED BY <1>5, <1>0, <2>1, <2>2
      DEF TypeOK, FencedSound, Reactivating, mirror, SweepDrop, NoSweep
<1>6. CASE \E a \in Accounts : Age(a)
  <2>1. b \in fenced[j] BY <1>6 DEF history, Age
  <2>2. ~Reactivating(b)' BY <1>6, <1>0, <2>1, ReactivatingStep
      DEF FencedSound, Reactivating
  <2> QED BY <1>6, <1>0, <2>1, <2>2 DEF TypeOK, FencedSound, Reactivating, mirror, Age
<1>7. CASE Ask
  <2>1. b \in fenced[j] BY <1>7, AskJob DEF TypeOK
  <2> QED BY <1>7, <1>0, <2>1, ReactivatingStep
      DEF FencedSound, Reactivating, Ask, mirror
<1>8. CASE \E r \in Admins : Suspend(r)
  <2>1. b \in fenced[j] BY <1>8 DEF history, Suspend
  <2>2. ~Reactivating(b)' BY <1>8, <1>0, <2>1, ReactivatingStep
      DEF FencedSound, Reactivating
  <2> QED BY <1>8, <1>0, <2>1, <2>2
      DEF TypeOK, FencedSound, Reactivating, mirror, Suspend
<1>9. CASE \E r \in Admins : Insert(r)
  <2>1. PICK r \in Admins : Insert(r) BY <1>9
  <2>2. b \in fenced[j] \/ (b = job[r].on /\ j = job[r].by /\ ~Reactivating(b) /\ row[b] # "none")
      BY <1>0, <2>1 DEF TypeOK, Insert
  <2>3. ~Reactivating(b)' /\ row'[b] # "none"
      BY <1>0, <2>1, <2>2, ReactivatingStep DEF FencedSound, Reactivating, Insert, Ask
  <2> QED BY <1>0, <2>1, <2>2, <2>3 DEF TypeOK, FencedSound, Insert, Changed
<1>10. CASE \E r \in Admins : Disable(r)
  <2>1. b \in fenced[j] BY <1>10 DEF history, Disable
  <2>2. ~Reactivating(b)' BY <1>10, <1>0, <2>1, ReactivatingStep
      DEF FencedSound, Reactivating
  <2> QED BY <1>10, <1>0, <2>1, <2>2
      DEF TypeOK, FencedSound, Reactivating, mirror, Disable
<1>11. CASE \E r \in Admins : Purge(r)
  <2>1. b \in fenced[j] BY <1>11 DEF history, Purge
  <2>2. ~Reactivating(b)' BY <1>11, <1>0, <2>1, ReactivatingStep
      DEF FencedSound, Reactivating
  <2> QED BY <1>11, <1>0, <2>1, <2>2
      DEF TypeOK, FencedSound, Reactivating, mirror, Purge
<1>12. CASE \E r \in Admins : Remove(r)
  <2>1. b \in fenced[j] BY <1>12 DEF history, Remove
  <2>2. ~Reactivating(b)' BY <1>12, <1>0, <2>1, ReactivatingStep
      DEF FencedSound, Reactivating
  <2> QED BY <1>12, <1>0, <2>1, <2>2
      DEF TypeOK, FencedSound, Reactivating, mirror, Remove
<1>13. CASE \E r \in Admins : Mark(r)
  <2>1. b \in fenced[j] BY <1>13 DEF history, Mark
  <2>2. ~Reactivating(b)' BY <1>13, <1>0, <2>1, ReactivatingStep
      DEF FencedSound, Reactivating
  <2> QED BY <1>13, <1>0, <2>1, <2>2 DEF TypeOK, FencedSound, Reactivating, mirror, Mark
<1>14. CASE \E r \in Admins : Enable(r)
  <2>1. b \in fenced[j] BY <1>14 DEF history, Enable
  <2>2. ~Reactivating(b)' BY <1>14, <1>0, <2>1, ReactivatingStep
      DEF FencedSound, Reactivating
  <2> QED BY <1>14, <1>0, <2>1, <2>2
      DEF TypeOK, FencedSound, Reactivating, mirror, Enable
<1>15. CASE \E r \in Admins : Unsuspend(r)
  <2>1. b \in fenced[j] BY <1>15 DEF history, Unsuspend
  <2>2. ~Reactivating(b)' BY <1>15, <1>0, <2>1, ReactivatingStep
      DEF FencedSound, Reactivating
  <2> QED BY <1>15, <1>0, <2>1, <2>2
      DEF TypeOK, FencedSound, Reactivating, mirror, Unsuspend, DroppedByReactivation
<1>16. CASE \E r \in Admins : Unset(r)
  <2>1. b \in fenced[j] BY <1>16 DEF history, Unset
  <2>2. ~Reactivating(b)' BY <1>16, <1>0, <2>1, ReactivatingStep
      DEF FencedSound, Reactivating
  <2> QED BY <1>16, <1>0, <2>1, <2>2
      DEF TypeOK, FencedSound, Reactivating, mirror, Unset, Changed
<1>17. CASE \E r \in Admins : Fails(r)
  <2>1. b \in fenced[j] BY <1>17 DEF history, Fails
  <2>2. ~Reactivating(b)' BY <1>17, <1>0, <2>1, ReactivatingStep
      DEF FencedSound, Reactivating
  <2> QED BY <1>17, <1>0, <2>1, <2>2
      DEF TypeOK, FencedSound, Reactivating, mirror, Fails, Fail
<1> QED
  <2>1. \/ UNCHANGED <<row, mirror, job, fenced>>
        \/ \E i \in Instances : RefreshRead(i)
        \/ \E i \in Instances : RefreshApply(i)
        \/ \E i \in Instances : Restart(i)
        \/ \E i \in Instances : SweepDrop(i)
        \/ \E a \in Accounts : Age(a)
        \/ Ask
        \/ \E r \in Admins : Suspend(r)
        \/ \E r \in Admins : Insert(r)
        \/ \E r \in Admins : Disable(r)
        \/ \E r \in Admins : Purge(r)
        \/ \E r \in Admins : Remove(r)
        \/ \E r \in Admins : Mark(r)
        \/ \E r \in Admins : Enable(r)
        \/ \E r \in Admins : Unsuspend(r)
        \/ \E r \in Admins : Unset(r)
        \/ \E r \in Admins : Fails(r)
      BY DEF Next, mirror, provider, history, vars, SweepBegin, SweepListFails,
          SweepPurge, SweepPurgeFails, SignIn, Pass, Write, ExpireToken
  <2> QED BY <2>1, <1>1, <1>2, <1>3, <1>4, <1>5, <1>6, <1>7, <1>8, <1>9, <1>10, <1>11,
      <1>12, <1>13, <1>14, <1>15, <1>16, <1>17

(* A suspension and a reactivation that meet are on record.                *)
LEMMA NoMeeting ==
    ASSUME TypeOK, LockSound, [Next]_vars, NEW a \in Accounts \ crossed'
    PROVE  a \notin crossed /\ ~(Suspending(a)' /\ Reactivating(a)')
<1>1. a \notin crossed
  <2>1. CASE Ask BY <2>1, AskJob DEF TypeOK
  <2>2. CASE UNCHANGED crossed BY <2>2
  <2>3. Ask \/ UNCHANGED crossed
      BY DEF Next, vars, history, RefreshRead, RefreshApply, Restart, SweepBegin,
          SweepListFails, SweepPurge, SweepPurgeFails, SweepDrop, SignIn, Pass, Write,
          ExpireToken, Age, Suspend, Insert, Disable, Purge, Remove, Mark, Enable,
          Unsuspend, Unset, Fails
  <2> QED BY <2>1, <2>2, <2>3
<1>2. ~(Suspending(a) /\ Reactivating(a)) BY <1>1 DEF LockSound
<1>3. CASE Ask
  <2>1. PICK r \in Admins, b \in Accounts, what \in {"suspend", "delete", "reactivate"} :
          /\ job[r] = NoJob /\ job'[r].on = b
          /\ job'[r].at = IF what = "reactivate" THEN "enable" ELSE "suspend"
          /\ \A q \in Admins : q # r => job'[q] = job[q]
          /\ crossed' = IF \/ what = "reactivate" /\ Suspending(b)
                           \/ what # "reactivate" /\ Reactivating(b)
                        THEN crossed \cup {b} ELSE crossed
      BY <1>3, AskJob
  <2>2. CASE what = "reactivate"
    <3>1. job'[r].at = "enable" /\ (b = a => ~Suspending(a)) BY <2>1, <2>2
    <3>2. Suspending(a)' => Suspending(a) BY <2>1, <3>1 DEF Suspending
    <3>3. Reactivating(a)' => Reactivating(a) \/ b = a BY <2>1 DEF Reactivating
    <3> QED BY <1>1, <1>2, <3>1, <3>2, <3>3
  <2>3. CASE what # "reactivate"
    <3>1. job'[r].at = "suspend" /\ (b = a => ~Reactivating(a)) BY <2>1, <2>3
    <3>2. Reactivating(a)' => Reactivating(a) BY <2>1, <3>1 DEF Reactivating
    <3>3. Suspending(a)' => Suspending(a) \/ b = a BY <2>1 DEF Suspending
    <3> QED BY <1>1, <1>2, <3>1, <3>2, <3>3
  <2> QED BY <2>2, <2>3
<1>4. CASE ~Ask BY <1>1, <1>2, <1>4, SuspendingStep, ReactivatingStep
    DEF Suspending, Reactivating
<1> QED BY <1>1, <1>3, <1>4

(* Without such a meeting the row outlives the lock.                       *)
LEMMA LockStep ==
    ASSUME TypeOK, DeletedIsGone, LockSound, [Next]_vars
    PROVE  LockSound'
<1> SUFFICES ASSUME NEW b \in Accounts \ crossed'
             PROVE  /\ ~(Suspending(b)' /\ Reactivating(b)')
                    /\ user'[b] = "disabled" => row'[b] # "none"
                    /\ \A q \in Admins : job'[q].on = b =>
                        /\ job'[q].at \in {"insert", "disable"} =>
                               row'[b] # "none" \/ user'[b] = "gone"
                        /\ job'[q].at \in {"unsuspend", "unset"} => user'[b] # "disabled"
    BY DEF LockSound, Suspending, Reactivating
<1>0. b \notin crossed /\ ~(Suspending(b)' /\ Reactivating(b)')
    BY NoMeeting DEF Suspending, Reactivating
<1>1. CASE UNCHANGED <<row, user, job, crossed>>
    BY <1>0, <1>1 DEF LockSound, Suspending, Reactivating
<1>2. CASE \E i \in Instances : Restart(i)
  <2>2. user'[b] = "disabled" => row'[b] # "none"
      BY <1>2, <1>0 DEF TypeOK, LockSound, DeletedIsGone, provider, Restart, Fail,
          Listed, NoRead, NoJob, NoSweep, Job
  <2> QED BY <1>2, <1>0, <2>2 DEF TypeOK, LockSound, DeletedIsGone, provider, Restart,
      Fail, Listed, NoRead, NoJob, NoSweep, Job
<1>3. CASE \E i \in Instances : SweepDrop(i)
  <2>2. user'[b] = "disabled" => row'[b] # "none"
      BY <1>3, <1>0 DEF TypeOK, LockSound, DeletedIsGone, provider, SweepDrop, NoSweep
  <2> QED BY <1>3, <1>0, <2>2
      DEF TypeOK, LockSound, DeletedIsGone, provider, SweepDrop, NoSweep
<1>4. CASE \E a \in Accounts : Age(a)
  <2>2. user'[b] = "disabled" => row'[b] # "none"
      BY <1>4, <1>0 DEF TypeOK, LockSound, DeletedIsGone, provider, Age
  <2> QED BY <1>4, <1>0, <2>2 DEF TypeOK, LockSound, DeletedIsGone, provider, Age
<1>5. CASE Ask
  <2>2. UNCHANGED <<row, user>> BY <1>5 DEF Ask, provider
  <2>3. \A q \in Admins : job'[q] = job[q] \/ job'[q].at \in {"suspend", "enable"}
      BY <1>5, AskJob DEF TypeOK
  <2> QED BY <1>0, <2>2, <2>3 DEF TypeOK, LockSound
<1>6. CASE \E r \in Admins : Suspend(r)
  <2>2. PICK r \in Admins : Suspend(r) BY <1>6
  <2>3. /\ job[r].on \in Accounts
        /\ \A q \in Admins : q # r => job'[q].on = job[q].on /\ job'[q].at = job[q].at
      BY <2>2, GotoJob DEF Steps, Suspend
  <2>4. job'[r].at = "insert"
      BY <2>2, GotoJob DEF Steps, NoJob, Suspend
  <2>5. user'[b] = "disabled" => row'[b] # "none"
      BY <1>0, <2>2 DEF TypeOK, Job, LockSound, DeletedIsGone, provider, Suspend
  <2>6. \A q \in Admins : q # r \/ job'[r].at # "idle" => job'[q].on = job[q].on
      BY <2>2, GotoJob DEF Steps, NoJob, Suspend
  <2> QED BY <1>0, <2>2, <2>3, <2>4, <2>5, <2>6
       DEF TypeOK, LockSound, DeletedIsGone, Suspending, Reactivating, provider, Suspend
<1>7. CASE \E r \in Admins : Insert(r)
  <2>2. PICK r \in Admins : Insert(r) BY <1>7
  <2>3. /\ job[r].on \in Accounts
        /\ \A q \in Admins : q # r => job'[q].on = job[q].on /\ job'[q].at = job[q].at
      BY <2>2, GotoJob DEF Steps, Insert
  <2>4. job'[r].at = (IF job[r].deletes THEN "purge" ELSE "disable")
      BY <2>2, GotoJob DEF Steps, NoJob, Insert
  <2>5. user'[b] = "disabled" => row'[b] # "none"
      BY <1>0, <2>2 DEF TypeOK, Job, LockSound, DeletedIsGone, provider, Insert, Changed
  <2>6. \A q \in Admins : q # r \/ job'[r].at # "idle" => job'[q].on = job[q].on
      BY <2>2, GotoJob DEF Steps, NoJob, Insert
  <2> QED BY <1>0, <2>2, <2>3, <2>4, <2>5, <2>6
       DEF TypeOK, LockSound, DeletedIsGone, Suspending, Reactivating, provider,
           Insert, Changed
<1>8. CASE \E r \in Admins : Disable(r)
  <2>2. PICK r \in Admins : Disable(r) BY <1>8
  <2>3. /\ job[r].on \in Accounts
        /\ \A q \in Admins : q # r => job'[q].on = job[q].on /\ job'[q].at = job[q].at
      BY <2>2, EndJob DEF Steps, Disable
  <2>4. job'[r].at = "idle"
      BY <2>2, EndJob DEF Steps, NoJob, Disable
  <2>5. user'[b] = "disabled" => row'[b] # "none"
      BY <1>0, <2>2 DEF TypeOK, Job, LockSound, DeletedIsGone, provider, Disable
  <2>6. \A q \in Admins : q # r \/ job'[r].at # "idle" => job'[q].on = job[q].on
      BY <2>2, EndJob DEF Steps, NoJob, Disable
  <2> QED BY <1>0, <2>2, <2>3, <2>4, <2>5, <2>6
       DEF TypeOK, LockSound, DeletedIsGone, Suspending, Reactivating, provider, Disable
<1>9. CASE \E r \in Admins : Purge(r)
  <2>2. PICK r \in Admins : Purge(r) BY <1>9
  <2>3. /\ job[r].on \in Accounts
        /\ \A q \in Admins : q # r => job'[q].on = job[q].on /\ job'[q].at = job[q].at
      BY <2>2, GotoJob DEF Steps, Purge
  <2>4. job'[r].at = "remove"
      BY <2>2, GotoJob DEF Steps, NoJob, Purge
  <2>5. user'[b] = "disabled" => row'[b] # "none"
      BY <1>0, <2>2 DEF TypeOK, Job, LockSound, DeletedIsGone, provider, Purge
  <2>6. \A q \in Admins : q # r \/ job'[r].at # "idle" => job'[q].on = job[q].on
      BY <2>2, GotoJob DEF Steps, NoJob, Purge
  <2> QED BY <1>0, <2>2, <2>3, <2>4, <2>5, <2>6
       DEF TypeOK, LockSound, DeletedIsGone, Suspending, Reactivating, provider, Purge
<1>10. CASE \E r \in Admins : Remove(r)
  <2>2. PICK r \in Admins : Remove(r) BY <1>10
  <2>3. /\ job[r].on \in Accounts
        /\ \A q \in Admins : q # r => job'[q].on = job[q].on /\ job'[q].at = job[q].at
      BY <2>2, GotoJob DEF Steps, Remove
  <2>4. job'[r].at = "mark"
      BY <2>2, GotoJob DEF Steps, NoJob, Remove
  <2>5. user'[b] = "disabled" => row'[b] # "none"
      BY <1>0, <2>2 DEF TypeOK, Job, LockSound, DeletedIsGone, provider, Remove
  <2>6. \A q \in Admins : q # r \/ job'[r].at # "idle" => job'[q].on = job[q].on
      BY <2>2, GotoJob DEF Steps, NoJob, Remove
  <2> QED BY <1>0, <2>2, <2>3, <2>4, <2>5, <2>6
       DEF TypeOK, LockSound, DeletedIsGone, Suspending, Reactivating, provider, Remove
<1>11. CASE \E r \in Admins : Mark(r)
  <2>2. PICK r \in Admins : Mark(r) BY <1>11
  <2>3. /\ job[r].on \in Accounts
        /\ \A q \in Admins : q # r => job'[q].on = job[q].on /\ job'[q].at = job[q].at
      BY <2>2, EndJob DEF Steps, Mark
  <2>4. job'[r].at = "idle"
      BY <2>2, EndJob DEF Steps, NoJob, Mark
  <2>5. user'[b] = "disabled" => row'[b] # "none"
      BY <1>0, <2>2 DEF TypeOK, Job, LockSound, DeletedIsGone, provider, Mark
  <2>6. \A q \in Admins : q # r \/ job'[r].at # "idle" => job'[q].on = job[q].on
      BY <2>2, EndJob DEF Steps, NoJob, Mark
  <2> QED BY <1>0, <2>2, <2>3, <2>4, <2>5, <2>6
       DEF TypeOK, LockSound, DeletedIsGone, Suspending, Reactivating, provider, Mark
<1>12. CASE \E r \in Admins : Enable(r)
  <2>2. PICK r \in Admins : Enable(r) BY <1>12
  <2>3. /\ job[r].on \in Accounts
        /\ \A q \in Admins : q # r => job'[q].on = job[q].on /\ job'[q].at = job[q].at
      BY <2>2, GotoJob, EndJob DEF Steps, Enable
  <2>4. job'[r].at = (IF user[job[r].on] = "gone" THEN "idle" ELSE "unsuspend")
      BY <2>2, GotoJob, EndJob DEF Steps, NoJob, Enable
  <2>5. user'[b] = "disabled" => row'[b] # "none"
      BY <1>0, <2>2 DEF TypeOK, Job, LockSound, DeletedIsGone, provider, Enable
  <2>6. \A q \in Admins : q # r \/ job'[r].at # "idle" => job'[q].on = job[q].on
      BY <2>2, GotoJob, EndJob DEF Steps, NoJob, Enable
  <2> QED BY <1>0, <2>2, <2>3, <2>4, <2>5, <2>6
       DEF TypeOK, LockSound, DeletedIsGone, Suspending, Reactivating, provider, Enable
<1>13. CASE \E r \in Admins : Unsuspend(r)
  <2>2. PICK r \in Admins : Unsuspend(r) BY <1>13
  <2>3. /\ job[r].on \in Accounts
        /\ \A q \in Admins : q # r => job'[q].on = job[q].on /\ job'[q].at = job[q].at
      BY <2>2, GotoJob DEF Steps, Unsuspend
  <2>4. job'[r].at = "unset"
      BY <2>2, GotoJob DEF Steps, NoJob, Unsuspend
  <2>5. user'[b] = "disabled" => row'[b] # "none"
      BY <1>0, <2>2 DEF TypeOK, Job, LockSound, DeletedIsGone, provider, Unsuspend,
          DroppedByReactivation
  <2>6. \A q \in Admins : q # r \/ job'[r].at # "idle" => job'[q].on = job[q].on
      BY <2>2, GotoJob DEF Steps, NoJob, Unsuspend
  <2> QED BY <1>0, <2>2, <2>3, <2>4, <2>5, <2>6
       DEF TypeOK, LockSound, DeletedIsGone, Suspending, Reactivating, provider,
           Unsuspend, DroppedByReactivation
<1>14. CASE \E r \in Admins : Unset(r)
  <2>2. PICK r \in Admins : Unset(r) BY <1>14
  <2>3. /\ job[r].on \in Accounts
        /\ \A q \in Admins : q # r => job'[q].on = job[q].on /\ job'[q].at = job[q].at
      BY <2>2, EndJob DEF Steps, Unset
  <2>4. job'[r].at = "idle"
      BY <2>2, EndJob DEF Steps, NoJob, Unset
  <2>5. user'[b] = "disabled" => row'[b] # "none"
      BY <1>0, <2>2 DEF TypeOK, Job, LockSound, DeletedIsGone, provider, Unset, Changed
  <2>6. \A q \in Admins : q # r \/ job'[r].at # "idle" => job'[q].on = job[q].on
      BY <2>2, EndJob DEF Steps, NoJob, Unset
  <2> QED BY <1>0, <2>2, <2>3, <2>4, <2>5, <2>6
       DEF TypeOK, LockSound, DeletedIsGone, Suspending, Reactivating, provider, Unset,
           Changed
<1>15. CASE \E r \in Admins : Fails(r)
  <2>2. PICK r \in Admins : Fails(r) BY <1>15
  <2>3. /\ job[r].on \in Accounts
        /\ \A q \in Admins : q # r => job'[q].on = job[q].on /\ job'[q].at = job[q].at
      BY <2>2, EndJob DEF Steps, Fails
  <2>4. job'[r].at = "idle"
      BY <2>2, EndJob DEF Steps, NoJob, Fails
  <2>5. user'[b] = "disabled" => row'[b] # "none"
      BY <1>0, <2>2 DEF TypeOK, Job, LockSound, DeletedIsGone, provider, Fails, Fail
  <2>6. \A q \in Admins : q # r \/ job'[r].at # "idle" => job'[q].on = job[q].on
      BY <2>2, EndJob DEF Steps, NoJob, Fails
  <2> QED BY <1>0, <2>2, <2>3, <2>4, <2>5, <2>6
       DEF TypeOK, LockSound, DeletedIsGone, Suspending, Reactivating, provider, Fails,
           Fail
<1> QED
  <2>1. \/ UNCHANGED <<row, user, job, crossed>>
        \/ \E i \in Instances : Restart(i)
        \/ \E i \in Instances : SweepDrop(i)
        \/ \E a \in Accounts : Age(a)
        \/ Ask
        \/ \E r \in Admins : Suspend(r)
        \/ \E r \in Admins : Insert(r)
        \/ \E r \in Admins : Disable(r)
        \/ \E r \in Admins : Purge(r)
        \/ \E r \in Admins : Remove(r)
        \/ \E r \in Admins : Mark(r)
        \/ \E r \in Admins : Enable(r)
        \/ \E r \in Admins : Unsuspend(r)
        \/ \E r \in Admins : Unset(r)
        \/ \E r \in Admins : Fails(r)
      BY DEF Next, mirror, provider, history, vars, RefreshRead, RefreshApply,
          SweepBegin, SweepListFails, SweepPurge, SweepPurgeFails, SignIn, Pass, Write,
          ExpireToken
  <2> QED BY <2>1, <1>1, <1>2, <1>3, <1>4, <1>5, <1>6, <1>7, <1>8, <1>9, <1>10, <1>11,
      <1>12, <1>13, <1>14, <1>15

(* Nothing brings a dead account back.                                     *)
LEMMA DeadStep ==
    ASSUME TypeOK, NEW a \in Accounts, Dead(a), [Next]_vars
    PROVE  Dead(a)'
<1>1. CASE UNCHANGED <<user, token, passed, job>>
    BY <1>1 DEF Dead
<1>2. CASE \E i \in Instances : Restart(i)
    BY <1>2, FreeAssumption
        DEF TypeOK, Dead, provider, Restart, Fail, Listed, NoRead, NoJob, NoSweep, Job
<1>3. CASE \E i \in Instances, d \in Accounts : SignIn(i, d)
    BY <1>3, FreeAssumption DEF TypeOK, Dead, provider, SignIn
<1>4. CASE \E i \in Instances, d \in Accounts : Pass(i, d)
    BY <1>4, FreeAssumption DEF TypeOK, Dead, provider, Pass
<1>5. CASE \E i \in Instances, d \in Accounts : Write(i, d)
    BY <1>5, FreeAssumption DEF TypeOK, Dead, provider, Write
<1>6. CASE \E d \in Accounts : ExpireToken(d)
    BY <1>6, FreeAssumption DEF TypeOK, Dead, provider, ExpireToken
<1>7. CASE Ask
    BY <1>7, AskJob DEF TypeOK, Dead, Ask, provider
<1>8. CASE \E r \in Admins : Suspend(r)
  <2>1. PICK r \in Admins : Suspend(r) BY <1>8
  <2>2. /\ job[r].on \in Accounts
        /\ \A q \in Admins : job'[q].on = a /\ job'[q].at = "unsuspend" =>
             job[q].on = a /\ (job[q].at = "unsuspend")
      BY <2>1, GotoJob, FreeAssumption DEF Steps, NoJob, Suspend
  <2> QED BY <2>1, <2>2 DEF TypeOK, Dead, provider, Suspend
<1>9. CASE \E r \in Admins : Insert(r)
  <2>1. PICK r \in Admins : Insert(r) BY <1>9
  <2>2. /\ job[r].on \in Accounts
        /\ \A q \in Admins : job'[q].on = a /\ job'[q].at = "unsuspend" =>
             job[q].on = a /\ (job[q].at = "unsuspend")
      BY <2>1, GotoJob, FreeAssumption DEF Steps, NoJob, Insert
  <2> QED BY <2>1, <2>2 DEF TypeOK, Dead, provider, Insert, Changed
<1>10. CASE \E r \in Admins : Disable(r)
  <2>1. PICK r \in Admins : Disable(r) BY <1>10
  <2>2. /\ job[r].on \in Accounts
        /\ \A q \in Admins : job'[q].on = a /\ job'[q].at = "unsuspend" =>
             job[q].on = a /\ (job[q].at = "unsuspend")
      BY <2>1, EndJob, FreeAssumption DEF Steps, NoJob, Disable
  <2> QED BY <2>1, <2>2 DEF TypeOK, Dead, provider, Disable
<1>11. CASE \E r \in Admins : Purge(r)
  <2>1. PICK r \in Admins : Purge(r) BY <1>11
  <2>2. /\ job[r].on \in Accounts
        /\ \A q \in Admins : job'[q].on = a /\ job'[q].at = "unsuspend" =>
             job[q].on = a /\ (job[q].at = "unsuspend")
      BY <2>1, GotoJob, FreeAssumption DEF Steps, NoJob, Purge
  <2> QED BY <2>1, <2>2 DEF TypeOK, Dead, provider, Purge
<1>12. CASE \E r \in Admins : Remove(r)
  <2>1. PICK r \in Admins : Remove(r) BY <1>12
  <2>2. /\ job[r].on \in Accounts
        /\ \A q \in Admins : job'[q].on = a /\ job'[q].at = "unsuspend" =>
             job[q].on = a /\ (job[q].at = "unsuspend")
      BY <2>1, GotoJob, FreeAssumption DEF Steps, NoJob, Remove
  <2> QED BY <2>1, <2>2 DEF TypeOK, Dead, provider, Remove
<1>13. CASE \E r \in Admins : Mark(r)
  <2>1. PICK r \in Admins : Mark(r) BY <1>13
  <2>2. /\ job[r].on \in Accounts
        /\ \A q \in Admins : job'[q].on = a /\ job'[q].at = "unsuspend" =>
             job[q].on = a /\ (job[q].at = "unsuspend")
      BY <2>1, EndJob, FreeAssumption DEF Steps, NoJob, Mark
  <2> QED BY <2>1, <2>2 DEF TypeOK, Dead, provider, Mark
<1>14. CASE \E r \in Admins : Enable(r)
  <2>1. PICK r \in Admins : Enable(r) BY <1>14
  <2>2. /\ job[r].on \in Accounts
        /\ \A q \in Admins : job'[q].on = a /\ job'[q].at = "unsuspend" =>
             job[q].on = a /\ (job[q].at = "unsuspend" \/ user[a] # "gone")
      BY <2>1, GotoJob, EndJob, FreeAssumption DEF Steps, NoJob, Enable
  <2> QED BY <2>1, <2>2 DEF TypeOK, Dead, provider, Enable
<1>15. CASE \E r \in Admins : Unsuspend(r)
  <2>1. PICK r \in Admins : Unsuspend(r) BY <1>15
  <2>2. /\ job[r].on \in Accounts
        /\ \A q \in Admins : job'[q].on = a /\ job'[q].at = "unsuspend" =>
             job[q].on = a /\ (job[q].at = "unsuspend")
      BY <2>1, GotoJob, FreeAssumption DEF Steps, NoJob, Unsuspend
  <2> QED BY <2>1, <2>2 DEF TypeOK, Dead, provider, Unsuspend, DroppedByReactivation
<1>16. CASE \E r \in Admins : Unset(r)
  <2>1. PICK r \in Admins : Unset(r) BY <1>16
  <2>2. /\ job[r].on \in Accounts
        /\ \A q \in Admins : job'[q].on = a /\ job'[q].at = "unsuspend" =>
             job[q].on = a /\ (job[q].at = "unsuspend")
      BY <2>1, EndJob, FreeAssumption DEF Steps, NoJob, Unset
  <2> QED BY <2>1, <2>2 DEF TypeOK, Dead, provider, Unset, Changed
<1>17. CASE \E r \in Admins : Fails(r)
  <2>1. PICK r \in Admins : Fails(r) BY <1>17
  <2>2. /\ job[r].on \in Accounts
        /\ \A q \in Admins : job'[q].on = a /\ job'[q].at = "unsuspend" =>
             job[q].on = a /\ (job[q].at = "unsuspend")
      BY <2>1, EndJob, FreeAssumption DEF Steps, NoJob, Fails
  <2> QED BY <2>1, <2>2 DEF TypeOK, Dead, provider, Fails, Fail
<1> QED
  <2>1. \/ UNCHANGED <<user, token, passed, job>>
        \/ \E i \in Instances : Restart(i)
        \/ \E i \in Instances, d \in Accounts : SignIn(i, d)
        \/ \E i \in Instances, d \in Accounts : Pass(i, d)
        \/ \E i \in Instances, d \in Accounts : Write(i, d)
        \/ \E d \in Accounts : ExpireToken(d)
        \/ Ask
        \/ \E r \in Admins : Suspend(r)
        \/ \E r \in Admins : Insert(r)
        \/ \E r \in Admins : Disable(r)
        \/ \E r \in Admins : Purge(r)
        \/ \E r \in Admins : Remove(r)
        \/ \E r \in Admins : Mark(r)
        \/ \E r \in Admins : Enable(r)
        \/ \E r \in Admins : Unsuspend(r)
        \/ \E r \in Admins : Unset(r)
        \/ \E r \in Admins : Fails(r)
      BY DEF Next, mirror, provider, history, vars, RefreshRead, RefreshApply,
          SweepBegin, SweepListFails, SweepPurge, SweepPurgeFails, SweepDrop, Age
  <2> QED BY <2>1, <1>1, <1>2, <1>3, <1>4, <1>5, <1>6, <1>7, <1>8, <1>9, <1>10, <1>11,
      <1>12, <1>13, <1>14, <1>15, <1>16, <1>17

(* A row is dropped only when nothing is left to drop it from.             *)
LEMMA SweepStep ==
    ASSUME TypeOK, DeletedIsGone, SweepSound, [Next]_vars
    PROVE  SweepSound'
<1> SUFFICES ASSUME NEW b \in Accounts
             PROVE  /\ row'[b] = "expired" => Dead(b)'
                    /\ b \in settled' /\ row'[b] # "deleted" => Dead(b)'
                    /\ b \in settled' /\ b \notin unpurged' /\ row'[b] = "none" => b \notin data'
                    /\ \A i \in Instances : b \in sweep'[i].drop =>
                         Dead(b)' /\ (b \notin sweep'[i].left /\ b \notin unpurged' => b \notin data')
    BY TypeStep DEF TypeOK, Sweep, SweepSound, Dead
<1>0. Dead(b) => Dead(b)' BY DeadStep DEF Dead
<1>1. CASE UNCHANGED <<row, data, sweep, settled, unpurged>>
    BY <1>0, <1>1 DEF SweepSound, Sweep, TypeOK
<1>2. CASE \E i \in Instances : Restart(i)
    BY <1>0, <1>2 DEF TypeOK, Sweep, SweepSound, history, Restart, Fail, Listed,
        NoRead, NoJob, NoSweep, Job
<1>3. CASE \E i \in Instances : SweepBegin(i)
    BY <1>0, <1>3 DEF TypeOK, Sweep, SweepSound, history, SweepBegin, Deleted, NoSweep
<1>4. CASE \E i \in Instances : SweepListFails(i)
    BY <1>0, <1>4 DEF TypeOK, Sweep, SweepSound, history, SweepListFails, Fail,
        Deleted, NoSweep
<1>5. CASE \E i \in Instances : SweepPurge(i)
    BY <1>0, <1>5 DEF TypeOK, Sweep, SweepSound, history, SweepPurge, PurgedAgain
<1>6. CASE \E i \in Instances : SweepPurgeFails(i)
    BY <1>0, <1>6 DEF TypeOK, Sweep, SweepSound, history, SweepPurgeFails, Fail
<1>7. CASE \E i \in Instances : SweepDrop(i)
    BY <1>0, <1>7 DEF TypeOK, Sweep, SweepSound, history, SweepDrop, NoSweep
<1>8. CASE \E i \in Instances, a \in Accounts : Write(i, a)
  <2>1. PICK i \in Instances, a \in Accounts : Write(i, a) BY <1>8
  <2>2. Dead(b) => b # a BY <2>1 DEF Dead, Write
  <2>3. Dead(b) => (b \in data' <=> b \in data) BY <2>1, <2>2 DEF Write
  <2> QED BY <1>0, <2>1, <2>3 DEF TypeOK, Sweep, SweepSound, history, Write
<1>9. CASE \E a \in Accounts : Age(a)
  <2>1. PICK a \in Accounts : Age(a) BY <1>9
  <2>2. Dead(a) BY <2>1 DEF Dead, DeletedIsGone, Age
  <2> QED BY <1>0, <2>1, <2>2 DEF TypeOK, Sweep, SweepSound, history, Age
<1>10. CASE \E r \in Admins : Suspend(r)
  <2>1. PICK r \in Admins : Suspend(r) BY <1>10
  <2>2. job[r].on \in Accounts BY <2>1, GotoJob DEF Steps, Suspend
  <2> QED BY <1>0, <2>1, <2>2
      DEF TypeOK, Sweep, SweepSound, DeletedIsGone, history, Suspend
<1>11. CASE \E r \in Admins : Purge(r)
  <2>1. PICK r \in Admins : Purge(r) BY <1>11
  <2>2. job[r].on \in Accounts BY <2>1, GotoJob DEF Steps, Purge
  <2> QED BY <1>0, <2>1, <2>2
      DEF TypeOK, Sweep, SweepSound, DeletedIsGone, history, Purge
<1>12. CASE \E r \in Admins : Mark(r)
  <2>1. PICK r \in Admins : Mark(r) BY <1>12
  <2>2. job[r].on \in Accounts BY <2>1, EndJob DEF Steps, Mark
  <2>3. row'[b] = row[b] \/ row'[b] = "deleted"
      BY <2>1, <2>2 DEF TypeOK, Mark
  <2>4. b \in settled' => b \in settled \/ row'[b] \in {"deleted", "expired"}
      BY <2>1, <2>2 DEF TypeOK, Rows, Mark
  <2>5. UNCHANGED <<data, sweep, unpurged>> BY <2>1 DEF Mark
  <2>6. row[b] = "expired" => Dead(b) BY DEF SweepSound
  <2>7. b \in settled' /\ row'[b] # "deleted" => Dead(b)
      BY <2>3, <2>4, <2>6 DEF SweepSound
  <2> QED BY <1>0, <2>3, <2>4, <2>5, <2>6, <2>7 DEF SweepSound
<1>13. CASE \E r \in Admins : Unsuspend(r)
  <2>1. PICK r \in Admins : Unsuspend(r) BY <1>13
  <2>2. job[r].on \in Accounts BY <2>1, GotoJob DEF Steps, Unsuspend
  <2>3. Dead(b) => row'[b] = row[b] BY <2>1, <2>2 DEF TypeOK, Dead, Unsuspend
  <2>4. row'[b] = row[b] \/ (row[b] = "suspended" /\ row'[b] = "none")
      BY <2>1, <2>2 DEF TypeOK, Unsuspend, DroppedByReactivation
  <2>5. UNCHANGED <<data, sweep, settled, unpurged>> BY <2>1 DEF Unsuspend, history
  <2> QED BY <1>0, <2>3, <2>4, <2>5 DEF SweepSound
<1> QED
  <2>1. \/ UNCHANGED <<row, data, sweep, settled, unpurged>>
        \/ \E i \in Instances : Restart(i)
        \/ \E i \in Instances : SweepBegin(i)
        \/ \E i \in Instances : SweepListFails(i)
        \/ \E i \in Instances : SweepPurge(i)
        \/ \E i \in Instances : SweepPurgeFails(i)
        \/ \E i \in Instances : SweepDrop(i)
        \/ \E i \in Instances, a \in Accounts : Write(i, a)
        \/ \E a \in Accounts : Age(a)
        \/ \E r \in Admins : Suspend(r)
        \/ \E r \in Admins : Purge(r)
        \/ \E r \in Admins : Mark(r)
        \/ \E r \in Admins : Unsuspend(r)
      BY DEF Next, mirror, provider, history, vars, RefreshRead, RefreshApply, SignIn,
          Pass, ExpireToken, Ask, Insert, Disable, Remove, Enable, Unset, Fails
  <2> QED BY <2>1, <1>1, <1>2, <1>3, <1>4, <1>5, <1>6, <1>7, <1>8, <1>9, <1>10, <1>11,
      <1>12, <1>13

LEMMA InitInv == Init => Inv
<1> SUFFICES ASSUME Init PROVE Inv
    OBVIOUS
<1>1. TypeOK
  <2>1. job \in [Admins -> Job] /\ sweep \in [Instances -> Sweep]
      BY DEF Init, Job, Steps, NoJob, Sweep, NoSweep
  <2>2. read \in [Instances -> Read] BY DEF Init, Read, NoRead
  <2>3. \A r \in Admins : job[r].at = "idle" <=> job[r].on = Free BY DEF Init, NoJob
  <2>4. \A i \in Instances : ~moved[i] BY DEF Init
  <2>5. row \in [Accounts -> Rows] BY DEF Init, Rows
  <2> QED BY <2>1, <2>2, <2>3, <2>4, <2>5 DEF TypeOK, Init
<1>2. DeletedIsGone BY DEF DeletedIsGone, Init, NoJob
<1>3. FencedSound BY DEF FencedSound, Init
<1>4. LockSound BY FreeAssumption DEF LockSound, Suspending, Reactivating, Init, NoJob
<1>5. SweepSound BY DEF SweepSound, Init, NoSweep
<1> QED BY <1>1, <1>2, <1>3, <1>4, <1>5 DEF Inv

LEMMA NextInv == Inv /\ [Next]_vars => Inv'
BY TypeStep, DeletedStep, FencedStep, LockStep, SweepStep DEF Inv

(* Every reachable state satisfies the inductive invariant: the types, who *)
(* is gone, what a refresh may take over, and which rows outlive what.     *)
THEOREM SpecInv == Spec => []Inv
BY InitInv, NextInv, PTL DEF Spec

(* For any number of accounts, instances and admins: an instance that has  *)
(* suspended an account refuses it until it is reactivated or its row is   *)
(* dropped (suspended.rs: insert, remove, refresh).                        *)
THEOREM SpecSuspendedStaysRefused == Spec => []SuspendedStaysRefused
<1>1. Inv => SuspendedStaysRefused BY
    DEF Inv, TypeOK, FencedSound, SuspendedStaysRefused
<1> QED BY <1>1, SpecInv, PTL

(* An account the provider keeps out is in suspended_accounts, where no    *)
(* suspension and reactivation of it overlapped (admin.rs: the order of    *)
(* the two, here and there).                                               *)
THEOREM SpecNobodyIsLockedOutUnseen == Spec => []NobodyIsLockedOutUnseen
<1>1. Inv => NobodyIsLockedOutUnseen BY DEF Inv, LockSound, NobodyIsLockedOutUnseen
<1> QED BY <1>1, SpecInv, PTL

(* When the row of a deleted account is dropped, no late write has left    *)
(* anything of the account, unless its second purge failed (main.rs: the   *)
(* daily sweep).                                                           *)
THEOREM SpecDeletedLeavesNothing == Spec => []DeletedLeavesNothing
<1>1. Inv => DeletedLeavesNothing BY DEF Inv, SweepSound, DeletedLeavesNothing
<1> QED BY <1>1, SpecInv, PTL
=============================================================================
