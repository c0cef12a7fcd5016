------------------------------ MODULE Accounts ------------------------------
(***************************************************************************)
(* Suspending, reactivating and deleting accounts.  The record of truth is *)
(* the table suspended_accounts; every API instance mirrors it in memory,  *)
(* and refuses by the mirror.  The identity provider keeps the accounts    *)
(* themselves: it signs in who is enabled there, and a token it has issued *)
(* is good until it expires.                                               *)
(***************************************************************************)
EXTENDS Naturals, FiniteSets

CONSTANTS
    Accounts,
    Instances,    \* API processes
    Admins,       \* admin requests that may run at once
    Free,         \* no account
    MaxSent,      \* bound: admin requests
    MaxWrites,    \* bound: requests that write as an account
    MaxFaults     \* bound: failed statements, failed provider calls and restarts

ASSUME FreeAssumption == Free \notin Accounts
ASSUME BoundsAssumption == MaxSent \in Nat /\ MaxWrites \in Nat /\ MaxFaults \in Nat

VARIABLES
    row,        \* suspended_accounts: none, suspended, deleted, or deleted a day ago
    user,       \* the provider's accounts: enabled, disabled or gone
    token,      \* accounts with an ID token that has not expired
    data,       \* accounts that own something
    set,        \* SuspendedSet of each instance
    read,       \* its refresh: what the table read gave
    moved,      \* whether the generation has moved since that read began
    passed,     \* requests that reject_suspended has let through, by instance
    job,        \* the admin requests
    sweep,      \* the daily sweep of each instance
    sent, written, faults,
    fenced,     \* history: accounts an instance has suspended since they were last reactivated
    crossed,    \* history: accounts suspended and reactivated at the same time
    settled,    \* history: accounts whose deletion was answered
    unpurged    \* history: deleted accounts whose last second purge failed

mirror == <<set, read, moved>>
provider == <<user, token>>
history == <<fenced, crossed, settled, unpurged>>
vars == <<row, provider, data, mirror, passed, job, sweep, sent, written, faults, history>>

Rows == {"none", "suspended", "deleted", "expired"}
Steps == {"idle", "suspend", "insert", "disable", "purge", "remove", "mark",
          "enable", "unsuspend", "unset"}
Job == [at : Steps, on : Accounts \cup {Free}, by : Instances \cup {Free}, deletes : BOOLEAN]
Sweep == [at : {"idle", "purging"}, left : SUBSET Accounts, drop : SUBSET Accounts]
NoJob == [at |-> "idle", on |-> Free, by |-> Free, deletes |-> FALSE]
Read == [at : {"idle", "read"}, subjects : SUBSET Accounts]
NoRead == [at |-> "idle", subjects |-> {}]
NoSweep == [at |-> "idle", left |-> {}, drop |-> {}]
Listed == {a \in Accounts : row[a] # "none"}
Fail == faults < MaxFaults /\ faults' = faults + 1
Goto(r, step) == job' = [job EXCEPT ![r].at = step]
End(r) == job' = [job EXCEPT ![r] = NoJob]
Suspending(a) == \E r \in Admins : job[r].on = a /\ job[r].at \in {"suspend", "insert", "disable",
                                                             "purge", "remove", "mark"}
Reactivating(a) == \E r \in Admins : job[r].on = a /\ job[r].at \in {"enable", "unsuspend", "unset"}

TypeOK ==
    /\ row \in [Accounts -> Rows] /\ user \in [Accounts -> {"enabled", "disabled", "gone"}]
    /\ token \subseteq Accounts /\ data \subseteq Accounts
    /\ set \in [Instances -> SUBSET Accounts] /\ moved \in [Instances -> BOOLEAN]
    /\ read \in [Instances -> Read]
    /\ passed \in [Instances -> SUBSET Accounts]
    /\ job \in [Admins -> Job] /\ sweep \in [Instances -> Sweep]
    /\ fenced \in [Instances -> SUBSET Accounts]
    /\ crossed \subseteq Accounts /\ settled \subseteq Accounts /\ unpurged \subseteq Accounts
    /\ \A i \in Instances : moved[i] => read[i].at = "read"
    /\ \A r \in Admins : job[r].at = "idle" <=> job[r].on = Free

Init ==
    /\ row = [a \in Accounts |-> "none"] /\ user = [a \in Accounts |-> "enabled"]
    /\ token = Accounts /\ data = {}
    /\ set = [i \in Instances |-> {}] /\ moved = [i \in Instances |-> FALSE]
    /\ read = [i \in Instances |-> NoRead]
    /\ passed = [i \in Instances |-> {}]
    /\ job = [r \in Admins |-> NoJob]
    /\ sweep = [i \in Instances |-> NoSweep]
    /\ sent = 0 /\ written = 0 /\ faults = 0
    /\ fenced = [i \in Instances |-> {}] /\ crossed = {} /\ settled = {} /\ unpurged = {}

----------------------------------------------------------------------------
(* Whoever uses an account.                                                *)

(* Login and renewal: the provider issues a token to who is enabled, and   *)
(* the API hands it out unless the account is on its list.                 *)
SignIn(i, a) ==
    /\ user[a] = "enabled" /\ a \notin set[i] /\ a \notin token
    /\ token' = token \cup {a}
    /\ UNCHANGED <<row, user, data, mirror, passed, job, sweep, sent, written, faults, history>>

(* require_auth, then reject_suspended.                                    *)
Pass(i, a) ==
    /\ a \in token /\ a \notin set[i] /\ a \notin passed[i]
    /\ written < MaxWrites /\ written' = written + 1
    /\ passed' = [passed EXCEPT ![i] = @ \cup {a}]
    /\ UNCHANGED <<row, provider, data, mirror, job, sweep, sent, faults, history>>

(* The handler of the request that passed writes, whatever has changed.    *)
Write(i, a) ==
    /\ a \in passed[i]
    /\ passed' = [passed EXCEPT ![i] = @ \ {a}]
    /\ data' = data \cup {a}
    /\ UNCHANGED <<row, provider, mirror, job, sweep, sent, written, faults, history>>

(* Tokens live for an hour, requests for less.                             *)
ExpireToken(a) ==
    /\ a \in token /\ token' = token \ {a}
    /\ UNCHANGED <<row, user, data, mirror, passed, job, sweep, sent, written, faults, history>>

(* A day has gone by since the row was marked: nothing is left under way.  *)
Age(a) ==
    /\ row[a] = "deleted" /\ a \notin token
    /\ \A i \in Instances : a \notin passed[i]
    /\ \A r \in Admins : job[r].on # a
    /\ row' = [row EXCEPT ![a] = "expired"]
    /\ UNCHANGED <<provider, data, mirror, passed, job, sweep, sent, written, faults, history>>

----------------------------------------------------------------------------
(* The mirror of the table.                                                *)

Changed(i, subjects) ==
    /\ set' = [set EXCEPT ![i] = subjects]
    /\ moved' = [moved EXCEPT ![i] = read[i].at = "read"]

RefreshRead(i) ==
    /\ read[i].at = "idle"
    /\ read' = [read EXCEPT ![i] = [at |-> "read", subjects |-> Listed]]
    /\ UNCHANGED <<row, provider, data, set, moved, passed, job, sweep, sent, written, faults, history>>

(* Mutant: the read is taken, whatever has changed since.                  *)
CurrentAlways(i) == TRUE
Current(i) == ~moved[i]
(* Mutant: a refresh only adds to the list.                                *)
FreshAdds(i) == set[i] \cup read[i].subjects
Fresh(i) == read[i].subjects

RefreshApply(i) ==
    /\ read[i].at = "read"
    /\ set' = IF Current(i) THEN [set EXCEPT ![i] = Fresh(i)] ELSE set
    /\ read' = [read EXCEPT ![i] = NoRead]
    /\ moved' = [moved EXCEPT ![i] = FALSE]
    /\ UNCHANGED <<row, provider, data, passed, job, sweep, sent, written, faults, history>>

----------------------------------------------------------------------------
(* The admin routes.                                                       *)

(* Requests are alike: the next one takes any place that is free.          *)
Ask ==
    /\ \E r \in Admins : job[r] = NoJob
    /\ sent < MaxSent /\ sent' = sent + 1
    /\ \E a \in Accounts, i \in Instances, what \in {"suspend", "delete", "reactivate"} :
        /\ job' = [job EXCEPT ![CHOOSE r \in Admins : job[r] = NoJob] =
                                     [at |-> IF what = "reactivate" THEN "enable" ELSE "suspend",
                                      on |-> a, by |-> i, deletes |-> what = "delete"]]
        /\ crossed' = IF \/ what = "reactivate" /\ Suspending(a)
                         \/ what # "reactivate" /\ Reactivating(a)
                      THEN crossed \cup {a} ELSE crossed
        /\ fenced' = IF what = "reactivate"
                     THEN [j \in Instances |-> fenced[j] \ {a}] ELSE fenced
    /\ UNCHANGED <<row, provider, data, mirror, passed, sweep, written, faults, settled, unpurged>>

(* The row first, the mirror second.  A row that is there is kept.         *)
Suspend(r) ==
    /\ job[r].at = "suspend"
    /\ LET a == job[r].on IN
       row' = IF row[a] = "none" THEN [row EXCEPT ![a] = "suspended"] ELSE row
    /\ Goto(r, "insert")
    /\ UNCHANGED <<provider, data, mirror, passed, sweep, sent, written, faults, history>>

Insert(r) ==
    /\ job[r].at = "insert"
    /\ LET a == job[r].on
           i == job[r].by IN
       /\ Changed(i, set[i] \cup {a})
       /\ fenced' = IF Reactivating(a) \/ a \in crossed \/ row[a] = "none"
                    THEN fenced ELSE [fenced EXCEPT ![i] = @ \cup {a}]
    /\ Goto(r, IF job[r].deletes THEN "purge" ELSE "disable")
    /\ UNCHANGED <<row, provider, data, read, passed, sweep, sent, written, faults, crossed,
                   settled, unpurged>>

(* Disable, and sign out everywhere.  The provider may know it no longer.  *)
Disable(r) ==
    /\ job[r].at = "disable"
    /\ LET a == job[r].on IN
       user' = IF user[a] = "gone" THEN user ELSE [user EXCEPT ![a] = "disabled"]
    /\ End(r)
    /\ UNCHANGED <<row, token, data, mirror, passed, sweep, sent, written, faults, history>>

(* Mutant: the row is marked before the provider has deleted the account.  *)
PurgeMarks(r) ==
    /\ job[r].at = "purge"
    /\ data' = data \ {job[r].on}
    /\ row' = [row EXCEPT ![job[r].on] = "deleted"]
    /\ Goto(r, "remove")
    /\ UNCHANGED <<provider, mirror, passed, sweep, sent, written, faults, history>>
(* One transaction.                                                        *)
Purge(r) ==
    /\ job[r].at = "purge"
    /\ data' = data \ {job[r].on}
    /\ Goto(r, "remove")
    /\ UNCHANGED <<row, provider, mirror, passed, sweep, sent, written, faults, history>>

Remove(r) ==
    /\ job[r].at = "remove"
    /\ user' = [user EXCEPT ![job[r].on] = "gone"]
    /\ Goto(r, "mark")
    /\ UNCHANGED <<row, token, data, mirror, passed, sweep, sent, written, faults, history>>

(* The row is kept, or put back, until the sweep drops it.                 *)
Mark(r) ==
    /\ job[r].at = "mark"
    /\ LET a == job[r].on IN
       /\ row' = IF row[a] \in {"none", "suspended"} THEN [row EXCEPT ![a] = "deleted"] ELSE row
       /\ settled' = settled \cup {a}
    /\ End(r)
    /\ UNCHANGED <<provider, data, mirror, passed, sweep, sent, written, faults, fenced, crossed,
                   unpurged>>

(* Mutant: the row goes before the provider is asked.                      *)
EnableAfterRow(r) ==
    /\ job[r].at = "enable"
    /\ row' = [row EXCEPT ![job[r].on] = IF @ = "suspended" THEN "none" ELSE @]
    /\ Goto(r, "unsuspend")
    /\ UNCHANGED <<provider, data, mirror, passed, sweep, sent, written, faults, history>>
(* The provider goes first; without an account there, nothing changes.     *)
Enable(r) ==
    /\ job[r].at = "enable"
    /\ LET a == job[r].on IN
       IF user[a] = "gone"
       THEN End(r) /\ UNCHANGED user
       ELSE user' = [user EXCEPT ![a] = "enabled"] /\ Goto(r, "unsuspend")
    /\ UNCHANGED <<row, token, data, mirror, passed, sweep, sent, written, faults, history>>

(* Mutant: the row of a deleted account goes too.                          *)
DroppedByAnyone == {"suspended", "deleted", "expired"}
DroppedByReactivation == {"suspended"}

Unsuspend(r) ==
    /\ job[r].at = "unsuspend"
    /\ LET a == job[r].on IN
       row' = IF row[a] \in DroppedByReactivation THEN [row EXCEPT ![a] = "none"] ELSE row
    /\ Goto(r, "unset")
    /\ UNCHANGED <<provider, data, mirror, passed, sweep, sent, written, faults, history>>

Unset(r) ==
    /\ job[r].at = "unset"
    /\ Changed(job[r].by, set[job[r].by] \ {job[r].on})
    /\ End(r)
    /\ UNCHANGED <<row, provider, data, read, passed, sweep, sent, written, faults, history>>

(* A statement or a provider call fails: the request ends where it is.     *)
Fails(r) ==
    /\ job[r].at \notin {"idle", "insert", "unset"} /\ Fail
    /\ End(r)
    /\ UNCHANGED <<row, provider, data, mirror, passed, sweep, sent, written, history>>

(* An instance restarts, and loads its list.                               *)
Restart(i) ==
    /\ Fail
    /\ set' = [set EXCEPT ![i] = Listed] /\ moved' = [moved EXCEPT ![i] = FALSE]
    /\ read' = [read EXCEPT ![i] = NoRead]
    /\ passed' = [passed EXCEPT ![i] = {}]
    /\ job' = [r \in Admins |-> IF job[r].by = i THEN NoJob ELSE job[r]]
    /\ sweep' = [sweep EXCEPT ![i] = NoSweep]
    /\ UNCHANGED <<row, provider, data, sent, written, history>>

----------------------------------------------------------------------------
(* The daily sweep: purge every deleted account again, then drop the rows  *)
(* that were a day old when it began.                                      *)

Deleted == {a \in Accounts : row[a] \in {"deleted", "expired"}}

SweepBegin(i) ==
    /\ sweep[i] = NoSweep /\ Deleted # {}
    /\ sweep' = [sweep EXCEPT ![i] = [at |-> "purging", left |-> Deleted,
                                      drop |-> {a \in Accounts : row[a] = "expired"}]]
    /\ UNCHANGED <<row, provider, data, mirror, passed, job, sent, written, faults, history>>

(* The list can't be read: nothing is purged, and rows are dropped still.  *)
SweepListFails(i) ==
    /\ sweep[i] = NoSweep /\ Deleted # {} /\ Fail
    /\ sweep' = [sweep EXCEPT ![i] = [at |-> "purging", left |-> {},
                                      drop |-> {a \in Accounts : row[a] = "expired"}]]
    /\ unpurged' = unpurged \cup Deleted
    /\ UNCHANGED <<row, provider, data, mirror, passed, job, sent, written, fenced, crossed, settled>>

(* Mutant: the sweep only drops rows.                                      *)
PurgedAgainNot(a) == data
PurgedAgain(a) == data \ {a}

SweepPurge(i) ==
    /\ \E a \in sweep[i].left :
        /\ sweep' = [sweep EXCEPT ![i].left = @ \ {a}]
        /\ data' = PurgedAgain(a)
        /\ unpurged' = unpurged \ {a}
    /\ UNCHANGED <<row, provider, mirror, passed, job, sent, written, faults, fenced, crossed, settled>>

(* A purge that fails is logged, and the sweep goes on.                    *)
SweepPurgeFails(i) ==
    /\ Fail
    /\ \E a \in sweep[i].left :
        /\ sweep' = [sweep EXCEPT ![i].left = @ \ {a}]
        /\ unpurged' = unpurged \cup {a}
    /\ UNCHANGED <<row, provider, data, mirror, passed, job, sent, written, fenced, crossed, settled>>

SweepDrop(i) ==
    /\ sweep[i].at = "purging" /\ sweep[i].left = {}
    /\ LET gone == {a \in sweep[i].drop : row[a] = "expired"} IN
       /\ row' = [a \in Accounts |-> IF a \in gone THEN "none" ELSE row[a]]
       /\ fenced' = [j \in Instances |-> fenced[j] \ gone]
    /\ sweep' = [sweep EXCEPT ![i] = NoSweep]
    /\ UNCHANGED <<provider, data, mirror, passed, job, sent, written, faults, crossed, settled,
                   unpurged>>

Next ==
    \/ \E i \in Instances :
        \/ RefreshRead(i) \/ RefreshApply(i) \/ Restart(i)
        \/ SweepBegin(i) \/ SweepListFails(i) \/ SweepPurge(i) \/ SweepPurgeFails(i) \/ SweepDrop(i)
        \/ \E a \in Accounts : SignIn(i, a) \/ Pass(i, a) \/ Write(i, a)
    \/ \E a \in Accounts : ExpireToken(a) \/ Age(a)
    \/ Ask
    \/ \E r \in Admins :
        \/ Suspend(r) \/ Insert(r) \/ Disable(r) \/ Purge(r) \/ Remove(r) \/ Mark(r)
        \/ Enable(r) \/ Unsuspend(r) \/ Unset(r) \/ Fails(r)

Spec == Init /\ [][Next]_vars

(* The refresh loop runs for as long as the process does.                  *)
Fairness == \A i \in Instances : WF_vars(RefreshRead(i)) /\ WF_vars(RefreshApply(i))
FairSpec == Spec /\ Fairness

----------------------------------------------------------------------------
(* Properties.                                                             *)

(* An instance that has suspended an account refuses it from then on,      *)
(* whatever refreshes and restarts come, until someone reactivates it or   *)
(* its row is dropped, a day after its deletion.                           *)
SuspendedStaysRefused == \A i \in Instances : fenced[i] \subseteq set[i]

(* An account that the provider keeps out is shown as suspended, unless a  *)
(* suspension and a reactivation of it overlapped.                         *)
NobodyIsLockedOutUnseen ==
    \A a \in Accounts \ crossed : user[a] = "disabled" => row[a] # "none"

(* When the row of a deleted account is gone, nothing of the account is    *)
(* left: not even what a request under way wrote after the purge.  But for *)
(* accounts whose last second purge failed.                                *)
DeletedLeavesNothing ==
    \A a \in settled \ unpurged : row[a] = "none" => a \notin data

(* Every instance comes to refuse just the accounts that are listed.       *)
MirrorsCatchUp == \A i \in Instances : <>[](set[i] = Listed)

----------------------------------------------------------------------------
(* The inductive invariant behind the safety properties.                   *)

(* What is marked as deleted here has left the provider, for good.         *)
DeletedIsGone ==
    /\ \A a \in Accounts : row[a] \in {"deleted", "expired"} => user[a] = "gone"
    /\ \A r \in Admins : job[r].at = "mark" => user[job[r].on] = "gone"

(* What an instance must refuse is in the table, and in every read of the  *)
(* table that a refresh may still take over.                               *)
FencedSound == \A i \in Instances : \A a \in fenced[i] :
    /\ a \in set[i] /\ row[a] # "none" /\ ~Reactivating(a)
    /\ read[i].at = "read" /\ ~moved[i] => a \in read[i].subjects

(* Where no suspension meets a reactivation, the row outlives the lock.    *)
LockSound == \A a \in Accounts \ crossed :
    /\ ~(Suspending(a) /\ Reactivating(a))
    /\ user[a] = "disabled" => row[a] # "none"
    /\ \A r \in Admins : job[r].on = a =>
        /\ job[r].at \in {"insert", "disable"} => row[a] # "none" \/ user[a] = "gone"
        /\ job[r].at \in {"unsuspend", "unset"} => user[a] # "disabled"

(* Nothing can act as the account any more, nor take its row away.         *)
Dead(a) ==
    /\ user[a] = "gone" /\ a \notin token
    /\ \A i \in Instances : a \notin passed[i]
    /\ \A r \in Admins : ~(job[r].on = a /\ job[r].at = "unsuspend")

SweepSound ==
    /\ \A a \in Accounts : row[a] = "expired" => Dead(a)
    /\ \A a \in settled : row[a] # "deleted" => Dead(a)
    /\ \A a \in settled \ unpurged : row[a] = "none" => a \notin data
    /\ \A i \in Instances : \A a \in sweep[i].drop :
        Dead(a) /\ (a \notin sweep[i].left /\ a \notin unpurged => a \notin data)

Inv == TypeOK /\ DeletedIsGone /\ FencedSound /\ LockSound /\ SweepSound
=============================================================================
