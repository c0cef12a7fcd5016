---------------------------- MODULE VersionedNode ----------------------------
(***************************************************************************)
(* What saving a node promises: each save takes effect, or is refused, at  *)
(* one instant between its request and its answer.  A save that names a    *)
(* version takes effect only on that version, and every save gives the     *)
(* node a version it has never had, so of two saves sent on one version    *)
(* only the first applies.  How the server does it is NodeSave's matter.   *)
(***************************************************************************)
EXTENDS Naturals

CONSTANTS Saves,    \* saves that may be under way at once
          Bodies, Statuses,
          Keep,     \* a field the save leaves alone
          None      \* no node, no save

VARIABLES text,     \* the node's body and status, or None
          ver,      \* its version
          used,     \* every version it has had
          want,     \* what each save asks for, or None
          verdict   \* how each save was decided last

vars == <<text, ver, used, want, verdict>>

Wishes == [body : Bodies \cup {Keep}, status : Statuses \cup {Keep}, expected : used \cup {0}]
Or(new, old) == IF new = Keep THEN old ELSE new
Renewed(w) == [body |-> Or(w.body, text.body), status |-> Or(w.status, text.status)]

Init == /\ text = None /\ ver = 0 /\ used = {}
        /\ want = [r \in Saves |-> None]
        /\ verdict = [r \in Saves |-> "none"]

NewVersion == ver' \notin used /\ ver' # 0 /\ used' = used \cup {ver'}

Create == /\ text = None /\ used = {}
          /\ text' \in [body : Bodies, status : Statuses]
          /\ NewVersion
          /\ UNCHANGED <<want, verdict>>

Ask(r) == /\ want[r] = None
          /\ \E w \in Wishes : want' = [want EXCEPT ![r] = w]
          /\ verdict' = [verdict EXCEPT ![r] = "none"]
          /\ UNCHANGED <<text, ver, used>>

Decide(r) ==
    /\ want[r] # None
    /\ want' = [want EXCEPT ![r] = None]
    /\ LET w == want[r] IN
       \/ /\ text # None /\ w.expected \in {0, ver}
          /\ text' = Renewed(w) /\ NewVersion
          /\ verdict' = [verdict EXCEPT ![r] = "stored"]
       \/ /\ text # None /\ w.expected \notin {0, ver}
          /\ verdict' = [verdict EXCEPT ![r] = "stale"]
          /\ UNCHANGED <<text, ver, used>>
       \/ /\ text = None
          /\ verdict' = [verdict EXCEPT ![r] = "missing"]
          /\ UNCHANGED <<text, ver, used>>

(* Saves whose request failed or whose server stopped before it decided.   *)
Abandon == /\ want' \in {[r \in Saves |-> IF r \in S THEN None ELSE want[r]] : S \in SUBSET Saves}
           /\ UNCHANGED <<text, ver, used, verdict>>

(* A pin renews the version and leaves the text.                           *)
Touch == /\ text # None /\ NewVersion
         /\ UNCHANGED <<text, want, verdict>>

Delete == /\ text # None /\ text' = None /\ ver' = 0
          /\ UNCHANGED <<used, want, verdict>>

Next == Create \/ Abandon \/ Touch \/ Delete \/ \E r \in Saves : Ask(r) \/ Decide(r)

Spec == Init /\ [][Next]_vars
=============================================================================
