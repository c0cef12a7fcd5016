----------------------------- MODULE EdgeGraph -----------------------------
(***************************************************************************)
(* The links between nodes (`edges`), and the transactions that write      *)
(* them.  A node has at most one home (`contains`), and no loop may form   *)
(* among links of an acyclic type; creating a link and setting a home      *)
(* check both against the stored graph, under one advisory lock per type.  *)
(* Conversions, deletes, captures and restores write without that lock.    *)
(*                                                                         *)
(* Postgres runs at READ COMMITTED: a statement sees what is committed     *)
(* when it starts and its own transaction's changes, so each statement of  *)
(* a checking transaction is a step here, and its changes are pending      *)
(* until it commits.  A transaction of one statement, or one whose         *)
(* statements nothing can come between, is a single step.                  *)
(***************************************************************************)
EXTENDS Links, Naturals

CONSTANTS
    FirstNodes,   \* the nodes there are at the start
    Writers,      \* concurrent requests that create a link or set a home
    Faults,       \* {"db"} if a statement may fail, or {}
    MaxRestores   \* bound: restores run

ASSUME NodesAssumption == FirstNodes \subseteq Nodes
ASSUME RestoresAssumption == MaxRestores \in Nat

VARIABLES
    nodes,     \* rows of `nodes`
    fresh,     \* nodes not made yet
    edges,     \* committed rows of `edges`
    wpc, wop, wreq,  \* each writer: where it stands, its operation, its link
    gone, added,     \* each writer's uncommitted deletes and inserts
    archive,   \* the backup, and how far it has read
    restores,  \* counter for the bound
    overrun    \* history: types a restore wrote under a writer's feet

vars == <<nodes, fresh, edges, wpc, wop, wreq, gone, added, archive, restores,
          overrun>>
writers == <<wpc, wop, wreq, gone, added>>

Steps == {"idle", "lock", "home", "loop", "free", "insert", "commit"}
Ops == {"create", "set_home", "stand_alone"}

TypeOK ==
    /\ nodes \in SUBSET Nodes /\ fresh \in SUBSET Nodes
    /\ edges \in SUBSET Edge
    /\ wpc \in [Writers -> Steps] /\ wop \in [Writers -> Ops]
    /\ wreq \in [Writers -> SUBSET Edge]
    /\ gone \in [Writers -> SUBSET Edge] /\ added \in [Writers -> SUBSET Edge]
    /\ archive \in [state : {"none", "nodes", "done"},
                    nodes : SUBSET Nodes, edges : SUBSET Edge]
    /\ restores \in Nat
    /\ overrun \in SUBSET AcyclicTypes

Init ==
    /\ nodes = FirstNodes /\ fresh = Nodes \ FirstNodes /\ edges = {}
    /\ wpc = [w \in Writers |-> "idle"] /\ wop = [w \in Writers |-> "create"]
    /\ wreq = [w \in Writers |-> {}]
    /\ gone = [w \in Writers |-> {}] /\ added = [w \in Writers |-> {}]
    /\ archive = [state |-> "none", nodes |-> {}, edges |-> {}]
    /\ restores = 0 /\ overrun = {}

-----------------------------------------------------------------------------
(* Creating a link and setting a home.                                     *)

Goto(w, step) == wpc' = [wpc EXCEPT ![w] = step]

(* A transaction ends, committed or rolled back, and drops its lock.       *)
End(ws) ==
    /\ wpc' = [w \in Writers |-> IF w \in ws THEN "idle" ELSE wpc[w]]
    /\ wop' = [w \in Writers |-> IF w \in ws THEN "create" ELSE wop[w]]
    /\ wreq' = [w \in Writers |-> IF w \in ws THEN {} ELSE wreq[w]]
    /\ gone' = [w \in Writers |-> IF w \in ws THEN {} ELSE gone[w]]
    /\ added' = [w \in Writers |-> IF w \in ws THEN {} ELSE added[w]]

Rollback(w) ==
    /\ End({w})
    /\ UNCHANGED <<nodes, fresh, edges, archive, restores, overrun>>

Begin(w, op, e, step) ==
    /\ wpc[w] = "idle"
    /\ Goto(w, step)
    /\ wop' = [wop EXCEPT ![w] = op]
    /\ wreq' = [wreq EXCEPT ![w] = {e}]
    /\ UNCHANGED <<nodes, fresh, edges, gone, added, archive, restores, overrun>>

(* create_edge finds both nodes; a self-loop is refused.  Only an acyclic  *)
(* type is checked, under its lock.                                        *)
CreateStart(w, e) ==
    /\ e.source # e.target /\ {e.source, e.target} \subseteq nodes
    /\ Begin(w, "create", e, IF e.type \in AcyclicTypes THEN "lock" ELSE "insert")

(* set_home to `parent`; the home it asks for is wreq.                     *)
SetHomeStart(w, child, parent) ==
    /\ child # parent /\ {child, parent} \subseteq nodes
    /\ Begin(w, "set_home", HomeIn(parent, child), "lock")

(* set_home to none.                                                       *)
StandAloneStart(w, child) ==
    /\ child \in nodes
    /\ Begin(w, "stand_alone", HomeIn(child, child), "lock")

(* lock_type's advisory lock is held to the end of the transaction.        *)
Holds(w, ty) ==
    /\ wpc[w] \notin {"idle", "lock"}
    /\ ty \in AcyclicTypes /\ \E e \in wreq[w] : e.type = ty

(* Mutant: a created home is not looked for.                               *)
FirstCheckSkipsHome(op, e) == IF op = "stand_alone" THEN "free" ELSE "loop"

FirstCheck(op, e) ==
    CASE op = "stand_alone" -> "free"
      [] op = "create" /\ IsHome(e) -> "home"
      [] OTHER -> "loop"

(* Mutant: the checks run without the lock.                                *)
LockTypeNotAtAll(w, e) ==
    /\ wpc[w] = "lock" /\ e \in wreq[w]
    /\ Goto(w, FirstCheck(wop[w], e))
    /\ UNCHANGED <<nodes, fresh, edges, wop, wreq, gone, added, archive, restores,
                   overrun>>

LockType(w, e) ==
    /\ wpc[w] = "lock" /\ e \in wreq[w]
    /\ \A v \in Writers : ~Holds(v, e.type)
    /\ Goto(w, FirstCheck(wop[w], e))
    /\ UNCHANGED <<nodes, fresh, edges, wop, wreq, gone, added, archive, restores,
                   overrun>>

CheckHome(w, e) ==
    /\ wpc[w] = "home" /\ e \in wreq[w]
    /\ OtherHomes(edges, e) = {}
    /\ Goto(w, "loop")
    /\ UNCHANGED <<nodes, fresh, edges, wop, wreq, gone, added, archive, restores,
                   overrun>>

HomeRefused(w, e) ==
    /\ wpc[w] = "home" /\ e \in wreq[w]
    /\ OtherHomes(edges, e) # {}
    /\ Rollback(w)

(* Mutant: the walk starts at the wrong end of the new link.               *)
ClosesLoopBackwards(e) == Reaches(OfType(edges, e.type), e.source, e.target)

ClosesLoop(e) == Reaches(OfType(edges, e.type), e.target, e.source)

CheckLoop(w, e) ==
    /\ wpc[w] = "loop" /\ e \in wreq[w]
    /\ ~ClosesLoop(e)
    /\ Goto(w, IF wop[w] = "create" THEN "insert" ELSE "free")
    /\ UNCHANGED <<nodes, fresh, edges, wop, wreq, gone, added, archive, restores,
                   overrun>>

(* Mutant: the refusal leaves the transaction open.                        *)
LoopRefusedLeftOpen(w, e) ==
    /\ wpc[w] = "loop" /\ e \in wreq[w]
    /\ ClosesLoop(e)
    /\ UNCHANGED vars

LoopRefused(w, e) ==
    /\ wpc[w] = "loop" /\ e \in wreq[w]
    /\ ClosesLoop(e)
    /\ Rollback(w)

(* Mutant: the old home is gone before the transaction commits.            *)
FreeHomesAtOnce(w, e) ==
    /\ wpc[w] = "free" /\ e \in wreq[w]
    /\ edges' = edges \ OtherHomes(edges, e)
    /\ Goto(w, IF wop[w] = "set_home" THEN "insert" ELSE "commit")
    /\ UNCHANGED <<nodes, fresh, wop, wreq, gone, added, archive, restores,
                   overrun>>

(* set_home deletes every other home of the child; to none, every home.    *)
FreeHomes(w, e) ==
    /\ wpc[w] = "free" /\ e \in wreq[w]
    /\ gone' = [gone EXCEPT ![w] = OtherHomes(edges, e)]
    /\ Goto(w, IF wop[w] = "set_home" THEN "insert" ELSE "commit")
    /\ UNCHANGED <<nodes, fresh, edges, wop, wreq, added, archive, restores,
                   overrun>>

(* An insert waits for a pending row it clashes with.                      *)
Waits(w, e) == \E v \in Writers \ {w} : Clashes(added[v] \cup gone[v], e)
NodesExist(e) == Ends(e) \subseteq nodes

Insert(w, e) ==
    /\ wpc[w] = "insert" /\ e \in wreq[w]
    /\ ~Waits(w, e) /\ NodesExist(e) /\ ~Clashes(edges \ gone[w], e)
    /\ added' = [added EXCEPT ![w] = {e}]
    /\ Goto(w, "commit")
    /\ UNCHANGED <<nodes, fresh, edges, wop, wreq, gone, archive, restores,
                   overrun>>

(* create's insert is refused by an index or a foreign key, insert_home's  *)
(* by a foreign key only.                                                  *)
InsertRefused(w, e) ==
    /\ wpc[w] = "insert" /\ e \in wreq[w]
    /\ ~Waits(w, e)
    /\ ~NodesExist(e) \/ (wop[w] = "create" /\ Clashes(edges, e))
    /\ Rollback(w)

(* insert_home's ON CONFLICT DO NOTHING: any clash, also with a different  *)
(* home, leaves the rows as they are, and the answer is Ok.                *)
InsertAbsorbed(w, e) ==
    /\ wpc[w] = "insert" /\ e \in wreq[w] /\ wop[w] = "set_home"
    /\ ~Waits(w, e) /\ NodesExist(e) /\ Clashes(edges \ gone[w], e)
    /\ Goto(w, "commit")
    /\ UNCHANGED <<nodes, fresh, edges, wop, wreq, gone, added, archive, restores,
                   overrun>>

Commit(w) ==
    /\ wpc[w] = "commit"
    /\ edges' = (edges \ gone[w]) \cup added[w]
    /\ End({w})
    /\ UNCHANGED <<nodes, fresh, archive, restores, overrun>>

(* A statement fails, a deadlock is broken, or the connection is lost.     *)
TransactionFails(w) ==
    /\ "db" \in Faults
    /\ wpc[w] # "idle"
    /\ Rollback(w)

WriterStep(w) ==
    \/ \E e \in wreq[w] :
          \/ LockType(w, e)
          \/ CheckHome(w, e) \/ HomeRefused(w, e)
          \/ CheckLoop(w, e) \/ LoopRefused(w, e)
          \/ FreeHomes(w, e)
          \/ Insert(w, e) \/ InsertRefused(w, e) \/ InsertAbsorbed(w, e)
    \/ Commit(w)

-----------------------------------------------------------------------------
(* Writes that take no lock.                                               *)

Pending == UNION {added[w] \cup gone[w] : w \in Writers}

(* delete_edge: waits for a transaction that deletes the same row.         *)
DeleteEdge(e) ==
    /\ e \in edges \ Pending
    /\ edges' = edges \ {e}
    /\ UNCHANGED <<nodes, fresh, writers, archive, restores, overrun>>

(* convert: a link there already absorbs the converted one.               *)
Convert(e, to, swap) ==
    LET new  == Converted(e, to, swap)
        rest == edges \ {e}
    IN  /\ e \in edges \ Pending /\ e.type # to
        /\ swap => to = RelatedTo
        /\ ~Clashes(Pending, new)
        /\ edges' = IF Clashes(rest, new) THEN rest ELSE rest \cup {new}
        /\ UNCHANGED <<nodes, fresh, writers, archive, restores, overrun>>

(* A node is made, alone or (a capture's conversion) in a home; a new node *)
(* has no links, so insert_home is called without the lock.                *)
MakeNode(n, home) ==
    /\ n \in fresh
    /\ home = {} \/ \E p \in nodes : home = {HomeIn(p, n)}
    /\ nodes' = nodes \cup {n} /\ fresh' = fresh \ {n}
    /\ edges' = edges \cup home
    /\ UNCHANGED <<writers, archive, restores, overrun>>

(* The foreign keys' cascade deletes the node's links with it.             *)
DeleteNode(n) ==
    /\ n \in nodes
    /\ \A e \in Pending : ~Touches(e, n)
    /\ nodes' = nodes \ {n}
    /\ edges' = {e \in edges : ~Touches(e, n)}
    /\ UNCHANGED <<fresh, writers, archive, restores, overrun>>

(* A backup lists the nodes first and the links in a later query.          *)
BackupNodes ==
    /\ archive.state = "none" /\ restores < MaxRestores
    /\ archive' = [state |-> "nodes", nodes |-> nodes, edges |-> {}]
    /\ UNCHANGED <<nodes, fresh, edges, writers, restores, overrun>>

BackupEdges ==
    /\ archive.state = "nodes"
    /\ archive' = [archive EXCEPT !.state = "done", !.edges = edges]
    /\ UNCHANGED <<nodes, fresh, edges, writers, restores, overrun>>

(* Writers a restore takes by surprise: they have checked and not written. *)
PastACheck == {w \in Writers :
    \/ wpc[w] \in {"free", "insert"}
    \/ wpc[w] = "loop" /\ wop[w] = "create" /\ \E e \in wreq[w] : IsHome(e)}

(* restore_into and its commit: every row goes and the archive's come      *)
(* back.  It waits for pending rows; an insert that waited for it finds    *)
(* its nodes gone.  A link to a node the archive lacks fails the restore.  *)
Restore(ws) ==
    /\ archive.state = "done" /\ restores < MaxRestores
    /\ Pending = {}
    /\ \A e \in archive.edges : {e.source, e.target} \subseteq archive.nodes
    /\ ws \subseteq {w \in Writers : wpc[w] = "insert"}
    /\ nodes' = archive.nodes /\ edges' = archive.edges
    /\ End(ws)
    /\ restores' = restores + 1
    /\ overrun' = overrun \cup
         {ty \in AcyclicTypes :
             \E w \in PastACheck \ ws : \E e \in wreq[w] : e.type = ty}
    /\ UNCHANGED <<fresh, archive>>

Next ==
    \/ \E w \in Writers :
          \/ \E e \in Edge : CreateStart(w, e)
          \/ \E c \in nodes : StandAloneStart(w, c)
          \/ \E c, p \in nodes : SetHomeStart(w, c, p)
          \/ WriterStep(w) \/ TransactionFails(w)
    \/ \E e \in edges :
          \/ DeleteEdge(e)
          \/ \E to \in ConvertTargets \cap Types, swap \in BOOLEAN :
                Convert(e, to, swap)
    \/ \E n \in Nodes :
          \/ DeleteNode(n)
          \/ MakeNode(n, {})
          \/ \E p \in nodes :
                MakeNode(n, {HomeIn(p, n)})
    \/ BackupNodes \/ BackupEdges
    \/ \E ws \in SUBSET Writers : Restore(ws)

Spec == Init /\ [][Next]_vars

(* A transaction that has begun goes on, and Postgres grants the lock in   *)
(* the order it was asked for, so no waiter is passed over for ever.       *)
Fairness == \A w \in Writers :
    /\ WF_vars(WriterStep(w))
    /\ SF_vars(\E e \in wreq[w] : LockType(w, e))
FairSpec == Spec /\ Fairness

-----------------------------------------------------------------------------
(* Properties.                                                             *)

(* No loop among the links of an acyclic type, unless a restore came       *)
(* between a writer's checks and its insert.                                *)
NoLoops == \A ty \in AcyclicTypes \ overrun : Acyclic(OfType(edges, ty))

(* What a writer checked under the lock still holds when it inserts: its   *)
(* link closes no loop, and a created home finds no other home (restores   *)
(* in between apart).  So the index behind the check never has to answer.  *)
ChecksStand ==
    \A w \in Writers : \A e \in wreq[w] :
        (wpc[w] = "insert" /\ e.type \in AcyclicTypes \ overrun) =>
            /\ ~ClosesLoop(e)
            /\ wop[w] = "create" /\ IsHome(e) => OtherHomes(edges, e) = {}

(* Moving a node never leaves it homeless: no step of a set_home takes the *)
(* child's home away without giving it one.                                *)
MovesKeepAHome ==
    [][\A w \in Writers : \A e \in wreq[w] :
          (/\ wop[w] = "set_home" /\ wpc'[w] # wpc[w] /\ restores' = restores
           /\ \E f \in edges : IsHome(f) /\ f.target = e.target)
          => \E f \in edges' : IsHome(f) /\ f.target = e.target]_vars

(* Two rows never hold what an index forbids: one link per pair and type,  *)
(* one home per node, one related_to per pair, whichever way it runs.      *)
LinkedOnce == \A e, f \in edges : Clash(e, f) => e = f

(* The statements of a request behave as if it took effect at one instant, *)
(* on the links there are then: its checks under the lock, and the waits   *)
(* of the writes without one, leave no room for another to come between,   *)
(* but for a restore.                                                      *)
Promise == INSTANCE LinkGraph WITH op <- wop, req <- wreq, contended <- overrun
WritesAreAtomic == Promise!Spec

(* Whoever asks for the lock ends, with an answer.                         *)
WritersEnd == \A w \in Writers : wpc[w] = "lock" ~> wpc[w] = "idle"

-----------------------------------------------------------------------------
(* The inductive invariant behind the safety properties.                   *)

WriterSound == \A w \in Writers :
    /\ \A e, f \in wreq[w] : e = f
    /\ wpc[w] = "idle" <=> wreq[w] = {}
    /\ wpc[w] \notin {"insert", "commit"} => gone[w] = {}
    /\ wpc[w] # "commit" => added[w] = {}
    /\ wop[w] = "create" => gone[w] = {}
    /\ wop[w] = "stand_alone" => added[w] = {}
    /\ added[w] \subseteq wreq[w]
    /\ wop[w] # "create" => \A e \in wreq[w] : IsHome(e)
    /\ wpc[w] \in {"lock", "home", "loop", "free"}
          => \A e \in wreq[w] : e.type \in AcyclicTypes
    /\ wpc[w] \in {"loop", "insert"}
          => wop[w] # "stand_alone" /\ \A e \in wreq[w] : e.source # e.target
    /\ wpc[w] \in {"lock", "home"} /\ wop[w] # "stand_alone"
          => \A e \in wreq[w] : e.source # e.target
    /\ wpc[w] = "free" /\ wop[w] = "set_home"
          => \A e \in wreq[w] : e.source # e.target
    /\ wpc[w] = "free" => wop[w] # "create"
    /\ wpc[w] = "home" => wop[w] = "create" /\ \A e \in wreq[w] : IsHome(e)
    /\ \A e \in added[w] : e.source # e.target

(* One writer at a time holds a type's lock.                               *)
OneHolder == \A v, w \in Writers : \A ty \in AcyclicTypes :
    Holds(v, ty) /\ Holds(w, ty) => v = w

(* A node not made yet is in no link, stored, archived or asked for.       *)
FreshUnlinked == \A n \in fresh :
    /\ n \notin nodes \cup archive.nodes
    /\ \A e \in edges \cup archive.edges : ~Touches(e, n)
    /\ \A w \in Writers : \A e \in wreq[w] : ~Touches(e, n)

(* A link past its loop check still closes none.                           *)
CheckedForLoops == \A w \in Writers : \A e \in wreq[w] :
    (/\ e.type \in AcyclicTypes \ overrun
     /\ wpc[w] = "insert" \/ (wpc[w] = "free" /\ wop[w] = "set_home")
                          \/ e \in added[w])
    => ~ClosesLoop(e)

(* A created home past its check is still the child's first.               *)
CheckedForHomes == \A w \in Writers : \A e \in wreq[w] :
    (/\ wop[w] = "create" /\ IsHome(e) /\ Contains \notin overrun
     /\ wpc[w] \in {"loop", "insert"})
    => OtherHomes(edges, e) = {}

(* No link, stored or pending, hangs from a node that is not there.        *)
NoDangling ==
    /\ \A e \in edges : NodesExist(e)
    /\ \A w \in Writers : \A e \in added[w] : NodesExist(e)

ArchiveSound ==
    /\ \A ty \in AcyclicTypes \ overrun : Acyclic(OfType(archive.edges, ty))
    /\ \A e, f \in archive.edges : Clash(e, f) => e = f

(* A pending row still fits among the stored rows and the other pending.   *)
PendingFits == \A w \in Writers :
    /\ \A e \in added[w] : ~Clashes(edges \ gone[w], e)
    /\ \A v \in Writers \ {w} : \A e \in added[w] : ~Clashes(added[v], e)

(* The homes a move frees are still there, its child's own, and not freed  *)
(* for nothing: then its new home fits.                                    *)
MoveSound == \A w \in Writers :
    /\ gone[w] \subseteq edges
    /\ \A f \in gone[w] : \E e \in wreq[w] :
          IsHome(f) /\ IsHome(e) /\ f.target = e.target /\ f.source # e.source
    /\ (wop[w] = "set_home" /\ wpc[w] = "commit" /\ gone[w] # {})
          => added[w] = wreq[w]

Inv ==
    /\ TypeOK /\ WriterSound /\ OneHolder /\ FreshUnlinked
    /\ NoLoops /\ CheckedForLoops /\ CheckedForHomes /\ ArchiveSound
    /\ LinkedOnce /\ NoDangling /\ PendingFits /\ MoveSound
=============================================================================
