----------------------------- MODULE LinkGraph -----------------------------
(***************************************************************************)
(* What the requests that write links promise: each takes effect at one    *)
(* instant between its request and its answer, on the links there are      *)
(* then, or not at all.  A link that is created clashes with none and,     *)
(* like a home that is set, closes no loop of an acyclic type; a home that *)
(* is set takes the place of the others.  Only for a type that a restore   *)
(* contended for is there no such promise.  How the server does it in      *)
(* several statements is EdgeGraph's matter.                               *)
(***************************************************************************)
EXTENDS Links

CONSTANTS FirstNodes, Writers

VARIABLES nodes, fresh,  \* the nodes there are, and those not made yet
          edges,         \* the links
          op, req,       \* what each writer asks for, until it is answered
          archive,       \* the backup
          contended      \* types a restore came in between for

vars == <<nodes, fresh, edges, op, req, archive, contended>>
Ops == {"create", "set_home", "stand_alone"}
graph == <<nodes, fresh, edges>>
asks == <<op, req>>

Init == /\ nodes = FirstNodes /\ fresh = Nodes \ FirstNodes /\ edges = {}
        /\ op = [w \in Writers |-> "create"] /\ req = [w \in Writers |-> {}]
        /\ archive = [state |-> "none", nodes |-> {}, edges |-> {}]
        /\ contended = {}

-----------------------------------------------------------------------------
(* Requests to create a link, to set a home, or to have none.              *)

Ask(w, o, e) ==
    /\ req' = [req EXCEPT ![w] = {e}] /\ op' = [op EXCEPT ![w] = o]
    /\ Ends(e) \subseteq nodes
    /\ IF o = "create" THEN e.source # e.target
       ELSE IsHome(e) /\ (e.source = e.target <=> o = "stand_alone")
    /\ UNCHANGED <<graph, archive, contended>>

Answer(ws) == /\ req' = [w \in Writers |-> IF w \in ws THEN {} ELSE req[w]]
              /\ op' = [w \in Writers |-> IF w \in ws THEN "create" ELSE op[w]]

(* No effect: refused, failed, or there is nothing to do.                  *)
Refuse(w) == Answer({w}) /\ UNCHANGED <<graph, archive, contended>>

MayLink(e) ==
    /\ e.source # e.target /\ Ends(e) \subseteq nodes
    /\ e.type \in AcyclicTypes \ contended =>
          ~Reaches(OfType(edges, e.type), e.target, e.source)

Do(w, e) ==
    /\ Answer({w})
    /\ \/ op[w] = "create" /\ edges' = edges \cup {e} /\ MayLink(e) /\ ~Clashes(edges, e)
       \/ /\ op[w] = "set_home" /\ edges' = (edges \ OtherHomes(edges, e)) \cup {e}
          /\ MayLink(e)
       \/ op[w] = "stand_alone" /\ edges' = edges \ OtherHomes(edges, e)
    /\ UNCHANGED <<nodes, fresh, archive, contended>>

-----------------------------------------------------------------------------
(* The other writes, each of one statement.                                *)

Rows(E) == edges' = E /\ UNCHANGED <<nodes, fresh, asks, archive, contended>>

Delete(e) == e \in edges /\ Rows(edges \ {e})

Convert(e, to, swap) ==
    LET rest == edges \ {e}
        new  == Converted(e, to, swap)
    IN  /\ e \in edges /\ e.type # to /\ (swap => to = RelatedTo)
        /\ Rows(IF Clashes(rest, new) THEN rest ELSE rest \cup {new})

MakeNode(n, home) ==
    /\ n \in fresh /\ nodes' = nodes \cup {n} /\ fresh' = fresh \ {n}
    /\ edges' = edges \cup home
    /\ UNCHANGED <<asks, archive, contended>>

DeleteNode(n) ==
    /\ n \in nodes /\ nodes' = nodes \ {n}
    /\ edges' = {e \in edges : ~Touches(e, n)}
    /\ UNCHANGED <<fresh, asks, archive, contended>>

(* A backup has its links later than its nodes; a restore needs the ends   *)
(* of all of them, and may contend with writers.                           *)
Backup == /\ \/ /\ archive.state = "none"
                /\ archive' = [state |-> "nodes", nodes |-> nodes, edges |-> {}]
             \/ /\ archive.state = "nodes"
                /\ archive' = [archive EXCEPT !.state = "done", !.edges = edges]
          /\ UNCHANGED <<graph, asks, contended>>

Restore(ws) ==
    /\ archive.state = "done" /\ \A e \in archive.edges : Ends(e) \subseteq archive.nodes
    /\ nodes' = archive.nodes /\ edges' = archive.edges
    /\ Answer(ws)
    /\ contended \subseteq contended' /\ contended' \subseteq AcyclicTypes
    /\ UNCHANGED <<fresh, archive>>

Next ==
    \/ \E w \in Writers :
          IF req[w] = {} THEN \E o \in Ops, e \in Edge : Ask(w, o, e)
          ELSE Refuse(w) \/ \E e \in req[w] : Do(w, e)
    \/ \E e \in edges :
          \/ Delete(e)
          \/ \E to \in ConvertTargets \cap Types, swap \in BOOLEAN : Convert(e, to, swap)
    \/ \E n \in Nodes :
          \/ DeleteNode(n) \/ MakeNode(n, {})
          \/ \E p \in nodes : MakeNode(n, {HomeIn(p, n)})
    \/ Backup
    \/ \E ws \in SUBSET Writers : Restore(ws)

Spec == Init /\ [][Next]_vars
=============================================================================
