------------------------------- MODULE Links -------------------------------
(***************************************************************************)
(* Links between nodes: what a row of `edges` is, which rows the unique    *)
(* indexes keep apart, and what can be reached along rows of one type.     *)
(***************************************************************************)
CONSTANTS
    Nodes,        \* every node there ever is
    Types,        \* link types
    AcyclicTypes  \* EdgeType::is_acyclic

Contains  == "contains"
RelatedTo == "related_to"
(* The types a link may be converted to.                                   *)
ConvertTargets == {"references", RelatedTo}

ASSUME TypesAssumption ==
    /\ AcyclicTypes \subseteq Types /\ Contains \in AcyclicTypes
    /\ RelatedTo \notin AcyclicTypes /\ "references" \notin AcyclicTypes

Edge == [source : Nodes, target : Nodes, type : Types]
Ends(e) == {e.source, e.target}
Touches(e, n) == n \in Ends(e)

(* The graph of one type.                                                  *)
OfType(E, ty) == {e \in E : e.type = ty}
Successors(E, n) == {m \in Nodes : \E e \in E : e.source = n /\ e.target = m}
Closed(E, S) == \A e \in E : e.source \in S => e.target \in S
(* closes_loop's recursive query: `to` can be reached from `from` by one   *)
(* or more edges, i.e. lies in every closed set that holds its successors. *)
Reaches(E, from, to) ==
    \A S \in SUBSET Nodes :
        Successors(E, from) \subseteq S /\ Closed(E, S) => to \in S
Acyclic(E) == \A n \in Nodes : ~Reaches(E, n, n)

IsHome(e) == e.type = Contains
HomeIn(p, n) == [source |-> p, target |-> n, type |-> Contains]
(* structural_refusal: the same parent again is not a second home.         *)
OtherHomes(E, e) ==
    {f \in E : IsHome(f) /\ f.target = e.target /\ f.source # e.source}

(* Two rows the unique indexes on `edges` refuse to hold together: the     *)
(* same link twice, two homes of one node, both directions of a pair.      *)
SameLink(e, f) == e = f
TwoHomes(e, f) == IsHome(e) /\ IsHome(f) /\ e.target = f.target
SamePair(e, f) == /\ e.type = RelatedTo /\ f.type = RelatedTo
                  /\ e.source = f.target /\ e.target = f.source
Clash(e, f) == SameLink(e, f) \/ TwoHomes(e, f) \/ SamePair(e, f)
Clashes(E, e) == \E f \in E : Clash(e, f)

(* What convert makes of a link; only a related_to may run the other way.  *)
Converted(e, to, swap) == [source |-> IF swap THEN e.target ELSE e.source,
                           target |-> IF swap THEN e.source ELSE e.target,
                           type |-> to]
=============================================================================
