-------------------------- MODULE EdgeGraphProofs --------------------------
(***************************************************************************)
(* The proof that EdgeGraph's invariant is inductive.  First what the      *)
(* graph of one type does when links go and when one is added; then one    *)
(* lemma per action; then the theorems.                                    *)
(***************************************************************************)
EXTENDS EdgeGraph, TLAPS

(* Fewer links reach less.                                                 *)
LEMMA ReachesMonotone ==
    ASSUME NEW E, NEW F, F \subseteq E, NEW m \in Nodes, NEW n \in Nodes,
           ~Reaches(E, m, n)
    PROVE  ~Reaches(F, m, n)
<1>1. PICK S \in SUBSET Nodes :
        Successors(E, m) \subseteq S /\ Closed(E, S) /\ n \notin S
    BY DEF Reaches
<1>2. Successors(F, m) \subseteq S BY <1>1 DEF Successors
<1>3. Closed(F, S) BY <1>1 DEF Closed
<1> QED BY <1>1, <1>2, <1>3 DEF Reaches

(* So a graph stays acyclic when links go.                                 *)
LEMMA AcyclicMonotone ==
    ASSUME NEW E, NEW F, F \subseteq E, Acyclic(E)
    PROVE  Acyclic(F)
BY ReachesMonotone DEF Acyclic

(* The check closes_loop makes is enough: a link to a node from which its  *)
(* source can't be reached closes no loop.                                 *)
LEMMA AcyclicAdd ==
    ASSUME NEW E \in SUBSET Edge, NEW e \in Edge, Acyclic(E),
           e.source # e.target, ~Reaches(E, e.target, e.source)
    PROVE  Acyclic(E \cup {e})
<1> DEFINE F == E \cup {e}
<1>1. PICK S \in SUBSET Nodes :
        Successors(E, e.target) \subseteq S /\ Closed(E, S) /\ e.source \notin S
    BY DEF Reaches, Edge
<1> DEFINE T == S \cup {e.target}
<1>2. T \in SUBSET Nodes /\ e.source \notin T /\ e.target \in T BY <1>1 DEF Edge
<1>3. \A f \in F : f.source \in T => f.target \in T
    BY <1>1, <1>2 DEF Successors, Closed, Edge
<1>4. ASSUME NEW n \in Nodes PROVE ~Reaches(F, n, n)
  <2>1. PICK R \in SUBSET Nodes :
          Successors(E, n) \subseteq R /\ Closed(E, R) /\ n \notin R
      BY DEF Acyclic, Reaches
  <2>2. CASE n \in T
    <3> DEFINE Q == R \cap T
    <3>1. Successors(F, n) \subseteq Q
        BY <2>1, <2>2, <1>2, <1>3 DEF Successors
    <3>2. Closed(F, Q) BY <2>1, <1>2, <1>3 DEF Closed
    <3> QED BY <2>1, <3>1, <3>2 DEF Reaches
  <2>3. CASE n \notin T
    <3> DEFINE Q == R \cup T
    <3>1. Successors(F, n) \subseteq Q BY <2>1, <1>2 DEF Successors
    <3>2. Closed(F, Q) BY <2>1, <1>2, <1>3 DEF Closed
    <3>3. Q \in SUBSET Nodes /\ n \notin Q BY <1>2, <2>1, <2>3
    <3> QED BY <3>1, <3>2, <3>3 DEF Reaches
  <2> QED BY <2>2, <2>3
<1> QED BY <1>4 DEF Acyclic

(* A link to a node that has no links of its own opens no way anywhere.    *)
LEMMA ReachesLeaf ==
    ASSUME NEW E \in SUBSET Edge, NEW e \in Edge,
           \A f \in E : ~Touches(f, e.target),
           NEW m \in Nodes, NEW n \in Nodes, m # e.target, n # e.target,
           e.source # e.target, ~Reaches(E, m, n)
    PROVE  ~Reaches(E \cup {e}, m, n)
<1> DEFINE F == E \cup {e}
<1>1. PICK S \in SUBSET Nodes :
        Successors(E, m) \subseteq S /\ Closed(E, S) /\ n \notin S
    BY DEF Reaches
<1> DEFINE T == S \cup {e.target}
<1>2. T \in SUBSET Nodes /\ n \notin T BY <1>1 DEF Edge
<1>3. Successors(F, m) \subseteq T BY <1>1 DEF Successors
<1>4. Closed(F, T) BY <1>1 DEF Closed, Touches, Ends
<1> QED BY <1>2, <1>3, <1>4 DEF Reaches

(* Clashing goes both ways.                                                *)
LEMMA ClashSymmetric ==
    ASSUME NEW e, NEW f
    PROVE  Clash(e, f) <=> Clash(f, e)
BY DEF Clash, SameLink, TwoHomes, SamePair

(* A step that only takes links of acyclic types away forms no loop.       *)
LEMMA FewerLinks ==
    ASSUME Inv, UNCHANGED <<writers, overrun>>,
           \A ty \in AcyclicTypes : OfType(edges', ty) \subseteq OfType(edges, ty)
    PROVE  NoLoops' /\ CheckedForLoops'
<1> USE DEF Inv, writers
<1>1. NoLoops' BY AcyclicMonotone DEF NoLoops
<1>2. ASSUME NEW w \in Writers, NEW e \in wreq[w], e.type \in AcyclicTypes,
             ~ClosesLoop(e)
      PROVE  ~ClosesLoop(e)'
  <2>1. e.source \in Nodes /\ e.target \in Nodes BY <1>2 DEF TypeOK, Edge
  <2> QED BY <1>2, <2>1, ReachesMonotone DEF ClosesLoop
<1>3. CheckedForLoops' BY <1>2 DEF CheckedForLoops
<1> QED BY <1>1, <1>3

(* What create_edge and set_home know of the link they begin with.         *)
BeginFits(op, e, step) ==
    /\ {e.source, e.target} \subseteq nodes
    /\ op # "stand_alone" => e.source # e.target
    /\ op # "create" => e.type = Contains
    /\ step = IF e.type \in AcyclicTypes THEN "lock" ELSE "insert"

(* Begin: a writer begins.                                                 *)
LEMMA BeginKeeps ==
    ASSUME Inv, NEW w \in Writers, NEW op \in Ops, NEW e \in Edge,
           NEW step \in Steps, BeginFits(op, e, step), Begin(w, op, e, step)
    PROVE  Inv'
<1> USE DEF Begin, Inv, TypeOK, Goto, BeginFits
<1>1. TypeOK' BY DEF Steps, Ops, Edge
<1>2. WriterSound' BY TypesAssumption DEF WriterSound, IsHome
<1>3. OneHolder' BY DEF OneHolder, Holds, WriterSound
<1>4. FreshUnlinked' BY DEF FreshUnlinked, Touches, Ends, WriterSound
<1>5. NoLoops' BY DEF NoLoops
<1>6. CheckedForLoops' BY DEF CheckedForLoops, ClosesLoop, WriterSound
<1>7. CheckedForHomes'
    BY TypesAssumption DEF CheckedForHomes, OtherHomes, IsHome, WriterSound
<1>8. ArchiveSound' BY DEF ArchiveSound
<1>9. LinkedOnce' BY DEF LinkedOnce
<1>10. PendingFits' BY DEF PendingFits, Clashes, WriterSound
<1>11. MoveSound' BY DEF MoveSound, WriterSound, IsHome
<1>12. NoDangling' BY DEF NoDangling, NodesExist, WriterSound
<1> QED BY <1>1, <1>2, <1>3, <1>4, <1>5, <1>6, <1>7, <1>8, <1>9, <1>10, <1>11,
       <1>12

(* LockType: a writer gets its type's lock.                                *)
LEMMA LockTypeKeeps ==
    ASSUME Inv, NEW w \in Writers, NEW e \in Edge, LockType(w, e)
    PROVE  Inv'
<1> USE DEF LockType, Inv, TypeOK, Goto, FirstCheck
<1>1. TypeOK' BY DEF Steps, Ops, Edge
<1>2. WriterSound' BY DEF WriterSound, IsHome
<1>3. OneHolder' BY DEF OneHolder, Holds, WriterSound
<1>4. FreshUnlinked' BY DEF FreshUnlinked, Touches, Ends, WriterSound
<1>5. NoLoops' BY DEF NoLoops
<1>6. CheckedForLoops' BY DEF CheckedForLoops, ClosesLoop, WriterSound
<1>7. CheckedForHomes' BY DEF CheckedForHomes, OtherHomes, IsHome, WriterSound
<1>8. ArchiveSound' BY DEF ArchiveSound
<1>9. LinkedOnce' BY DEF LinkedOnce
<1>10. PendingFits' BY DEF PendingFits, Clashes, WriterSound
<1>11. MoveSound' BY DEF MoveSound, WriterSound, IsHome
<1>12. NoDangling' BY DEF NoDangling, NodesExist, WriterSound
<1> QED BY <1>1, <1>2, <1>3, <1>4, <1>5, <1>6, <1>7, <1>8, <1>9, <1>10, <1>11,
       <1>12

(* Rollback: a transaction ends with nothing written.                      *)
LEMMA RollbackKeeps ==
    ASSUME Inv, NEW w \in Writers, Rollback(w)
    PROVE  Inv'
<1> USE DEF Rollback, Inv, TypeOK, End
<1>1. TypeOK' BY DEF Steps, Ops, Edge
<1>2. WriterSound' BY DEF WriterSound, IsHome
<1>3. OneHolder' BY DEF OneHolder, Holds, WriterSound
<1>4. FreshUnlinked' BY DEF FreshUnlinked, Touches, Ends, WriterSound
<1>5. NoLoops' BY DEF NoLoops
<1>6. CheckedForLoops' BY DEF CheckedForLoops, ClosesLoop, WriterSound
<1>7. CheckedForHomes' BY DEF CheckedForHomes, OtherHomes, IsHome, WriterSound
<1>8. ArchiveSound' BY DEF ArchiveSound
<1>9. LinkedOnce' BY DEF LinkedOnce
<1>10. PendingFits' BY DEF PendingFits, Clashes, WriterSound
<1>11. MoveSound' BY DEF MoveSound, WriterSound, IsHome
<1>12. NoDangling' BY DEF NoDangling, NodesExist, WriterSound
<1> QED BY <1>1, <1>2, <1>3, <1>4, <1>5, <1>6, <1>7, <1>8, <1>9, <1>10, <1>11,
       <1>12

(* CheckHome: the child has no other home.                                 *)
LEMMA CheckHomeKeeps ==
    ASSUME Inv, NEW w \in Writers, NEW e \in Edge, CheckHome(w, e)
    PROVE  Inv'
<1> USE DEF CheckHome, Inv, TypeOK, Goto
<1>1. TypeOK' BY DEF Steps, Ops, Edge
<1>2. WriterSound' BY DEF WriterSound, IsHome
<1>3. OneHolder' BY DEF OneHolder, Holds, WriterSound
<1>4. FreshUnlinked' BY DEF FreshUnlinked, Touches, Ends, WriterSound
<1>5. NoLoops' BY DEF NoLoops
<1>6. CheckedForLoops' BY DEF CheckedForLoops, ClosesLoop, WriterSound
<1>7. CheckedForHomes' BY DEF CheckedForHomes, OtherHomes, IsHome, WriterSound
<1>8. ArchiveSound' BY DEF ArchiveSound
<1>9. LinkedOnce' BY DEF LinkedOnce
<1>10. PendingFits' BY DEF PendingFits, Clashes, WriterSound
<1>11. MoveSound' BY DEF MoveSound, WriterSound, IsHome
<1>12. NoDangling' BY DEF NoDangling, NodesExist, WriterSound
<1> QED BY <1>1, <1>2, <1>3, <1>4, <1>5, <1>6, <1>7, <1>8, <1>9, <1>10, <1>11,
       <1>12

(* CheckLoop: the link closes no loop.                                     *)
LEMMA CheckLoopKeeps ==
    ASSUME Inv, NEW w \in Writers, NEW e \in Edge, CheckLoop(w, e)
    PROVE  Inv'
<1> USE DEF CheckLoop, Inv, TypeOK, Goto
<1>1. TypeOK' BY DEF Steps, Ops, Edge
<1>2. WriterSound' BY DEF WriterSound, IsHome
<1>3. OneHolder' BY DEF OneHolder, Holds, WriterSound
<1>4. FreshUnlinked' BY DEF FreshUnlinked, Touches, Ends, WriterSound
<1>5. NoLoops' BY DEF NoLoops
<1>6. CheckedForLoops' BY DEF CheckedForLoops, ClosesLoop, WriterSound
<1>7. CheckedForHomes' BY DEF CheckedForHomes, OtherHomes, IsHome, WriterSound
<1>8. ArchiveSound' BY DEF ArchiveSound
<1>9. LinkedOnce' BY DEF LinkedOnce
<1>10. PendingFits' BY DEF PendingFits, Clashes, WriterSound
<1>11. MoveSound' BY DEF MoveSound, WriterSound, IsHome
<1>12. NoDangling' BY DEF NoDangling, NodesExist, WriterSound
<1> QED BY <1>1, <1>2, <1>3, <1>4, <1>5, <1>6, <1>7, <1>8, <1>9, <1>10, <1>11,
       <1>12

(* FreeHomes: the child's other homes are to go.                           *)
LEMMA FreeHomesKeeps ==
    ASSUME Inv, NEW w \in Writers, NEW e \in Edge, FreeHomes(w, e)
    PROVE  Inv'
<1> USE DEF FreeHomes, Inv, TypeOK, Goto
<1>1. TypeOK' BY DEF Steps, Ops, Edge, OtherHomes
<1>2. WriterSound' BY DEF WriterSound, IsHome
<1>3. OneHolder' BY DEF OneHolder, Holds, WriterSound
<1>4. FreshUnlinked' BY DEF FreshUnlinked, Touches, Ends, WriterSound
<1>5. NoLoops' BY DEF NoLoops
<1>6. CheckedForLoops' BY DEF CheckedForLoops, ClosesLoop, WriterSound
<1>7. CheckedForHomes' BY DEF CheckedForHomes, OtherHomes, IsHome, WriterSound
<1>8. ArchiveSound' BY DEF ArchiveSound
<1>9. LinkedOnce' BY DEF LinkedOnce
<1>10. PendingFits' BY DEF PendingFits, Clashes, WriterSound
<1>11. MoveSound' BY DEF MoveSound, WriterSound, IsHome, OtherHomes
<1>12. NoDangling' BY DEF NoDangling, NodesExist, WriterSound
<1> QED BY <1>1, <1>2, <1>3, <1>4, <1>5, <1>6, <1>7, <1>8, <1>9, <1>10, <1>11,
       <1>12

(* Insert: the link is pending.                                            *)
LEMMA InsertKeeps ==
    ASSUME Inv, NEW w \in Writers, NEW e \in Edge, Insert(w, e)
    PROVE  Inv'
<1> USE DEF Insert, Inv, TypeOK, Goto
<1>1. TypeOK' BY DEF Steps, Ops, Edge
<1>2. WriterSound' BY DEF WriterSound, IsHome
<1>3. OneHolder' BY DEF OneHolder, Holds, WriterSound
<1>4. FreshUnlinked' BY DEF FreshUnlinked, Touches, Ends, WriterSound
<1>5. NoLoops' BY DEF NoLoops
<1>6. CheckedForLoops' BY DEF CheckedForLoops, ClosesLoop, WriterSound
<1>7. CheckedForHomes' BY DEF CheckedForHomes, OtherHomes, IsHome, WriterSound
<1>8. ArchiveSound' BY DEF ArchiveSound
<1>9. LinkedOnce' BY DEF LinkedOnce
<1>10. PendingFits'
  <2>1. ASSUME NEW v \in Writers, NEW f \in added'[v] PROVE ~Clashes(edges \ gone'[v], f)
    <3>1. CASE v = w
      <4>1. f = e BY <2>1, <3>1 DEF WriterSound
      <4> QED BY <3>1, <4>1
    <3>2. CASE v # w BY <2>1, <3>2 DEF PendingFits
    <3> QED BY <3>1, <3>2
  <2>2. ASSUME NEW v \in Writers, NEW u \in Writers \ {v}, NEW f \in added'[v]
        PROVE  ~Clashes(added'[u], f)
    <3>1. CASE v = w BY <2>2, <3>1 DEF Waits, Clashes
    <3>2. CASE u = w
        BY <2>2, <3>2, ClashSymmetric DEF Waits, Clashes
    <3>3. CASE v # w /\ u # w BY <2>2, <3>3 DEF PendingFits
    <3> QED BY <3>1, <3>2, <3>3
  <2> QED BY <2>1, <2>2 DEF PendingFits
<1>11. MoveSound' BY DEF MoveSound, WriterSound, IsHome
<1>12. NoDangling' BY DEF NoDangling, NodesExist, WriterSound
<1> QED BY <1>1, <1>2, <1>3, <1>4, <1>5, <1>6, <1>7, <1>8, <1>9, <1>10, <1>11,
       <1>12

(* InsertAbsorbed: the rows stay as they are.                              *)
LEMMA InsertAbsorbedKeeps ==
    ASSUME Inv, NEW w \in Writers, NEW e \in Edge, InsertAbsorbed(w, e)
    PROVE  Inv'
<1> USE DEF InsertAbsorbed, Inv, TypeOK, Goto
<1>1. TypeOK' BY DEF Steps, Ops, Edge
<1>2. WriterSound' BY DEF WriterSound, IsHome
<1>3. OneHolder' BY DEF OneHolder, Holds, WriterSound
<1>4. FreshUnlinked' BY DEF FreshUnlinked, Touches, Ends, WriterSound
<1>5. NoLoops' BY DEF NoLoops
<1>6. CheckedForLoops' BY DEF CheckedForLoops, ClosesLoop, WriterSound
<1>7. CheckedForHomes' BY DEF CheckedForHomes, OtherHomes, IsHome, WriterSound
<1>8. ArchiveSound' BY DEF ArchiveSound
<1>9. LinkedOnce' BY DEF LinkedOnce
<1>10. PendingFits' BY DEF PendingFits, Clashes, WriterSound
<1>11. MoveSound'
  <2>1. wop[w] = "set_home" /\ gone[w] # {} => FALSE
    <3> SUFFICES ASSUME NEW f \in gone[w], wop[w] = "set_home" PROVE FALSE
        OBVIOUS
    <3>1. PICK g \in edges \ gone[w] : Clash(g, e)
        BY ClashSymmetric DEF Clashes
    <3>2. IsHome(e) /\ e.type # RelatedTo
        BY TypesAssumption DEF WriterSound, IsHome
    <3>3. IsHome(g) /\ g.target = e.target BY <3>1, <3>2 DEF Clash, SameLink, TwoHomes, SamePair
    <3>4. f \in edges /\ IsHome(f) /\ f.target = e.target
        BY DEF MoveSound, WriterSound
    <3>5. Clash(f, g) BY <3>3, <3>4 DEF Clash, SameLink, TwoHomes, SamePair
    <3> QED BY <3>1, <3>4, <3>5 DEF LinkedOnce
  <2> QED BY <2>1 DEF MoveSound
<1>12. NoDangling' BY DEF NoDangling, NodesExist, WriterSound
<1> QED BY <1>1, <1>2, <1>3, <1>4, <1>5, <1>6, <1>7, <1>8, <1>9, <1>10, <1>11,
       <1>12

(* Commit: the pending rows are stored.                                    *)
LEMMA CommitKeeps ==
    ASSUME Inv, NEW w \in Writers, Commit(w)
    PROVE  Inv'
<1> USE DEF Commit, Inv, TypeOK, End
<1>1. TypeOK' BY DEF Steps, Ops, Edge
<1>2. WriterSound' BY DEF WriterSound, IsHome
<1>3. OneHolder' BY DEF OneHolder, Holds, WriterSound
<1>4. FreshUnlinked' BY DEF FreshUnlinked, Touches, Ends, WriterSound
<1>5. NoLoops'
  <2> SUFFICES ASSUME NEW ty \in AcyclicTypes \ overrun
               PROVE  Acyclic(OfType(edges', ty))
      BY DEF NoLoops
  <2>1. CASE \A e \in added[w] : e.type # ty
    <3>1. OfType(edges', ty) \subseteq OfType(edges, ty) BY <2>1 DEF OfType
    <3> QED BY <3>1, AcyclicMonotone DEF NoLoops
  <2>2. CASE \E e \in added[w] : e.type = ty
    <3> PICK e \in added[w] : e.type = ty BY <2>2
    <3> DEFINE E == OfType(edges, ty)
               F == OfType(edges \ gone[w], ty)
    <3>1. F \subseteq E /\ F \in SUBSET Edge /\ OfType(edges', ty) = F \cup {e}
        BY DEF OfType, WriterSound
    <3>2. e \in wreq[w] /\ e \in Edge /\ e.source # e.target BY DEF WriterSound
    <3>3. e.source \in Nodes /\ e.target \in Nodes BY <3>2 DEF Edge
    <3>4. ~Reaches(E, e.target, e.source)
        BY <3>2 DEF CheckedForLoops, ClosesLoop
    <3>6. Acyclic(E) BY DEF NoLoops
    <3> HIDE DEF E, F
    <3>5. ~Reaches(F, e.target, e.source)
        BY <3>1, <3>3, <3>4, ReachesMonotone
    <3>8. Acyclic(F) BY <3>1, <3>6, AcyclicMonotone
    <3>7. Acyclic(F \cup {e}) BY <3>1, <3>2, <3>5, <3>8, AcyclicAdd
    <3> QED BY <3>1, <3>7
  <2> QED BY <2>1, <2>2
<1>6. CheckedForLoops'
  <2> SUFFICES ASSUME NEW v \in Writers, NEW e \in wreq'[v],
                      e.type \in AcyclicTypes \ overrun,
                      \/ wpc'[v] = "insert"
                      \/ wpc'[v] = "free" /\ wop'[v] = "set_home"
                      \/ e \in added'[v]
               PROVE  ~ClosesLoop(e)'
      BY DEF CheckedForLoops
  <2>1. v # w /\ wreq'[v] = wreq[v] /\ wpc'[v] = wpc[v] /\ wop'[v] = wop[v]
        /\ added'[v] = added[v]
      OBVIOUS
  <2>2. Holds(v, e.type) BY <2>1 DEF Holds, WriterSound
  <2>3. \A f \in added[w] : f.type # e.type
      BY <2>1, <2>2 DEF OneHolder, Holds, WriterSound
  <2>4. OfType(edges', e.type) \subseteq OfType(edges, e.type)
      BY <2>3 DEF OfType
  <2>5. ~ClosesLoop(e) BY <2>1 DEF CheckedForLoops
  <2>6. e.source \in Nodes /\ e.target \in Nodes BY <2>1 DEF Edge
  <2> QED BY <2>4, <2>5, <2>6, ReachesMonotone DEF ClosesLoop
<1>7. CheckedForHomes'
  <2> SUFFICES ASSUME NEW v \in Writers, NEW e \in wreq'[v],
                      wop'[v] = "create", IsHome(e), Contains \notin overrun,
                      wpc'[v] \in {"loop", "insert"}
               PROVE  OtherHomes(edges', e) = {}
      BY DEF CheckedForHomes
  <2>1. v # w /\ wreq'[v] = wreq[v] /\ wpc'[v] = wpc[v] /\ wop'[v] = wop[v]
      OBVIOUS
  <2>2. Holds(v, Contains) BY <2>1, TypesAssumption DEF Holds, IsHome
  <2>3. ASSUME NEW f \in added[w], IsHome(f) PROVE FALSE
    <3>1. Holds(w, Contains) BY <2>3, TypesAssumption DEF Holds, WriterSound, IsHome
    <3> QED BY <2>1, <2>2, <3>1, TypesAssumption DEF OneHolder
  <2>4. OtherHomes(edges, e) = {} BY <2>1 DEF CheckedForHomes
  <2> QED BY <2>3, <2>4 DEF OtherHomes
<1>8. ArchiveSound' BY DEF ArchiveSound
<1>9. LinkedOnce'
  <2>1. \A e, f \in edges : Clash(e, f) => e = f BY DEF LinkedOnce
  <2>2. \A e \in added[w], f \in edges \ gone[w] : ~Clash(e, f) /\ ~Clash(f, e)
      BY ClashSymmetric DEF PendingFits, Clashes
  <2>3. \A e, f \in added[w] : e = f BY DEF WriterSound
  <2> QED BY <2>1, <2>2, <2>3 DEF LinkedOnce
<1>10. PendingFits' BY DEF PendingFits, Clashes, WriterSound
<1>11. MoveSound'
  <2>1. ASSUME NEW v \in Writers \ {w}, NEW f \in gone[v], f \in gone[w] PROVE FALSE
    <3>1. Holds(v, Contains) /\ Holds(w, Contains)
        BY <2>1, TypesAssumption DEF Holds, MoveSound, WriterSound, IsHome
    <3> QED BY <3>1, <2>1, TypesAssumption DEF OneHolder
  <2> QED BY <2>1 DEF MoveSound
<1>12. NoDangling' BY DEF NoDangling, NodesExist, WriterSound
<1> QED BY <1>1, <1>2, <1>3, <1>4, <1>5, <1>6, <1>7, <1>8, <1>9, <1>10, <1>11,
       <1>12

(* DeleteEdge: a link goes.                                                *)
LEMMA DeleteEdgeKeeps ==
    ASSUME Inv, NEW e \in Edge, DeleteEdge(e)
    PROVE  Inv'
<1> USE DEF DeleteEdge, Inv, TypeOK, writers
<1>0. NoLoops' /\ CheckedForLoops' BY FewerLinks DEF OfType
<1>1. TypeOK' BY DEF Steps, Ops, Edge
<1>2. WriterSound' BY DEF WriterSound, IsHome
<1>3. OneHolder' BY DEF OneHolder, Holds, WriterSound
<1>4. FreshUnlinked' BY DEF FreshUnlinked, Touches, Ends, WriterSound
<1>5. NoLoops' BY <1>0
<1>6. CheckedForLoops' BY <1>0
<1>7. CheckedForHomes' BY DEF CheckedForHomes, OtherHomes, IsHome, WriterSound
<1>8. ArchiveSound' BY DEF ArchiveSound
<1>9. LinkedOnce' BY DEF LinkedOnce
<1>10. PendingFits' BY DEF PendingFits, Clashes, WriterSound
<1>11. MoveSound' BY DEF MoveSound, Pending
<1>12. NoDangling' BY DEF NoDangling, NodesExist, WriterSound
<1> QED BY <1>1, <1>2, <1>3, <1>4, <1>5, <1>6, <1>7, <1>8, <1>9, <1>10, <1>11,
       <1>12

(* Convert: a link becomes one of a type that may loop.                    *)
LEMMA ConvertKeeps ==
    ASSUME Inv, NEW e \in Edge, NEW to \in ConvertTargets \cap Types,
           NEW swap \in BOOLEAN, Convert(e, to, swap)
    PROVE  Inv'
<1> USE DEF Convert, Inv, TypeOK, writers
<1>0. NoLoops' /\ CheckedForLoops'
    BY FewerLinks, TypesAssumption DEF OfType, ConvertTargets, Converted
<1>1. TypeOK' BY DEF Steps, Ops, Edge, Converted
<1>2. WriterSound' BY DEF WriterSound, IsHome
<1>3. OneHolder' BY DEF OneHolder, Holds, WriterSound
<1>4. FreshUnlinked' BY DEF FreshUnlinked, Touches, Ends, Converted
<1>5. NoLoops' BY <1>0
<1>6. CheckedForLoops' BY <1>0
<1>7. CheckedForHomes'
    BY TypesAssumption
    DEF CheckedForHomes, OtherHomes, IsHome, ConvertTargets, Converted
<1>8. ArchiveSound' BY DEF ArchiveSound
<1>9. LinkedOnce' BY ClashSymmetric DEF LinkedOnce, Clashes
<1>10. PendingFits' BY ClashSymmetric DEF PendingFits, Clashes, Pending
<1>11. MoveSound' BY DEF MoveSound, Pending
<1>12. NoDangling' BY DEF NoDangling, NodesExist, Ends, Converted
<1> QED BY <1>1, <1>2, <1>3, <1>4, <1>5, <1>6, <1>7, <1>8, <1>9, <1>10, <1>11,
       <1>12

(* MakeNode: a new node has no links.                                      *)
LEMMA MakeNodeKeeps ==
    ASSUME Inv, NEW n \in Nodes, NEW home \in SUBSET Edge, MakeNode(n, home)
    PROVE  Inv'
<1> USE DEF MakeNode, Inv, TypeOK, writers
<1>a. home = {} \/ \E p \in nodes : home = {HomeIn(p, n)} OBVIOUS
<1>b. \A e \in edges : ~Touches(e, n) BY DEF FreshUnlinked
<1>c. \A w \in Writers : \A e \in wreq[w] : e \in Edge /\ ~Touches(e, n)
    BY DEF FreshUnlinked
<1>d. n \notin nodes BY DEF FreshUnlinked
<1>e. \A e \in home : e \in Edge /\ IsHome(e) /\ e.target = n /\ e.source # n
                     /\ e.source \in nodes
    BY <1>a, <1>d DEF HomeIn, IsHome
<1>f. \A e, f \in home : e = f BY <1>a
<1>1. TypeOK' BY DEF Steps, Ops, Edge
<1>2. WriterSound' BY DEF WriterSound, IsHome
<1>3. OneHolder' BY DEF OneHolder, Holds, WriterSound
<1>4. FreshUnlinked'
  <2>1. \A m \in fresh' : \A e \in home : ~Touches(e, m)
      BY <1>e DEF FreshUnlinked, Touches, Ends
  <2>2. \A m \in fresh' : m \in fresh /\ m \notin nodes' BY DEF FreshUnlinked
  <2> QED BY <2>1, <2>2 DEF FreshUnlinked
<1>5. NoLoops'
  <2> SUFFICES ASSUME NEW ty \in AcyclicTypes \ overrun
               PROVE  Acyclic(OfType(edges', ty))
      BY DEF NoLoops
  <2>1. CASE \A e \in home : e.type # ty
    <3>1. OfType(edges', ty) = OfType(edges, ty) BY <2>1 DEF OfType
    <3> QED BY <3>1 DEF NoLoops
  <2>2. CASE \E e \in home : e.type = ty
    <3> PICK e \in home : e.type = ty BY <2>2
    <3> DEFINE E == OfType(edges, ty)
    <3>1. OfType(edges', ty) = E \cup {e} BY <1>f DEF OfType
    <3>2. Successors(E, e.target) = {}
        BY <1>b, <1>e DEF OfType, Successors, Touches, Ends
    <3>3. ~Reaches(E, e.target, e.source)
        BY <3>2 DEF Reaches, Closed
    <3>4. E \in SUBSET Edge /\ Acyclic(E) BY DEF NoLoops, OfType
    <3> HIDE DEF E
    <3>5. Acyclic(E \cup {e}) BY <1>e, <3>3, <3>4, AcyclicAdd
    <3> QED BY <3>1, <3>5
  <2> QED BY <2>1, <2>2
<1>6. CheckedForLoops'
  <2> SUFFICES ASSUME NEW w \in Writers, NEW e \in wreq[w], ~ClosesLoop(e)
               PROVE  ~ClosesLoop(e)'
      BY DEF CheckedForLoops
  <2> DEFINE E == OfType(edges, e.type)
  <2>1. CASE \A f \in home : f.type # e.type
    <3>1. OfType(edges', e.type) = E BY <2>1 DEF OfType
    <3> QED BY <3>1 DEF ClosesLoop
  <2>2. CASE \E f \in home : f.type = e.type
    <3> PICK f \in home : f.type = e.type BY <2>2
    <3>1. OfType(edges', e.type) = E \cup {f} BY <1>f DEF OfType
    <3>2. \A g \in E : ~Touches(g, f.target) BY <1>b, <1>e DEF OfType
    <3>3. /\ e.source \in Nodes /\ e.target \in Nodes
          /\ e.source # f.target /\ e.target # f.target
        BY <1>c, <1>e DEF Touches, Ends, Edge
    <3>4. E \in SUBSET Edge /\ ~Reaches(E, e.target, e.source)
        BY DEF OfType, ClosesLoop
    <3> HIDE DEF E
    <3>5. ~Reaches(E \cup {f}, e.target, e.source)
        BY <1>e, <3>2, <3>3, <3>4, ReachesLeaf
    <3> QED BY <3>1, <3>5 DEF ClosesLoop
  <2> QED BY <2>1, <2>2
<1>7. CheckedForHomes'
    BY <1>c, <1>e DEF CheckedForHomes, OtherHomes, Touches, Ends
<1>8. ArchiveSound' BY DEF ArchiveSound
<1>9. LinkedOnce'
    BY <1>b, <1>e, <1>f, TypesAssumption
    DEF LinkedOnce, Clash, SameLink, TwoHomes, SamePair, Touches, Ends, IsHome, Contains, RelatedTo
<1>10. PendingFits'
  <2>1. \A w \in Writers : \A e \in added[w], f \in home : ~Clash(e, f)
      BY <1>c, <1>e
      DEF WriterSound, Clash, SameLink, TwoHomes, SamePair, Touches, Ends, IsHome, Contains, RelatedTo
  <2> QED BY <2>1 DEF PendingFits, Clashes
<1>11. MoveSound' BY DEF MoveSound
<1>12. NoDangling' BY <1>e DEF NoDangling, NodesExist, Ends
<1> QED BY <1>1, <1>2, <1>3, <1>4, <1>5, <1>6, <1>7, <1>8, <1>9, <1>10, <1>11,
       <1>12

(* DeleteNode: a node goes with its links.                                 *)
LEMMA DeleteNodeKeeps ==
    ASSUME Inv, NEW n \in Nodes, DeleteNode(n)
    PROVE  Inv'
<1> USE DEF DeleteNode, Inv, TypeOK, writers
<1>0. NoLoops' /\ CheckedForLoops' BY FewerLinks DEF OfType
<1>1. TypeOK' BY DEF Steps, Ops, Edge
<1>2. WriterSound' BY DEF WriterSound, IsHome
<1>3. OneHolder' BY DEF OneHolder, Holds, WriterSound
<1>4. FreshUnlinked' BY DEF FreshUnlinked, Touches, Ends, WriterSound
<1>5. NoLoops' BY <1>0
<1>6. CheckedForLoops' BY <1>0
<1>7. CheckedForHomes' BY DEF CheckedForHomes, OtherHomes, IsHome, WriterSound
<1>8. ArchiveSound' BY DEF ArchiveSound
<1>9. LinkedOnce' BY DEF LinkedOnce
<1>10. PendingFits' BY DEF PendingFits, Clashes, WriterSound
<1>11. MoveSound' BY DEF MoveSound, Pending
<1>12. NoDangling' BY DEF NoDangling, NodesExist, Touches, Pending
<1> QED BY <1>1, <1>2, <1>3, <1>4, <1>5, <1>6, <1>7, <1>8, <1>9, <1>10, <1>11,
       <1>12

(* BackupNodes: a backup reads the nodes.                                  *)
LEMMA BackupNodesKeeps ==
    ASSUME Inv, BackupNodes
    PROVE  Inv'
<1> USE DEF BackupNodes, Inv, TypeOK, writers
<1>1. TypeOK' BY DEF Steps, Ops, Edge
<1>2. WriterSound' BY DEF WriterSound, IsHome
<1>3. OneHolder' BY DEF OneHolder, Holds, WriterSound
<1>4. FreshUnlinked' BY DEF FreshUnlinked, Touches, Ends, WriterSound
<1>5. NoLoops' BY DEF NoLoops
<1>6. CheckedForLoops' BY DEF CheckedForLoops, ClosesLoop, WriterSound
<1>7. CheckedForHomes' BY DEF CheckedForHomes, OtherHomes, IsHome, WriterSound
<1>8. ArchiveSound'
  <2>1. \A ty \in AcyclicTypes : OfType({}, ty) \subseteq OfType(archive.edges, ty)
      BY DEF OfType
  <2> QED BY <2>1, AcyclicMonotone DEF ArchiveSound
<1>9. LinkedOnce' BY DEF LinkedOnce
<1>10. PendingFits' BY DEF PendingFits, Clashes, WriterSound
<1>11. MoveSound' BY DEF MoveSound, WriterSound, IsHome
<1>12. NoDangling' BY DEF NoDangling, NodesExist, WriterSound
<1> QED BY <1>1, <1>2, <1>3, <1>4, <1>5, <1>6, <1>7, <1>8, <1>9, <1>10, <1>11,
       <1>12

(* BackupEdges: a backup reads the links.                                  *)
LEMMA BackupEdgesKeeps ==
    ASSUME Inv, BackupEdges
    PROVE  Inv'
<1> USE DEF BackupEdges, Inv, TypeOK, writers
<1>1. TypeOK' BY DEF Steps, Ops, Edge
<1>2. WriterSound' BY DEF WriterSound, IsHome
<1>3. OneHolder' BY DEF OneHolder, Holds, WriterSound
<1>4. FreshUnlinked' BY DEF FreshUnlinked, Touches, Ends, WriterSound
<1>5. NoLoops' BY DEF NoLoops
<1>6. CheckedForLoops' BY DEF CheckedForLoops, ClosesLoop, WriterSound
<1>7. CheckedForHomes' BY DEF CheckedForHomes, OtherHomes, IsHome, WriterSound
<1>8. ArchiveSound' BY DEF ArchiveSound, NoLoops, LinkedOnce
<1>9. LinkedOnce' BY DEF LinkedOnce
<1>10. PendingFits' BY DEF PendingFits, Clashes, WriterSound
<1>11. MoveSound' BY DEF MoveSound, WriterSound, IsHome
<1>12. NoDangling' BY DEF NoDangling, NodesExist, WriterSound
<1> QED BY <1>1, <1>2, <1>3, <1>4, <1>5, <1>6, <1>7, <1>8, <1>9, <1>10, <1>11,
       <1>12

(* Restore: the archive's links replace the stored ones.                   *)
LEMMA RestoreKeeps ==
    ASSUME Inv, NEW ws \in SUBSET Writers, Restore(ws)
    PROVE  Inv'
<1> USE DEF Restore, Inv, TypeOK, End
<1>1. TypeOK' BY DEF Steps, Ops, Edge
<1>2. WriterSound' BY DEF WriterSound, IsHome
<1>3. OneHolder' BY DEF OneHolder, Holds, WriterSound
<1>4. FreshUnlinked' BY DEF FreshUnlinked, Touches, Ends
<1>5. NoLoops' BY DEF NoLoops, ArchiveSound
<1>6. CheckedForLoops'
    BY DEF CheckedForLoops, WriterSound, PastACheck, Pending
<1>7. CheckedForHomes'
  <2> SUFFICES ASSUME NEW w \in Writers, NEW e \in wreq'[w],
                      wop'[w] = "create", IsHome(e), Contains \notin overrun',
                      wpc'[w] \in {"loop", "insert"}
               PROVE  FALSE
      BY DEF CheckedForHomes
  <2>1. w \notin ws /\ wreq'[w] = wreq[w] /\ wpc'[w] = wpc[w] /\ wop'[w] = wop[w]
      OBVIOUS
  <2>2. w \in PastACheck \ ws BY <2>1 DEF PastACheck
  <2> QED BY <2>1, <2>2, TypesAssumption DEF IsHome
<1>8. ArchiveSound' BY DEF ArchiveSound
<1>9. LinkedOnce' BY DEF LinkedOnce, ArchiveSound
<1>10. PendingFits'
  <2>1. \A w \in Writers : added[w] = {} BY DEF Pending
  <2> QED BY <2>1 DEF PendingFits, Clashes
<1>11. MoveSound'
  <2>1. \A w \in Writers : gone[w] = {} /\ added[w] = {} BY DEF Pending
  <2> QED BY <2>1 DEF MoveSound
<1>12. NoDangling'
  <2>1. \A w \in Writers : added[w] = {} BY DEF Pending
  <2> QED BY <2>1 DEF NoDangling, NodesExist, Ends
<1> QED BY <1>1, <1>2, <1>3, <1>4, <1>5, <1>6, <1>7, <1>8, <1>9, <1>10, <1>11,
       <1>12

(* The invariant holds at the start.                                       *)
LEMMA InitInv == Init => Inv
<1> SUFFICES ASSUME Init PROVE Inv OBVIOUS
<1> USE DEF Init, Inv
<1>1. TypeOK
    BY NodesAssumption, TypesAssumption DEF TypeOK, Steps, Ops, Edge
<1>2. WriterSound /\ OneHolder BY DEF WriterSound, OneHolder, Holds
<1>3. FreshUnlinked BY DEF FreshUnlinked
<1>4. \A ty \in AcyclicTypes : Acyclic(OfType({}, ty))
  <2>1. \A ty \in AcyclicTypes : OfType({}, ty) = {} BY DEF OfType
  <2>2. Acyclic({}) BY DEF Acyclic, Reaches, Successors, Closed
  <2> QED BY <2>1, <2>2
<1>5. NoLoops /\ ArchiveSound BY <1>4 DEF NoLoops, ArchiveSound
<1>6. CheckedForLoops /\ CheckedForHomes BY DEF CheckedForLoops, CheckedForHomes
<1>7. LinkedOnce /\ NoDangling /\ PendingFits /\ MoveSound
    BY DEF LinkedOnce, NoDangling, PendingFits, Clashes, MoveSound
<1> QED BY <1>1, <1>2, <1>3, <1>5, <1>6, <1>7

(* A step that changes nothing keeps the invariant.                        *)
LEMMA StutterKeeps == ASSUME Inv, UNCHANGED vars PROVE Inv'
<1> USE DEF Inv, vars
<1>1. TypeOK' /\ WriterSound' BY DEF TypeOK, WriterSound
<1>2. OneHolder' /\ FreshUnlinked' BY DEF OneHolder, Holds, FreshUnlinked
<1>3. NoLoops' /\ CheckedForLoops' BY DEF NoLoops, CheckedForLoops, ClosesLoop
<1>4. CheckedForHomes' /\ ArchiveSound' BY DEF CheckedForHomes, ArchiveSound
<1>5. LinkedOnce' /\ NoDangling' /\ PendingFits' /\ MoveSound'
    BY DEF LinkedOnce, NoDangling, NodesExist, PendingFits, MoveSound
<1> QED BY <1>1, <1>2, <1>3, <1>4, <1>5

(* Every step keeps the invariant.                                         *)
LEMMA NextKeeps == Inv /\ [Next]_vars => Inv'
<1> SUFFICES ASSUME Inv, [Next]_vars PROVE Inv' OBVIOUS
<1> USE DEF Inv
<1>1. ASSUME NEW w \in Writers, NEW e \in Edge, CreateStart(w, e) PROVE Inv'
  <2>1. PICK step \in Steps :
          Begin(w, "create", e, step) /\ BeginFits("create", e, step)
      BY <1>1 DEF CreateStart, BeginFits, Steps
  <2> QED BY <1>1, <2>1, BeginKeeps DEF Ops
<1>2. ASSUME NEW w \in Writers, NEW c \in nodes, StandAloneStart(w, c) PROVE Inv'
  <2>1. HomeIn(c, c) \in Edge /\ Begin(w, "stand_alone", HomeIn(c, c), "lock")
        /\ BeginFits("stand_alone", HomeIn(c, c), "lock")
      BY <1>2, TypesAssumption DEF StandAloneStart, BeginFits, HomeIn, Edge, TypeOK
  <2> QED BY <2>1, BeginKeeps DEF Ops, Steps
<1>3. ASSUME NEW w \in Writers, NEW c \in nodes, NEW p \in nodes,
             SetHomeStart(w, c, p)
      PROVE  Inv'
  <2>1. HomeIn(p, c) \in Edge /\ Begin(w, "set_home", HomeIn(p, c), "lock")
        /\ BeginFits("set_home", HomeIn(p, c), "lock")
      BY <1>3, TypesAssumption DEF SetHomeStart, BeginFits, HomeIn, Edge, TypeOK
  <2> QED BY <2>1, BeginKeeps DEF Ops, Steps
<1>4. ASSUME NEW w \in Writers, WriterStep(w) PROVE Inv'
  <2>1. ASSUME NEW e \in wreq[w], LockType(w, e) PROVE Inv'
      BY <2>1, LockTypeKeeps DEF TypeOK
  <2>2. ASSUME NEW e \in wreq[w], CheckHome(w, e) PROVE Inv'
      BY <2>2, CheckHomeKeeps DEF TypeOK
  <2>3. ASSUME NEW e \in wreq[w], CheckLoop(w, e) PROVE Inv'
      BY <2>3, CheckLoopKeeps DEF TypeOK
  <2>4. ASSUME NEW e \in wreq[w], FreeHomes(w, e) PROVE Inv'
      BY <2>4, FreeHomesKeeps DEF TypeOK
  <2>5. ASSUME NEW e \in wreq[w], Insert(w, e) PROVE Inv'
      BY <2>5, InsertKeeps DEF TypeOK
  <2>6. ASSUME NEW e \in wreq[w], InsertAbsorbed(w, e) PROVE Inv'
      BY <2>6, InsertAbsorbedKeeps DEF TypeOK
  <2>7. ASSUME NEW e \in wreq[w],
               HomeRefused(w, e) \/ LoopRefused(w, e) \/ InsertRefused(w, e)
        PROVE  Inv'
      BY <2>7, RollbackKeeps DEF HomeRefused, LoopRefused, InsertRefused
  <2>8. CASE Commit(w) BY <2>8, CommitKeeps
  <2> QED BY <1>4, <2>1, <2>2, <2>3, <2>4, <2>5, <2>6, <2>7, <2>8 DEF WriterStep
<1>5. ASSUME NEW w \in Writers, TransactionFails(w) PROVE Inv'
    BY <1>5, RollbackKeeps DEF TransactionFails
<1>6. ASSUME NEW e \in edges, DeleteEdge(e) PROVE Inv'
    BY <1>6, DeleteEdgeKeeps DEF TypeOK
<1>7. ASSUME NEW e \in edges, NEW to \in ConvertTargets \cap Types,
             NEW swap \in BOOLEAN, Convert(e, to, swap)
      PROVE  Inv'
    BY <1>7, ConvertKeeps DEF TypeOK
<1>8. ASSUME NEW n \in Nodes, DeleteNode(n) PROVE Inv'
    BY <1>8, DeleteNodeKeeps
<1>9. ASSUME NEW n \in Nodes, MakeNode(n, {}) PROVE Inv'
    BY <1>9, MakeNodeKeeps
<1>10. ASSUME NEW n \in Nodes, NEW p \in nodes, MakeNode(n, {HomeIn(p, n)})
       PROVE  Inv'
  <2>1. {HomeIn(p, n)} \in SUBSET Edge
      BY TypesAssumption DEF HomeIn, Edge, TypeOK
  <2> QED BY <1>10, <2>1, MakeNodeKeeps
<1>11. CASE BackupNodes BY <1>11, BackupNodesKeeps
<1>12. CASE BackupEdges BY <1>12, BackupEdgesKeeps
<1>13. ASSUME NEW ws \in SUBSET Writers, Restore(ws) PROVE Inv'
    BY <1>13, RestoreKeeps
<1>14. CASE UNCHANGED vars BY <1>14, StutterKeeps
<1> QED
    BY <1>1, <1>2, <1>3, <1>4, <1>5, <1>6, <1>7, <1>8, <1>9, <1>10, <1>11,
       <1>12, <1>13, <1>14 DEF Next

(* The invariant holds of every behaviour.                                 *)
THEOREM SpecInv == Spec => []Inv
BY InitInv, NextKeeps, PTL DEF Spec

(* The types, for every set of nodes, types and writers.                   *)
THEOREM SpecTypeOK == Spec => []TypeOK
<1>1. Inv => TypeOK BY DEF Inv
<1> QED BY <1>1, SpecInv, PTL

(* No loop of an acyclic type forms, however many requests link and move   *)
(* nodes at once, unless a restore wrote under a writer's feet: the lock   *)
(* of lock_type is enough, though conversions, deletes and captures write  *)
(* without it.                                                             *)
THEOREM SpecNoLoops == Spec => []NoLoops
<1>1. Inv => NoLoops BY DEF Inv
<1> QED BY <1>1, SpecInv, PTL

(* What create and set_home checked still holds when they insert.          *)
THEOREM SpecChecksStand == Spec => []ChecksStand
<1>1. Inv => ChecksStand
    BY TypesAssumption
    DEF Inv, ChecksStand, CheckedForLoops, CheckedForHomes, IsHome
<1> QED BY <1>1, SpecInv, PTL

(* A set_home in progress leaves its child a home through each of its      *)
(* steps.                                                                  *)
LEMMA MoveKeepsAHome ==
    ASSUME Inv, [Next]_vars, NEW w \in Writers, NEW e \in wreq[w],
           wop[w] = "set_home", wpc'[w] # wpc[w], restores' = restores,
           NEW f \in edges, IsHome(f), f.target = e.target
    PROVE  \E g \in edges' : IsHome(g) /\ g.target = e.target
<1> USE DEF Inv, TypeOK
<1>1. wpc[w] # "idle" /\ IsHome(e) BY DEF WriterSound
<1>2. CASE Commit(w)
  <2>1. CASE gone[w] = {} BY <1>2, <2>1 DEF Commit
  <2>2. CASE gone[w] # {}
    <3>1. e \in added[w] BY <1>2, <2>2 DEF Commit, MoveSound
    <3> QED BY <1>1, <1>2, <3>1 DEF Commit
  <2> QED BY <2>1, <2>2
<1>3. CASE WriterStep(w) /\ ~Commit(w)
  <2>1. edges' = edges
      BY <1>3 DEF WriterStep, LockType, CheckHome, HomeRefused, CheckLoop,
        LoopRefused, FreeHomes, Insert, InsertRefused, InsertAbsorbed, Rollback
  <2> QED BY <2>1
<1>4. CASE TransactionFails(w) BY <1>4 DEF TransactionFails, Rollback
<1>5. CASE ~WriterStep(w) /\ ~TransactionFails(w)
  <2>1. ASSUME NEW v \in Writers, v # w, WriterStep(v) PROVE FALSE
      BY <2>1 DEF WriterStep, LockType, CheckHome, HomeRefused, CheckLoop,
        LoopRefused, FreeHomes, Insert, InsertRefused, InsertAbsorbed, Commit,
        Rollback, End, Goto
  <2>2. ASSUME NEW v \in Writers, v # w, TransactionFails(v) PROVE FALSE
      BY <2>2 DEF TransactionFails, Rollback, End
  <2>3. ASSUME NEW v \in Writers,
               \/ \E x \in Edge : CreateStart(v, x)
               \/ \E c \in nodes : StandAloneStart(v, c)
               \/ \E c, p \in nodes : SetHomeStart(v, c, p)
        PROVE  FALSE
    <3>1. wpc[v] = "idle" /\ \E step \in Steps : wpc' = [wpc EXCEPT ![v] = step]
        BY <2>3 DEF CreateStart, StandAloneStart, SetHomeStart, Begin, Goto, Steps
    <3> QED BY <1>1, <3>1
  <2>4. ASSUME NEW ws \in SUBSET Writers, Restore(ws) PROVE FALSE
      BY <2>4 DEF Restore
  <2>5. wpc' = wpc
      BY <1>5, <2>1, <2>2, <2>3, <2>4
      DEF Next, DeleteEdge, Convert, DeleteNode, MakeNode, BackupNodes,
        BackupEdges, writers, vars
  <2> QED BY <2>5
<1> QED BY <1>2, <1>3, <1>4, <1>5

(* No step of a move leaves its child homeless.                            *)
THEOREM SpecMovesKeepAHome == Spec => MovesKeepAHome
<1>1. Inv /\ [Next]_vars =>
        [\A w \in Writers : \A e \in wreq[w] :
            (/\ wop[w] = "set_home" /\ wpc'[w] # wpc[w] /\ restores' = restores
             /\ \E f \in edges : IsHome(f) /\ f.target = e.target)
            => \E f \in edges' : IsHome(f) /\ f.target = e.target]_vars
    BY MoveKeepsAHome
<1> QED BY <1>1, SpecInv, PTL DEF Spec, MovesKeepAHome

(* No two stored links clash: creates, moves, conversions and captures     *)
(* wait for each other's pending rows.                                     *)
THEOREM SpecLinkedOnce == Spec => []LinkedOnce
<1>1. Inv => LinkedOnce BY DEF Inv
<1> QED BY <1>1, SpecInv, PTL

-----------------------------------------------------------------------------
(* The refinement: each step of a request's statements is a step of        *)
(* LinkGraph, or no step of it.                                            *)

(* Links means the same in both specifications.                            *)
LEMMA SameLinks ==
    /\ Promise!Edge = Edge
    /\ \A e : Promise!Ends(e) = Ends(e)
    /\ \A e : Promise!IsHome(e) <=> IsHome(e)
    /\ \A E, e : Promise!OtherHomes(E, e) = OtherHomes(E, e)
    /\ \A E, e : Promise!Clashes(E, e) <=> Clashes(E, e)
    /\ \A E, ty : Promise!OfType(E, ty) = OfType(E, ty)
    /\ \A E, m, n : Promise!Reaches(E, m, n) <=> Reaches(E, m, n)
<1>1. Promise!Edge = Edge BY DEF Promise!Edge, Edge
<1>2. \A e : Promise!Ends(e) = Ends(e) BY DEF Promise!Ends, Ends
<1>3. \A e : Promise!IsHome(e) <=> IsHome(e)
    BY DEF Promise!IsHome, IsHome, Promise!Contains, Contains
<1>4. \A E, e : Promise!OtherHomes(E, e) = OtherHomes(E, e)
    BY <1>3 DEF Promise!OtherHomes, OtherHomes
<1>5. \A e, f : Promise!Clash(e, f) <=> Clash(e, f)
    BY <1>3 DEF Promise!Clash, Clash, Promise!SameLink, SameLink, Promise!TwoHomes, TwoHomes,
           Promise!SamePair, SamePair, Promise!IsHome, IsHome, Promise!RelatedTo, RelatedTo
<1>6. \A E, e : Promise!Clashes(E, e) <=> Clashes(E, e)
    BY <1>5 DEF Promise!Clashes, Clashes
<1>7. \A E, ty : Promise!OfType(E, ty) = OfType(E, ty)
    BY DEF Promise!OfType, OfType
<1>8. \A E, m, n : Promise!Reaches(E, m, n) <=> Reaches(E, m, n)
    BY DEF Promise!Reaches, Reaches, Promise!Successors, Successors,
       Promise!Closed, Closed
<1> QED BY <1>1, <1>2, <1>3, <1>4, <1>6, <1>7, <1>8

(* A request comes in.                                                     *)
LEMMA BeginAsks ==
    ASSUME Inv, NEW w \in Writers, NEW op \in Ops, NEW e \in Edge, NEW step,
           Begin(w, op, e, step), Ends(e) \subseteq nodes,
           IF op = "create" THEN e.source # e.target
           ELSE IsHome(e) /\ (e.source = e.target <=> op = "stand_alone")
    PROVE  Promise!Next
<1>1. wreq[w] = {} BY DEF Inv, WriterSound, Begin
<1>2. Promise!Ask(w, op, e)
    BY SameLinks DEF Begin, Promise!Ask, Promise!graph
<1> QED BY <1>1, <1>2, SameLinks DEF Promise!Next, Promise!Ops, Ops

(* A request ends that has written nothing.                                *)
LEMMA RollbackRefuses ==
    ASSUME Inv, NEW w \in Writers, wpc[w] # "idle", End({w}), edges' = edges,
           UNCHANGED <<nodes, fresh, archive, overrun>>
    PROVE  Promise!Next
<1>1. wreq[w] # {} BY DEF Inv, WriterSound
<1>2. Promise!Refuse(w) BY DEF End, Promise!Refuse, Promise!Answer, Promise!graph
<1> QED BY <1>1, <1>2 DEF Promise!Next

(* A request ends that has written: its commit is the instant at which it  *)
(* takes effect.                                                           *)
LEMMA CommitDoes ==
    ASSUME Inv, NEW w \in Writers, Commit(w)
    PROVE  Promise!Next
<1> USE DEF Inv, TypeOK
<1>1. PICK e \in Edge : wreq[w] = {e} BY DEF Commit, WriterSound
<1>2. edges' = (edges \ gone[w]) \cup added[w] BY DEF Commit
<1>3. CASE gone[w] = {} /\ added[w] = {}
  <2>1. edges' = edges BY <1>2, <1>3
  <2> QED BY <2>1, RollbackRefuses DEF Commit
<1>4. e \in added[w] => Promise!MayLink(e)
  <2> SUFFICES ASSUME e \in added[w] PROVE Promise!MayLink(e) OBVIOUS
  <2>1. e.source # e.target BY DEF WriterSound
  <2>2. Ends(e) \subseteq nodes BY DEF NoDangling, NodesExist
  <2>3. e.type \in AcyclicTypes \ overrun =>
            ~Reaches(OfType(edges, e.type), e.target, e.source)
      BY <1>1 DEF CheckedForLoops, ClosesLoop
  <2> QED BY <2>1, <2>2, <2>3, SameLinks DEF Promise!MayLink
<1>5. CASE ~(gone[w] = {} /\ added[w] = {})
  <2>1. Promise!Answer({w}) /\ UNCHANGED <<nodes, fresh, archive, overrun>>
      BY DEF Commit, End, Promise!Answer
  <2>2. CASE wop[w] = "create"
    <3>1. gone[w] = {} /\ added[w] = {e} BY <1>1, <1>5, <2>2 DEF WriterSound
    <3>2. edges \ gone[w] = edges BY <3>1
    <3>3. ~Clashes(edges, e) BY <3>1, <3>2 DEF PendingFits
    <3>4. edges' = edges \cup {e} BY <1>2, <3>1
    <3>5. Promise!Do(w, e)
        BY <1>4, <2>1, <2>2, <3>1, <3>3, <3>4, SameLinks DEF Promise!Do
    <3> QED BY <1>1, <3>5 DEF Promise!Next
  <2>3. CASE wop[w] = "set_home"
    <3>1. added[w] = {e} BY <1>1, <1>5, <2>3 DEF WriterSound, MoveSound, Commit
    <3>2. IsHome(e) BY <1>1, <2>3 DEF WriterSound
    <3>3. OtherHomes(edges, e) \subseteq gone[w]
        BY <3>1, <3>2 DEF PendingFits, Clashes, Clash, SameLink, TwoHomes, SamePair, OtherHomes
    <3>4. gone[w] \subseteq OtherHomes(edges, e)
        BY <1>1 DEF MoveSound, OtherHomes
    <3>5. edges' = (edges \ OtherHomes(edges, e)) \cup {e}
        BY <1>2, <3>1, <3>3, <3>4
    <3>6. Promise!Do(w, e)
        BY <1>4, <2>1, <2>3, <3>1, <3>5, SameLinks DEF Promise!Do
    <3> QED BY <1>1, <3>6 DEF Promise!Next
  <2>4. CASE wop[w] = "stand_alone"
    <3>1. added[w] = {} BY <2>4 DEF WriterSound
    <3>2. PICK g \in gone[w] : g \in OtherHomes(edges, e)
        BY <1>1, <1>5, <3>1 DEF MoveSound, OtherHomes
    <3>3. OtherHomes(edges, e) \subseteq gone[w]
        BY <3>2 DEF LinkedOnce, Clash, SameLink, TwoHomes, SamePair, OtherHomes
    <3>4. gone[w] \subseteq OtherHomes(edges, e)
        BY <1>1 DEF MoveSound, OtherHomes
    <3>5. edges' = edges \ OtherHomes(edges, e) BY <1>2, <3>1, <3>3, <3>4
    <3>6. Promise!Do(w, e) BY <2>1, <2>4, <3>5, SameLinks DEF Promise!Do
    <3> QED BY <1>1, <3>6 DEF Promise!Next
  <2> QED BY <2>2, <2>3, <2>4 DEF Ops
<1> QED BY <1>3, <1>5

(* Every step is one of LinkGraph's or leaves its state alone.             *)
LEMMA StepIsPromised ==
    ASSUME Inv, [Next]_vars
    PROVE  [Promise!Next]_(Promise!vars)
<1> DEFINE Kept == UNCHANGED <<nodes, fresh, edges, wop, wreq, archive, overrun>>
<1> USE DEF Inv, TypeOK
<1>0. Kept => UNCHANGED Promise!vars BY DEF Promise!vars
<1>1. ASSUME NEW w \in Writers, NEW e \in Edge, CreateStart(w, e)
      PROVE  Promise!Next
    BY <1>1, BeginAsks DEF CreateStart, Ends, Ops
<1>2. ASSUME NEW w \in Writers, NEW c \in nodes, StandAloneStart(w, c)
      PROVE  Promise!Next
  <2>1. HomeIn(c, c) \in Edge BY TypesAssumption DEF HomeIn, Edge
  <2>2. IsHome(HomeIn(c, c)) /\ Ends(HomeIn(c, c)) = {c}
        /\ HomeIn(c, c).source = HomeIn(c, c).target
      BY DEF HomeIn, IsHome, Ends
  <2> QED BY <1>2, <2>1, <2>2, BeginAsks DEF StandAloneStart, Ops
<1>3. ASSUME NEW w \in Writers, NEW c \in nodes, NEW p \in nodes,
             SetHomeStart(w, c, p)
      PROVE  Promise!Next
  <2>1. HomeIn(p, c) \in Edge BY TypesAssumption DEF HomeIn, Edge
  <2>2. IsHome(HomeIn(p, c)) /\ Ends(HomeIn(p, c)) = {p, c}
        /\ HomeIn(p, c).source # HomeIn(p, c).target
      BY <1>3 DEF HomeIn, IsHome, Ends, SetHomeStart
  <2> QED BY <1>3, <2>1, <2>2, BeginAsks DEF SetHomeStart, Ops
<1>4. ASSUME NEW w \in Writers, WriterStep(w) PROVE Promise!Next \/ Kept
  <2>1. ASSUME NEW e \in wreq[w],
               \/ LockType(w, e) \/ CheckHome(w, e) \/ CheckLoop(w, e)
               \/ FreeHomes(w, e) \/ Insert(w, e) \/ InsertAbsorbed(w, e)
        PROVE  Kept
      BY <2>1 DEF LockType, CheckHome, CheckLoop, FreeHomes, Insert, InsertAbsorbed
  <2>2. ASSUME NEW e \in wreq[w],
               HomeRefused(w, e) \/ LoopRefused(w, e) \/ InsertRefused(w, e)
        PROVE  Promise!Next
    <3>1. wpc[w] # "idle" /\ Rollback(w)
        BY <2>2 DEF HomeRefused, LoopRefused, InsertRefused
    <3> QED BY <3>1, RollbackRefuses DEF Rollback
  <2>3. CASE Commit(w) BY <2>3, CommitDoes
  <2> QED BY <1>4, <2>1, <2>2, <2>3 DEF WriterStep
<1>5. ASSUME NEW w \in Writers, TransactionFails(w) PROVE Promise!Next
    BY <1>5, RollbackRefuses DEF TransactionFails, Rollback
<1>6. ASSUME NEW e \in edges, DeleteEdge(e) PROVE Promise!Next
  <2>1. Promise!Delete(e)
      BY <1>6 DEF DeleteEdge, writers, Promise!Delete, Promise!Rows, Promise!asks
  <2> QED BY <2>1 DEF Promise!Next
<1>7. ASSUME NEW e \in edges, NEW to \in ConvertTargets \cap Types,
             NEW swap \in BOOLEAN, Convert(e, to, swap)
      PROVE  Promise!Next
  <2>1. Promise!Convert(e, to, swap)
      BY <1>7, SameLinks
      DEF Convert, Converted, RelatedTo, writers, Promise!Convert,
          Promise!Converted, Promise!RelatedTo, Promise!Rows, Promise!asks
  <2> QED BY <2>1 DEF Promise!Next, Promise!ConvertTargets, ConvertTargets,
                      Promise!RelatedTo, RelatedTo
<1>8. ASSUME NEW n \in Nodes, DeleteNode(n) PROVE Promise!Next
  <2>1. Promise!DeleteNode(n)
      BY <1>8, SameLinks
      DEF DeleteNode, Touches, writers, Promise!DeleteNode, Promise!Touches,
          Promise!asks
  <2> QED BY <2>1 DEF Promise!Next
<1>9. ASSUME NEW n \in Nodes, NEW home, MakeNode(n, home)
      PROVE  Promise!MakeNode(n, home)
    BY <1>9 DEF MakeNode, writers, Promise!MakeNode, Promise!asks
<1>10. ASSUME NEW n \in Nodes, MakeNode(n, {}) PROVE Promise!Next
    BY <1>9, <1>10 DEF Promise!Next
<1>11. ASSUME NEW n \in Nodes, NEW p \in nodes, MakeNode(n, {HomeIn(p, n)})
       PROVE  Promise!Next
  <2>1. Promise!MakeNode(n, {Promise!HomeIn(p, n)})
      BY <1>9, <1>11 DEF HomeIn, Promise!HomeIn, Contains, Promise!Contains
  <2> QED BY <2>1 DEF Promise!Next
<1>12. CASE BackupNodes \/ BackupEdges
  <2>1. Promise!Backup
      BY <1>12 DEF BackupNodes, BackupEdges, writers, Promise!Backup,
        Promise!graph, Promise!asks
  <2> QED BY <2>1 DEF Promise!Next
<1>13. ASSUME NEW ws \in SUBSET Writers, Restore(ws) PROVE Promise!Next
  <2>1. Promise!Answer(ws) BY <1>13 DEF Restore, End, Promise!Answer
  <2>2. overrun \subseteq overrun' /\ overrun' \subseteq AcyclicTypes
      BY <1>13 DEF Restore
  <2>3. Promise!Restore(ws)
      BY <1>13, <2>1, <2>2, SameLinks DEF Restore, Ends, Promise!Restore
  <2> QED BY <2>3 DEF Promise!Next
<1>14. ASSUME UNCHANGED vars PROVE Kept BY <1>14 DEF vars
<1> HIDE DEF Kept, Inv, TypeOK
<1> QED
    BY <1>0, <1>1, <1>2, <1>3, <1>4, <1>5, <1>6, <1>7, <1>8, <1>10, <1>11,
       <1>12, <1>13, <1>14 DEF Next

(* The statements of concurrent requests, checks and writes, behave as if  *)
(* each request took effect at the instant of its commit or not at all.    *)
THEOREM SpecWritesAreAtomic == Spec => WritesAreAtomic
<1>1. Init => Promise!Init BY DEF Init, Promise!Init
<1>2. Inv /\ [Next]_vars => [Promise!Next]_(Promise!vars) BY StepIsPromised
<1> QED BY <1>1, <1>2, SpecInv, PTL DEF Spec, WritesAreAtomic, Promise!Spec
=============================================================================
