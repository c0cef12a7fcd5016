-------------------------- MODULE NodeEditorProofs --------------------------
(***************************************************************************)
(* Proofs about NodeEditor, for any number of visits and texts.  What the  *)
(* helpers of the module do comes first (a save is begun, the editor is    *)
(* left, a version still fits), then one lemma per action, then the        *)
(* theorems.                                                               *)
(***************************************************************************)
EXTENDS NodeEditor, TLAPS

----------------------------------------------------------------------------
(* What histories and versions do.                                         *)

(* The histories grow, and the row keeps its version or takes the next.    *)
Grows ==
    /\ \A s \in Sessions : known[s] \subseteq known'[s] /\ agreed[s] \subseteq agreed'[s]
    /\ landed \subseteq landed'
    /\ UNCHANGED node \/ node'.ver = node.ver + 1

LEMMA FitsStays ==
    ASSUME TypeOK, Grows, NEW v \in Nat, NEW s \in Sessions, Fits(v, s)
    PROVE  Fits(v, s)'
<1>1. node.ver \in Nat BY DEF TypeOK, Node
<1>2. known[s] \subseteq known'[s] /\ agreed[s] \subseteq agreed'[s] BY DEF Grows
<1>3. CASE UNCHANGED node BY <1>2, <1>3 DEF Fits
<1>4. CASE node'.ver = node.ver + 1 BY <1>1, <1>4 DEF Fits
<1> QED BY <1>3, <1>4 DEF Grows

LEMMA TaskStays ==
    ASSUME TypeOK, Grows, NEW t \in Task, TaskSound(t)
    PROVE  TaskSound(t)'
<1>1. t.by \in Sessions /\ t.expected \in Nat /\ t.ver \in Nat BY DEF Task
<1>2. t.at \in {"put", "resend"} => Fits(t.expected, t.by)'
    BY <1>1, FitsStays DEF TaskSound
<1>3. t.at = "landed" => Fits(t.ver, t.by)' BY <1>1, FitsStays DEF TaskSound
<1>4. t.at = "foreign" => t.ver <= node'.ver
  <2>1. node.ver \in Nat BY DEF TypeOK, Node
  <2> QED BY <1>1, <2>1 DEF TaskSound, Grows
<1>5. t.text \in known'[t.by] /\ t.own \subseteq known'[t.by] BY <1>1 DEF TaskSound, Grows
<1>6. t.at = "landed" => t.text \in landed' BY DEF TaskSound, Grows
<1> QED BY <1>2, <1>3, <1>4, <1>5, <1>6 DEF TaskSound

(* Requests that go on, with some new ones that are sound.                 *)
LEMMA RequestsStay ==
    ASSUME TypeOK, Grows, RequestsSound,
           \A t \in tasks' : t \in tasks \/ TaskSound(t)',
           \A q \in wire' : q \in wire \/ Fits(q.expected, q.by)'
    PROVE  RequestsSound'
<1>1. \A t \in tasks' : TaskSound(t)'
  <2> SUFFICES ASSUME NEW t \in tasks' PROVE TaskSound(t)' OBVIOUS
  <2>1. CASE t \in tasks
    <3>1. t \in Task /\ TaskSound(t) BY <2>1 DEF TypeOK, RequestsSound
    <3> QED BY <3>1, TaskStays
  <2> QED BY <2>1
<1>2. \A q \in wire' : Fits(q.expected, q.by)'
  <2> SUFFICES ASSUME NEW q \in wire' PROVE Fits(q.expected, q.by)' OBVIOUS
  <2>1. CASE q \in wire
    <3>1. q.expected \in Nat /\ q.by \in Sessions /\ Fits(q.expected, q.by)
        BY <2>1 DEF TypeOK, RequestsSound, Request
    <3> QED BY <3>1, FitsStays
  <2> QED BY <2>1
<1> QED BY <1>1, <1>2 DEF RequestsSound

(* An editor that holds what it may goes on doing so.                      *)
LEMMA HeldStays ==
    ASSUME TypeOK, Grows, session \in Sessions, UNCHANGED session,
           NEW e \in Editor, Held(e)
    PROVE  Held(e)'
<1>1. e.ver \in Nat /\ e.conflict \in Nat BY DEF Editor
<1>2. Fits(e.ver, session)' BY <1>1, FitsStays DEF Held
<1>3. e.conflict <= node'.ver
  <2>1. node.ver \in Nat BY DEF TypeOK, Node
  <2> QED BY <1>1, <2>1 DEF Held, Grows
<1>4. e.own \subseteq known'[session'] BY DEF Held, Grows
<1>5. e.offered.base = "unchanged" =>
        \E s \in Sessions : s < session' /\ e.opened \in known'[s]
    BY DEF Held, Grows
<1> QED BY <1>2, <1>3, <1>4, <1>5 DEF Held

(* What the draft was taken over stays known.                              *)
LEMMA DraftStays ==
    ASSUME TypeOK, Grows, DraftSound, session' \in Nat, session <= session',
           page' \in {"loading", "answered"} =>
              page \in {"loading", "answered"} \/ session' = session + 1,
           \A x \in draft'.base : \/ x \in draft.base
                                  \/ /\ session' \in Sessions /\ x \in known'[session']
                                     /\ page' \notin {"loading", "answered"}
    PROVE  DraftSound'
<1>1. session \in Nat BY DEF TypeOK
<1> SUFFICES ASSUME NEW x \in draft'.base
             PROVE  \E s \in Sessions : /\ x \in known'[s] /\ s <= session'
                                        /\ page' \in {"loading", "answered"} => s < session'
    BY DEF DraftSound
<1>2. CASE x \in draft.base
  <2>1. PICK s \in Sessions : /\ x \in known[s] /\ s <= session
                              /\ page \in {"loading", "answered"} => s < session
      BY <1>2 DEF DraftSound
  <2>2. s \in Nat /\ x \in known'[s] BY <2>1 DEF Grows, Sessions
  <2> QED BY <1>1, <2>1, <2>2
<1>3. CASE /\ session' \in Sessions /\ x \in known'[session']
           /\ page' \notin {"loading", "answered"}
    BY <1>1, <1>3
<1> QED BY <1>2, <1>3

----------------------------------------------------------------------------
(* The helpers.                                                            *)

LEMMA WrittenDraft ==
    ASSUME NEW d \in Draft, NEW text \in Texts, NEW base \in SUBSET Texts
    PROVE  /\ WriteDraft(d, text, base) \in Draft
           /\ WriteDraft(d, text, base).base \subseteq d.base \cup base
           /\ loggedOut => WriteDraft(d, text, base) = d
           /\ ~loggedOut => WriteDraft(d, text, base).text = text
  BY DEF WriteDraft, Draft

(* A save that is sent with the text on the screen.                        *)
LEMMA SentSave ==
    ASSUME session \in Sessions, NEW e \in Editor, Held(e)', NEW id \in Nat,
           UNCHANGED session, known'[session] = known[session] \cup {e.screen},
           NEW t, t = [NewSave(e) EXCEPT !.id = id]
    PROVE  t \in Task /\ TaskSound(t)'
<1>1. /\ t \in Task /\ t.by = session /\ t.text = e.screen /\ t.expected = e.ver /\ t.at = "put"
      /\ t.own = e.own \cup {e.screen}
  <2>1. e.last + 1 \in Nat BY DEF Editor
  <2>2. e.screen \in Texts BY DEF Held
  <2> QED BY <2>1, <2>2 DEF NewSave, Task, Editor
<1>2. t.text \in known'[t.by] /\ t.own \subseteq known'[t.by] BY <1>1 DEF Held
<1>3. Fits(t.expected, t.by)' BY <1>1 DEF Held
<1> QED BY <1>1, <1>2, <1>3 DEF TaskSound

(* What is left behind: the screen's text, or nothing.                     *)
LEMMA LeftIs ==
    ASSUME NEW e \in Editor, NEW T, NEW reverted \in BOOLEAN,
           NEW l, l = LeftBy(e, T, reverted)
    PROVE  /\ l \in Left
           /\ l.text # Unset => /\ l.text = e.screen /\ l.reverted = reverted
                                /\ ~loggedOut /\ e.base # Unset
<1>1. CASE l = NothingLeft BY <1>1 DEF NothingLeft, Left
<1>2. CASE /\ ~loggedOut /\ e.base # Unset
           /\ l = [text |-> e.screen, stored |-> FALSE, reverted |-> reverted, crossed |-> FALSE]
  <2>1. e.screen \in Texts \cup {Unset} BY DEF Editor
  <2> QED BY <1>2, <2>1 DEF Left
<1> QED BY <1>1, <1>2 DEF LeftBy

(* Flushes that go on carry what they carried; one is answered only when   *)
(* its text is stored.                                                     *)
LEMMA FlushStays ==
    ASSUME Inv, UNCHANGED session, page = "closed" => page' = "closed",
           left'.text # Unset => left'.text = left.text /\ (left.stored => left'.stored),
           \A t \in tasks' :
              \/ t \in tasks
              \/ t.by = session /\ t.id # 0
              \/ \E u \in tasks : /\ t.by = u.by /\ t.id = u.id /\ t.text = u.text
                                  /\ t.at = "landed" /\ t.text = left'.text => left'.stored
    PROVE  FlushSound'
<1>1. session \in Nat /\ session <= session BY DEF Inv, TypeOK
<1> SUFFICES ASSUME NEW t \in tasks'
             PROVE  /\ t.by <= session
                    /\ t.id = 0 /\ t.by = session =>
                          /\ page' = "closed"
                          /\ left'.text # Unset =>
                                t.text = left'.text /\ (t.at = "landed" => left'.stored)
    BY DEF FlushSound
<1>2. CASE t \in tasks BY <1>2 DEF Inv, FlushSound
<1>3. CASE t.by = session /\ t.id # 0 BY <1>1, <1>3
<1>4. ASSUME NEW u \in tasks, t.by = u.by, t.id = u.id, t.text = u.text,
             t.at = "landed" /\ t.text = left'.text => left'.stored
      PROVE  /\ t.by <= session
             /\ t.id = 0 /\ t.by = session =>
                   /\ page' = "closed"
                   /\ left'.text # Unset =>
                         t.text = left'.text /\ (t.at = "landed" => left'.stored)
  <2>1. /\ u.by <= session
        /\ u.id = 0 /\ u.by = session =>
              page = "closed" /\ (left.text # Unset => u.text = left.text)
      BY DEF Inv, FlushSound
  <2> QED BY <1>4, <2>1
<1> QED BY <1>2, <1>3, <1>4

(* What is known once an editor has sent its text, or has not.             *)
LEMMA KnownGrows ==
    ASSUME TypeOK, session \in Sessions, NEW e, e.screen \in Texts,
           known' \in {known, [known EXCEPT ![session] = @ \cup {e.screen}]},
           UNCHANGED <<node, landed>>,
           \A s \in Sessions : agreed[s] \subseteq agreed'[s]
    PROVE  Grows /\ known' \in [Sessions -> SUBSET Texts]
  BY DEF TypeOK, Grows

(* The executor: a save is under way, or there is nothing to save.  It     *)
(* leaves what the editor says of its text in order.                       *)
LEMMA Executed ==
    ASSUME Inv, page = "open", Grows,
           UNCHANGED <<node, page, session, landed, wire, loggedOut, left>>,
           NEW e \in Editor, NEW T \in SUBSET tasks, NEW d \in {draft, NoDraft}, Execute(e, T, d),
           Held(e)', e.state = "saved" => e.base \in landed /\ (e.screen = e.base \/ ~InFlight(e))
    PROVE  /\ ed' \in Editor /\ draft' \in Draft /\ tasks' \subseteq Task
           /\ RequestsSound' /\ EditorSound' /\ DraftSound' /\ FlushSound'
           /\ (loggedOut => draft' = NoDraft)
<1>1. /\ session \in Sessions /\ d \in Draft /\ NoDraft \in Draft /\ draft.base \in SUBSET Texts
      /\ (loggedOut => d = NoDraft) /\ T \subseteq Task /\ d.base \subseteq draft.base
    BY DEF Inv, TypeOK, PageSound, Draft, NoDraft
<1>2. e.screen \in Texts /\ e.base \in Texts /\ e.own \in SUBSET Texts
    BY DEF Held, Editor
<1>3. CASE MaySave(e)
  <2>1. /\ ed' = Saving(e) /\ tasks' = T \cup {NewSave(e)}
        /\ draft' = WriteDraft(d, e.screen, e.own)
        /\ known' = [known EXCEPT ![session] = @ \cup {e.screen}]
      BY <1>3 DEF Execute
  <2>2. known'[session] = known[session] \cup {e.screen} BY <1>1, <2>1 DEF Inv, TypeOK
  <2>3. /\ ed' \in Editor /\ ed'.screen = e.screen /\ ed'.base = e.base /\ ed'.opened = e.opened
        /\ ed'.own = e.own \cup {e.screen} /\ ed'.ver = e.ver /\ ed'.conflict = e.conflict
        /\ ed'.offered = e.offered /\ ed'.state = "saving" /\ ed'.current # 0
    <3> DEFINE f == [e EXCEPT !.state = "saving", !.own = @ \cup {e.screen}]
               g == [f EXCEPT !.last = @ + 1, !.current = f.last + 1]
    <3>1. /\ f \in Editor /\ f.screen = e.screen /\ f.base = e.base /\ f.opened = e.opened
          /\ f.own = e.own \cup {e.screen} /\ f.ver = e.ver /\ f.conflict = e.conflict
          /\ f.offered = e.offered /\ f.state = "saving"
        BY <1>2 DEF Editor, States
    <3> HIDE DEF f
    <3>2. f.last + 1 \in Nat /\ f.last + 1 # 0 BY <3>1 DEF Editor
    <3>3. /\ g \in Editor /\ g.screen = f.screen /\ g.base = f.base /\ g.opened = f.opened
          /\ g.own = f.own /\ g.ver = f.ver /\ g.conflict = f.conflict
          /\ g.offered = f.offered /\ g.state = f.state /\ g.current = f.last + 1
        BY <3>1, <3>2 DEF Editor
    <3>4. ed' = g BY <2>1 DEF Saving, Begin, f
    <3> HIDE DEF g
    <3> QED BY <3>1, <3>2, <3>3, <3>4
  <2>4. PICK t : t = NewSave(e) OBVIOUS
  <2>5. t \in Task /\ TaskSound(t)'
    <3>1. e.last + 1 \in Nat BY DEF Editor
    <3>2. t = [NewSave(e) EXCEPT !.id = e.last + 1] BY <2>4 DEF NewSave
    <3> QED BY <1>1, <2>2, <3>1, <3>2, SentSave
  <2>6. tasks' = T \cup {t} BY <2>1, <2>4
  <2>7. RequestsSound' BY <2>5, <2>6, RequestsStay DEF Inv
  <2>11. FlushSound'
    <3>1. t.by = session /\ t.id # 0
      <4>1. e.last \in Nat BY DEF Editor
      <4>2. t.by = session /\ t.id = e.last + 1 BY <2>4 DEF NewSave
      <4> QED BY <4>1, <4>2
    <3> QED BY <2>6, <3>1, FlushStays
  <2>8. EditorSound'
    <3>1. Held(ed)'
      <4>1. ed'.own \subseteq known'[session'] BY <1>1, <2>2, <2>3 DEF Held
      <4> QED BY <2>3, <4>1 DEF Held
    <3>2. Told(ed)' BY <2>3 DEF Told, InFlight
    <3> QED BY <3>1, <3>2 DEF EditorSound
  <2>9. draft' \in Draft /\ draft'.base \subseteq draft.base \cup e.own /\ (loggedOut => draft' = d)
      BY <1>1, <1>2, <2>1, WrittenDraft
  <2>10. DraftSound'
    <3>1. session \in Nat /\ session <= session BY <1>1 DEF Sessions
    <3>2. \A x \in draft'.base : \/ x \in draft.base
                                 \/ /\ session' \in Sessions /\ x \in known'[session']
                                    /\ page' \notin {"loading", "answered"}
        BY <1>1, <2>9 DEF Held
    <3> QED BY <3>1, <3>2, DraftStays DEF Inv
  <2> QED BY <1>1, <2>3, <2>5, <2>6, <2>7, <2>8, <2>9, <2>10, <2>11
<1>4. CASE ~MaySave(e)
  <2>1. ed' = e /\ tasks' = T /\ draft' = d /\ UNCHANGED known BY <1>4 DEF Execute
  <2>2. RequestsSound' BY <2>1, RequestsStay DEF Inv
  <2>3. EditorSound'
    <3>1. e.base # Unset BY <1>2, TextsAssumption
    <3>2. InFlight(e) \/ e.screen = e.base BY <1>4, <3>1 DEF MaySave
    <3>3. Told(ed)' BY <2>1, <3>2 DEF Told, InFlight
    <3>4. Held(ed)' BY <2>1
    <3> QED BY <3>3, <3>4 DEF EditorSound
  <2>4. DraftSound'
    <3>1. session \in Nat /\ session <= session BY <1>1 DEF Sessions
    <3> QED BY <1>1, <2>1, <3>1, DraftStays DEF Inv
  <2>5. FlushSound' BY <2>1, FlushStays
  <2> QED BY <1>1, <2>1, <2>2, <2>3, <2>4, <2>5
<1> QED BY <1>3, <1>4

(* An editor that is left: what it has not saved goes out and in the draft.*)
LEMMA Unmounted ==
    ASSUME Inv, page # "closed", UNCHANGED <<node, session, landed, wire, loggedOut>>, Grows,
           NEW e \in Editor, NEW T \in SUBSET tasks, NEW d \in {draft, NoDraft}, Unmount(e, T, d),
           Flushes(e) => page = "open" /\ Held(e)'
    PROVE  /\ page' = "closed" /\ ed' = NoEditor /\ got' = NoCopy
           /\ draft' \in Draft /\ tasks' \subseteq Task /\ left' \in Left
           /\ RequestsSound' /\ DraftSound' /\ (loggedOut => draft' = NoDraft)
           /\ FlushSound' /\ LeftEditsKept'
<1>1. /\ d \in Draft /\ NoDraft \in Draft /\ draft.base \in SUBSET Texts
      /\ (loggedOut => d = NoDraft) /\ T \subseteq Task /\ d.base \subseteq draft.base
    BY DEF Inv, TypeOK, PageSound, Draft, NoDraft
<1>2. page' = "closed" /\ ed' = NoEditor /\ got' = NoCopy BY DEF Unmount
<1>3. Unanswered(T) \subseteq T BY DEF Unanswered
<1>4. session \in Nat /\ session <= session BY DEF Inv, TypeOK
<1>9. PICK b \in BOOLEAN : b = (e.screen = e.base) OBVIOUS
<1>7. /\ left' \in Left
      /\ left'.text # Unset => /\ left'.text = e.screen /\ left'.reverted = b
                               /\ ~loggedOut /\ e.base # Unset
  <2>1. left' = LeftBy(e, T, b) BY <1>9 DEF Unmount
  <2> QED BY <2>1, LeftIs
<1>8. \A t \in T : t.by <= session /\ ~(t.id = 0 /\ t.by = session) BY DEF Inv, FlushSound
<1>5. CASE Flushes(e)
  <2>1. /\ draft' = WriteDraft(d, e.screen, e.own)
        /\ tasks' = Unanswered(T) \cup {[NewSave(e) EXCEPT !.id = 0]}
        /\ known' = [known EXCEPT ![session] = @ \cup {e.screen}]
      BY <1>5 DEF Unmount
  <2>2. /\ session \in Sessions /\ known'[session] = known[session] \cup {e.screen}
        /\ e.screen \in Texts /\ e.own \in SUBSET Texts /\ Held(e)'
      BY <1>5, <2>1 DEF Inv, TypeOK, PageSound, Held, Editor
  <2>3. PICK t : t = [NewSave(e) EXCEPT !.id = 0] OBVIOUS
  <2>4. t \in Task /\ TaskSound(t)' BY <2>2, <2>3, SentSave
  <2>5. tasks' = Unanswered(T) \cup {t} BY <2>1, <2>3
  <2>6. RequestsSound' BY <1>3, <2>4, <2>5, RequestsStay DEF Inv
  <2>7. /\ draft' \in Draft /\ draft'.base \subseteq draft.base \cup e.own
        /\ (loggedOut => draft' = d) /\ (~loggedOut => draft'.text = e.screen)
      BY <1>1, <2>1, <2>2, WrittenDraft
  <2>8. DraftSound'
    <3>1. \A x \in draft'.base : \/ x \in draft.base
                                 \/ /\ session' \in Sessions /\ x \in known'[session']
                                    /\ page' \notin {"loading", "answered"}
        BY <1>2, <2>2, <2>7 DEF Held
    <3> QED BY <1>2, <1>4, <3>1, DraftStays DEF Inv
  <2>9. FlushSound'
    <3>1. t.by = session /\ t.text = e.screen /\ t.at = "put" BY <2>3 DEF NewSave
    <3> QED BY <1>2, <1>3, <1>4, <1>7, <1>8, <2>5, <3>1 DEF FlushSound
  <2>10. LeftEditsKept' BY <1>7, <2>7 DEF LeftEditsKept, EditsKept
  <2> QED BY <1>1, <1>2, <1>3, <1>7, <2>1, <2>2, <2>4, <2>5, <2>6, <2>7, <2>8, <2>9, <2>10
<1>6. CASE ~Flushes(e)
  <2>1. draft' = d /\ tasks' = Unanswered(T) /\ UNCHANGED known
      BY <1>6 DEF Unmount
  <2>2. RequestsSound' BY <1>3, <2>1, RequestsStay DEF Inv
  <2>3. DraftSound' BY <1>1, <1>2, <1>4, <2>1, DraftStays DEF Inv
  <2>4. FlushSound' BY <1>2, <1>3, <1>8, <2>1 DEF FlushSound
  <2>5. LeftEditsKept'
    <3>1. e.base # Unset => b BY <1>6, <1>9 DEF Flushes
    <3> QED BY <1>7, <3>1 DEF LeftEditsKept, EditsKept
  <2> QED BY <1>1, <1>2, <1>3, <1>7, <2>1, <2>2, <2>3, <2>4, <2>5
<1> QED BY <1>5, <1>6

----------------------------------------------------------------------------
(* What typing and an explicit save do to the signals.                     *)

LEMMA TypedEditor ==
    ASSUME NEW e \in Editor, NEW t \in Texts, Held(e), Told(e), NEW f, f = Typed(e, t)
    PROVE  /\ f \in Editor /\ Held(f) /\ Told(f)
           /\ f.screen = t /\ f.base = e.base /\ f.current = e.current
           /\ f.state = "saved" => t = e.base
<1>1. CASE t = e.base
  <2>1. f = [e EXCEPT !.screen = t] BY <1>1 DEF Typed
  <2>2. /\ f \in Editor /\ f.screen = t /\ f.base = e.base /\ f.opened = e.opened
        /\ f.own = e.own /\ f.ver = e.ver /\ f.conflict = e.conflict /\ f.state = e.state
        /\ f.offered = e.offered /\ f.current = e.current /\ f.timer = e.timer
      BY <2>1 DEF Editor
  <2>3. Held(f) BY <2>2 DEF Held
  <2>4. Told(f) BY <1>1, <2>2 DEF Told
  <2> QED BY <1>1, <2>2, <2>3, <2>4
<1>2. CASE t # e.base
  <2>1. f = [e EXCEPT !.screen = t, !.state = "dirty", !.timer = TRUE] BY <1>2 DEF Typed
  <2>5. "dirty" \in States BY DEF States
  <2>2. /\ f \in Editor /\ f.screen = t /\ f.base = e.base /\ f.opened = e.opened
        /\ f.own = e.own /\ f.ver = e.ver /\ f.conflict = e.conflict /\ f.state = "dirty"
        /\ f.offered = e.offered /\ f.current = e.current /\ f.timer = TRUE
      BY <2>1, <2>5 DEF Editor
  <2>3. Held(f) BY <2>2 DEF Held
  <2>4. Told(f) BY <2>2 DEF Told
  <2> QED BY <2>2, <2>3, <2>4
<1> QED BY <1>1, <1>2

(* An explicit save takes over the version the user was told of.           *)
LEMMA AdoptedEditor ==
    ASSUME Inv, session \in Sessions, UNCHANGED <<node, session>>, Grows,
           NEW e \in Editor, Held(e), Agree(e), NEW f, f = Adopt(e)
    PROVE  /\ f \in Editor /\ Held(f)'
           /\ f.screen = e.screen /\ f.base = e.base /\ f.state = e.state /\ f.current = e.current
<1>1. CASE e.conflict = 0
  <2>1. f = e BY <1>1 DEF Adopt
  <2>2. Held(f)' BY <2>1, HeldStays DEF Inv
  <2> QED BY <2>1, <2>2
<1>2. CASE e.conflict # 0
  <2>1. f = [e EXCEPT !.ver = e.conflict, !.conflict = 0] BY <1>2 DEF Adopt
  <2>2. e.conflict \in Nat BY DEF Editor
  <2>3. /\ f \in Editor /\ f.screen = e.screen /\ f.base = e.base /\ f.opened = e.opened
        /\ f.own = e.own /\ f.ver = e.conflict /\ f.conflict = 0 /\ f.state = e.state
        /\ f.offered = e.offered /\ f.current = e.current
    <3>1. PICK c \in Nat : c = e.conflict BY <2>2
    <3>2. PICK g : g = [e EXCEPT !.ver = c] OBVIOUS
    <3>3. /\ g \in Editor /\ g.screen = e.screen /\ g.base = e.base /\ g.opened = e.opened
          /\ g.own = e.own /\ g.ver = c /\ g.state = e.state
          /\ g.offered = e.offered /\ g.current = e.current
        BY <3>1, <3>2 DEF Editor
    <3>4. f = [g EXCEPT !.conflict = 0] BY <2>1, <3>1, <3>2 DEF Editor
    <3>5. 0 \in Nat OBVIOUS
    <3> QED BY <3>1, <3>3, <3>4, <3>5 DEF Editor
  <2>4. e.conflict \in agreed'[session] BY <1>2 DEF Agree, Inv, TypeOK
  <2>5. Fits(f.ver, session)' BY <2>3, <2>4 DEF Held, Fits
  <2>6. f.conflict <= node'.ver
    <3>1. node.ver \in Nat BY DEF Inv, TypeOK, Node
    <3> QED BY <2>3, <3>1
  <2>7. Held(e)' BY HeldStays DEF Inv
  <2> QED BY <2>3, <2>5, <2>6, <2>7 DEF Held
<1> QED BY <1>1, <1>2

LEMMA Agreed ==
    ASSUME TypeOK, session \in Sessions, NEW e \in Editor, Agree(e)
    PROVE  /\ agreed' \in [Sessions -> SUBSET Nat]
           /\ \A s \in Sessions : agreed[s] \subseteq agreed'[s]
<1>1. e.conflict \in Nat BY DEF Editor
<1> QED BY <1>1 DEF Agree, TypeOK

(* What the executor and the unmount do to what is known.                  *)
LEMMA KnownOf ==
    ASSUME NEW e, NEW T, NEW d, Execute(e, T, d) \/ Unmount(e, T, d)
    PROVE  known' \in {known, [known EXCEPT ![session] = @ \cup {e.screen}]}
  BY DEF Execute, Unmount

----------------------------------------------------------------------------
(* One lemma per action.                                                   *)

LEMMA OpenStep == ASSUME Inv, Open PROVE Inv'
<1>1. Grows BY DEF Open, Grows, history
<1>2. session' = session + 1 /\ session' \in Sessions /\ session \in Nat /\ session <= session'
    BY BoundsAssumption DEF Open, Inv, TypeOK, Sessions
<1>3. TypeOK' BY <1>2 DEF Open, Inv, TypeOK, history, Sessions, Left, NothingLeft
<1>4. PageSound' BY <1>2 DEF Open, Inv, PageSound
<1>5. RequestsSound' BY <1>1, RequestsStay DEF Inv, Open
<1>6. EditorSound' BY DEF Open, EditorSound
<1>7. DraftSound' BY <1>1, <1>2, DraftStays DEF Inv, Open
<1>8. LeftEditsKept' BY DEF Open, LeftEditsKept, EditsKept, NothingLeft
<1>9. FlushSound'
  <2>1. \A t \in tasks : t.by <= session /\ t.by \in Nat
      BY DEF Inv, FlushSound, TypeOK, Task, Sessions
  <2>2. \A t \in tasks : t.by <= session' /\ t.by # session' BY <1>2, <2>1
  <2> QED BY <2>2 DEF FlushSound, Open
<1> QED BY <1>3, <1>4, <1>5, <1>6, <1>7, <1>8, <1>9 DEF Inv

LEMMA AnswerStep == ASSUME Inv, Answer PROVE Inv'
<1>1. Grows BY DEF Answer, Grows, history
<1>2. session \in Nat /\ session <= session /\ node.ver \in Nat BY DEF Inv, TypeOK, Node
<1>3. TypeOK' BY DEF Answer, Inv, TypeOK, history
<1>4. PageSound' BY <1>2 DEF Answer, Inv, PageSound, TypeOK
<1>5. RequestsSound' BY <1>1, RequestsStay DEF Inv, Answer
<1>6. EditorSound' BY DEF Answer, EditorSound
<1>7. DraftSound' BY <1>1, <1>2, DraftStays DEF Inv, Answer
<1>8. LeftEditsKept' BY DEF Answer, Inv, LeftEditsKept, EditsKept, history
<1>9. FlushSound' BY FlushStays DEF Answer
<1> QED BY <1>3, <1>4, <1>5, <1>6, <1>7, <1>8, <1>9 DEF Inv

LEMMA LoadStep == ASSUME Inv, Load PROVE Inv'
<1>1. /\ got \in Node /\ session \in Sessions /\ session \in Nat /\ left = NothingLeft
      /\ got.text \in Texts /\ got.ver \in Nat /\ got.ver <= node.ver
      /\ got.ver = node.ver => got.text = node.text
    BY DEF Load, Inv, PageSound, TypeOK, Node, Sessions
<1>2. known' = [known EXCEPT ![session] = @ \cup {got.text}] /\ got.text \in known'[session]
    BY <1>1 DEF Load, Inv, TypeOK
<1>3. Grows /\ known' \in [Sessions -> SUBSET Texts] BY <1>1, <1>2 DEF Load, Grows, Inv, TypeOK
<1>4. PICK o : o = Recovery(draft, got.text) OBVIOUS
<1>5. /\ o \in Offer
      /\ o.base = "unchanged" => \E s \in Sessions : s < session /\ got.text \in known'[s]
  <2>1. CASE draft = NoDraft \/ draft.text = got.text
      BY <1>4, <2>1 DEF Recovery, Offer, NoOffer
  <2>2. CASE draft # NoDraft /\ draft.text # got.text
    <3>1. /\ o = [text |-> draft.text,
                  base |-> IF OwnWrite(got.text, draft.base) THEN "unchanged" ELSE "changed"]
          /\ draft.text \in Texts
        BY <1>4, <2>2 DEF Recovery, Inv, TypeOK, Draft
    <3>2. o \in Offer BY <3>1 DEF Offer
    <3>3. ASSUME o.base = "unchanged"
          PROVE  \E s \in Sessions : s < session /\ got.text \in known'[s]
      <4>1. got.text \in draft.base BY <3>1, <3>3 DEF OwnWrite
      <4>2. PICK s \in Sessions : got.text \in known[s] /\ s < session
          BY <4>1 DEF Inv, DraftSound, Load
      <4> QED BY <1>3, <4>2 DEF Grows
    <3> QED BY <3>2, <3>3
  <2> QED BY <2>1, <2>2
<1>6. /\ ed' \in Editor /\ ed'.screen = got.text /\ ed'.opened = got.text /\ ed'.base = got.text
      /\ ed'.ver = got.ver /\ ed'.own = {got.text} /\ ed'.offered = o /\ ed'.conflict = 0
      /\ ed'.state = "idle"
  <2>1. ed' = [NoEditor EXCEPT !.screen = got.text, !.opened = got.text, !.base = got.text,
                               !.ver = got.ver, !.own = {got.text}, !.offered = o]
      BY <1>4 DEF Load
  <2> QED BY <1>1, <1>5, <2>1 DEF NoEditor, Editor, States
<1>7. TypeOK' BY <1>3, <1>6 DEF Load, Inv, TypeOK, NoCopy, Draft
<1>8. PageSound' BY <1>1 DEF Load, Inv, PageSound
<1>9. RequestsSound' BY <1>3, RequestsStay DEF Inv, Load
<1>10. EditorSound'
  <2>1. Fits(ed.ver, session)' BY <1>1, <1>2, <1>6 DEF Fits, Load
  <2>2. ed'.conflict <= node'.ver BY <1>6 DEF Load, Inv, TypeOK, Node
  <2>3. Held(ed)' BY <1>1, <1>2, <1>5, <1>6, <2>1, <2>2 DEF Held, Load
  <2>4. Told(ed)' BY <1>6 DEF Told
  <2> QED BY <2>3, <2>4 DEF EditorSound
<1>11. DraftSound'
  <2>1. draft'.base \subseteq draft.base BY DEF Load, NoDraft
  <2>2. page' = "open" /\ session' = session BY DEF Load
  <2> QED BY <1>1, <1>3, <2>1, <2>2, DraftStays DEF Inv
<1>12. LeftEditsKept' BY <1>1 DEF Load, LeftEditsKept, EditsKept, NothingLeft
<1>13. FlushSound' BY FlushStays DEF Load
<1> QED BY <1>7, <1>8, <1>9, <1>10, <1>11, <1>12, <1>13 DEF Inv

(* An input that changes only the editor.                                  *)
LEMMA SignalStep ==
    ASSUME Inv, page = "open", ed' \in Editor, Held(ed'), Told(ed'),
           UNCHANGED <<node, tasks, wire, page, session, got, draft, loggedOut, history, left>>
    PROVE  Inv'
<1>1. Grows BY DEF Grows, history
<1>2. session \in Sessions /\ session \in Nat /\ session <= session
    BY DEF Inv, PageSound, TypeOK
<1>3. PICK e : e = ed' OBVIOUS
<1>4. e \in Editor /\ Held(e) /\ Told(e) BY <1>3
<1>5. Held(e)' BY <1>1, <1>2, <1>4, HeldStays DEF Inv
<1>6. EditorSound' BY <1>1, <1>3, <1>4, <1>5 DEF EditorSound, Held, Told, InFlight, Grows, Fits
<1>7. TypeOK' BY DEF Inv, TypeOK, history
<1>8. PageSound' BY DEF Inv, PageSound
<1>9. RequestsSound' BY <1>1, RequestsStay DEF Inv
<1>10. DraftSound' BY <1>1, <1>2, DraftStays DEF Inv
<1>11. LeftEditsKept' BY DEF Inv, LeftEditsKept, EditsKept, history
<1>12. FlushSound' BY FlushStays
<1> QED BY <1>6, <1>7, <1>8, <1>9, <1>10, <1>11, <1>12 DEF Inv

LEMMA TypeStep == ASSUME Inv, Type PROVE Inv'
<1>1. page = "open" /\ ed \in Editor /\ Held(ed) /\ Told(ed)
    BY DEF Type, Acts, Inv, TypeOK, EditorSound
<1>2. PICK t \in Texts : ed' = Typed(ed, t) BY DEF Type
<1>3. ed' \in Editor /\ Held(ed') /\ Told(ed') BY <1>1, <1>2, TypedEditor
<1> QED BY <1>1, <1>3, SignalStep DEF Type, Acts, history

LEMMA RestoreDraftStep == ASSUME Inv, RestoreDraft PROVE Inv'
<1>1. page = "open" /\ ed \in Editor /\ Held(ed) /\ Told(ed)
    BY DEF RestoreDraft, Acts, Inv, TypeOK, EditorSound
<1>2. ed.offered.text \in Texts BY <1>1 DEF RestoreDraft, Editor, Offer
<1>3. PICK f : f = Typed(ed, ed.offered.text) OBVIOUS
<1>4. f \in Editor /\ Held(f) /\ Told(f) BY <1>1, <1>2, <1>3, TypedEditor
<1>5. ed' = [f EXCEPT !.offered = NoOffer] BY <1>3 DEF RestoreDraft
<1>6. /\ ed' \in Editor /\ ed'.screen = f.screen /\ ed'.base = f.base /\ ed'.opened = f.opened
      /\ ed'.own = f.own /\ ed'.ver = f.ver /\ ed'.conflict = f.conflict /\ ed'.state = f.state
      /\ ed'.offered = NoOffer /\ ed'.current = f.current /\ ed'.timer = f.timer
    BY <1>4, <1>5 DEF Editor, Offer
<1>7. Held(ed') BY <1>4, <1>6 DEF Held, NoOffer
<1>8. Told(ed') BY <1>4, <1>6 DEF Told, InFlight
<1> QED BY <1>1, <1>6, <1>7, <1>8, SignalStep DEF RestoreDraft, Acts, history

LEMMA DiscardDraftStep == ASSUME Inv, DiscardDraft PROVE Inv'
<1>1. page = "open" /\ ed \in Editor /\ Held(ed) /\ Told(ed)
    BY DEF DiscardDraft, Acts, Inv, TypeOK, EditorSound
<1>2. PICK e : e = [ed EXCEPT !.offered = NoOffer] OBVIOUS
<1>3. /\ e \in Editor /\ e.screen = ed.screen /\ e.base = ed.base /\ e.opened = ed.opened
      /\ e.own = ed.own /\ e.ver = ed.ver /\ e.conflict = ed.conflict /\ e.state = ed.state
      /\ e.offered = NoOffer /\ e.current = ed.current /\ e.timer = ed.timer
    BY <1>1, <1>2 DEF Editor, Offer
<1>4. ed' = e BY <1>2 DEF DiscardDraft
<1>5. Held(e) /\ Told(e) BY <1>1, <1>3 DEF Held, NoOffer, Told, InFlight
<1>6. Grows BY DEF DiscardDraft, Acts, Grows
<1>7. session \in Sessions /\ session \in Nat /\ session <= session /\ left = NothingLeft
    BY <1>1 DEF Inv, PageSound, TypeOK
<1>8. EditorSound'
  <2>1. Held(e)' BY <1>3, <1>5, <1>6, <1>7, HeldStays DEF Inv, DiscardDraft, Acts
  <2>2. Told(e)' BY <1>5, <1>6 DEF Told, InFlight, Grows
  <2> QED BY <1>4, <2>1, <2>2 DEF EditorSound, Held, Told, Fits, InFlight
<1>9. TypeOK' BY <1>3, <1>4 DEF DiscardDraft, Acts, Inv, TypeOK, Draft
<1>10. PageSound' BY <1>1 DEF DiscardDraft, Acts, Inv, PageSound
<1>11. RequestsSound' BY <1>6, RequestsStay DEF Inv, DiscardDraft, Acts
<1>12. DraftSound' BY DEF DiscardDraft, DraftSound, NoDraft
<1>13. LeftEditsKept' BY <1>7 DEF DiscardDraft, LeftEditsKept, EditsKept, NothingLeft
<1>14. FlushSound' BY FlushStays DEF DiscardDraft, Acts
<1> QED BY <1>8, <1>9, <1>10, <1>11, <1>12, <1>13, <1>14 DEF Inv

(* What is left to say of an action once the executor has run, and once    *)
(* the editor has been left.                                               *)
LEMMA AfterExecute ==
    ASSUME Inv, page = "open", UNCHANGED <<node, wire, page, session, got, loggedOut, landed, left>>,
           known' \in [Sessions -> SUBSET Texts], agreed' \in [Sessions -> SUBSET Nat],
           ed' \in Editor, draft' \in Draft, tasks' \subseteq Task,
           RequestsSound', EditorSound', DraftSound', FlushSound', loggedOut => draft' = NoDraft
    PROVE  Inv'
<1>1. session \in Sessions /\ left = NothingLeft BY DEF Inv, PageSound
<1>2. TypeOK' BY DEF Inv, TypeOK
<1>3. PageSound' BY <1>1 DEF Inv, PageSound
<1>4. LeftEditsKept' BY <1>1 DEF LeftEditsKept, EditsKept, NothingLeft
<1> QED BY <1>2, <1>3, <1>4 DEF Inv

LEMMA AfterUnmount ==
    ASSUME Inv, UNCHANGED <<node, wire, session, loggedOut, landed>>,
           known' \in [Sessions -> SUBSET Texts], agreed' \in [Sessions -> SUBSET Nat],
           page' = "closed", ed' = NoEditor, got' = NoCopy, draft' \in Draft,
           tasks' \subseteq Task, left' \in Left,
           RequestsSound', DraftSound', FlushSound', LeftEditsKept',
           loggedOut => draft' = NoDraft
    PROVE  Inv'
<1>1. NoEditor \in Editor BY DEF NoEditor, Editor, States, Offer
<1>2. TypeOK' BY <1>1 DEF Inv, TypeOK
<1>3. PageSound' BY DEF PageSound
<1>4. EditorSound' BY DEF EditorSound
<1> QED BY <1>2, <1>3, <1>4 DEF Inv

LEMMA RetryStep == ASSUME Inv, Retry PROVE Inv'
<1>1. page = "open" /\ ed \in Editor /\ Held(ed) /\ ed.state = "failed" /\ ed.screen \in Texts
    BY DEF Retry, Acts, Inv, TypeOK, EditorSound, Held
<1>2. session \in Sessions BY <1>1 DEF Inv, PageSound
<1>3. PICK e : /\ e \in Editor /\ e.screen = ed.screen /\ e.state = "failed"
               /\ Execute(e, tasks, draft) /\ Grows /\ Held(e)'
               /\ known' \in [Sessions -> SUBSET Texts] /\ agreed' \in [Sessions -> SUBSET Nat]
  <2>1. CASE Agree(ed) /\ Execute(Adopt(ed), tasks, draft)
    <3>1. PICK e : e = Adopt(ed) OBVIOUS
    <3>2. e.screen = ed.screen BY <3>1 DEF Adopt, Editor
    <3>3. Execute(e, tasks, draft) BY <2>1, <3>1
    <3>4. known' \in {known, [known EXCEPT ![session] = @ \cup {e.screen}]} BY <3>3, KnownOf
    <3>5. /\ agreed' \in [Sessions -> SUBSET Nat]
          /\ \A s \in Sessions : agreed[s] \subseteq agreed'[s]
        BY <1>1, <1>2, <2>1, Agreed DEF Inv
    <3>6. Grows /\ known' \in [Sessions -> SUBSET Texts]
        BY <1>1, <1>2, <3>2, <3>4, <3>5, KnownGrows DEF Inv, Retry, Acts
    <3>7. e \in Editor /\ Held(e)' /\ e.state = "failed"
        BY <1>1, <1>2, <2>1, <3>1, <3>6, AdoptedEditor DEF Retry, Acts
    <3> QED BY <3>2, <3>3, <3>5, <3>6, <3>7
  <2>2. CASE Execute(ed, tasks, draft) /\ UNCHANGED agreed
    <3>1. PICK e : e = ed OBVIOUS
    <3>2. Execute(e, tasks, draft) BY <2>2, <3>1
    <3>3. known' \in {known, [known EXCEPT ![session] = @ \cup {e.screen}]} BY <3>2, KnownOf
    <3>4. Grows /\ known' \in [Sessions -> SUBSET Texts]
        BY <1>1, <1>2, <2>2, <3>1, <3>3, KnownGrows DEF Inv, Retry, Acts
    <3>5. Held(e)' BY <1>1, <1>2, <3>1, <3>4, HeldStays DEF Inv, Retry, Acts
    <3> QED BY <1>1, <2>2, <3>1, <3>2, <3>4, <3>5 DEF Inv, TypeOK
  <2> QED BY <2>1, <2>2 DEF Retry
<1>4. /\ ed' \in Editor /\ draft' \in Draft /\ tasks' \subseteq Task
      /\ RequestsSound' /\ EditorSound' /\ DraftSound' /\ FlushSound'
      /\ (loggedOut => draft' = NoDraft)
    BY <1>1, <1>3, Executed DEF Retry, Acts
<1> QED BY <1>1, <1>3, <1>4, AfterExecute DEF Retry, Acts

LEMMA DoneStep == ASSUME Inv, Done PROVE Inv'
<1>1. page = "open" /\ ed \in Editor /\ Held(ed) /\ Told(ed) /\ ed.opened \in Texts
    BY DEF Done, Acts, Inv, TypeOK, EditorSound, Held
<1>2. session \in Sessions BY <1>1 DEF Inv, PageSound
<1>3. PICK e : /\ e \in Editor /\ Held(e) /\ Told(e)
               /\ IF e.screen = e.base
                  THEN Unmount(e, tasks, draft) /\ UNCHANGED agreed
                  ELSE /\ Agree(e)
                       /\ Execute([Adopt(e) EXCEPT !.nav = TRUE], tasks, draft)
                       /\ UNCHANGED <<page, got, left>>
  <2>1. PICK revert \in BOOLEAN :
           LET e == IF revert THEN Typed(ed, ed.opened) ELSE ed IN
           IF e.screen = e.base
           THEN Unmount(e, tasks, draft) /\ UNCHANGED agreed
           ELSE /\ Agree(e)
                /\ Execute([Adopt(e) EXCEPT !.nav = TRUE], tasks, draft)
                /\ UNCHANGED <<page, got, left>>
      BY DEF Done
  <2>2. PICK e : e = IF revert THEN Typed(ed, ed.opened) ELSE ed OBVIOUS
  <2>3. e \in Editor /\ Held(e) /\ Told(e)
    <3>1. CASE revert BY <1>1, <2>2, <3>1, TypedEditor
    <3>2. CASE ~revert BY <1>1, <2>2, <3>2
    <3> QED BY <3>1, <3>2
  <2>4. CASE e.screen = e.base
    <3>1. Unmount(e, tasks, draft) /\ UNCHANGED agreed BY <2>1, <2>2, <2>4
    <3> QED BY <2>3, <2>4, <3>1
  <2>5. CASE e.screen # e.base
    <3>1. /\ Agree(e)
          /\ Execute([Adopt(e) EXCEPT !.nav = TRUE], tasks, draft)
          /\ UNCHANGED <<page, got, left>>
        BY <2>1, <2>2, <2>5
    <3> QED BY <2>3, <2>5, <3>1
  <2> QED BY <2>4, <2>5
<1>4. e.screen \in Texts BY <1>3 DEF Held
<1>5. CASE e.screen = e.base
  <2>1. Unmount(e, tasks, draft) /\ UNCHANGED agreed /\ ~Flushes(e) BY <1>3, <1>5 DEF Flushes
  <2>2. UNCHANGED known BY <2>1 DEF Unmount
  <2>3. Grows BY <2>1, <2>2 DEF Done, Acts, Grows
  <2>4. /\ page' = "closed" /\ ed' = NoEditor /\ got' = NoCopy
        /\ draft' \in Draft /\ tasks' \subseteq Task /\ left' \in Left
        /\ RequestsSound' /\ DraftSound' /\ (loggedOut => draft' = NoDraft)
        /\ FlushSound' /\ LeftEditsKept'
      BY <1>1, <1>3, <2>1, <2>3, Unmounted DEF Done, Acts
  <2>5. known' \in [Sessions -> SUBSET Texts] /\ agreed' \in [Sessions -> SUBSET Nat]
      BY <2>1, <2>2 DEF Inv, TypeOK
  <2> QED BY <2>4, <2>5, AfterUnmount DEF Done, Acts
<1>6. CASE e.screen # e.base
  <2>1. PICK a : a = Adopt(e) OBVIOUS
  <2>2. PICK f : f = [a EXCEPT !.nav = TRUE] OBVIOUS
  <2>3. Agree(e) /\ Execute(f, tasks, draft) /\ UNCHANGED <<page, got, left>>
      BY <1>3, <1>6, <2>1, <2>2
  <2>4. f.screen = e.screen BY <1>3, <2>1, <2>2 DEF Adopt, Editor
  <2>5. known' \in {known, [known EXCEPT ![session] = @ \cup {f.screen}]} BY <2>3, KnownOf
  <2>6. /\ agreed' \in [Sessions -> SUBSET Nat]
        /\ \A s \in Sessions : agreed[s] \subseteq agreed'[s]
      BY <1>2, <1>3, <2>3, Agreed DEF Inv
  <2>7. Grows /\ known' \in [Sessions -> SUBSET Texts]
      BY <1>2, <1>4, <2>4, <2>5, <2>6, KnownGrows DEF Inv, Done, Acts
  <2>8. /\ a \in Editor /\ Held(a)' /\ a.screen = e.screen /\ a.base = e.base
        /\ a.state = e.state /\ a.current = e.current
      BY <1>2, <1>3, <2>1, <2>3, <2>7, AdoptedEditor DEF Done, Acts
  <2>9. /\ f \in Editor /\ f.screen = a.screen /\ f.base = a.base /\ f.opened = a.opened
        /\ f.own = a.own /\ f.ver = a.ver /\ f.conflict = a.conflict /\ f.state = a.state
        /\ f.offered = a.offered /\ f.current = a.current
      BY <2>2, <2>8 DEF Editor
  <2>10. Held(f)' BY <2>8, <2>9 DEF Held, Fits
  <2>11. f.state = "saved" => f.base \in landed /\ (f.screen = f.base \/ ~InFlight(f))
      BY <1>3, <1>6, <2>8, <2>9 DEF Told
  <2>12. /\ ed' \in Editor /\ draft' \in Draft /\ tasks' \subseteq Task
         /\ RequestsSound' /\ EditorSound' /\ DraftSound' /\ FlushSound'
         /\ (loggedOut => draft' = NoDraft)
      BY <1>1, <2>3, <2>7, <2>9, <2>10, <2>11, Executed DEF Done, Acts
  <2> QED BY <1>1, <2>3, <2>6, <2>7, <2>12, AfterExecute DEF Done, Acts
<1> QED BY <1>5, <1>6

LEMMA LeaveStep == ASSUME Inv, Leave PROVE Inv'
<1>1. Unmount(ed, tasks, draft) /\ ed \in Editor BY DEF Leave, Inv, TypeOK
<1>2. Flushes(ed) => page = "open" /\ Held(ed) /\ session \in Sessions /\ ed.screen \in Texts
    BY DEF Inv, PageSound, EditorSound, Flushes, NoEditor, Held
<1>3. PICK e : e = ed OBVIOUS
<1>4. Grows /\ known' \in [Sessions -> SUBSET Texts]
  <2>1. CASE Flushes(ed)
    <3>1. known' = [known EXCEPT ![session] = @ \cup {ed.screen}] BY <1>1, <2>1 DEF Unmount
    <3> QED BY <1>2, <2>1, <3>1, KnownGrows DEF Leave, Inv
  <2>2. CASE ~Flushes(ed)
    <3>1. UNCHANGED known BY <1>1, <2>2 DEF Unmount
    <3> QED BY <3>1 DEF Leave, Inv, TypeOK, Grows
  <2> QED BY <2>1, <2>2
<1>5. Flushes(e) => page = "open" /\ Held(e)'
    BY <1>1, <1>2, <1>3, <1>4, HeldStays DEF Inv, Leave
<1>8. page # "closed" BY DEF Leave
<1>6. /\ page' = "closed" /\ ed' = NoEditor /\ got' = NoCopy
      /\ draft' \in Draft /\ tasks' \subseteq Task /\ left' \in Left
      /\ RequestsSound' /\ DraftSound' /\ (loggedOut => draft' = NoDraft)
      /\ FlushSound' /\ LeftEditsKept'
    BY <1>1, <1>3, <1>4, <1>5, <1>8, Unmounted DEF Leave
<1>7. agreed' \in [Sessions -> SUBSET Nat] BY DEF Leave, Inv, TypeOK
<1> QED BY <1>4, <1>6, <1>7, AfterUnmount DEF Leave

LEMMA DebounceStep == ASSUME Inv, Debounce PROVE Inv'
<1>1. page = "open" /\ ed \in Editor /\ Held(ed) /\ Told(ed) /\ ed.screen \in Texts
    BY DEF Debounce, Inv, TypeOK, EditorSound, Held
<1>2. session \in Sessions BY <1>1 DEF Inv, PageSound
<1>3. PICK e : e = [ed EXCEPT !.timer = FALSE] OBVIOUS
<1>4. /\ e \in Editor /\ e.screen = ed.screen /\ e.base = ed.base /\ e.opened = ed.opened
      /\ e.own = ed.own /\ e.ver = ed.ver /\ e.conflict = ed.conflict /\ e.state = ed.state
      /\ e.offered = ed.offered /\ e.current = ed.current
    BY <1>1, <1>3 DEF Editor
<1>5. Execute(e, tasks, draft) BY <1>3 DEF Debounce
<1>6. known' \in {known, [known EXCEPT ![session] = @ \cup {e.screen}]} BY <1>5, KnownOf
<1>7. Grows /\ known' \in [Sessions -> SUBSET Texts]
    BY <1>1, <1>2, <1>4, <1>6, KnownGrows DEF Inv, Debounce
<1>8. Held(e)'
  <2>1. Held(e) BY <1>1, <1>4 DEF Held
  <2> QED BY <1>2, <1>4, <1>7, <2>1, HeldStays DEF Inv, Debounce
<1>9. e.state = "saved" => e.base \in landed /\ (e.screen = e.base \/ ~InFlight(e))
    BY <1>1, <1>4 DEF Told
<1>10. /\ ed' \in Editor /\ draft' \in Draft /\ tasks' \subseteq Task
       /\ RequestsSound' /\ EditorSound' /\ DraftSound' /\ FlushSound'
       /\ (loggedOut => draft' = NoDraft)
    BY <1>1, <1>4, <1>5, <1>7, <1>8, <1>9, Executed DEF Debounce
<1>11. agreed' \in [Sessions -> SUBSET Nat] BY DEF Debounce, Inv, TypeOK
<1> QED BY <1>1, <1>7, <1>10, <1>11, AfterExecute DEF Debounce

LEMMA LogoutStep == ASSUME Inv, Logout PROVE Inv'
<1>1. Grows BY DEF Logout, Grows, history
<1>2. TypeOK' BY DEF Logout, Inv, TypeOK, history, Draft, Left, NothingLeft
<1>3. PageSound' BY DEF Logout, Inv, PageSound
<1>4. RequestsSound' BY <1>1, RequestsStay DEF Inv, Logout
<1>5. EditorSound'
  <2> SUFFICES ASSUME page = "open" PROVE Held(ed)' /\ Told(ed)'
      BY DEF EditorSound, Logout
  <2>1. PICK e : e = ed OBVIOUS
  <2>2. e \in Editor /\ Held(e) /\ Told(e) /\ session \in Sessions
      BY <2>1 DEF Inv, TypeOK, EditorSound, PageSound
  <2>3. Held(e)' BY <1>1, <2>2, HeldStays DEF Inv, Logout
  <2>4. Told(e)' BY <1>1, <2>2 DEF Told, InFlight, Grows
  <2> QED BY <2>1, <2>3, <2>4 DEF Logout
<1>6. DraftSound' BY DEF Logout, DraftSound, NoDraft
<1>7. LeftEditsKept' BY DEF Logout, LeftEditsKept, EditsKept, NothingLeft
<1>8. FlushSound' BY FlushStays DEF Logout, NothingLeft
<1> QED BY <1>2, <1>3, <1>4, <1>5, <1>6, <1>7, <1>8 DEF Inv

(* What is left on the wire by tasks that go.                              *)
LEMMA OrphansSound ==
    ASSUME Inv, NEW T \in SUBSET tasks
    PROVE  Orphans(T) \subseteq Request /\ \A q \in Orphans(T) : Fits(q.expected, q.by)
<1> SUFFICES ASSUME NEW q \in Orphans(T) PROVE q \in Request /\ Fits(q.expected, q.by)
    OBVIOUS
<1>1. PICK t \in T : /\ t.at \in {"put", "resend"}
                     /\ q = [by |-> t.by, text |-> t.text, expected |-> t.expected]
    BY DEF Orphans
<1>2. t \in Task /\ TaskSound(t) BY DEF Inv, TypeOK, RequestsSound
<1> QED BY <1>1, <1>2 DEF Request, Task, TaskSound

LEMMA UnloadStep == ASSUME Inv, Unload PROVE Inv'
<1>1. Grows BY DEF Unload, Grows, history
<1>2. tasks \in SUBSET tasks OBVIOUS
<1>3. Orphans(tasks) \subseteq Request /\ \A q \in Orphans(tasks) : Fits(q.expected, q.by)
    BY <1>2, OrphansSound
<1>4. NoEditor \in Editor /\ session \in Nat /\ session <= session /\ NoDraft \in Draft
    BY DEF Inv, TypeOK, NoEditor, Editor, States, Offer, Draft
<1>5. /\ draft' \in Draft /\ left' \in Left /\ LeftEditsKept'
      /\ \A x \in draft'.base : x \in draft.base \/ (session \in Sessions /\ x \in known[session])
  <2>1. draft \in Draft /\ left \in Left /\ ed \in Editor BY DEF Inv, TypeOK
  <2>2. CASE UNCHANGED <<draft, left>> BY <2>1, <2>2 DEF Inv, LeftEditsKept, EditsKept
  <2>3. CASE page = "open" /\ ~UNCHANGED <<draft, left>>
    <3>1. PICK held \in BOOLEAN : held = (ed.screen # ed.base \/ InFlight(ed)) OBVIOUS
    <3>2. PICK w : w = WriteDraft(draft, ed.screen, ed.own) OBVIOUS
    <3>3. draft' = IF held THEN w ELSE draft BY <2>3, <3>1, <3>2 DEF Unload
    <3>4. PICK b \in BOOLEAN : b = ~held OBVIOUS
    <3>5. left' = LeftBy(ed, tasks, b) BY <2>3, <3>1, <3>4 DEF Unload
    <3>6. /\ left' \in Left
          /\ left'.text # Unset =>
                left'.text = ed.screen /\ left'.reverted = b /\ ~loggedOut /\ ed.base # Unset
        BY <2>1, <3>5, LeftIs
    <3>7. /\ ed.screen \in Texts /\ ed.own \in SUBSET Texts /\ session \in Sessions
          /\ ed.own \subseteq known[session]
        BY <2>3 DEF Inv, TypeOK, Editor, EditorSound, Held, PageSound
    <3>8. /\ w \in Draft /\ w.base \subseteq draft.base \cup ed.own
          /\ ~loggedOut => w.text = ed.screen
        BY <2>1, <3>2, <3>7, WrittenDraft
    <3>9. LeftEditsKept' BY <3>3, <3>4, <3>6, <3>8 DEF LeftEditsKept, EditsKept
    <3> QED BY <2>1, <3>3, <3>6, <3>7, <3>8, <3>9
  <2>4. CASE page # "open"
    <3>1. UNCHANGED <<draft, left>> BY <2>4 DEF Unload
    <3> QED BY <2>2, <3>1
  <2> QED BY <2>2, <2>3, <2>4
<1>6. TypeOK' BY <1>3, <1>4, <1>5 DEF Unload, Inv, TypeOK, history
<1>7. PageSound' BY DEF Unload, PageSound
<1>8. RequestsSound'
  <2>1. \A q \in wire' : q \in wire \/ Fits(q.expected, q.by)'
    <3> SUFFICES ASSUME NEW q \in Orphans(tasks) PROVE Fits(q.expected, q.by)'
        BY DEF Unload
    <3>1. q.expected \in Nat /\ q.by \in Sessions /\ Fits(q.expected, q.by)
        BY <1>3 DEF Request
    <3> QED BY <1>1, <3>1, FitsStays DEF Inv
  <2>2. tasks' = {} BY DEF Unload
  <2> QED BY <1>1, <2>1, <2>2, RequestsStay DEF Inv
<1>9. EditorSound' BY DEF Unload, EditorSound
<1>10. DraftSound'
  <2>1. page' = "closed" /\ session' = session BY DEF Unload
  <2>2. \A x \in draft'.base : \/ x \in draft.base
                               \/ /\ session' \in Sessions /\ x \in known'[session']
                                  /\ page' \notin {"loading", "answered"}
      BY <1>5, <2>1 DEF Unload, history
  <2> QED BY <1>1, <1>4, <2>1, <2>2, DraftStays DEF Inv
<1>11. FlushSound' BY DEF Unload, FlushSound
<1> QED BY <1>5, <1>6, <1>7, <1>8, <1>9, <1>10, <1>11 DEF Inv

(* A step that leaves the editor as it is.                                 *)
LEMMA EditorStays ==
    ASSUME Inv, Grows, UNCHANGED <<page, session, ed>>
    PROVE  EditorSound'
<1> SUFFICES ASSUME page = "open" PROVE Held(ed)' /\ Told(ed)'
    BY DEF EditorSound
<1>1. PICK e : e = ed OBVIOUS
<1>2. e \in Editor /\ Held(e) /\ Told(e) /\ session \in Sessions
    BY <1>1 DEF Inv, TypeOK, EditorSound, PageSound
<1>3. Held(e)' BY <1>2, HeldStays DEF Inv
<1>4. Told(e)' BY <1>2 DEF Told, InFlight, Grows
<1> QED BY <1>1, <1>3, <1>4

LEMMA ExpireStep == ASSUME Inv, Expire PROVE Inv'
<1>1. Grows BY DEF Expire, Grows, history
<1>2. TypeOK' BY DEF Expire, Inv, TypeOK, history, Draft, Left, NothingLeft
<1>3. PageSound' BY DEF Expire, Inv, PageSound
<1>4. RequestsSound' BY <1>1, RequestsStay DEF Inv, Expire
<1>5. EditorSound' BY <1>1, EditorStays DEF Expire
<1>6. DraftSound' BY DEF Expire, DraftSound, NoDraft
<1>7. LeftEditsKept' BY DEF Expire, LeftEditsKept, EditsKept, NothingLeft
<1>8. FlushSound' BY FlushStays DEF Expire, NothingLeft
<1> QED BY <1>2, <1>3, <1>4, <1>5, <1>6, <1>7, <1>8 DEF Inv

LEMMA GiveUpStep == ASSUME Inv, GiveUp PROVE Inv'
<1>1. /\ page = "open" /\ ed \in Editor /\ Held(ed) /\ ed.screen \in Texts
      /\ ed.own \in SUBSET Texts /\ draft \in Draft
    BY DEF GiveUp, Inv, TypeOK, EditorSound, Held, Editor
<1>2. session \in Sessions /\ session \in Nat /\ session <= session /\ left = NothingLeft
    BY <1>1 DEF Inv, PageSound, TypeOK
<1>3. Grows BY DEF GiveUp, Grows, history
<1>4. PICK e : e = [Settle(ed, ed.current) EXCEPT !.state = "failed", !.nav = FALSE] OBVIOUS
<1>5. /\ e \in Editor /\ e.screen = ed.screen /\ e.base = ed.base /\ e.opened = ed.opened
      /\ e.own = ed.own /\ e.ver = ed.ver /\ e.conflict = ed.conflict /\ e.state = "failed"
      /\ e.offered = ed.offered
  <2>1. PICK f : f = Settle(ed, ed.current) OBVIOUS
  <2>2. /\ f \in Editor /\ f.screen = ed.screen /\ f.base = ed.base /\ f.opened = ed.opened
        /\ f.own = ed.own /\ f.ver = ed.ver /\ f.conflict = ed.conflict
        /\ f.offered = ed.offered
      BY <1>1, <2>1 DEF Settle, Editor
  <2>3. e = [f EXCEPT !.state = "failed", !.nav = FALSE] BY <1>4, <2>1
  <2> QED BY <2>2, <2>3 DEF Editor, States
<1>6. ed' = e BY <1>4 DEF GiveUp
<1>7. EditorSound'
  <2>1. Held(e) BY <1>1, <1>5 DEF Held
  <2>2. Held(e)' BY <1>2, <1>3, <1>5, <2>1, HeldStays DEF Inv, GiveUp
  <2>3. Told(e)' BY <1>5 DEF Told
  <2> QED BY <1>6, <2>2, <2>3 DEF EditorSound
<1>8. PICK w : w = WriteDraft(draft, ed.screen, ed.own) OBVIOUS
<1>9. w \in Draft /\ w.base \subseteq draft.base \cup ed.own /\ (loggedOut => w = draft)
    BY <1>1, <1>8, WrittenDraft
<1>10. draft' = w BY <1>8 DEF GiveUp
<1>11. /\ tasks' \subseteq tasks /\ wire' \subseteq Request
       /\ \A q \in wire' : q \in wire \/ Fits(q.expected, q.by)
  <2>1. PICK it : it = {t \in tasks : t.by = session /\ t.id = ed.current} OBVIOUS
  <2>2. it \in SUBSET tasks BY <2>1
  <2>3. Orphans(it) \subseteq Request /\ \A q \in Orphans(it) : Fits(q.expected, q.by)
      BY <2>2, OrphansSound
  <2>4. \/ tasks' = tasks \ it /\ wire' = wire \cup Orphans(it)
        \/ UNCHANGED <<tasks, wire>>
      BY <2>1 DEF GiveUp
  <2>5. wire \subseteq Request BY DEF Inv, TypeOK
  <2> QED BY <2>3, <2>4, <2>5
<1>12. TypeOK' BY <1>5, <1>6, <1>9, <1>10, <1>11 DEF GiveUp, Inv, TypeOK, history
<1>13. PageSound' BY <1>1, <1>9, <1>10 DEF GiveUp, Inv, PageSound
<1>14. RequestsSound'
  <2>1. \A q \in wire' : q \in wire \/ Fits(q.expected, q.by)'
    <3> SUFFICES ASSUME NEW q \in wire', Fits(q.expected, q.by) PROVE Fits(q.expected, q.by)'
        BY <1>11
    <3>1. q.expected \in Nat /\ q.by \in Sessions BY <1>11 DEF Request
    <3> QED BY <1>3, <3>1, FitsStays DEF Inv
  <2> QED BY <1>3, <1>11, <2>1, RequestsStay DEF Inv
<1>15. DraftSound'
  <2>1. page' = "open" /\ session' = session BY <1>1 DEF GiveUp
  <2>2. \A x \in draft'.base : \/ x \in draft.base
                               \/ /\ session' \in Sessions /\ x \in known'[session']
                                  /\ page' \notin {"loading", "answered"}
      BY <1>1, <1>2, <1>9, <1>10, <2>1 DEF GiveUp, history, Held
  <2> QED BY <1>2, <1>3, <2>1, <2>2, DraftStays DEF Inv
<1>16. LeftEditsKept' BY <1>2 DEF GiveUp, LeftEditsKept, EditsKept, NothingLeft
<1>17. FlushSound' BY <1>11, FlushStays DEF GiveUp
<1> QED BY <1>7, <1>12, <1>13, <1>14, <1>15, <1>16, <1>17 DEF Inv

(* A step of the requests, the server or another client.                   *)
LEMMA OutsideStep ==
    ASSUME Inv, Grows, node' \in Node, tasks' \subseteq Task, wire' \subseteq Request,
           UNCHANGED <<page, session, got, ed, draft, loggedOut, known, agreed>>,
           left' = left \/ (left.text # Unset /\ left' = [left EXCEPT !.stored = TRUE]),
           landed' \subseteq Texts, RequestsSound', FlushSound'
    PROVE  Inv'
<1>1. session \in Nat /\ session <= session /\ node.ver \in Nat BY DEF Inv, TypeOK, Node
<1>7. left \in Left BY DEF Inv, TypeOK
<1>8. left' \in Left /\ left'.text = left.text /\ left'.reverted = left.reverted
      /\ left'.crossed = left.crossed /\ (left.stored => left'.stored)
  <2>1. CASE left' = left BY <1>7, <2>1
  <2>2. CASE left' = [left EXCEPT !.stored = TRUE] BY <1>7, <2>2 DEF Left
  <2> QED BY <2>1, <2>2
<1>2. TypeOK' BY <1>8 DEF Inv, TypeOK
<1>3. PageSound'
  <2>2. left = NothingLeft => left' = NothingLeft BY DEF NothingLeft
  <2>1. page = "answered" => got'.ver <= node'.ver /\ (got'.ver = node'.ver => got'.text = node'.text)
    <3> SUFFICES ASSUME page = "answered"
                 PROVE  got.ver <= node'.ver /\ (got.ver = node'.ver => got.text = node'.text)
        OBVIOUS
    <3>1. got.ver \in Nat /\ got.ver <= node.ver /\ (got.ver = node.ver => got.text = node.text)
        BY DEF Inv, PageSound, Node
    <3>2. CASE UNCHANGED node BY <3>1, <3>2
    <3>3. CASE node'.ver = node.ver + 1 BY <1>1, <3>1, <3>3
    <3> QED BY <3>2, <3>3 DEF Grows
  <2> QED BY <2>1, <2>2 DEF Inv, PageSound
<1>4. EditorSound' BY EditorStays
<1>5. DraftSound' BY <1>1, DraftStays DEF Inv
<1>6. LeftEditsKept' BY <1>8 DEF Inv, LeftEditsKept, EditsKept
<1> QED BY <1>2, <1>3, <1>4, <1>5, <1>6 DEF Inv

LEMMA ElsewhereStep == ASSUME Inv, Elsewhere PROVE Inv'
<1>1. PICK t \in Texts : node' = [text |-> t, ver |-> node.ver + 1] BY DEF Elsewhere
<1>2. node.ver \in Nat BY DEF Inv, TypeOK, Node
<1>3. node' \in Node /\ node'.ver = node.ver + 1 BY <1>1, <1>2 DEF Node
<1>4. Grows BY <1>3 DEF Elsewhere, Grows
<1>5. RequestsSound' BY <1>4, RequestsStay DEF Inv, Elsewhere
<1>6. FlushSound' BY FlushStays DEF Elsewhere
<1> QED BY <1>3, <1>4, <1>5, <1>6, OutsideStep DEF Elsewhere, Inv, TypeOK

(* What a save that is written leaves behind.                              *)
LEMMA Stored ==
    ASSUME Inv, NEW by \in Sessions, NEW t \in Texts, Store(by, t), UNCHANGED <<known, agreed>>
    PROVE  /\ Grows /\ node' \in Node /\ node'.ver = node.ver + 1 /\ node'.text = t
           /\ landed' \subseteq Texts /\ t \in landed'
           /\ left' = left \/ (left.text # Unset /\ left' = [left EXCEPT !.stored = TRUE])
           /\ left'.text = left.text /\ (left.stored => left'.stored)
           /\ t = left'.text => left'.stored
<1>1. node.ver \in Nat /\ left \in Left BY DEF Inv, TypeOK, Node
<1>2. left' = IF left.text = t THEN [left EXCEPT !.stored = TRUE] ELSE left BY DEF Store
<1>3. t # Unset BY TextsAssumption
<1> QED BY <1>1, <1>2, <1>3 DEF Store, Node, Grows, Inv, TypeOK, Left

LEMMA PutStep ==
    ASSUME Inv, NEW t \in tasks, Put(t)
    PROVE  Inv'
<1>1. /\ t \in Task /\ TaskSound(t) /\ t.at \in {"put", "resend"} /\ t.by \in Sessions
      /\ t.text \in Texts /\ node.ver \in Nat
    BY DEF Put, Inv, TypeOK, RequestsSound, Task, Node
<1>2. CASE Matches(t.expected)
  <2>1. Store(t.by, t.text) /\ Become(t, "landed", node.ver + 1) BY <1>2 DEF Put
  <2>2. /\ Grows /\ node' \in Node /\ node'.ver = node.ver + 1 /\ node'.text = t.text
        /\ landed' \subseteq Texts /\ t.text \in landed'
        /\ left' = left \/ (left.text # Unset /\ left' = [left EXCEPT !.stored = TRUE])
        /\ left'.text = left.text /\ (left.stored => left'.stored)
        /\ t.text = left'.text => left'.stored
      BY <1>1, <2>1, Stored DEF Put
  <2>3. PICK u : u = [t EXCEPT !.at = "landed", !.ver = node.ver + 1] OBVIOUS
  <2>4. /\ u \in Task /\ u.by = t.by /\ u.text = t.text /\ u.own = t.own
        /\ u.at = "landed" /\ u.ver = node.ver + 1 /\ u.id = t.id
    <3>1. PICK v \in Nat : v = node.ver + 1 BY <1>1
    <3>2. u = [t EXCEPT !.at = "landed", !.ver = v] BY <2>3, <3>1
    <3> QED BY <1>1, <3>1, <3>2 DEF Task, Results
  <2>5. TaskSound(u)'
    <3>1. u.text \in known'[u.by] /\ u.own \subseteq known'[u.by]
        BY <1>1, <2>4 DEF TaskSound, Put
    <3>2. Fits(u.ver, u.by)' BY <1>1, <2>2, <2>4, <3>1 DEF Fits
    <3> QED BY <2>2, <2>4, <3>1, <3>2 DEF TaskSound
  <2>6. tasks' \subseteq (tasks \ {t}) \cup {u} BY <2>1, <2>3 DEF Become
  <2>7. RequestsSound' BY <2>2, <2>5, <2>6, RequestsStay DEF Inv, Put
  <2>8. tasks' \subseteq Task /\ wire' \subseteq Request BY <2>4, <2>6 DEF Inv, TypeOK, Put
  <2>9. FlushSound' BY <2>2, <2>4, <2>6, FlushStays DEF Put
  <2> QED BY <2>2, <2>7, <2>8, <2>9, OutsideStep DEF Put
<1>3. CASE ~Matches(t.expected)
  <2>1. PICK at \in {"stale", "error"} : Become(t, at, 0) BY <1>3 DEF Put
  <2>2. UNCHANGED <<node, landed, left>> BY <1>3 DEF Put
  <2>3. Grows BY <2>2 DEF Grows, Put
  <2>4. PICK u : u = [t EXCEPT !.at = at, !.ver = 0] OBVIOUS
  <2>5. /\ u \in Task /\ u.by = t.by /\ u.text = t.text /\ u.own = t.own /\ u.at = at
        /\ u.id = t.id
    <3>1. PICK v \in Nat : v = 0 OBVIOUS
    <3>2. u = [t EXCEPT !.at = at, !.ver = v] BY <2>4, <3>1
    <3> QED BY <1>1, <2>1, <3>2 DEF Task, Results
  <2>6. TaskSound(u)' BY <1>1, <2>1, <2>5 DEF TaskSound, Put
  <2>7. tasks' \subseteq (tasks \ {t}) \cup {u} BY <2>1, <2>4 DEF Become
  <2>8. RequestsSound' BY <2>3, <2>6, <2>7, RequestsStay DEF Inv, Put
  <2>9. tasks' \subseteq Task /\ wire' \subseteq Request BY <2>5, <2>7 DEF Inv, TypeOK, Put
  <2>10. FlushSound' BY <2>1, <2>2, <2>5, <2>7, FlushStays DEF Put
  <2> QED BY <2>2, <2>3, <2>8, <2>9, <2>10, OutsideStep DEF Put, Inv, TypeOK
<1> QED BY <1>2, <1>3

LEMMA ReadBackStep ==
    ASSUME Inv, NEW t \in tasks, ReadBack(t)
    PROVE  Inv'
<1>1. t \in Task /\ TaskSound(t) /\ t.by \in Sessions /\ node.ver \in Nat
    BY DEF Inv, TypeOK, RequestsSound, Task, Node
<1>2. Grows BY DEF ReadBack, Grows, history
<1>3. PICK v \in Nat : v = node.ver BY <1>1
<1>4. PICK u : /\ u \in Task /\ TaskSound(u)' /\ tasks' \subseteq (tasks \ {t}) \cup {u}
               /\ u.by = t.by /\ u.id = t.id /\ u.text = t.text /\ u.at # "landed"
  <2>1. CASE OwnWrite(node.text, t.own)
    <3>1. PICK u : u = [t EXCEPT !.at = "resend", !.expected = v] OBVIOUS
    <3>2. /\ u \in Task /\ u.by = t.by /\ u.text = t.text /\ u.own = t.own
          /\ u.at = "resend" /\ u.expected = v /\ u.id = t.id
        BY <1>1, <3>1 DEF Task
    <3>3. Fits(u.expected, u.by)'
        BY <1>1, <1>3, <2>1, <3>2 DEF Fits, OwnWrite, TaskSound, ReadBack, history
    <3>4. TaskSound(u)' BY <1>1, <3>2, <3>3 DEF TaskSound, ReadBack, history
    <3>5. tasks' = (tasks \ {t}) \cup {u} BY <1>3, <2>1, <3>1 DEF ReadBack
    <3> QED BY <3>2, <3>4, <3>5
  <2>2. CASE ~OwnWrite(node.text, t.own)
    <3>1. PICK u : u = [t EXCEPT !.at = "foreign", !.ver = v] OBVIOUS
    <3>2. /\ u \in Task /\ u.by = t.by /\ u.text = t.text /\ u.own = t.own
          /\ u.at = "foreign" /\ u.ver = v /\ u.id = t.id
        BY <1>1, <3>1 DEF Task, Results
    <3>3. TaskSound(u)' BY <1>1, <1>3, <3>2 DEF TaskSound, ReadBack, history
    <3>4. tasks' \subseteq (tasks \ {t}) \cup {u} BY <1>3, <2>2, <3>1 DEF ReadBack, Become
    <3> QED BY <3>2, <3>3, <3>4
  <2> QED BY <2>1, <2>2
<1>5. RequestsSound' BY <1>2, <1>4, RequestsStay DEF Inv, ReadBack
<1>6. tasks' \subseteq Task BY <1>4 DEF Inv, TypeOK
<1>7. FlushSound' BY <1>4, FlushStays DEF ReadBack
<1> QED BY <1>2, <1>5, <1>6, <1>7, OutsideStep DEF ReadBack, history, Inv, TypeOK

LEMMA LoseStep ==
    ASSUME Inv, NEW t \in tasks, Lose(t)
    PROVE  Inv'
<1>1. t \in Task /\ TaskSound(t) /\ t.by \in Sessions
    BY DEF Inv, TypeOK, RequestsSound, Task
<1>2. Grows BY DEF Lose, Grows, history
<1>3. PICK u : u = [t EXCEPT !.at = "error", !.ver = 0] OBVIOUS
<1>4. /\ u \in Task /\ u.by = t.by /\ u.text = t.text /\ u.own = t.own /\ u.at = "error"
      /\ u.id = t.id
  <2>1. PICK v \in Nat : v = 0 OBVIOUS
  <2>2. u = [t EXCEPT !.at = "error", !.ver = v] BY <1>3, <2>1
  <2> QED BY <1>1, <2>2 DEF Task, Results
<1>5. TaskSound(u)' BY <1>1, <1>4 DEF TaskSound, Lose, history
<1>6. tasks' \subseteq (tasks \ {t}) \cup {u} BY <1>3 DEF Lose, Become
<1>7. {t} \in SUBSET tasks OBVIOUS
<1>8. Orphans({t}) \subseteq Request /\ \A q \in Orphans({t}) : Fits(q.expected, q.by)
    BY <1>7, OrphansSound
<1>9. \A q \in wire' : q \in wire \/ Fits(q.expected, q.by)'
  <2> SUFFICES ASSUME NEW q \in Orphans({t}) PROVE Fits(q.expected, q.by)'
      BY DEF Lose
  <2>1. q.expected \in Nat /\ q.by \in Sessions /\ Fits(q.expected, q.by) BY <1>8 DEF Request
  <2> QED BY <1>2, <2>1, FitsStays DEF Inv
<1>10. RequestsSound' BY <1>2, <1>5, <1>6, <1>9, RequestsStay DEF Inv
<1>11. tasks' \subseteq Task /\ wire' \subseteq Request
    BY <1>4, <1>6, <1>8 DEF Inv, TypeOK, Lose
<1>12. FlushSound' BY <1>4, <1>6, FlushStays DEF Lose
<1> QED BY <1>2, <1>10, <1>11, <1>12, OutsideStep DEF Lose, history, Inv, TypeOK

LEMMA ArriveStep ==
    ASSUME Inv, NEW q \in wire, Arrive(q)
    PROVE  Inv'
<1>1. q.by \in Sessions /\ q.text \in Texts BY DEF Inv, TypeOK, Request
<1>2. /\ Grows /\ node' \in Node /\ landed' \subseteq Texts
      /\ left' = left \/ (left.text # Unset /\ left' = [left EXCEPT !.stored = TRUE])
      /\ left'.text = left.text /\ (left.stored => left'.stored)
  <2>1. CASE Store(q.by, q.text) BY <1>1, <2>1, Stored DEF Arrive
  <2>2. CASE UNCHANGED <<node, author, landed, left>> BY <2>2 DEF Arrive, Grows, Inv, TypeOK
  <2> QED BY <2>1, <2>2 DEF Arrive
<1>3. RequestsSound' BY <1>2, RequestsStay DEF Inv, Arrive
<1>4. tasks' \subseteq Task /\ wire' \subseteq Request BY DEF Inv, TypeOK, Arrive
<1>5. FlushSound' BY <1>2, FlushStays DEF Arrive
<1> QED BY <1>2, <1>3, <1>4, <1>5, OutsideStep DEF Arrive

LEMMA DeliverLeftStep ==
    ASSUME Inv, NEW t \in tasks, DeliverLeft(t)
    PROVE  Inv'
<1>1. /\ left \in Left /\ t.at = "landed"
      /\ t.by = session => left.text = Unset \/ left.stored
    BY DEF DeliverLeft, Inv, FlushSound, TypeOK
<1>2. Grows BY DEF DeliverLeft, Grows, history
<1>9. PICK b \in BOOLEAN : b = (left.crossed \/ (left.text # Unset /\ t.by # session)) OBVIOUS
<1>10. /\ left' \in Left /\ left'.text = left.text /\ left'.stored = left.stored
       /\ left'.reverted = left.reverted /\ left'.crossed = b
  <2>1. left' = [left EXCEPT !.crossed = b] BY <1>1, <1>9 DEF DeliverLeft, Left
  <2> QED BY <1>1, <2>1 DEF Left
<1>3. TypeOK' BY <1>10 DEF DeliverLeft, Inv, TypeOK, Draft, history
<1>4. PageSound'
  <2>1. left = NothingLeft => left' = NothingLeft
    <3> SUFFICES ASSUME left = NothingLeft PROVE left' = left OBVIOUS
    <3>1. left.text = Unset /\ left.crossed = FALSE BY DEF NothingLeft
    <3>2. b = left.crossed BY <1>9, <3>1
    <3>3. left' = [left EXCEPT !.crossed = b] BY <1>1, <1>9 DEF DeliverLeft, Left
    <3> QED BY <1>1, <3>2, <3>3 DEF Left
  <2> QED BY <2>1 DEF DeliverLeft, Inv, PageSound
<1>5. RequestsSound' BY <1>2, RequestsStay DEF Inv, DeliverLeft
<1>6. EditorSound' BY <1>2, EditorStays DEF DeliverLeft
<1>7. DraftSound' BY DEF DeliverLeft, DraftSound, NoDraft, history
<1>8. LeftEditsKept' BY <1>1, <1>9, <1>10 DEF LeftEditsKept, EditsKept
<1>11. FlushSound' BY <1>10, FlushStays DEF DeliverLeft
<1> QED BY <1>3, <1>4, <1>5, <1>6, <1>7, <1>8, <1>11 DEF Inv

(* The answer of a save: what the editor becomes.                          *)
LEMMA SettledEditor ==
    ASSUME NEW e \in Editor, NEW id, NEW f, f = Settle(e, id)
    PROVE  /\ f \in Editor /\ f.screen = e.screen /\ f.base = e.base /\ f.opened = e.opened
           /\ f.own = e.own /\ f.ver = e.ver /\ f.conflict = e.conflict /\ f.state = e.state
           /\ f.offered = e.offered /\ f.timer = e.timer
           /\ IsCurrent(e, id) => ~InFlight(f)
           /\ ~IsCurrent(e, id) => f = e
<1>1. CASE IsCurrent(e, id)
  <2>1. f = [e EXCEPT !.current = 0] BY <1>1 DEF Settle
  <2>2. 0 \in Nat OBVIOUS
  <2> QED BY <1>1, <2>1, <2>2 DEF Editor, InFlight
<1>2. CASE ~IsCurrent(e, id) BY <1>2 DEF Settle
<1> QED BY <1>1, <1>2

LEMMA ConfirmedEditor ==
    ASSUME Inv, NEW t \in tasks, t.by = session, t.at = "landed",
           NEW e \in Editor, Held(e), NEW f, f = Confirmed(e, t)
    PROVE  /\ f \in Editor /\ Held(f) /\ f.screen = e.screen /\ f.base = t.text
           /\ f.base \in landed /\ f.state = "saved" /\ f.current = e.current
<1>1. t \in Task /\ TaskSound(t) /\ t.text \in Texts /\ t.ver \in Nat /\ session \in Sessions
    BY DEF Inv, TypeOK, RequestsSound, Task
<1>2. PICK g : g = [e EXCEPT !.own = {t.text}, !.ver = t.ver] OBVIOUS
<1>3. /\ g \in Editor /\ g.screen = e.screen /\ g.base = e.base /\ g.opened = e.opened
      /\ g.own = {t.text} /\ g.ver = t.ver /\ g.conflict = e.conflict /\ g.current = e.current
      /\ g.offered = e.offered /\ g.timer = e.timer
    BY <1>1, <1>2 DEF Editor
<1>4. PICK w \in BOOLEAN : w = (e.timer \/ e.screen # t.text) BY DEF Editor
<1>5. f = [g EXCEPT !.base = t.text, !.state = "saved", !.timer = w]
    BY <1>2, <1>4 DEF Confirmed, Editor
<1>8. "saved" \in States BY DEF States
<1>6. /\ f \in Editor /\ f.screen = e.screen /\ f.base = t.text /\ f.opened = e.opened
      /\ f.own = {t.text} /\ f.ver = t.ver /\ f.conflict = e.conflict /\ f.current = e.current
      /\ f.offered = e.offered /\ f.state = "saved"
    BY <1>1, <1>3, <1>5, <1>8 DEF Editor
<1>7. Held(f) BY <1>1, <1>6 DEF Held, TaskSound
<1> QED BY <1>1, <1>6, <1>7 DEF TaskSound

LEMMA RefusedEditor ==
    ASSUME Inv, NEW t \in tasks, NEW e \in Editor, Held(e), NEW f, f = Refused(e, t)
    PROVE  f \in Editor /\ Held(f) /\ f.screen = e.screen /\ f.state = "failed"
<1>1. t \in Task /\ TaskSound(t) /\ t.ver \in Nat
    BY DEF Inv, TypeOK, RequestsSound, Task
<1>2. PICK c \in Nat : c = IF t.at = "foreign" THEN t.ver ELSE e.conflict
    BY <1>1 DEF Editor
<1>3. c <= node.ver BY <1>1, <1>2 DEF TaskSound, Held
<1>4. f = [e EXCEPT !.state = "failed", !.nav = FALSE, !.conflict = c]
    BY <1>2 DEF Refused, Editor
<1>7. "failed" \in States BY DEF States
<1>5. /\ f \in Editor /\ f.screen = e.screen /\ f.base = e.base /\ f.opened = e.opened
      /\ f.own = e.own /\ f.ver = e.ver /\ f.conflict = c
      /\ f.offered = e.offered /\ f.state = "failed"
    BY <1>4, <1>7 DEF Editor
<1>6. Held(f) BY <1>3, <1>5 DEF Held
<1> QED BY <1>5, <1>6

LEMMA DeliverStep ==
    ASSUME Inv, NEW t \in tasks, Deliver(t)
    PROVE  Inv'
<1>1. /\ page = "open" /\ t.by = session /\ t.at \in Results /\ session \in Sessions
      /\ ed \in Editor /\ Held(ed) /\ Told(ed) /\ left = NothingLeft /\ ed.screen \in Texts
      /\ session \in Nat /\ session <= session
    BY DEF Deliver, Inv, TypeOK, EditorSound, PageSound, Held
<1>2. PICK current \in BOOLEAN : current = IsCurrent(ed, t.id) BY DEF IsCurrent
<1>3. PICK e : e = Settle(ed, t.id) OBVIOUS
<1>4. PICK T : T = tasks \ {t} OBVIOUS
<1>5. PICK accepted \in BOOLEAN :
         accepted = (t.at = "landed" /\ (current \/ ~InFlight(e))) OBVIOUS
<1>6. PICK kept \in {draft, NoDraft} :
         kept = IF accepted /\ e.screen = t.text THEN NoDraft ELSE draft OBVIOUS
<1>7. PICK after : after = IF accepted THEN Confirmed(e, t)
                           ELSE IF current THEN Refused(e, t) ELSE e OBVIOUS
<1>8. \/ /\ accepted /\ current /\ e.nav
         /\ Unmount([after EXCEPT !.nav = FALSE], T, kept)
      \/ /\ ~(accepted /\ current /\ e.nav)
         /\ IF ~InFlight(after) /\ after.state # "failed"
            THEN Execute(after, T, IF ~accepted /\ current
                                   THEN WriteDraft(draft, ed.screen, ed.own) ELSE kept)
            ELSE /\ ed' = after /\ tasks' = T /\ UNCHANGED known
                 /\ draft' = IF ~accepted /\ current
                             THEN WriteDraft(draft, ed.screen, ed.own) ELSE kept
         /\ UNCHANGED <<page, got, left>>
    BY <1>2, <1>3, <1>4, <1>5, <1>6, <1>7 DEF Deliver
<1>9. UNCHANGED <<node, wire, session, loggedOut, author, agreed, landed>>
    BY DEF Deliver
<1>10. /\ e \in Editor /\ Held(e) /\ Told(ed) /\ e.screen = ed.screen /\ e.state = ed.state
       /\ current => ~InFlight(e)
       /\ ~current => e = ed
  <2>1. /\ e \in Editor /\ e.screen = ed.screen /\ e.base = ed.base /\ e.opened = ed.opened
        /\ e.own = ed.own /\ e.ver = ed.ver /\ e.conflict = ed.conflict /\ e.state = ed.state
        /\ e.offered = ed.offered
        /\ current => ~InFlight(e)
        /\ ~current => e = ed
      BY <1>1, <1>2, <1>3, SettledEditor
  <2>2. Held(e) BY <1>1, <2>1 DEF Held
  <2> QED BY <1>1, <2>1, <2>2
<1>11. /\ after \in Editor /\ Held(after) /\ after.screen = ed.screen
       /\ accepted => after.state = "saved" /\ after.base \in landed /\ ~InFlight(after)
       /\ ~accepted /\ current => after.state = "failed"
       /\ ~accepted /\ ~current => after = ed
  <2>1. CASE accepted
    <3>1. after = Confirmed(e, t) /\ t.at = "landed" /\ ~InFlight(e)
        BY <1>5, <1>7, <1>10, <2>1
    <3>2. /\ after \in Editor /\ Held(after) /\ after.screen = e.screen
          /\ after.base \in landed /\ after.state = "saved" /\ after.current = e.current
        BY <1>1, <1>10, <3>1, ConfirmedEditor
    <3> QED BY <1>10, <2>1, <3>1, <3>2 DEF InFlight
  <2>2. CASE ~accepted /\ current
    <3>1. after = Refused(e, t) BY <1>7, <2>2
    <3> QED BY <1>10, <2>2, <3>1, RefusedEditor
  <2>3. CASE ~accepted /\ ~current BY <1>1, <1>7, <1>10, <2>3
  <2> QED BY <2>1, <2>2, <2>3
<1>12. T \in SUBSET tasks /\ T \subseteq Task /\ draft \in Draft /\ kept \in Draft
       /\ kept.base \subseteq draft.base /\ (loggedOut => kept = NoDraft /\ draft = NoDraft)
    BY <1>4, <1>6 DEF Inv, TypeOK, PageSound, Draft, NoDraft
<1>13. CASE accepted /\ current /\ e.nav
  <2>1. PICK f : f = [after EXCEPT !.nav = FALSE] OBVIOUS
  <2>2. Unmount(f, T, kept) BY <1>8, <1>13, <2>1
  <2>3. /\ f \in Editor /\ f.screen = after.screen /\ f.base = after.base
        /\ f.opened = after.opened /\ f.own = after.own /\ f.ver = after.ver
        /\ f.conflict = after.conflict /\ f.offered = after.offered
      BY <1>11, <2>1 DEF Editor
  <2>4. known' \in {known, [known EXCEPT ![session] = @ \cup {f.screen}]} BY <2>2, KnownOf
  <2>5. Grows /\ known' \in [Sessions -> SUBSET Texts]
      BY <1>1, <1>9, <1>11, <2>3, <2>4, KnownGrows DEF Inv
  <2>6. Held(f) BY <1>11, <2>3 DEF Held
  <2>7. Held(f)' BY <1>1, <1>9, <2>3, <2>5, <2>6, HeldStays DEF Inv
  <2>8. /\ page' = "closed" /\ ed' = NoEditor /\ got' = NoCopy
        /\ draft' \in Draft /\ tasks' \subseteq Task /\ left' \in Left
        /\ RequestsSound' /\ DraftSound' /\ (loggedOut => draft' = NoDraft)
        /\ FlushSound' /\ LeftEditsKept'
      BY <1>1, <1>9, <1>12, <2>2, <2>3, <2>5, <2>7, Unmounted
  <2>9. agreed' \in [Sessions -> SUBSET Nat] BY <1>9 DEF Inv, TypeOK
  <2> QED BY <1>9, <2>5, <2>8, <2>9, AfterUnmount
<1>14. CASE ~(accepted /\ current /\ e.nav) /\ ~InFlight(after) /\ after.state # "failed"
  <2>1. ~(~accepted /\ current) BY <1>11, <1>14
  <2>2. Execute(after, T, kept) /\ UNCHANGED <<page, got, left>> BY <1>8, <1>14, <2>1
  <2>3. known' \in {known, [known EXCEPT ![session] = @ \cup {after.screen}]} BY <2>2, KnownOf
  <2>4. Grows /\ known' \in [Sessions -> SUBSET Texts]
      BY <1>1, <1>9, <1>11, <2>3, KnownGrows DEF Inv
  <2>5. Held(after)' BY <1>1, <1>9, <1>11, <2>4, HeldStays DEF Inv
  <2>6. after.state = "saved" =>
           after.base \in landed /\ (after.screen = after.base \/ ~InFlight(after))
      BY <1>1, <1>11, <1>14, <2>1 DEF Told
  <2>7. /\ ed' \in Editor /\ draft' \in Draft /\ tasks' \subseteq Task
        /\ RequestsSound' /\ EditorSound' /\ DraftSound' /\ FlushSound'
        /\ (loggedOut => draft' = NoDraft)
      BY <1>1, <1>9, <1>11, <1>12, <2>2, <2>4, <2>5, <2>6, Executed
  <2>8. agreed' \in [Sessions -> SUBSET Nat] BY <1>9 DEF Inv, TypeOK
  <2> QED BY <1>1, <1>9, <2>2, <2>4, <2>7, <2>8, AfterExecute
<1>15. CASE ~(accepted /\ current /\ e.nav) /\ (InFlight(after) \/ after.state = "failed")
  <2>1. ~accepted BY <1>11, <1>15
  <2>2. PICK w : w = WriteDraft(draft, ed.screen, ed.own) OBVIOUS
  <2>3. /\ ed' = after /\ tasks' = T /\ UNCHANGED known /\ UNCHANGED <<page, got, left>>
        /\ draft' = IF current THEN w ELSE kept
      BY <1>8, <1>15, <2>1, <2>2
  <2>4. Grows /\ known' \in [Sessions -> SUBSET Texts] /\ agreed' \in [Sessions -> SUBSET Nat]
      BY <1>9, <2>3 DEF Grows, Inv, TypeOK
  <2>5. EditorSound'
    <3>1. Held(after)' BY <1>1, <1>9, <1>11, <2>4, HeldStays DEF Inv
    <3>2. Told(after)
        BY <1>1, <1>11, <2>1 DEF Told
    <3>3. Told(after)' BY <2>4, <3>2 DEF Told, InFlight, Grows
    <3> QED BY <2>3, <3>1, <3>3 DEF EditorSound
  <2>6. ed.own \in SUBSET Texts /\ ed.own \subseteq known[session] BY <1>1 DEF Editor, Held
  <2>7. w \in Draft /\ w.base \subseteq draft.base \cup ed.own /\ (loggedOut => w = draft)
      BY <1>1, <1>12, <2>2, <2>6, WrittenDraft
  <2>8. /\ draft' \in Draft /\ draft'.base \subseteq draft.base \cup ed.own
        /\ (loggedOut => draft' = NoDraft)
      BY <1>12, <2>3, <2>7
  <2>9. DraftSound'
    <3>1. page' = "open" /\ session' = session BY <1>1, <1>9, <2>3
    <3>2. \A x \in draft'.base : \/ x \in draft.base
                                 \/ /\ session' \in Sessions /\ x \in known'[session']
                                    /\ page' \notin {"loading", "answered"}
        BY <1>1, <2>3, <2>6, <2>8, <3>1
    <3> QED BY <1>1, <2>4, <3>1, <3>2, DraftStays DEF Inv
  <2>10. RequestsSound' BY <1>9, <1>12, <2>3, <2>4, RequestsStay DEF Inv
  <2>11. ed' \in Editor /\ tasks' \subseteq Task BY <1>11, <1>12, <2>3
  <2>12. FlushSound' BY <1>9, <1>12, <2>3, FlushStays
  <2> QED BY <1>1, <1>9, <2>3, <2>4, <2>5, <2>8, <2>9, <2>10, <2>11, <2>12, AfterExecute
<1> QED BY <1>13, <1>14, <1>15

----------------------------------------------------------------------------
(* The invariant.                                                          *)

LEMMA InitInv == ASSUME Init PROVE Inv
<1>1. /\ NoEditor \in Editor /\ NoDraft \in Draft /\ node \in Node /\ got = NoCopy
    BY TextsAssumption DEF Init, NoEditor, Editor, States, Offer, Draft, Node
<1>2. 0 \in 0..MaxSessions BY BoundsAssumption
<1>3. TypeOK BY <1>1, <1>2 DEF Init, TypeOK, Left, NothingLeft
<1>4. PageSound BY DEF Init, PageSound
<1>5. RequestsSound BY DEF Init, RequestsSound
<1>6. EditorSound BY DEF Init, EditorSound
<1>7. DraftSound BY DEF Init, DraftSound, NoDraft
<1>8. LeftEditsKept BY DEF Init, LeftEditsKept, EditsKept, NothingLeft
<1>9. FlushSound BY DEF Init, FlushSound
<1> QED BY <1>3, <1>4, <1>5, <1>6, <1>7, <1>8, <1>9 DEF Inv

LEMMA StutterInv == ASSUME Inv, UNCHANGED vars PROVE Inv'
<1>1. Grows BY DEF vars, Grows
<1>2. RequestsSound' BY <1>1, RequestsStay DEF Inv, vars
<1>3. FlushSound' BY FlushStays DEF vars
<1> QED BY <1>1, <1>2, <1>3, OutsideStep DEF vars, Inv, TypeOK

LEMMA NextInv == ASSUME Inv, [Next]_vars PROVE Inv'
<1>1. CASE Open BY <1>1, OpenStep
<1>2. CASE Answer BY <1>2, AnswerStep
<1>3. CASE Load BY <1>3, LoadStep
<1>4. CASE Type BY <1>4, TypeStep
<1>5. CASE RestoreDraft BY <1>5, RestoreDraftStep
<1>6. CASE DiscardDraft BY <1>6, DiscardDraftStep
<1>7. CASE Retry BY <1>7, RetryStep
<1>8. CASE Done BY <1>8, DoneStep
<1>9. CASE Leave BY <1>9, LeaveStep
<1>10. CASE Logout BY <1>10, LogoutStep
<1>11. CASE Unload BY <1>11, UnloadStep
<1>12. CASE Expire BY <1>12, ExpireStep
<1>13. CASE Debounce BY <1>13, DebounceStep
<1>14. CASE GiveUp BY <1>14, GiveUpStep
<1>15. CASE Elsewhere BY <1>15, ElsewhereStep
<1>16. ASSUME NEW t \in tasks, Put(t) \/ ReadBack(t) \/ Lose(t) \/ Deliver(t) \/ DeliverLeft(t)
       PROVE  Inv'
    BY <1>16, PutStep, ReadBackStep, LoseStep, DeliverStep, DeliverLeftStep
<1>17. ASSUME NEW q \in wire, Arrive(q) PROVE Inv' BY <1>17, ArriveStep
<1>18. CASE UNCHANGED vars BY <1>18, StutterInv
<1> QED
    BY <1>1, <1>2, <1>3, <1>4, <1>5, <1>6, <1>7, <1>8, <1>9, <1>10, <1>11, <1>12, <1>13,
       <1>14, <1>15, <1>16, <1>17, <1>18
    DEF Next

----------------------------------------------------------------------------
(* The theorems.                                                           *)

(* The invariant is inductive: what runs and what is drafted builds only   *)
(* on texts its visit has seen, and on versions it may save over.          *)
THEOREM SpecInv == Spec => []Inv
<1>1. Init => Inv BY InitInv
<1>2. Inv /\ [Next]_vars => Inv' BY NextInv
<1> QED BY <1>1, <1>2, PTL DEF Spec

(* "Saved" is said only of the text on the screen, once it is stored: no   *)
(* late answer vouches for edits it did not carry (SaveWatch::accepts).    *)
THEOREM SpecSavedIsTrue == Spec => []SavedIsTrue
<1>1. Inv => SavedIsTrue BY DEF Inv, EditorSound, Told, SavedIsTrue
<1> QED BY <1>1, SpecInv, PTL

(* Unsaved text is never left without a save, a debounce or a shown        *)
(* failure, whichever answers come, are lost or are given up on.           *)
THEOREM SpecNoForgottenEdit == Spec => []NoForgottenEdit
<1>1. Inv => NoForgottenEdit BY DEF Inv, EditorSound, Told, NoForgottenEdit
<1> QED BY <1>1, SpecInv, PTL

(* What the editor says of the text on the screen is true, whichever       *)
(* answers come, are lost or are given up on (autosave_now, SaveWatch).    *)
THEOREM SpecStatusIsTrue == Spec => []StatusIsTrue
<1>1. SavedIsTrue /\ NoForgottenEdit => StatusIsTrue BY DEF StatusIsTrue
<1> QED BY <1>1, SpecSavedIsTrue, SpecNoForgottenEdit, PTL

(* Text an editor was closed on is stored since, or in the draft slot,     *)
(* unless it was typed back to the baseline with other text sent (the      *)
(* cleanup then sends nothing), or an earlier visit's flush was answered.  *)
THEOREM SpecLeftEditsKept == Spec => []LeftEditsKept
<1>1. Inv => LeftEditsKept BY DEF Inv
<1> QED BY <1>1, SpecInv, PTL

(* A draft is offered as still fitting the node only over a text that an   *)
(* earlier visit showed or sent.                                           *)
THEOREM SpecOfferTellsTruth == Spec => []OfferTellsTruth
<1>1. Inv => OfferTellsTruth BY DEF Inv, EditorSound, Held, OfferTellsTruth
<1> QED BY <1>1, SpecInv, PTL

(* Who stores a text had seen the one it replaces, or was told of it.      *)
LEMMA StoresOverSeen ==
    ASSUME Inv, NEW by \in Sessions, NEW t, NEW v, Matches(v), Store(by, t), Fits(v, by)
    PROVE  author' = by /\ (node.text \in known[by] \/ node.ver \in agreed[by])
  BY DEF Matches, Store, Fits

LEMMA NextOverwritesSeen ==
    ASSUME Inv, [Next]_vars, author' # 0, node'.text # node.text
    PROVE  node.text \in known[author'] \/ node.ver \in agreed[author']
<1>1. ASSUME NEW t \in tasks, Put(t)
      PROVE  node.text \in known[author'] \/ node.ver \in agreed[author']
  <2>1. t.by \in Sessions /\ Fits(t.expected, t.by)
      BY <1>1 DEF Put, Inv, TypeOK, RequestsSound, TaskSound, Task
  <2>2. Matches(t.expected) /\ Store(t.by, t.text) BY <1>1 DEF Put
  <2> QED BY <2>1, <2>2, StoresOverSeen
<1>2. ASSUME NEW q \in wire, Arrive(q)
      PROVE  node.text \in known[author'] \/ node.ver \in agreed[author']
  <2>1. q.by \in Sessions /\ Fits(q.expected, q.by)
      BY DEF Inv, TypeOK, RequestsSound, Request
  <2>2. Matches(q.expected) /\ Store(q.by, q.text) BY <1>2 DEF Arrive
  <2> QED BY <2>1, <2>2, StoresOverSeen
<1>3. ~Elsewhere
  <2> SUFFICES ASSUME Elsewhere PROVE FALSE OBVIOUS
  <2>1. PICK t \in Texts : /\ node' = [text |-> t, ver |-> node.ver + 1]
                           /\ author' = IF t = node.text THEN author ELSE 0
      BY DEF Elsewhere
  <2> QED BY <2>1
<1>4. ASSUME NEW t \in tasks, ReadBack(t) \/ Lose(t) \/ Deliver(t) \/ DeliverLeft(t)
      PROVE  UNCHANGED node
    BY <1>4 DEF ReadBack, Lose, Deliver, DeliverLeft
<1>5. ASSUME \/ Open \/ Answer \/ Load \/ Type \/ RestoreDraft \/ DiscardDraft \/ Retry
             \/ Done \/ Leave
      PROVE  UNCHANGED node
    BY <1>5 DEF Open, Answer, Load, Type, RestoreDraft, DiscardDraft, Retry, Done, Leave, Acts
<1>6. ASSUME Logout \/ Unload \/ Expire \/ Debounce \/ GiveUp \/ UNCHANGED vars
      PROVE  UNCHANGED node
    BY <1>6 DEF Logout, Unload, Expire, Debounce, GiveUp, vars
<1> QED BY <1>1, <1>2, <1>3, <1>4, <1>5, <1>6 DEF Next

(* No save replaces a text its editor has neither shown nor sent, unless   *)
(* the user was told of that version: the precondition is checked under    *)
(* the row's lock, and a 412 is retried only over the editor's own text.   *)
THEOREM SpecNeverOverwritesUnseen == Spec => NeverOverwritesUnseen
<1>1. Inv /\ [Next]_vars =>
        [author' # 0 /\ node'.text # node.text =>
            \/ node.text \in known[author']
            \/ node.ver \in agreed[author']]_vars
    BY NextOverwritesSeen
<1> QED BY <1>1, SpecInv, PTL DEF Spec, NeverOverwritesUnseen
============================================================================
