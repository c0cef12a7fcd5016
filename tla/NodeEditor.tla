---------------------------- MODULE NodeEditor ----------------------------
(***************************************************************************)
(* The node editor of the web client against the node it edits: autosave,  *)
(* the save watchdog, conditional saves (HTTP 412), the drafts kept on the *)
(* device, Done / Revert / Retry, the flush of an editor that is left, and *)
(* logout.  Every request is a task of its own: it may reach the server    *)
(* late, be answered late, or be lost on the way there or back.            *)
(*                                                                         *)
(* A text stands for the editor's (title, body, status) snapshot and for   *)
(* its fingerprint.  Versions (`updated_at`) are numbers; 0 is no version. *)
(* The editor waits on a save exactly while the watch has a current one,   *)
(* so `saving` is not kept apart from it.                                  *)
(***************************************************************************)
EXTENDS Naturals, FiniteSets

CONSTANTS
    Texts,        \* snapshots a user can type
    Start,        \* the node's text when the model starts
    Unset,        \* no text, draft or offer
    AbortFails,   \* whether a save may be without an AbortController
    MaxSessions,  \* bound: times the editor is opened
    MaxInputs,    \* bound: edits and button presses
    MaxForeign,   \* bound: changes made to the node elsewhere
    MaxLosses     \* bound: requests or answers lost, pages killed, drafts expired, logouts

ASSUME TextsAssumption == Start \in Texts /\ Unset \notin Texts
ASSUME BoundsAssumption ==
    /\ AbortFails \in BOOLEAN
    /\ MaxSessions \in Nat /\ MaxInputs \in Nat
    /\ MaxForeign \in Nat /\ MaxLosses \in Nat

VARIABLES
    node,       \* the row: its text and version
    tasks,      \* running put_unless_changed calls
    wire,       \* saves whose sender is gone, still able to reach the server
    page,       \* the editor: closed, loading, answered, open
    session,    \* which opening of the editor this is
    got,        \* what the load was answered with
    ed,         \* the open editor's signals
    draft,      \* the device's draft slot of this user and node
    loggedOut,  \* LOGGED_OUT of this page
    inputs, foreign, losses,  \* counters for the bounds
    author,     \* history: session that wrote the node's text, 0 for elsewhere
    known,      \* history: texts each session loaded or sent
    agreed,     \* history: versions each session was told of and overwrites
    landed,     \* history: texts that sessions stored
    left        \* history: the text the editor was last closed on, when the
                \* node may not hold it, and what became of it

history == <<author, known, agreed, landed>>
vars == <<node, tasks, wire, page, session, got, ed, draft, loggedOut,
          inputs, foreign, losses, author, known, agreed, landed, left>>

Sessions == 1..MaxSessions
Node  == [text : Texts, ver : Nat]
NoCopy == [text |-> Unset, ver |-> 0]
NoDraft == [text |-> Unset, base |-> {}]
Draft == [text : Texts, base : SUBSET Texts] \cup {NoDraft}
NoOffer == [text |-> Unset, base |-> "none"]
Offer == [text : Texts, base : {"unchanged", "changed"}] \cup {NoOffer}
States == {"idle", "dirty", "saving", "saved", "failed"}
Results == {"landed", "foreign", "error"}
Task == [by : Sessions, id : Nat, text : Texts, expected : Nat,
         own : SUBSET Texts, at : {"put", "stale", "resend"} \cup Results, ver : Nat]
Request == [by : Sessions, text : Texts, expected : Nat]
(* stored: since it was left; reverted: it was the baseline again, with     *)
(* other text sent; crossed: an earlier visit's flush cleared its draft.    *)
Left == [text : Texts \cup {Unset}, stored : BOOLEAN, reverted : BOOLEAN, crossed : BOOLEAN]
NothingLeft == [text |-> Unset, stored |-> FALSE, reverted |-> FALSE, crossed |-> FALSE]

Editor == [screen : Texts \cup {Unset}, opened : Texts \cup {Unset},
           base : Texts \cup {Unset}, ver : Nat, own : SUBSET Texts, conflict : Nat,
           state : States, nav : BOOLEAN, timer : BOOLEAN, last : Nat, current : Nat,
           offered : Offer]
NoEditor == [screen |-> Unset, opened |-> Unset, base |-> Unset, ver |-> 0,
             own |-> {}, conflict |-> 0, state |-> "idle", nav |-> FALSE,
             timer |-> FALSE, last |-> 0, current |-> 0, offered |-> NoOffer]

TypeOK ==
    /\ node \in Node /\ got \in Node \cup {NoCopy}
    /\ tasks \subseteq Task /\ wire \subseteq Request
    /\ page \in {"closed", "loading", "answered", "open"}
    /\ session \in 0..MaxSessions
    /\ ed \in Editor /\ draft \in Draft
    /\ loggedOut \in BOOLEAN
    /\ known \in [Sessions -> SUBSET Texts] /\ agreed \in [Sessions -> SUBSET Nat]
    /\ landed \subseteq Texts /\ left \in Left

Init ==
    /\ node = [text |-> Start, ver |-> 1]
    /\ tasks = {} /\ wire = {}
    /\ page = "closed" /\ session = 0 /\ got = NoCopy /\ ed = NoEditor
    /\ draft = NoDraft /\ loggedOut = FALSE
    /\ inputs = 0 /\ foreign = 0 /\ losses = 0
    /\ author = 0
    /\ known = [s \in Sessions |-> {}] /\ agreed = [s \in Sessions |-> {}]
    /\ landed = {}
    /\ left = NothingLeft

----------------------------------------------------------------------------
(* SaveWatch and the conflict rules.                                       *)

Begin(e) == [e EXCEPT !.last = @ + 1, !.current = e.last + 1]
InFlight(e) == e.current # 0
IsCurrent(e, id) == e.current # 0 /\ e.current = id
Settle(e, id) == IF IsCurrent(e, id) THEN [e EXCEPT !.current = 0] ELSE e

OwnWrite(server, own) == server \in own

(* Mutants: a logged-out page writes drafts all the same; a draft never     *)
(* replaces an older one.                                                   *)
WriteDraftAlways(d, text, base) == [text |-> text, base |-> base]
WriteDraftOnce(d, text, base) ==
    IF loggedOut \/ d # NoDraft THEN d ELSE [text |-> text, base |-> base]

(* A draft is written over whatever the slot held, unless this page has    *)
(* logged out.                                                             *)
WriteDraft(d, text, base) ==
    IF loggedOut THEN d ELSE [text |-> text, base |-> base]

(* Mutant: the fingerprints a draft was taken over are not looked at.       *)
RecoveryTrusting(d, server) ==
    IF d = NoDraft \/ d.text = server THEN NoOffer
    ELSE [text |-> d.text, base |-> "unchanged"]

Recovery(d, server) ==
    IF d = NoDraft \/ d.text = server THEN NoOffer
    ELSE [text |-> d.text,
          base |-> IF OwnWrite(server, d.base) THEN "unchanged" ELSE "changed"]

----------------------------------------------------------------------------
(* The save executor.  It runs as soon as autosave_now is set, and does    *)
(* nothing while a save is in flight or the text is the baseline.          *)

MaySave(e) == e.base # Unset /\ ~InFlight(e) /\ e.screen # e.base

Saving(e) == Begin([e EXCEPT !.state = "saving", !.own = @ \cup {e.screen}])

NewSave(e) ==
    [by |-> session, id |-> e.last + 1, text |-> e.screen, expected |-> e.ver,
     own |-> e.own \cup {e.screen}, at |-> "put", ver |-> 0]

(* Run the executor on editor e with tasks T and draft d.                  *)
Execute(e, T, d) ==
    IF MaySave(e)
    THEN /\ ed' = Saving(e)
         /\ tasks' = T \cup {NewSave(e)}
         /\ draft' = WriteDraft(d, e.screen, e.own)
         /\ known' = [known EXCEPT ![session] = @ \cup {e.screen}]
    ELSE ed' = e /\ tasks' = T /\ draft' = d /\ UNCHANGED known

(* What typing, Restore and Revert do to the signals: the change watcher   *)
(* marks the editor dirty and starts the debounce.                         *)
Typed(e, t) ==
    IF t = e.base THEN [e EXCEPT !.screen = t]
    ELSE [e EXCEPT !.screen = t, !.state = "dirty", !.timer = TRUE]

(* The editor unmounts: edits it has not saved go to the draft and out in  *)
(* a last save that nothing aborts or waits for.                           *)
Flushes(e) == e.base # Unset /\ e.screen # e.base
Unanswered(T) == {t \in T : t.id = 0 \/ t.at \notin Results}

(* The visit has sent text other than its baseline since that was stored:   *)
(* whatever the editor takes the node to hold, it may not be so.            *)
OtherSent(e, T) ==
    \/ e.own # {e.base}
    \/ \E q \in T : q.by = session /\ q.text # e.base
    \/ \E q \in wire : q.by = session /\ q.text # e.base

(* What is left behind by an editor that closes on e, tasks T running.      *)
LeftBy(e, T, reverted) ==
    IF loggedOut \/ e.base = Unset \/ (e.screen = e.base /\ ~OtherSent(e, T))
    THEN NothingLeft
    ELSE [text |-> e.screen, stored |-> FALSE, reverted |-> reverted, crossed |-> FALSE]

Unmount(e, T, d) ==
    /\ page' = "closed" /\ ed' = NoEditor /\ got' = NoCopy
    /\ left' = LeftBy(e, T, e.screen = e.base)
    /\ IF Flushes(e)
       THEN /\ draft' = WriteDraft(d, e.screen, e.own)
            /\ tasks' = Unanswered(T) \cup {[NewSave(e) EXCEPT !.id = 0]}
            /\ known' = [known EXCEPT ![session] = @ \cup {e.screen}]
       ELSE draft' = d /\ tasks' = Unanswered(T) /\ UNCHANGED known

----------------------------------------------------------------------------
(* Opening the editor.                                                     *)

Open ==
    /\ page = "closed" /\ session < MaxSessions
    /\ page' = "loading" /\ session' = session + 1
    /\ left' = NothingLeft
    /\ UNCHANGED <<node, tasks, wire, got, ed, draft, loggedOut, inputs,
                   foreign, losses, history>>

(* GET /nodes/{id}: the answer may be old by the time it is shown.         *)
Answer ==
    /\ page = "loading"
    /\ got' = node
    /\ page' = "answered"
    /\ UNCHANGED <<node, tasks, wire, session, ed, draft, loggedOut, inputs,
                   foreign, losses, history, left>>

Load ==
    /\ page = "answered"
    /\ page' = "open"
    /\ ed' = [NoEditor EXCEPT !.screen = got.text, !.opened = got.text,
                              !.base = got.text, !.ver = got.ver, !.own = {got.text},
                              !.offered = Recovery(draft, got.text)]
    /\ draft' = IF draft.text = got.text THEN NoDraft ELSE draft
    /\ known' = [known EXCEPT ![session] = @ \cup {got.text}]
    /\ got' = NoCopy
    /\ UNCHANGED <<node, tasks, wire, session, loggedOut, inputs, foreign,
                   losses, author, agreed, landed, left>>

----------------------------------------------------------------------------
(* The user at the open editor.                                            *)

Acts ==
    /\ page = "open" /\ inputs < MaxInputs
    /\ inputs' = inputs + 1
    /\ UNCHANGED <<node, wire, session, loggedOut, foreign, losses, author, landed>>

Type ==
    /\ Acts
    /\ \E t \in Texts \ {ed.screen} : ed' = Typed(ed, t)
    /\ UNCHANGED <<tasks, page, got, draft, known, agreed, left>>

RestoreDraft ==
    /\ Acts /\ ed.offered # NoOffer
    /\ ed' = [Typed(ed, ed.offered.text) EXCEPT !.offered = NoOffer]
    /\ UNCHANGED <<tasks, page, got, draft, known, agreed, left>>

DiscardDraft ==
    /\ Acts /\ ed.offered # NoOffer
    /\ ed' = [ed EXCEPT !.offered = NoOffer]
    /\ draft' = NoDraft
    /\ UNCHANGED <<tasks, page, got, known, agreed, left>>

(* After a refusal, an explicit save takes over the version it was told of.*)
Adopt(e) == IF e.conflict = 0 THEN e ELSE [e EXCEPT !.ver = e.conflict, !.conflict = 0]
Agree(e) ==
    agreed' = IF e.conflict = 0 THEN agreed
              ELSE [agreed EXCEPT ![session] = @ \cup {e.conflict}]

(* Retry, by its button or (unless the node changed elsewhere) by the      *)
(* browser coming back online.                                             *)
Retry ==
    /\ Acts /\ ed.state = "failed"
    /\ \/ Agree(ed) /\ Execute(Adopt(ed), tasks, draft)
       \/ ed.conflict = 0 /\ Execute(ed, tasks, draft) /\ UNCHANGED agreed
    /\ UNCHANGED <<page, got, left>>

(* Done, and Revert to the node as it was opened; both buttons are off     *)
(* while a save is in flight.                                              *)
Done ==
    /\ Acts /\ ~InFlight(ed)
    /\ \E revert \in BOOLEAN :
        LET e == IF revert THEN Typed(ed, ed.opened) ELSE ed IN
        /\ revert => ed.screen # ed.opened
        /\ IF e.screen = e.base
           THEN Unmount(e, tasks, draft) /\ UNCHANGED agreed
           ELSE /\ Agree(e)
                /\ Execute([Adopt(e) EXCEPT !.nav = TRUE], tasks, draft)
                /\ UNCHANGED <<page, got, left>>

(* Escape, a link, the browser's back button.                              *)
Leave ==
    /\ page # "closed"
    /\ Unmount(ed, tasks, draft)
    /\ UNCHANGED <<node, wire, session, loggedOut, inputs, foreign, losses,
                   author, agreed, landed>>

(* Logout wipes the drafts; the page lives on until it is redirected.      *)
Logout ==
    /\ ~loggedOut /\ losses < MaxLosses /\ losses' = losses + 1
    /\ loggedOut' = TRUE /\ draft' = NoDraft /\ left' = NothingLeft
    /\ UNCHANGED <<node, tasks, wire, page, session, got, ed, inputs, foreign,
                   history>>

(* The page goes: its requests on the way may still arrive.                *)
Orphans(T) == {[by |-> q.by, text |-> q.text, expected |-> q.expected] :
                   q \in {t \in T : t.at \in {"put", "resend"}}}

(* A reload, a redirect or a closed tab runs beforeunload; a killed page   *)
(* does not.                                                               *)
Unload ==
    /\ page # "closed" \/ tasks # {} \/ loggedOut
    /\ LET held == page = "open" /\ (ed.screen # ed.base \/ InFlight(ed)) IN
       \/ /\ draft' = IF held THEN WriteDraft(draft, ed.screen, ed.own) ELSE draft
          /\ left' = IF page = "open" THEN LeftBy(ed, tasks, ~held) ELSE left
          /\ UNCHANGED losses
       \/ /\ losses < MaxLosses /\ losses' = losses + 1
          /\ UNCHANGED <<draft, left>>
    /\ page' = "closed" /\ ed' = NoEditor /\ got' = NoCopy /\ loggedOut' = FALSE
    /\ wire' = wire \cup Orphans(tasks) /\ tasks' = {}
    /\ UNCHANGED <<node, session, inputs, foreign, history>>

(* Two weeks after its last write a draft is dropped.                      *)
Expire ==
    /\ draft # NoDraft /\ losses < MaxLosses /\ losses' = losses + 1
    /\ draft' = NoDraft /\ left' = NothingLeft
    /\ UNCHANGED <<node, tasks, wire, page, session, got, ed, loggedOut, inputs,
                   foreign, history>>

----------------------------------------------------------------------------
(* Timers.                                                                 *)

Debounce ==
    /\ page = "open" /\ ed.timer
    /\ Execute([ed EXCEPT !.timer = FALSE], tasks, draft)
    /\ UNCHANGED <<node, wire, page, session, got, loggedOut, inputs, foreign,
                   losses, author, agreed, landed, left>>

(* The give-up timer of the current save: the editor stops waiting.  With  *)
(* an AbortController the request's task ends here; what it sent may have  *)
(* reached the server, or still do so.                                     *)
GiveUp ==
    /\ page = "open" /\ InFlight(ed)
    /\ ed' = [Settle(ed, ed.current) EXCEPT !.state = "failed", !.nav = FALSE]
    /\ draft' = WriteDraft(draft, ed.screen, ed.own)
    /\ LET it == {t \in tasks : t.by = session /\ t.id = ed.current} IN
       \/ tasks' = tasks \ it /\ wire' = wire \cup Orphans(it)
       \/ AbortFails /\ UNCHANGED <<tasks, wire>>
    /\ UNCHANGED <<node, page, session, got, loggedOut, inputs, foreign, losses,
                   history, left>>

----------------------------------------------------------------------------
(* put_unless_changed, and the server.                                     *)

(* Mutant: the precondition is not checked under the row's lock.            *)
MatchesAny(expected) == TRUE

(* PUT /nodes/{id} with a precondition: the row is locked and read, and    *)
(* only the version the sender named is written.                           *)
Matches(expected) == node.ver = expected
Store(by, t) ==
    /\ node' = [text |-> t, ver |-> node.ver + 1]
    /\ author' = by
    /\ landed' = landed \cup {t}
    /\ left' = IF left.text = t THEN [left EXCEPT !.stored = TRUE] ELSE left

(* No one heeds the answer of a save whose editor is gone, nor the failure *)
(* of a flush.                                                             *)
Heeded(t) == IF t.id = 0 THEN t.at \notin {"foreign", "error"}
             ELSE t.at \notin Results \/ (page = "open" /\ t.by = session)
Become(t, at, ver) ==
    tasks' = (tasks \ {t}) \cup {u \in {[t EXCEPT !.at = at, !.ver = ver]} : Heeded(u)}

Put(t) ==
    /\ t.at \in {"put", "resend"}
    /\ IF Matches(t.expected)
       THEN Store(t.by, t.text) /\ Become(t, "landed", node.ver + 1)
       ELSE /\ Become(t, IF t.at = "put" THEN "stale" ELSE "error", 0)
            /\ UNCHANGED <<node, author, landed, left>>
    /\ UNCHANGED <<wire, page, session, got, ed, draft, loggedOut, inputs, foreign,
                   losses, known, agreed>>

(* A 412: read the node back; text this editor sent is built on, any other *)
(* is reported with its version.                                           *)
ReadBack(t) ==
    /\ t.at = "stale"
    /\ IF OwnWrite(node.text, t.own)
       THEN tasks' = (tasks \ {t}) \cup
                         {[t EXCEPT !.at = "resend", !.expected = node.ver]}
       ELSE Become(t, "foreign", node.ver)
    /\ UNCHANGED <<node, wire, page, session, got, ed, draft, loggedOut, inputs, foreign,
                   losses, history, left>>

(* The network fails a request before or after the server saw it.          *)
Lose(t) ==
    /\ losses < MaxLosses /\ losses' = losses + 1
    /\ t.at \notin {"error", "foreign"}
    /\ Become(t, "error", 0)
    /\ wire' = wire \cup Orphans({t})
    /\ UNCHANGED <<node, page, session, got, ed, draft, loggedOut, inputs, foreign,
                   history, left>>

(* A save no one waits for arrives, or never does.                         *)
Arrive(q) ==
    /\ wire' = wire \ {q}
    /\ \/ Matches(q.expected) /\ Store(q.by, q.text)
       \/ UNCHANGED <<node, author, landed, left>>
    /\ UNCHANGED <<tasks, page, session, got, ed, draft, loggedOut, inputs, foreign,
                   losses, known, agreed>>

(* Mutant: what is on the screen, not what was sent, becomes the baseline.  *)
ConfirmedScreen(e, t) ==
    [e EXCEPT !.own = {t.text}, !.ver = t.ver, !.base = e.screen, !.state = "saved"]

(* The answer of a save of the open editor.  Edits made since are noticed  *)
(* by the change watcher, which also runs when the baseline moves.         *)
Confirmed(e, t) ==
    [e EXCEPT !.own = {t.text}, !.ver = t.ver, !.base = t.text, !.state = "saved",
              !.timer = @ \/ e.screen # t.text]
Refused(e, t) ==
    [e EXCEPT !.state = "failed", !.nav = FALSE,
              !.conflict = IF t.at = "foreign" THEN t.ver ELSE @]

Deliver(t) ==
    /\ page = "open" /\ t.by = session /\ t.id # 0 /\ t.at \in Results
    /\ LET current == IsCurrent(ed, t.id)
           e == Settle(ed, t.id)
           T == tasks \ {t}
           accepted == t.at = "landed" /\ (current \/ ~InFlight(e))
           kept == IF accepted /\ e.screen = t.text THEN NoDraft ELSE draft
           after == IF accepted THEN Confirmed(e, t)
                    ELSE IF current THEN Refused(e, t) ELSE e
       IN \/ /\ accepted /\ current /\ e.nav
             /\ Unmount([after EXCEPT !.nav = FALSE], T, kept)
          \/ /\ ~(accepted /\ current /\ e.nav)
             /\ LET d == IF ~accepted /\ current
                         THEN WriteDraft(draft, ed.screen, ed.own) ELSE kept IN
                IF ~InFlight(after) /\ after.state # "failed"
                THEN Execute(after, T, d)
                ELSE ed' = after /\ tasks' = T /\ draft' = d /\ UNCHANGED known
             /\ UNCHANGED <<page, got, left>>
    /\ UNCHANGED <<node, wire, session, loggedOut, inputs, foreign, losses,
                   author, agreed, landed>>

(* The answer of a flush.                                                  *)
DeliverLeft(t) ==
    /\ t.id = 0 /\ t.at = "landed"
    /\ tasks' = tasks \ {t}
    /\ draft' = NoDraft
    /\ left' = [left EXCEPT !.crossed = @ \/ (left.text # Unset /\ t.by # session)]
    /\ UNCHANGED <<node, wire, page, session, got, ed, loggedOut, inputs, foreign,
                   losses, history>>

----------------------------------------------------------------------------
(* The node changes elsewhere: another client, a restored version (new     *)
(* text), or a pin or status chip (the version only).                      *)
Elsewhere ==
    /\ foreign < MaxForeign /\ foreign' = foreign + 1
    /\ \E t \in Texts :
        /\ node' = [text |-> t, ver |-> node.ver + 1]
        /\ author' = IF t = node.text THEN author ELSE 0
    /\ UNCHANGED <<tasks, wire, page, session, got, ed, draft, loggedOut, inputs,
                   losses, known, agreed, landed, left>>

Next ==
    \/ Open \/ Answer \/ Load
    \/ Type \/ RestoreDraft \/ DiscardDraft \/ Retry \/ Done \/ Leave
    \/ Logout \/ Unload \/ Expire
    \/ Debounce \/ GiveUp \/ Elsewhere
    \/ \E t \in tasks : Put(t) \/ ReadBack(t) \/ Lose(t) \/ Deliver(t) \/ DeliverLeft(t)
    \/ \E q \in wire : Arrive(q)

Spec == Init /\ [][Next]_vars

----------------------------------------------------------------------------
(* Properties.                                                             *)

(* A save never replaces a text its editor has neither shown nor sent,     *)
(* unless the user was told of that very version and saved over it.        *)
NeverOverwritesUnseen ==
    [][author' # 0 /\ node'.text # node.text =>
          \/ node.text \in known[author']
          \/ node.ver \in agreed[author']]_vars

(* "Saved" is said only of the text on the screen, and of text the server  *)
(* has stored.                                                             *)
SavedIsTrue ==
    page = "open" /\ ed.state = "saved" => ed.screen = ed.base /\ ed.base \in landed

(* Text that differs from what was last saved is never just left there: a  *)
(* save is in flight, the debounce is running, or the failure is shown.    *)
NoForgottenEdit ==
    page = "open" /\ ed.screen # ed.base =>
        InFlight(ed) \/ ed.timer \/ ed.state = "failed"

(* What the editor says of the text on the screen is true, in both ways.    *)
StatusIsTrue == SavedIsTrue /\ NoForgottenEdit

(* Text an editor was closed on has been stored since, or is in the draft  *)
(* that the next visit offers.                                             *)
EditsKept == left.text # Unset => left.stored \/ draft.text = left.text

(* So it is, with two exceptions.  An edit typed back to the baseline      *)
(* while a save of it was out is no edit to the code: when that save lands,*)
(* the node keeps what the user had taken back.  And the answer of an      *)
(* earlier visit's flush clears the draft slot of both.                    *)
LeftEditsKept == ~left.reverted /\ ~left.crossed => EditsKept

(* A draft is offered as still fitting the node only when the text it      *)
(* would replace is one an earlier visit showed or sent.                   *)
OfferTellsTruth ==
    page = "open" /\ ed.offered.base = "unchanged" =>
        \E s \in Sessions : s < session /\ ed.opened \in known[s]

----------------------------------------------------------------------------
(* The inductive invariant.                                                *)

(* Session s may save over version v: the row has moved on from it, or it  *)
(* is a text s has seen, or s was told of it.                              *)
Fits(v, s) == /\ v <= node.ver
              /\ v = node.ver => node.text \in known[s] \/ v \in agreed[s]

PageSound ==
    /\ page # "closed" => session \in Sessions /\ left = NothingLeft
    /\ page # "open" => ed = NoEditor
    /\ page = "answered" => /\ got \in Node /\ got.ver <= node.ver
                            /\ got.ver = node.ver => got.text = node.text
    /\ loggedOut => draft = NoDraft

(* What runs and what is on the wire names a version that its sender may   *)
(* save over, and an answer a version that its sender has seen.            *)
TaskSound(t) ==
    /\ t.text \in known[t.by] /\ t.own \subseteq known[t.by]
    /\ t.at \in {"put", "resend"} => Fits(t.expected, t.by)
    /\ t.at = "landed" => Fits(t.ver, t.by) /\ t.text \in landed
    /\ t.at = "foreign" => t.ver <= node.ver
RequestsSound ==
    /\ \A t \in tasks : TaskSound(t)
    /\ \A q \in wire : Fits(q.expected, q.by)

(* The open editor builds on texts it has seen and a version it may save   *)
(* over, and what it says of its text is so.                               *)
Held(e) ==
    /\ e.screen \in Texts /\ e.base \in Texts /\ e.opened \in Texts
    /\ e.own \subseteq known[session]
    /\ Fits(e.ver, session) /\ e.conflict <= node.ver
    /\ e.offered.base = "unchanged" => \E s \in Sessions : s < session /\ e.opened \in known[s]
Told(e) ==
    /\ e.state = "saved" => e.screen = e.base /\ e.base \in landed
    /\ e.screen # e.base => InFlight(e) \/ e.timer \/ e.state = "failed"
EditorSound == page = "open" => Held(ed) /\ Told(ed)

(* The draft was taken over texts that its visit, and no later one, knew.  *)
DraftSound ==
    \A x \in draft.base : \E s \in Sessions :
        x \in known[s] /\ s <= session /\ (page \in {"loading", "answered"} => s < session)

(* A flush is of a visit that is over, and carries what that one left.     *)
FlushSound ==
    \A t \in tasks :
        /\ t.by <= session
        /\ t.id = 0 /\ t.by = session =>
              /\ page = "closed"
              /\ left.text # Unset =>
                    t.text = left.text /\ (t.at = "landed" => left.stored)

Inv == TypeOK /\ PageSound /\ RequestsSound /\ EditorSound /\ DraftSound
           /\ FlushSound /\ LeftEditsKept
============================================================================
