------------------------------- MODULE Session -------------------------------
(***************************************************************************)
(* A signed-in tab: its calls, the gate through which a call refused with  *)
(* 401 renews the session, the cookies of the browser, the service worker  *)
(* that caches what GETs answer, and the log-out.  The server checks the   *)
(* session token by itself; the identity provider honours one refresh      *)
(* token of a session and may rotate it at each renewal.                   *)
(***************************************************************************)
EXTENDS Naturals, FiniteSets

CONSTANTS
    Calls,        \* calls the page may have under way at once
    None,
    MaxSent,      \* bound: calls sent by the page
    MaxTokens,    \* bound: session tokens issued
    MaxFaults     \* bound: lost or failed requests, abandoned renewals

ASSUME NoneAssumption == None \notin Calls
ASSUME BoundsAssumption == MaxSent \in Nat /\ MaxTokens \in Nat \ {0} /\ MaxFaults \in Nat

VARIABLES
    page,       \* what the tab shows: away at a login page, booting, or open
    call,       \* the calls of the page
    gen, slot,  \* the gate: successful refreshes, and who is refreshing
    renewal,    \* requests to /auth/refresh, by the call that leads them
    leaving,    \* the log-out
    jar,        \* the cookies: session token and refresh token
    issued, expired,   \* session tokens: the last issued, the last expired
    good,       \* the refresh token the provider honours
    login,      \* how many times someone has signed in
    cached,     \* the sign-ins whose answers the worker has cached
    puts,       \* answers the worker is about to cache
    sent, faults,
    lost,       \* history: a renewal went without its answer
    misread,    \* history: a failing provider was taken for a refusal in this visit
    asked,      \* history: whether this sign-in has asked to log out, or is out
    ended,      \* history: sign-ins that the user or a refused GET ended
    strays      \* history: sign-ins with answers under way at a purge, or renewed after it

gate == <<gen, slot>>
net == <<jar, issued, expired, good, login>>
worker == <<cached, puts, ended, strays>>
vars == <<page, call, gate, renewal, leaving, net, worker, sent, faults, lost, misread, asked>>

Kinds == {"get", "write", "probe"}
Outcomes == {"refreshed", "rejected", "unavailable"}
Call == [at : {"idle", "sent", "answered", "refused", "waits", "leads", "again", "login"},
         kind : Kinds, gen : Nat, token : Nat, again : BOOLEAN, applied : Nat]
Unsent == [at |-> "idle", kind |-> "get", gen |-> 0, token |-> 0, again |-> FALSE,
           applied |-> 0]
Renewal == [at : {"none", "asked", "issued", "refused", "failed"}, refresh : Nat, token : Nat,
            heard : {"page", "browser", "nobody"}]
NoRenewal == [at |-> "none", refresh |-> 0, token |-> 0, heard |-> "page"]
Fail == faults < MaxFaults /\ faults' = faults + 1

TypeOK ==
    /\ page \in {"away", "boot", "open"}
    /\ call \in [Calls -> Call] /\ renewal \in [Calls -> Renewal]
    /\ gen \in Nat /\ slot \in Calls \cup {None}
    /\ leaving \in {"no", "asked", "served"} /\ asked \in {"no", "asked", "out"}
    /\ jar \in [session : Nat, refresh : Nat]
    /\ issued \in Nat /\ expired \in Nat /\ good \in Nat /\ login \in Nat \ {0}
    /\ cached \subseteq Nat /\ puts \in [Calls -> Nat]
    /\ ended \subseteq Nat \ {0} /\ strays \subseteq Nat
    /\ lost \in BOOLEAN /\ misread \in BOOLEAN

(* Someone has signed in and the page is open.                             *)
Init ==
    /\ page = "open" /\ call = [c \in Calls |-> Unsent]
    /\ gen = 0 /\ slot = None
    /\ renewal = [c \in Calls |-> NoRenewal] /\ leaving = "no"
    /\ jar = [session |-> 1, refresh |-> 1]
    /\ issued = 1 /\ expired = 0 /\ good = 1 /\ login = 1
    /\ cached = {} /\ puts = [c \in Calls |-> 0] /\ ended = {} /\ strays = {}
    /\ sent = 0 /\ faults = 0 /\ lost = FALSE /\ misread = FALSE
    /\ asked = "no"

----------------------------------------------------------------------------
(* The service worker.                                                     *)

Underway == {login : c \in {d \in Calls : call[d].at \in {"sent", "answered"}}}
            \cup ({puts[c] : c \in Calls} \ {0})
Purged == cached' = {} /\ strays' = strays \cup Underway

(* The answer of a GET is handed over first and cached a moment later.     *)
Put(c) ==
    /\ puts[c] # 0
    /\ cached' = cached \cup {puts[c]}
    /\ puts' = [puts EXCEPT ![c] = 0]
    /\ UNCHANGED <<page, call, gate, renewal, leaving, net, ended, strays, sent, faults,
                   lost, misread, asked>>

----------------------------------------------------------------------------
(* A call: send_authed.  At boot there is just the probe of /auth/me.      *)

Send(c) ==
    /\ call[c].at = "idle" /\ renewal[c].at = "none" /\ puts[c] = 0
    /\ sent < MaxSent /\ sent' = sent + 1
    /\ \E kind \in Kinds :
        /\ kind = "probe" <=> page = "boot"
        /\ page = "boot" => \A d \in Calls : call[d].at = "idle"
        /\ page # "away"
        /\ call' = [call EXCEPT ![c] = [at |-> "sent", kind |-> kind, gen |-> gen,
                        token |-> jar.session, again |-> FALSE,
                        applied |-> 0]]
    /\ UNCHANGED <<page, gate, renewal, leaving, net, worker, faults, lost, misread,
                   asked>>

(* require_auth turns away what has no valid token before any handler runs.*)
Serve(c) ==
    /\ call[c].at = "sent"
    /\ LET valid == call[c].token > expired IN
       call' = [call EXCEPT ![c].at = IF valid THEN "answered" ELSE "refused",
                            ![c].applied = IF valid THEN @ + 1 ELSE @]
    /\ UNCHANGED <<page, gate, renewal, leaving, net, worker, sent, faults, lost,
                   misread, asked>>

ArriveOk(c) ==
    /\ call[c].at = "answered"
    /\ puts' = IF call[c].kind = "get" THEN [puts EXCEPT ![c] = login] ELSE puts
    /\ page' = IF call[c].kind = "probe" THEN "open" ELSE page
    /\ call' = [call EXCEPT ![c] = Unsent]
    /\ UNCHANGED <<gate, renewal, leaving, net, cached, ended, strays, sent, faults,
                   lost, misread, asked>>

(* No answer: the worker falls back on its cache, or the caller is told.   *)
NoAnswer(c) ==
    /\ call[c].at \in {"sent", "answered", "refused"} /\ Fail
    /\ call' = [call EXCEPT ![c] = Unsent]
    /\ UNCHANGED <<page, gate, renewal, leaving, net, worker, sent, lost, misread,
                   asked>>

(* Mutant: the gate forgets which refreshes a call has seen.               *)
RenewedSinceNever(c) == FALSE
RenewedSince(c) == gen > call[c].gen

(* Mutant: a refresh under way keeps nobody from starting another.         *)
MayLeadAlways(c) == TRUE
MayLead(c) == slot = None

(* A 401.  The worker purges before it hands a GET its 401.  A call is     *)
(* renewed for once; then it leads a refresh, or waits for the one leading.*)
ArriveRefused(c) ==
    /\ call[c].at = "refused"
    /\ IF call[c].kind = "get" THEN Purged ELSE UNCHANGED <<cached, strays>>
    /\ LET step == IF call[c].again THEN "login"
                   ELSE IF RenewedSince(c) THEN "again"
                   ELSE IF MayLead(c) THEN "leads"
                   ELSE "waits" IN
       /\ call' = [call EXCEPT ![c].at = step]
       /\ IF step = "leads"
          THEN /\ slot' = c
               /\ renewal' = [renewal EXCEPT ![c] = [NoRenewal EXCEPT !.at = "asked",
                                                                     !.refresh = jar.refresh]]
          ELSE UNCHANGED <<slot, renewal>>
    /\ UNCHANGED <<page, gen, leaving, net, puts, ended, sent, faults, lost, misread,
                   asked>>

Resend(c) ==
    /\ call[c].at = "again"
    /\ call' = [call EXCEPT ![c].at = "sent", ![c].again = TRUE, ![c].token = jar.session]
    /\ UNCHANGED <<page, gate, renewal, leaving, net, worker, sent, faults, lost,
                   misread, asked>>

----------------------------------------------------------------------------
(* Renewal.                                                                *)

(* Where an outcome takes the call that led the refresh and those waiting. *)
After(c, outcome) == CASE outcome = "refreshed" -> [call[c] EXCEPT !.at = "again"]
                       [] outcome = "rejected" -> [call[c] EXCEPT !.at = "login"]
                       [] outcome = "unavailable" -> Unsent

(* Mutant: the slot of a leader that is dropped is never settled.          *)
SettleLeader(c, outcome) ==
    /\ call' = [call EXCEPT ![c] = After(c, outcome)]
    /\ slot' = None
    /\ gen' = IF outcome = "refreshed" THEN gen + 1 ELSE gen
(* Lead's drop: the slot is settled and everyone waiting on it resumes.    *)
Settle(c, outcome) ==
    /\ call' = [d \in Calls |-> IF d = c \/ call[d].at = "waits"
                                THEN After(d, outcome) ELSE call[d]]
    /\ slot' = None
    /\ gen' = IF outcome = "refreshed" THEN gen + 1 ELSE gen

(* The provider gives new tokens for the refresh token it honours, and may *)
(* put another in its place.                                               *)
Honoured(c) == good # 0 /\ renewal[c].refresh = good
Exchanged == /\ issued < MaxTokens /\ issued' = issued + 1
             /\ good' \in {good, issued + 1}

ServeRenewal(c) ==
    /\ renewal[c].at = "asked"
    /\ IF Honoured(c)
       THEN /\ Exchanged
            /\ renewal' = [renewal EXCEPT ![c].at = "issued", ![c].token = issued + 1,
                                          ![c].refresh = good']
       ELSE renewal' = [renewal EXCEPT ![c].at = "refused"] /\ UNCHANGED <<issued, good>>
    /\ UNCHANGED <<page, call, gate, leaving, jar, expired, login, worker, sent, faults,
                   lost, misread, asked>>

(* The network or the server fails; or the provider does, and whatever it  *)
(* answers but success is a 401 to the page; or the check of the tokens it *)
(* gave, and they are lost.                                                *)
RenewalFails(c) ==
    /\ renewal[c].at = "asked" /\ Fail
    /\ \/ /\ renewal' = [renewal EXCEPT ![c].at = "failed"]
          /\ UNCHANGED <<issued, good, lost, misread>>
       \/ /\ Honoured(c)
          /\ renewal' = [renewal EXCEPT ![c].at = "refused"]
          /\ misread' = TRUE
          /\ UNCHANGED <<issued, good, lost>>
       \/ /\ Honoured(c) /\ Exchanged
          /\ \E at \in {"failed", "refused"} : renewal' = [renewal EXCEPT ![c].at = at]
          /\ lost' = TRUE
          /\ UNCHANGED misread
    /\ UNCHANGED <<page, call, gate, leaving, jar, expired, login, worker, sent, asked>>

Outcome(c) == CASE renewal[c].at = "issued" -> "refreshed"
                [] renewal[c].at = "refused" -> "rejected"
                [] renewal[c].at = "failed" -> "unavailable"

(* The browser takes the cookies of an answer that nobody waits for, too,  *)
(* unless the request was aborted.                                         *)
ArriveRenewal(c) ==
    /\ renewal[c].at \in {"issued", "refused", "failed"}
    /\ jar' = IF renewal[c].at = "issued" /\ renewal[c].heard # "nobody"
              THEN [session |-> renewal[c].token, refresh |-> renewal[c].refresh]
              ELSE jar
    /\ IF renewal[c].heard = "page" THEN Settle(c, Outcome(c)) ELSE UNCHANGED <<call, gate>>
    /\ renewal' = [renewal EXCEPT ![c] = NoRenewal]
    /\ strays' = IF asked = "out" /\ jar' # jar THEN strays \cup {login} ELSE strays
    /\ UNCHANGED <<page, leaving, issued, expired, good, login, cached, puts, ended,
                   sent, faults, lost, misread, asked>>

(* Ten seconds without an answer, or the network fails.                    *)
Abandon(c) ==
    /\ call[c].at = "leads"
    /\ renewal' = [renewal EXCEPT ![c].heard = "nobody"]
    /\ Settle(c, "unavailable")
    /\ lost' = TRUE
    /\ UNCHANGED <<page, leaving, net, worker, sent, faults, misread, asked>>

(* The future of the leading call is dropped; its request goes on.         *)
DropLead(c) ==
    /\ call[c].at = "leads" /\ Fail
    /\ renewal' = [renewal EXCEPT ![c].heard = "browser"]
    /\ Settle(c, "unavailable")
    /\ lost' = TRUE
    /\ UNCHANGED <<page, leaving, net, worker, sent, misread, asked>>

----------------------------------------------------------------------------
(* Leaving and signing in.                                                 *)

(* Mutant: the gate outlives its page.                                     *)
TornDownGateStays ==
    /\ page' = "away"
    /\ call' = [c \in Calls |-> Unsent]
    /\ UNCHANGED gate
    /\ renewal' = [c \in Calls |-> IF renewal[c].at = "none" THEN NoRenewal
                                   ELSE [renewal[c] EXCEPT !.heard = "nobody"]]
    /\ lost' = (lost \/ \E c \in Calls : renewal[c].at # "none")
    /\ leaving' = "no" /\ misread' = FALSE
(* The tab goes to another page: what the page had under way is aborted.   *)
TornDown ==
    /\ page' = "away"
    /\ call' = [c \in Calls |-> Unsent]
    /\ slot' = None /\ gen' = 0
    /\ renewal' = [c \in Calls |-> IF renewal[c].at = "none" THEN NoRenewal
                                   ELSE [renewal[c] EXCEPT !.heard = "nobody"]]
    /\ lost' = (lost \/ \E c \in Calls : renewal[c].at # "none")
    /\ leaving' = "no" /\ misread' = FALSE

(* The address of the login page is fetched first: until it is there, and  *)
(* for good if it does not come, the call stays where it is.               *)
ToLogin(c) ==
    /\ call[c].at = "login"
    /\ TornDown
    /\ ended' = IF call[c].kind = "get" /\ ~lost /\ ~misread THEN ended \cup {login} ELSE ended
    /\ UNCHANGED <<net, cached, puts, strays, sent, faults, asked>>

(* The probe at boot is out of attempts.                                   *)
GiveUpBoot ==
    /\ page = "boot" /\ \A c \in Calls : call[c].at = "idle"
    /\ TornDown
    /\ UNCHANGED <<net, worker, sent, faults, asked>>

(* A log-out sends no refresh token, whose cookie is for /auth/refresh     *)
(* only: so it revokes none, and takes none out of the browser.            *)
AskLogout ==
    /\ page = "open" /\ leaving = "no"
    /\ leaving' = "asked" /\ asked' = "asked"
    /\ UNCHANGED <<page, call, gate, renewal, net, worker, sent, faults, lost, misread>>

(* Mutant: the answer is not followed by a purge.                          *)
LogoutUnpurged ==
    /\ leaving = "asked"
    /\ jar' = [jar EXCEPT !.session = 0]
    /\ leaving' = "served" /\ asked' = "out"
    /\ UNCHANGED <<page, call, gate, renewal, issued, expired, good, login, worker,
                   sent, faults, lost, misread>>
(* The answer takes the session cookie; the worker purges, and the page is *)
(* on its way out.                                                         *)
Logout ==
    /\ leaving = "asked"
    /\ jar' = [jar EXCEPT !.session = 0]
    /\ Purged
    /\ leaving' = "served" /\ asked' = "out"
    /\ UNCHANGED <<page, call, gate, renewal, issued, expired, good, login, puts, ended,
                   sent, faults, lost, misread>>

(* Without an answer the worker purges all the same, and the page stays.   *)
LogoutFails ==
    /\ leaving = "asked" /\ Fail
    /\ leaving' = "no"
    /\ Purged
    /\ UNCHANGED <<page, call, gate, renewal, net, puts, ended, sent, lost, misread,
                   asked>>

GoAway ==
    /\ leaving = "served"
    /\ TornDown
    /\ ended' = ended \cup {login}
    /\ UNCHANGED <<net, cached, puts, strays, sent, faults, asked>>

(* The application is opened again.                                        *)
Boot ==
    /\ page = "away"
    /\ page' = "boot"
    /\ UNCHANGED <<call, gate, renewal, leaving, net, worker, sent, faults, lost,
                   misread, asked>>

Login ==
    /\ page = "away"
    /\ issued < MaxTokens /\ issued' = issued + 1
    /\ login' = login + 1
    /\ jar' = [session |-> issued + 1, refresh |-> issued + 1]
    /\ good' = issued + 1
    /\ page' = "boot"
    /\ lost' = (\E c \in Calls : renewal[c].at # "none")
    /\ asked' = "no"
    /\ UNCHANGED <<call, gate, renewal, leaving, expired, worker, sent, faults,
                   misread>>

(* The refresh token runs out, or is revoked with a suspended account.     *)
SessionEnds ==
    /\ good # 0 /\ good' = 0
    /\ UNCHANGED <<page, call, gate, renewal, leaving, jar, issued, expired, login,
                   worker, sent, faults, lost, misread, asked>>

(* A token lives for an hour: longer than any call that was sent before it,*)
(* or is sent again with it.                                               *)
Expire ==
    /\ expired < issued
    /\ \A c \in Calls : call[c].at # "idle" => call[c].token = expired + 1 /\ ~call[c].again
    /\ expired' = expired + 1
    /\ UNCHANGED <<page, call, gate, renewal, leaving, jar, issued, good, login, worker,
                   sent, faults, lost, misread, asked>>

Next ==
    \/ \E c \in Calls :
        \/ Put(c) \/ Send(c) \/ Serve(c) \/ ArriveOk(c) \/ NoAnswer(c)
        \/ ArriveRefused(c) \/ Resend(c)
        \/ ServeRenewal(c) \/ RenewalFails(c) \/ ArriveRenewal(c) \/ Abandon(c) \/ DropLead(c)
        \/ ToLogin(c)
    \/ GiveUpBoot \/ AskLogout \/ Logout \/ LogoutFails \/ GoAway \/ Boot \/ Login
    \/ SessionEnds \/ Expire

Spec == Init /\ [][Next]_vars

(* The timer of a refresh fires.                                           *)
Fairness == \A c \in Calls : WF_vars(Abandon(c) \/ (call[c].at = "leads" /\ ArriveRenewal(c)))
FairSpec == Spec /\ Fairness

----------------------------------------------------------------------------
(* Properties.                                                             *)

(* A call sends its user to the login page only when the session could not *)
(* be renewed: its refresh token had been given up by the provider, the    *)
(* answer that replaced it was lost, a failing provider was taken for one  *)
(* that refuses, or a log-out has been served and the page is on its way   *)
(* out.                                                                    *)
LoginMeansOver ==
    \A c \in Calls : call[c].at = "login" =>
        good = 0 \/ lost \/ misread \/ leaving = "served"

(* No call renews a session that has been renewed since it was sent: a     *)
(* renewal starts only with an expired session.                            *)
RenewsTheExpired ==
    [][\A c \in Calls : renewal[c].at = "none" /\ renewal'[c].at = "asked" =>
          jar.session <= expired \/ lost]_vars

(* Sending a refused call again never makes it take effect twice.          *)
AppliedOnce == \A c \in Calls : call[c].applied <= 1

(* What the worker cached does not outlive its sign-in, once the user has  *)
(* logged out or a GET, refused for good and with no renewal lost or       *)
(* misread, has gone to the login page; but for answers that were under    *)
(* way at the purge, and for a session renewed after a log-out.            *)
CacheEndsWithTheSession == cached \cap ended \subseteq strays

(* Whoever waits for a refresh is told how it went.                        *)
WaitersResume == \A c \in Calls : call[c].at = "waits" ~> call[c].at # "waits"

----------------------------------------------------------------------------
(* The inductive invariant of the gate.                                    *)

(* The slot names the one call that leads: nobody waits on an empty slot,  *)
(* and the page hears a renewal just while its call leads.                 *)
GateSound ==
    /\ \A c \in Calls :
        /\ call[c].at = "leads" <=> slot = c
        /\ call[c].at = "waits" => slot # None
        /\ call[c].at = "leads" <=> renewal[c].at # "none" /\ renewal[c].heard = "page"
    /\ page = "away" => slot = None /\ gen = 0 /\ \A c \in Calls : call[c] = Unsent

(* Nobody has seen a refresh, a token or a sign-in that is still to come.  *)
SeenOnlyThePast ==
    /\ \A c \in Calls : /\ call[c].gen <= gen /\ call[c].token <= issued
                        /\ renewal[c].token <= issued /\ puts[c] <= login
    /\ jar.session <= issued /\ expired <= issued /\ issued <= MaxTokens
    /\ \A l \in cached : l <= login

(* Only a call that has been served has taken effect, and that just once.  *)
AppliedSound ==
    \A c \in Calls : call[c].applied = IF call[c].at = "answered" THEN 1 ELSE 0

(* A renewal whose answer is awaited is the only one; who has been refused *)
(* and has seen the last refresh holds the token of the jar, which expired.*)
RenewalSound ==
    /\ ~lost => \A c \in Calls : renewal[c].at # "none" => renewal[c].heard = "page"
    /\ ~lost => \A c \in Calls :
          call[c].at # "idle" /\ call[c].gen = gen => jar.session \in {0, call[c].token}
    /\ \A c \in Calls :
          /\ call[c].at \in {"refused", "leads", "waits"} => call[c].token <= expired
          /\ call[c].again \/ call[c].at = "again" => call[c].gen < gen

(* While the session is good, the browser holds the token that renews it,  *)
(* or is about to, and no renewal is refused but by a failing provider.    *)
RefreshSound == good = 0 \/ lost \/
    /\ \A c \in Calls :
        /\ renewal[c].at = "refused" => misread
        /\ renewal[c].at \in {"asked", "issued"} => renewal[c].refresh = good
    /\ jar.refresh = good \/ \E c \in Calls : renewal[c].at = "issued"

(* Until a log-out takes the session token, each renewal's is newer than   *)
(* all before it, and what is sent again holds one that is good; so who is *)
(* refused for good has an ended session and no renewal to come.           *)
TokensSound == lost \/ leaving = "served" \/
    \A c \in Calls :
        /\ renewal[c].at = "issued" => /\ renewal[c].token > expired
                                       /\ renewal[c].token > jar.session
                                       /\ \A d \in Calls : renewal[c].token > call[d].token
        /\ call[c].at # "idle" /\ call[c].gen < gen =>
              jar.session > expired /\ (call[c].again \/ jar.session > call[c].token)
        /\ call[c].again => call[c].at # "idle" /\ call[c].token > expired
        /\ call[c].at = "login" =>
              misread \/ (good = 0 /\ \A d \in Calls : renewal[d].at # "issued")

GateInv == /\ TypeOK /\ GateSound /\ SeenOnlyThePast /\ AppliedSound /\ RenewalSound
           /\ RefreshSound /\ TokensSound

----------------------------------------------------------------------------
(* The inductive invariant of the cache.                                   *)

(* No answer of this sign-in is cached, under way or to be had.            *)
Barren ==
    /\ jar.session <= expired /\ login \notin cached
    /\ \A c \in Calls :
        /\ puts[c] # login /\ call[c].at # "answered"
        /\ call[c].at = "sent" => call[c].token <= expired

(* No renewal will give this sign-in a session, but for one that makes it  *)
(* a stray after its log-out.                                              *)
NotRenewed ==
    asked = "out" \/ (good = 0 /\ \A c \in Calls :
                        renewal[c].at = "issued" => renewal[c].heard = "nobody")

(* A GET has been refused, and the worker has purged before it.            *)
RefusedGet == ~lost /\ ~misread /\ \E c \in Calls :
                  call[c].kind = "get" /\ call[c].at \in {"leads", "waits", "login"}

LeavingSound ==
    /\ leaving # "no" => page = "open"
    /\ leaving = "served" => asked = "out"
    /\ asked = "out" /\ page = "open" => leaving = "served" \/ login \in strays

(* A purge leaves nothing of the sign-in to be cached, nor does its end.   *)
PurgeSound ==
    asked = "out" \/ RefusedGet \/ login \in ended => login \in strays \/ Barren

EndedSound ==
    /\ \A l \in ended : /\ l <= login
                        /\ l \in cached => l \in strays
    /\ \A c \in Calls : puts[c] \in ended => puts[c] \in strays
    /\ login \in ended => login \in strays \/ (page # "open" /\ NotRenewed)

Inv == GateInv /\ LeavingSound /\ PurgeSound /\ EndedSound
==============================================================================
