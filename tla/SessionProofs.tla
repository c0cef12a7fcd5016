---------------------------- MODULE SessionProofs ----------------------------
(***************************************************************************)
(* Proofs about Session, for any number of calls: the gate leads one       *)
(* renewal at a time, needs a good reason to, and ends in a login only     *)
(* when the session is over.  One lemma per action, then the theorems.     *)
(***************************************************************************)
EXTENDS Session, TLAPS

----------------------------------------------------------------------------
(* The worker's cache, and a call on its way.                               *)

LEMMA PutStep ==
    ASSUME GateInv, NEW c \in Calls, Put(c)
    PROVE  GateInv'
<1>1. TypeOK'
  <2>1. cached' \subseteq Nat /\ puts' \in [Calls -> Nat] BY DEF GateInv, TypeOK, Put
  <2> QED BY <2>1 DEF GateInv, TypeOK, Put, gate, net
<1>2. GateSound' BY DEF GateInv, GateSound, Put, gate
<1>3. SeenOnlyThePast' BY DEF GateInv, TypeOK, SeenOnlyThePast, Put, gate, net
<1>4. AppliedSound' BY DEF GateInv, AppliedSound, Put
<1>5. RenewalSound' BY DEF GateInv, RenewalSound, Put, gate, net
<1>6. RefreshSound' BY DEF GateInv, RefreshSound, Put, gate, net
<1>7. TokensSound' BY DEF GateInv, TokensSound, Put, gate, net
<1> QED BY <1>1, <1>2, <1>3, <1>4, <1>5, <1>6, <1>7 DEF GateInv

LEMMA SendStep ==
    ASSUME GateInv, NEW c \in Calls, Send(c)
    PROVE  GateInv'
<1>1. TypeOK' BY DEF GateInv, TypeOK, Call, Send, gate, net, worker
<1>2. GateSound' BY DEF GateInv, GateSound, Send, gate
<1>3. SeenOnlyThePast' BY DEF GateInv, TypeOK, SeenOnlyThePast, Send, gate, net, worker
<1>4. AppliedSound' BY DEF GateInv, AppliedSound, Send
<1>5. RenewalSound' BY DEF GateInv, RenewalSound, Send, gate, net
<1>6. RefreshSound' BY DEF GateInv, TypeOK, RefreshSound, Send, gate, net
<1>7. TokensSound' BY DEF GateInv, TypeOK, TokensSound, Send, gate, net
<1> QED BY <1>1, <1>2, <1>3, <1>4, <1>5, <1>6, <1>7 DEF GateInv

LEMMA ServeStep ==
    ASSUME GateInv, NEW c \in Calls, Serve(c)
    PROVE  GateInv'
<1>a. /\ call' \in [Calls -> Call] /\ call'[c] = [call[c] EXCEPT
            !.at = IF call[c].token > expired THEN "answered" ELSE "refused",
            !.applied = IF call[c].token > expired THEN @ + 1 ELSE @]
      /\ \A b \in Calls : b # c => call'[b] = call[b]
  <2> DEFINE j == [call[c] EXCEPT
            !.at = IF call[c].token > expired THEN "answered" ELSE "refused",
            !.applied = IF call[c].token > expired THEN @ + 1 ELSE @]
  <2>1. call' = [call EXCEPT ![c] = j] BY DEF GateInv, TypeOK, Call, Serve
  <2>2. call[c] \in Call BY DEF GateInv, TypeOK
  <2>3. call[c].applied + 1 \in Nat BY <2>2 DEF Call
  <2>4. j \in Call
    <3>1. CASE call[c].token > expired BY <2>2, <2>3, <3>1 DEF Call
    <3>2. CASE ~(call[c].token > expired) BY <2>2, <3>2 DEF Call
    <3> QED BY <3>1, <3>2
  <2> QED BY <2>1, <2>4 DEF GateInv, TypeOK
<1>b. call[c].at = "sent" /\ call'[c].at \in {"answered", "refused"}
    BY <1>a DEF GateInv, TypeOK, Call, Serve
<1>1. TypeOK' BY <1>a DEF GateInv, TypeOK, Serve, gate, net, worker
<1>2. GateSound' BY <1>a, <1>b DEF GateInv, GateSound, Serve, gate, Unsent
<1>3. SeenOnlyThePast' BY DEF GateInv, TypeOK, SeenOnlyThePast, Serve, gate, net, worker
<1>4. AppliedSound' BY DEF GateInv, TypeOK, AppliedSound, Serve
<1>5. RenewalSound' BY DEF GateInv, TypeOK, Call, RenewalSound, Serve, gate, net
<1>6. RefreshSound' BY DEF GateInv, TypeOK, Call, RefreshSound, Serve, gate, net
<1>7. TokensSound' BY DEF GateInv, TypeOK, Call, TokensSound, Serve, gate, net
<1> QED BY <1>1, <1>2, <1>3, <1>4, <1>5, <1>6, <1>7 DEF GateInv

LEMMA ArriveOkStep ==
    ASSUME GateInv, NEW c \in Calls, ArriveOk(c)
    PROVE  GateInv'
<1>1. TypeOK' BY DEF GateInv, TypeOK, Call, Kinds, ArriveOk, Unsent, gate, net
<1>2. GateSound' BY DEF GateInv, GateSound, ArriveOk, Unsent, gate
<1>3. SeenOnlyThePast' BY DEF GateInv, TypeOK, SeenOnlyThePast, ArriveOk, Unsent, gate, net
<1>4. AppliedSound' BY DEF GateInv, AppliedSound, ArriveOk, Unsent
<1>5. RenewalSound' BY DEF GateInv, RenewalSound, ArriveOk, Unsent, gate, net
<1>6. RefreshSound' BY DEF GateInv, TypeOK, Renewal, RefreshSound, ArriveOk, Unsent,
       gate, net
<1>7. TokensSound' BY DEF GateInv, TypeOK, Renewal, TokensSound, ArriveOk, Unsent,
       gate, net
<1> QED BY <1>1, <1>2, <1>3, <1>4, <1>5, <1>6, <1>7 DEF GateInv

LEMMA NoAnswerStep ==
    ASSUME GateInv, NEW c \in Calls, NoAnswer(c)
    PROVE  GateInv'
<1>1. TypeOK' BY DEF GateInv, TypeOK, Call, Kinds, NoAnswer, Unsent, gate, net, worker
<1>2. GateSound' BY DEF GateInv, GateSound, NoAnswer, Unsent, gate
<1>3. SeenOnlyThePast'
    BY DEF GateInv, TypeOK, SeenOnlyThePast, NoAnswer, Unsent, gate, net, worker
<1>4. AppliedSound' BY DEF GateInv, AppliedSound, NoAnswer, Unsent
<1>5. RenewalSound' BY DEF GateInv, RenewalSound, NoAnswer, Unsent, gate, net
<1>6. RefreshSound' BY DEF GateInv, TypeOK, Renewal, RefreshSound, NoAnswer, Unsent,
       gate, net
<1>7. TokensSound' BY DEF GateInv, TypeOK, Renewal, TokensSound, NoAnswer, Unsent,
       gate, net
<1> QED BY <1>1, <1>2, <1>3, <1>4, <1>5, <1>6, <1>7 DEF GateInv

LEMMA ArriveRefusedStep ==
    ASSUME GateInv, NEW c \in Calls, ArriveRefused(c)
    PROVE  GateInv'
<1>a. PICK step \in {"login", "again", "leads", "waits"} :
        /\ call' = [call EXCEPT ![c].at = step]
        /\ step = "login" => call[c].again
        /\ step = "again" => gen > call[c].gen
        /\ step \in {"leads", "waits"} => ~call[c].again /\ ~(gen > call[c].gen)
        /\ step = "waits" => slot # None
        /\ IF step = "leads"
           THEN /\ slot = None /\ slot' = c
                /\ renewal' = [renewal EXCEPT ![c] = [NoRenewal EXCEPT !.at = "asked",
                                                           !.refresh = jar.refresh]]
           ELSE UNCHANGED <<slot, renewal>>
    BY DEF ArriveRefused, RenewedSince, MayLead
<1>b. /\ call' \in [Calls -> Call] /\ call'[c] = [call[c] EXCEPT !.at = step]
      /\ \A b \in Calls : b # c => call'[b] = call[b]
  <2> DEFINE j == [call[c] EXCEPT !.at = step]
  <2>1. call' = [call EXCEPT ![c] = j] BY <1>a DEF GateInv, TypeOK, Call
  <2>2. call[c] \in Call BY DEF GateInv, TypeOK
  <2>3. j \in Call BY <2>2 DEF Call
  <2> QED BY <2>1, <2>3 DEF GateInv, TypeOK
<1>c. /\ call'[c].at = step /\ call'[c].kind = call[c].kind /\ call'[c].gen = call[c].gen
      /\ call'[c].token = call[c].token /\ call'[c].again = call[c].again
      /\ call'[c].applied = call[c].applied /\ call[c].at = "refused"
    BY <1>b DEF GateInv, TypeOK, Call, ArriveRefused
<1>d. /\ renewal' \in [Calls -> Renewal]
      /\ \A b \in Calls : b # c \/ step # "leads" => renewal'[b] = renewal[b]
      /\ step = "leads" => /\ renewal'[c].at = "asked" /\ renewal'[c].heard = "page"
                           /\ renewal'[c].refresh = jar.refresh /\ renewal'[c].token = 0
  <2> DEFINE j == [NoRenewal EXCEPT !.at = "asked", !.refresh = jar.refresh]
  <2>1. jar.refresh \in Nat BY DEF GateInv, TypeOK
  <2>2. /\ j \in Renewal /\ j.at = "asked" /\ j.heard = "page" /\ j.refresh = jar.refresh
        /\ j.token = 0
      BY <2>1 DEF NoRenewal, Renewal
  <2> HIDE DEF j
  <2> QED BY <1>a, <2>2 DEF GateInv, TypeOK, j
<1>e. UNCHANGED <<page, gen, leaving, jar, issued, expired, good, login, puts, lost, misread, asked>>
    BY DEF ArriveRefused, net
<1>1. TypeOK'
  <2>1. cached' \subseteq Nat /\ strays' \subseteq Nat
    <3>1. CASE Purged BY <3>1 DEF GateInv, TypeOK, Purged, Underway
    <3>2. CASE UNCHANGED <<cached, strays>> BY <3>2 DEF GateInv, TypeOK
    <3> QED BY <3>1, <3>2 DEF ArriveRefused
  <2>2. slot' \in Calls \cup {None} BY <1>a DEF GateInv, TypeOK
  <2> QED BY <1>b, <1>d, <1>e, <2>1, <2>2 DEF GateInv, TypeOK, ArriveRefused
<1>2. GateSound'
  <2>1. page # "away" BY <1>c DEF GateInv, GateSound, Unsent
  <2>2. CASE step = "leads"
    <3>1. slot = None /\ slot' = c /\ c # None BY <1>a, <2>2, NoneAssumption
    <3>2. \A b \in Calls : call[b].at \notin {"leads", "waits"}
        BY <3>1, NoneAssumption DEF GateInv, GateSound
    <3>3. /\ call'[c].at = "leads" /\ renewal'[c].at = "asked" /\ renewal'[c].heard = "page"
          /\ \A b \in Calls : b # c => call'[b] = call[b] /\ renewal'[b] = renewal[b]
        BY <1>b, <1>c, <1>d, <2>2
    <3> QED BY <1>e, <2>1, <3>1, <3>2, <3>3, NoneAssumption DEF GateInv, GateSound
  <2>3. CASE step # "leads"
      BY <1>a, <1>b, <1>c, <1>d, <1>e, <2>1, <2>3 DEF GateInv, GateSound
  <2> QED BY <2>2, <2>3
<1>3. SeenOnlyThePast'
  <2>1. \A b \in Calls : call'[b].gen = call[b].gen /\ call'[b].token = call[b].token
      BY <1>b, <1>c
  <2>2. \A b \in Calls : renewal'[b].token = renewal[b].token \/ renewal'[b].token = 0
      BY <1>d
  <2>3. cached' \subseteq cached BY DEF ArriveRefused, Purged
  <2>4. issued \in Nat BY DEF GateInv, TypeOK
  <2> QED BY <1>e, <2>1, <2>2, <2>3, <2>4 DEF GateInv, SeenOnlyThePast
<1>4. AppliedSound' BY DEF GateInv, AppliedSound, ArriveRefused
<1>5. RenewalSound'
  <2>1. ~lost => \A b \in Calls : renewal'[b].at # "none" => renewal'[b].heard = "page"
      BY <1>d DEF GateInv, RenewalSound
  <2>2. \A b \in Calls : /\ call'[b].gen = call[b].gen /\ call'[b].token = call[b].token
                         /\ call'[b].again = call[b].again
                         /\ call'[b].at # "idle" => call[b].at # "idle"
      BY <1>b, <1>c
  <2>3. \A b \in Calls : call'[b].at \in {"refused", "leads", "waits"} =>
                          call[b].at \in {"refused", "leads", "waits"}
      BY <1>b, <1>c
  <2>4. \A b \in Calls : call'[b].at = "again" => call[b].at = "again" \/ gen > call[b].gen
      BY <1>a, <1>b, <1>c
  <2> QED BY <1>e, <2>1, <2>2, <2>3, <2>4 DEF GateInv, TypeOK, Call, RenewalSound
<1>6. RefreshSound'
  <2>1. CASE good = 0 \/ lost BY <1>e, <2>1 DEF RefreshSound
  <2>2. CASE ~(good = 0 \/ lost)
    <3>1. step = "leads" => \A b \in Calls : renewal[b].at = "none"
        BY <1>a, <2>2, NoneAssumption DEF GateInv, GateSound, RenewalSound
    <3>2. step = "leads" => renewal'[c].refresh = good
        BY <1>d, <2>2, <3>1 DEF GateInv, RefreshSound
    <3>3. \A b \in Calls : renewal'[b] = renewal[b] \/ (b = c /\ renewal'[b].at = "asked"
                                                        /\ step = "leads")
        BY <1>d
    <3>4. \A b \in Calls : renewal[b].at = "issued" => renewal'[b] = renewal[b]
        BY <3>1, <3>3
    <3> QED BY <1>e, <2>2, <3>2, <3>3, <3>4 DEF GateInv, RefreshSound
  <2> QED BY <2>1, <2>2
<1>7. TokensSound'
  <2>1. CASE lost \/ leaving = "served" BY <1>e, <2>1 DEF TokensSound
  <2>2. CASE ~(lost \/ leaving = "served")
    <3>1. step # "login"
      <4>1. call[c].token <= expired BY <1>c DEF GateInv, RenewalSound
      <4>2. call[c].again => call[c].token > expired BY <2>2 DEF GateInv, TokensSound
      <4>3. call[c].token \in Nat /\ expired \in Nat BY DEF GateInv, TypeOK, Call
      <4> QED BY <1>a, <4>1, <4>2, <4>3
    <3>2. \A b \in Calls : /\ call'[b].gen = call[b].gen /\ call'[b].token = call[b].token
                           /\ call'[b].again = call[b].again
                           /\ call'[b].at # "idle" <=> call[b].at # "idle"
                           /\ call'[b].at = "login" => call[b].at = "login"
        BY <1>b, <1>c, <3>1
    <3>3. \A b \in Calls : renewal'[b].at = "issued" => renewal'[b] = renewal[b]
        BY <1>d
    <3> QED BY <1>e, <2>2, <3>2, <3>3 DEF GateInv, TokensSound
  <2> QED BY <2>1, <2>2
<1> QED BY <1>1, <1>2, <1>3, <1>4, <1>5, <1>6, <1>7 DEF GateInv

LEMMA ResendStep ==
    ASSUME GateInv, NEW c \in Calls, Resend(c)
    PROVE  GateInv'
<1>a. /\ call' \in [Calls -> Call]
      /\ call'[c] = [call[c] EXCEPT !.at = "sent", !.again = TRUE, !.token = jar.session]
      /\ \A b \in Calls : b # c => call'[b] = call[b]
  <2> DEFINE j == [call[c] EXCEPT !.at = "sent", !.again = TRUE, !.token = jar.session]
  <2>1. call' = [call EXCEPT ![c] = j] BY DEF GateInv, TypeOK, Call, Resend
  <2>2. call[c] \in Call /\ jar.session \in Nat BY DEF GateInv, TypeOK
  <2>3. j \in Call BY <2>2 DEF Call
  <2> QED BY <2>1, <2>3 DEF GateInv, TypeOK
<1>b. call[c].at = "again" /\ call'[c].at = "sent" BY <1>a DEF GateInv, TypeOK, Call, Resend
<1>1. TypeOK' BY <1>a DEF GateInv, TypeOK, Resend, gate, net, worker
<1>2. GateSound' BY <1>a, <1>b DEF GateInv, GateSound, Resend, gate, Unsent
<1>3. SeenOnlyThePast' BY DEF GateInv, TypeOK, SeenOnlyThePast, Resend, gate, net, worker
<1>4. AppliedSound' BY DEF GateInv, TypeOK, AppliedSound, Resend
<1>5. RenewalSound' BY DEF GateInv, TypeOK, RenewalSound, Resend, gate, net
<1>6. RefreshSound' BY DEF GateInv, TypeOK, Call, Kinds, RefreshSound, Resend, gate, net
<1>7. TokensSound' BY DEF GateInv, TypeOK, Call, Kinds, TokensSound, Resend, gate, net
<1> QED BY <1>1, <1>2, <1>3, <1>4, <1>5, <1>6, <1>7 DEF GateInv

----------------------------------------------------------------------------
(* A renewal.                                                              *)

LEMMA ServeRenewalStep ==
    ASSUME GateInv, NEW c \in Calls, ServeRenewal(c)
    PROVE  GateInv'
<1>a. PICK at \in {"issued", "refused"}, tok \in {renewal[c].token, issued + 1},
            ref \in {renewal[c].refresh, good, issued + 1} :
        /\ renewal' = [renewal EXCEPT ![c].at = at, ![c].token = tok, ![c].refresh = ref]
        /\ IF at = "issued"
           THEN /\ renewal[c].refresh = good /\ good # 0 /\ tok = issued + 1 /\ issued' = issued + 1
                /\ ref = good' /\ good' \in {good, issued + 1} /\ issued < MaxTokens
           ELSE /\ renewal[c].refresh # good \/ good = 0
                /\ tok = renewal[c].token /\ ref = renewal[c].refresh
                /\ UNCHANGED <<issued, good>>
  <2>1. CASE renewal[c].refresh = good /\ good # 0
    <3>1. /\ Exchanged
          /\ renewal' = [renewal EXCEPT ![c].at = "issued", ![c].token = issued + 1,
                                        ![c].refresh = good']
        BY <2>1 DEF ServeRenewal, Honoured
    <3> QED BY <2>1, <3>1 DEF Exchanged
  <2>2. CASE ~(renewal[c].refresh = good /\ good # 0)
    <3>1. renewal' = [renewal EXCEPT ![c].at = "refused", ![c].token = renewal[c].token,
                                     ![c].refresh = renewal[c].refresh]
        BY <2>2 DEF GateInv, TypeOK, Renewal, ServeRenewal, Honoured
    <3> QED BY <2>2, <3>1 DEF ServeRenewal, Honoured
  <2> QED BY <2>1, <2>2
<1>b. /\ renewal' \in [Calls -> Renewal]
      /\ renewal'[c] = [renewal[c] EXCEPT !.at = at, !.token = tok, !.refresh = ref]
      /\ \A b \in Calls : b # c => renewal'[b] = renewal[b]
  <2> DEFINE j == [renewal[c] EXCEPT !.at = at, !.token = tok, !.refresh = ref]
  <2>1. renewal' = [renewal EXCEPT ![c] = j] BY <1>a DEF GateInv, TypeOK, Renewal
  <2>2. renewal[c] \in Renewal /\ issued \in Nat /\ good \in Nat BY DEF GateInv, TypeOK
  <2>3. tok \in Nat /\ ref \in Nat BY <2>2 DEF Renewal
  <2>4. j \in Renewal BY <2>2, <2>3 DEF Renewal
  <2> QED BY <2>1, <2>4 DEF GateInv, TypeOK
<1>c. /\ renewal'[c].at = at /\ renewal'[c].token = tok /\ renewal'[c].refresh = ref
      /\ renewal'[c].heard = renewal[c].heard /\ renewal[c].at = "asked"
    BY <1>b DEF GateInv, TypeOK, Renewal, ServeRenewal
<1>1. TypeOK' BY <1>a, <1>b DEF GateInv, TypeOK, ServeRenewal, gate, worker
<1>2. GateSound'
  <2>1. \A b \in Calls : /\ renewal'[b].heard = renewal[b].heard
                         /\ (renewal'[b].at # "none" <=> renewal[b].at # "none")
      BY <1>b, <1>c
  <2>2. UNCHANGED <<call, slot, gen, page>> BY DEF ServeRenewal, gate
  <2> QED BY <2>1, <2>2 DEF GateInv, GateSound
<1>3. SeenOnlyThePast'
  <2>1. /\ issued \in Nat /\ expired \in Nat /\ jar.session \in Nat /\ MaxTokens \in Nat
        /\ \A b \in Calls : call[b].token \in Nat /\ renewal[b].token \in Nat
      BY BoundsAssumption DEF GateInv, TypeOK, Call, Renewal
  <2>2. issued' \in Nat /\ issued <= issued' /\ issued' <= MaxTokens /\ tok <= issued'
      BY <1>a, <2>1 DEF GateInv, SeenOnlyThePast
  <2>3. \A b \in Calls : renewal'[b].token <= issued'
    <3>1. renewal'[c].token <= issued' BY <1>c, <2>2
    <3>2. \A b \in Calls : renewal[b].token <= issued BY DEF GateInv, SeenOnlyThePast
    <3>3. issued \in Nat /\ issued' \in Nat /\ issued <= issued' BY <2>1, <2>2
    <3>4. \A b \in Calls : b # c => renewal'[b].token <= issued'
        BY <1>b, <2>1, <3>2, <3>3
    <3> QED BY <3>1, <3>4
  <2>4. UNCHANGED <<call, gen, jar, expired, login, cached, puts>>
      BY DEF ServeRenewal, gate, worker
  <2> QED BY <2>1, <2>2, <2>3, <2>4 DEF GateInv, SeenOnlyThePast
<1>4. AppliedSound' BY DEF GateInv, AppliedSound, ServeRenewal
<1>5. RenewalSound'
    BY DEF GateInv, TypeOK, Call, Renewal, RenewalSound, GateSound, ServeRenewal, gate,
       worker
<1>6. RefreshSound'
  <2>1. CASE good = 0 \/ lost
    <3>1. good' = 0 \/ lost' BY <1>a, <2>1 DEF ServeRenewal
    <3> QED BY <3>1 DEF RefreshSound
  <2>2. CASE ~(good = 0 \/ lost)
    <3>1. at = "issued" BY <1>a, <1>c, <2>2 DEF GateInv, RefreshSound
    <3>2. \A b \in Calls : renewal[b].at # "none" => b = c
        BY <1>c, <2>2 DEF GateInv, RenewalSound, GateSound
    <3>3. \A b \in Calls : b # c => renewal'[b].at = "none" BY <1>b, <3>2
    <3>4. renewal'[c].at = "issued" /\ renewal'[c].refresh = good' BY <1>a, <1>c, <3>1
    <3> QED BY <3>3, <3>4 DEF RefreshSound
  <2> QED BY <2>1, <2>2
<1>7. TokensSound'
  <2>1. UNCHANGED <<call, jar, expired, gen, lost, misread, leaving>> BY DEF ServeRenewal, gate
  <2>2. CASE lost \/ leaving = "served" BY <2>1, <2>2 DEF TokensSound
  <2>3. CASE ~(lost \/ leaving = "served")
    <3>1. /\ jar.session \in Nat /\ issued \in Nat /\ expired \in Nat
          /\ \A b \in Calls : call[b].token \in Nat
        BY DEF GateInv, TypeOK, Call
    <3>2. at = "issued" => /\ good # 0 /\ tok > expired /\ tok > jar.session
                           /\ \A b \in Calls : tok > call[b].token
        BY <1>a, <3>1 DEF GateInv, SeenOnlyThePast
    <3>3. \A b \in Calls : renewal'[b].at = "issued" =>
            \/ b # c /\ renewal'[b] = renewal[b]
            \/ b = c /\ at = "issued" /\ renewal'[b].token = tok
        BY <1>b, <1>c
    <3>4. at # "issued" => UNCHANGED good BY <1>a
    <3> QED BY <2>1, <2>3, <3>2, <3>3, <3>4 DEF GateInv, TokensSound
  <2> QED BY <2>2, <2>3
<1> QED BY <1>1, <1>2, <1>3, <1>4, <1>5, <1>6, <1>7 DEF GateInv

(* What a renewal that fails changes: its place, and either what is known  *)
(* of the provider or, with the tokens it gave, what it honours.           *)
LEMMA Failed ==
    ASSUME TypeOK, NEW c \in Calls, RenewalFails(c)
    PROVE  /\ renewal' \in [Calls -> Renewal] /\ renewal[c].at = "asked"
           /\ \E at \in {"failed", "refused"} : renewal'[c] = [renewal[c] EXCEPT !.at = at]
           /\ renewal'[c].at \in {"failed", "refused"}
           /\ \A d \in Calls : d # c => renewal'[d] = renewal[d]
           /\ \/ /\ UNCHANGED <<issued, good, lost>> /\ misread' \in BOOLEAN
                 /\ misread => misread'
                 /\ renewal'[c].at = "refused" => misread'
              \/ /\ lost' = TRUE /\ issued' = issued + 1 /\ issued < MaxTokens
                 /\ good # 0 /\ good' \in {good, issued + 1} /\ UNCHANGED misread
<1>1. PICK at \in {"failed", "refused"} :
        /\ renewal' = [renewal EXCEPT ![c].at = at]
        /\ \/ /\ UNCHANGED <<issued, good, lost>> /\ misread' \in {misread, TRUE}
              /\ at = "refused" => misread'
           \/ /\ lost' = TRUE /\ issued' = issued + 1 /\ issued < MaxTokens
              /\ good # 0 /\ good' \in {good, issued + 1} /\ UNCHANGED misread
  <2>1. CASE renewal' = [renewal EXCEPT ![c].at = "failed"]
             /\ UNCHANGED <<issued, good, lost, misread>>
      BY <2>1
  <2>2. CASE renewal' = [renewal EXCEPT ![c].at = "refused"] /\ misread' = TRUE
             /\ UNCHANGED <<issued, good, lost>>
      BY <2>2
  <2>3. CASE /\ Honoured(c) /\ Exchanged
             /\ \E at \in {"failed", "refused"} : renewal' = [renewal EXCEPT ![c].at = at]
             /\ lost' = TRUE /\ UNCHANGED misread
      BY <2>3 DEF Honoured, Exchanged
  <2> QED BY <2>1, <2>2, <2>3 DEF RenewalFails
<1>2. /\ [renewal[c] EXCEPT !.at = at] \in Renewal
      /\ [renewal[c] EXCEPT !.at = at].at = at
    BY DEF TypeOK, Renewal
<1>3. /\ renewal' = [renewal EXCEPT ![c] = [renewal[c] EXCEPT !.at = at]]
      /\ renewal[c].at = "asked" /\ misread \in BOOLEAN
    BY <1>1 DEF TypeOK, Renewal, RenewalFails
<1>4. /\ renewal' \in [Calls -> Renewal] /\ renewal'[c] = [renewal[c] EXCEPT !.at = at]
      /\ renewal'[c].at = at /\ \A d \in Calls : d # c => renewal'[d] = renewal[d]
    BY <1>2, <1>3 DEF TypeOK
<1>5. misread' \in {misread, TRUE} => misread' \in BOOLEAN /\ (misread => misread')
  <2>1. CASE misread' = misread BY <1>3, <2>1, Zenon
  <2>2. CASE misread' = TRUE BY <2>2, Zenon
  <2> QED BY <2>1, <2>2, Zenon
<1> QED BY <1>1, <1>3, <1>4, <1>5

LEMMA RenewalFailsStep ==
    ASSUME GateInv, NEW c \in Calls, RenewalFails(c)
    PROVE  GateInv'
<1>a. PICK at \in {"failed", "refused"} : renewal'[c] = [renewal[c] EXCEPT !.at = at]
    BY Failed DEF GateInv
<1>b. /\ UNCHANGED <<page, call, gate, leaving, jar, expired, login, worker, sent, asked>>
      /\ renewal' \in [Calls -> Renewal] /\ renewal[c].at = "asked"
      /\ \A d \in Calls : d # c => renewal'[d] = renewal[d]
    BY Failed DEF GateInv, RenewalFails
<1>c. \/ /\ UNCHANGED <<issued, good, lost>> /\ misread' \in BOOLEAN
         /\ misread => misread'
         /\ renewal'[c].at = "refused" => misread'
      \/ /\ lost' = TRUE /\ issued' = issued + 1 /\ issued < MaxTokens
         /\ good' \in {good, issued + 1} /\ UNCHANGED misread
    BY Failed DEF GateInv
<1>d. /\ renewal'[c].at = at /\ renewal'[c].token = renewal[c].token
      /\ renewal'[c].heard = renewal[c].heard
    BY <1>a DEF GateInv, TypeOK, Renewal
<1>e. /\ issued \in Nat /\ issued' \in Nat /\ good' \in Nat /\ issued <= issued'
      /\ lost' \in BOOLEAN /\ misread' \in BOOLEAN
  <2>1. issued \in Nat /\ good \in Nat /\ lost \in BOOLEAN /\ misread \in BOOLEAN
      BY DEF GateInv, TypeOK
  <2>2. CASE UNCHANGED <<issued, good, lost>> /\ misread' \in BOOLEAN BY <2>1, <2>2
  <2>3. CASE lost' = TRUE /\ issued' = issued + 1 /\ good' \in {good, issued + 1}
             /\ UNCHANGED misread
      BY <2>1, <2>3
  <2> QED BY <1>c, <2>2, <2>3
<1>1. TypeOK' BY <1>b, <1>e DEF GateInv, TypeOK, gate, worker
<1>2. GateSound' BY <1>b, <1>d DEF GateInv, GateSound, gate
<1>3. SeenOnlyThePast'
  <2>1. \A d \in Calls : /\ call[d].token \in Nat /\ call[d].token <= issued
                         /\ renewal[d].token \in Nat /\ renewal[d].token <= issued
      BY DEF GateInv, TypeOK, Call, Renewal, SeenOnlyThePast
  <2>2. \A d \in Calls : call[d].token <= issued' /\ renewal[d].token <= issued'
      BY <1>e, <2>1
  <2>3. \A d \in Calls : renewal'[d].token = renewal[d].token BY <1>b, <1>d
  <2>4. jar.session \in Nat /\ expired \in Nat BY DEF GateInv, TypeOK
  <2>5. jar.session <= issued' /\ expired <= issued' /\ issued' <= MaxTokens
      BY <1>c, <1>e, <2>4, BoundsAssumption DEF GateInv, SeenOnlyThePast
  <2> QED BY <1>b, <2>2, <2>3, <2>5 DEF GateInv, SeenOnlyThePast, gate, worker
<1>4. AppliedSound' BY <1>b DEF GateInv, AppliedSound
<1>5. RenewalSound' BY <1>b, <1>c, <1>d DEF GateInv, RenewalSound, gate
<1>6. RefreshSound' BY <1>b, <1>c, <1>d DEF GateInv, RefreshSound
<1>7. TokensSound' BY <1>b, <1>c, <1>d DEF GateInv, TokensSound, gate
<1> QED BY <1>1, <1>2, <1>3, <1>4, <1>5, <1>6, <1>7 DEF GateInv

LEMMA ArriveRenewalStep ==
    ASSUME GateInv, NEW c \in Calls, ArriveRenewal(c)
    PROVE  GateInv'
<1> DEFINE heard == renewal[c].heard = "page"
           met(b) == heard /\ (b = c \/ call[b].at = "waits")
<1>a. /\ renewal[c].at \in {"issued", "refused", "failed"}
      /\ (heard <=> call[c].at = "leads")
      /\ Outcome(c) \in Outcomes
    BY DEF GateInv, GateSound, ArriveRenewal, Outcome, Outcomes
<1>b. /\ call' \in [Calls -> Call]
      /\ \A b \in Calls : call'[b] = IF met(b) THEN After(b, Outcome(c)) ELSE call[b]
  <2>1. \A b \in Calls : After(b, Outcome(c)) \in Call
    <3>1. \A b \in Calls : call[b] \in Call BY DEF GateInv, TypeOK
    <3> QED BY <1>a, <3>1 DEF After, Outcomes, Call, Unsent, Kinds
  <2> QED BY <2>1 DEF GateInv, TypeOK, ArriveRenewal, Settle
<1>c. \A b \in Calls :
        IF met(b) /\ Outcome(c) # "unavailable"
        THEN /\ call'[b].at = IF Outcome(c) = "refreshed" THEN "again" ELSE "login"
             /\ call'[b].gen = call[b].gen /\ call'[b].token = call[b].token
             /\ call'[b].again = call[b].again /\ call'[b].applied = call[b].applied
        ELSE call'[b] = IF met(b) THEN Unsent ELSE call[b]
  <2>1. \A b \in Calls : call[b] \in Call BY DEF GateInv, TypeOK
  <2> QED BY <1>a, <1>b, <2>1 DEF After, Outcomes, Call
<1>d. /\ renewal' \in [Calls -> Renewal] /\ renewal'[c] = NoRenewal
      /\ \A b \in Calls : b # c => renewal'[b] = renewal[b]
    BY DEF GateInv, TypeOK, ArriveRenewal, NoRenewal, Renewal
<1>e. /\ slot' = IF heard THEN None ELSE slot
      /\ gen' = IF heard /\ Outcome(c) = "refreshed" THEN gen + 1 ELSE gen
      /\ jar' = IF renewal[c].at = "issued" /\ renewal[c].heard # "nobody"
                THEN [session |-> renewal[c].token, refresh |-> renewal[c].refresh] ELSE jar
      /\ UNCHANGED <<page, leaving, issued, expired, good, login, cached, puts, ended, lost, misread, asked>>
    BY DEF ArriveRenewal, Settle, gate
<1>f. /\ gen \in Nat /\ issued \in Nat /\ expired \in Nat
      /\ \A b \in Calls : call[b].gen \in Nat /\ call[b].token \in Nat
                         /\ renewal[b].token \in Nat
    BY DEF GateInv, TypeOK, Call, Renewal
<1>g. \A b \in Calls : b # c /\ heard => call[b].at # "leads"
    BY <1>a DEF GateInv, GateSound
<1>1. TypeOK'
  <2>1. jar' \in [session : Nat, refresh : Nat] BY <1>e DEF GateInv, TypeOK, Renewal
  <2>2. strays' \subseteq Nat BY DEF GateInv, TypeOK, ArriveRenewal
  <2>3. slot' \in Calls \cup {None} /\ gen' \in Nat BY <1>e, <1>f DEF GateInv, TypeOK
  <2> QED BY <1>b, <1>d, <1>e, <2>1, <2>2, <2>3 DEF GateInv, TypeOK
<1>2. GateSound'
  <2>1. page = "away" => ~heard BY <1>a DEF GateInv, GateSound, Unsent
  <2>2. CASE heard
    <3>1. \A b \in Calls : call'[b].at \notin {"leads", "waits"}
        BY <1>a, <1>c, <1>g, <2>2 DEF Outcomes, Unsent
    <3>2. \A b \in Calls : renewal'[b].at = "none" \/ renewal'[b].heard # "page"
        BY <1>d, <1>g, <2>2 DEF GateInv, GateSound, NoRenewal
    <3> QED BY <1>e, <2>1, <2>2, <3>1, <3>2, NoneAssumption DEF GateSound
  <2>3. CASE ~heard
    <3>1. \A b \in Calls : call'[b] = call[b] BY <1>c, <2>3
    <3> QED BY <1>d, <1>e, <2>3, <3>1 DEF GateInv, GateSound, NoRenewal
  <2> QED BY <2>2, <2>3
<1>3. SeenOnlyThePast'
  <2>1. \A b \in Calls : call'[b].gen <= gen' /\ call'[b].token <= issued
      BY <1>c, <1>e, <1>f DEF GateInv, SeenOnlyThePast, Unsent
  <2>2. \A b \in Calls : renewal'[b].token <= issued
      BY <1>d, <1>f DEF GateInv, SeenOnlyThePast, NoRenewal
  <2>3. jar'.session <= issued BY <1>e DEF GateInv, SeenOnlyThePast
  <2> QED BY <1>e, <2>1, <2>2, <2>3 DEF GateInv, SeenOnlyThePast
<1>4. AppliedSound'
  <2>1. \A b \in Calls : met(b) => call[b].at # "answered" BY <1>a
  <2> QED BY <1>a, <1>c, <2>1 DEF GateInv, AppliedSound, Outcomes, Unsent
<1>5. RenewalSound'
  <2>1. ~lost => heard BY <1>a DEF GateInv, RenewalSound
  <2>2. ~lost => \A b \in Calls : renewal'[b].at # "none" => renewal'[b].heard = "page"
      BY <1>d DEF GateInv, RenewalSound, NoRenewal
  <2>3. ~lost => \A b \in Calls :
          call'[b].at # "idle" /\ call'[b].gen = gen' => jar'.session \in {0, call'[b].token}
    <3>1. CASE Outcome(c) = "refreshed" /\ heard
      <4>1. \A b \in Calls : call'[b].at # "idle" => call'[b].gen <= gen
          BY <1>c DEF GateInv, SeenOnlyThePast, Unsent
      <4> QED BY <1>e, <1>f, <3>1, <4>1
    <3>2. CASE Outcome(c) # "refreshed" /\ heard
      <4>1. renewal[c].at # "issued" BY <3>2 DEF Outcome
      <4>2. UNCHANGED <<gen, jar>> BY <1>e, <3>2, <4>1
      <4>3. \A b \in Calls : call'[b].at # "idle" =>
              /\ call[b].at # "idle" /\ call'[b].gen = call[b].gen
              /\ call'[b].token = call[b].token
          BY <1>a, <1>c DEF Unsent
      <4> QED BY <4>2, <4>3 DEF GateInv, RenewalSound
    <3> QED BY <2>1, <3>1, <3>2
  <2>4. \A b \in Calls : call'[b].at \in {"refused", "leads", "waits"} => call'[b] = call[b]
      BY <1>a, <1>c DEF Unsent, Outcomes
  <2>5. \A b \in Calls : call'[b].again \/ call'[b].at = "again" => call'[b].gen < gen'
      BY <1>a, <1>c, <1>e, <1>f DEF GateInv, RenewalSound, SeenOnlyThePast, Unsent
  <2> QED BY <1>e, <2>2, <2>3, <2>4, <2>5 DEF GateInv, RenewalSound
<1>h. ~lost => heard /\ \A b \in Calls : renewal'[b].at = "none"
  <2>1. ~lost => heard BY <1>a DEF GateInv, RenewalSound
  <2> QED BY <1>d, <1>g, <2>1 DEF GateInv, RenewalSound, GateSound, NoRenewal
<1>6. RefreshSound'
  <2>1. CASE good = 0 \/ lost BY <1>e, <2>1 DEF RefreshSound
  <2>2. CASE ~(good = 0 \/ lost)
    <3>1. jar'.refresh = good
      <4>1. CASE renewal[c].at = "issued"
          BY <1>e, <1>h, <2>2, <4>1 DEF GateInv, RefreshSound
      <4>2. CASE renewal[c].at # "issued"
        <5>1. \A b \in Calls : renewal[b].at # "issued" BY <1>d, <1>h, <2>2, <4>2
        <5> QED BY <1>e, <2>2, <4>2, <5>1 DEF GateInv, RefreshSound
      <4> QED BY <4>1, <4>2
    <3> QED BY <1>e, <1>h, <2>2, <3>1 DEF RefreshSound
  <2> QED BY <2>1, <2>2
<1>7. TokensSound'
  <2>1. CASE lost \/ leaving = "served" BY <1>e, <2>1 DEF TokensSound
  <2>2. CASE ~(lost \/ leaving = "served")
    <3>1. CASE renewal[c].at = "issued"
      <4>1. /\ Outcome(c) = "refreshed" /\ jar'.session = renewal[c].token /\ gen' = gen + 1
          BY <1>e, <1>h, <2>2, <3>1 DEF Outcome
      <4>2. /\ jar'.session > expired
            /\ \A b \in Calls : /\ jar'.session > call[b].token
                                /\ call[b].at = "login" => misread
          BY <2>2, <3>1, <4>1 DEF GateInv, TokensSound
      <4>3. \A b \in Calls : /\ call'[b].at = "login" => misread
                             /\ call'[b].token = call[b].token
                             /\ call'[b].again = call[b].again
                             /\ call'[b].at = "idle" => call[b].at = "idle"
          BY <1>c, <4>1, <4>2
      <4> QED BY <1>e, <1>h, <2>2, <4>1, <4>2, <4>3 DEF GateInv, TokensSound
    <3>2. CASE renewal[c].at \in {"refused", "failed"}
      <4>1. Outcome(c) # "refreshed" /\ UNCHANGED <<gen, jar>>
          BY <1>e, <3>2 DEF Outcome
      <4>2. \A b \in Calls :
              \/ call'[b] = Unsent
              \/ /\ call'[b].gen = call[b].gen /\ call'[b].token = call[b].token
                 /\ call'[b].again = call[b].again
                 /\ call[b].at # "idle" <=> call'[b].at # "idle"
                 /\ call'[b].at = "login" => call[b].at = "login" \/ renewal[c].at = "refused"
          BY <1>a, <1>c, <3>2, <4>1 DEF Outcome, Outcomes
      <4>3. renewal[c].at = "refused" => good = 0 \/ misread
          BY <2>2 DEF GateInv, RefreshSound
      <4> QED BY <1>e, <1>h, <2>2, <4>1, <4>2, <4>3 DEF GateInv, TokensSound, Unsent
    <3> QED BY <1>a, <3>1, <3>2
  <2> QED BY <2>1, <2>2
<1> QED BY <1>1, <1>2, <1>3, <1>4, <1>5, <1>6, <1>7 DEF GateInv

LEMMA AbandonStep ==
    ASSUME GateInv, NEW c \in Calls, Abandon(c)
    PROVE  GateInv'
<1>1. TypeOK'
  <2>1. call' \in [Calls -> Call] /\ slot' = None /\ gen' = gen
      BY DEF GateInv, TypeOK, Call, Kinds, Abandon, Settle, After, Unsent
  <2>2. renewal' \in [Calls -> Renewal] BY DEF GateInv, TypeOK, Renewal, Abandon
  <2> QED BY <2>1, <2>2 DEF GateInv, TypeOK, Abandon, net, worker
<1>2. GateSound'
    BY NoneAssumption DEF GateInv, TypeOK, GateSound, Abandon, Settle, After, Unsent
<1>3. SeenOnlyThePast'
    BY DEF GateInv, TypeOK, SeenOnlyThePast, Abandon, Settle, After, Unsent, net, worker
<1>4. AppliedSound' BY DEF GateInv, AppliedSound, Abandon, Settle, After, Unsent
<1>5. RenewalSound' BY DEF GateInv, RenewalSound, Abandon, Settle, After, Unsent, net
<1>6. RefreshSound' BY DEF GateInv, RefreshSound, Abandon, Settle
<1>7. TokensSound' BY DEF GateInv, TokensSound, Abandon, Settle
<1> QED BY <1>1, <1>2, <1>3, <1>4, <1>5, <1>6, <1>7 DEF GateInv

LEMMA DropLeadStep ==
    ASSUME GateInv, NEW c \in Calls, DropLead(c)
    PROVE  GateInv'
<1>1. TypeOK'
  <2>1. call' \in [Calls -> Call] /\ slot' = None /\ gen' = gen
      BY DEF GateInv, TypeOK, Call, Kinds, DropLead, Settle, After, Unsent
  <2>2. renewal' \in [Calls -> Renewal] BY DEF GateInv, TypeOK, Renewal, DropLead
  <2> QED BY <2>1, <2>2 DEF GateInv, TypeOK, DropLead, net, worker
<1>2. GateSound'
    BY NoneAssumption DEF GateInv, TypeOK, GateSound, DropLead, Settle, After, Unsent
<1>3. SeenOnlyThePast'
    BY DEF GateInv, TypeOK, SeenOnlyThePast, DropLead, Settle, After, Unsent, net, worker
<1>4. AppliedSound' BY DEF GateInv, AppliedSound, DropLead, Settle, After, Unsent
<1>5. RenewalSound' BY DEF GateInv, RenewalSound, DropLead, Settle, After, Unsent, net
<1>6. RefreshSound' BY DEF GateInv, RefreshSound, DropLead, Settle
<1>7. TokensSound' BY DEF GateInv, TokensSound, DropLead, Settle
<1> QED BY <1>1, <1>2, <1>3, <1>4, <1>5, <1>6, <1>7 DEF GateInv

----------------------------------------------------------------------------
(* Leaving and signing in.                                                 *)

LEMMA ToLoginStep ==
    ASSUME GateInv, NEW c \in Calls, ToLogin(c)
    PROVE  GateInv'
<1>1. TypeOK'
  <2>1. call' \in [Calls -> Call] /\ Unsent \in Call
      BY DEF TornDown, Unsent, Call, Kinds, ToLogin
  <2>2. renewal' \in [Calls -> Renewal]
    <3>1. \A c1 \in Calls : renewal[c1] \in Renewal BY DEF GateInv, TypeOK
    <3>2. \A c1 \in Calls : [renewal[c1] EXCEPT !.heard = "nobody"] \in Renewal
        BY <3>1 DEF Renewal
    <3>3. NoRenewal \in Renewal BY DEF NoRenewal, Renewal
    <3> QED BY <3>2, <3>3 DEF TornDown, ToLogin
  <2> QED BY <2>1, <2>2 DEF GateInv, TypeOK, TornDown, ToLogin, gate, net, worker
<1>2. GateSound' BY NoneAssumption DEF GateSound, ToLogin, TornDown, Unsent, NoRenewal
<1>3. SeenOnlyThePast'
    BY DEF GateInv, TypeOK, SeenOnlyThePast, ToLogin, TornDown, Unsent, NoRenewal, net
<1>4. AppliedSound' BY DEF AppliedSound, ToLogin, TornDown, Unsent
<1>5. RenewalSound' BY DEF RenewalSound, ToLogin, TornDown, Unsent, NoRenewal
<1>6. RefreshSound' BY DEF GateInv, RefreshSound, ToLogin, TornDown, Unsent, NoRenewal, net
<1>7. TokensSound' BY DEF GateInv, TokensSound, ToLogin, TornDown, Unsent, NoRenewal, net
<1> QED BY <1>1, <1>2, <1>3, <1>4, <1>5, <1>6, <1>7 DEF GateInv

LEMMA GiveUpBootStep ==
    ASSUME GateInv, GiveUpBoot
    PROVE  GateInv'
<1>1. TypeOK'
  <2>1. call' \in [Calls -> Call] /\ Unsent \in Call
      BY DEF TornDown, Unsent, Call, Kinds, GiveUpBoot
  <2>2. renewal' \in [Calls -> Renewal]
    <3>1. \A c1 \in Calls : renewal[c1] \in Renewal BY DEF GateInv, TypeOK
    <3>2. \A c1 \in Calls : [renewal[c1] EXCEPT !.heard = "nobody"] \in Renewal
        BY <3>1 DEF Renewal
    <3>3. NoRenewal \in Renewal BY DEF NoRenewal, Renewal
    <3> QED BY <3>2, <3>3 DEF TornDown, GiveUpBoot
  <2> QED BY <2>1, <2>2 DEF GateInv, TypeOK, TornDown, GiveUpBoot, gate, net, worker
<1>2. GateSound' BY DEF GateInv, TypeOK, GateSound, GiveUpBoot, TornDown, Unsent, NoRenewal
<1>3. SeenOnlyThePast'
    BY DEF GateInv, TypeOK, SeenOnlyThePast, GiveUpBoot, TornDown, Unsent, NoRenewal, net,
       worker
<1>4. AppliedSound' BY DEF AppliedSound, GiveUpBoot, TornDown, Unsent
<1>5. RenewalSound' BY DEF RenewalSound, GiveUpBoot, TornDown, Unsent, NoRenewal
<1>6. RefreshSound' BY DEF GateInv, RefreshSound, GiveUpBoot, TornDown, Unsent,
       NoRenewal, net
<1>7. TokensSound' BY DEF GateInv, TokensSound, GiveUpBoot, TornDown, Unsent,
       NoRenewal, net
<1> QED BY <1>1, <1>2, <1>3, <1>4, <1>5, <1>6, <1>7 DEF GateInv

LEMMA AskLogoutStep ==
    ASSUME GateInv, AskLogout
    PROVE  GateInv'
<1>1. TypeOK' BY DEF GateInv, TypeOK, AskLogout, gate, net, worker
<1>2. GateSound' BY DEF GateInv, GateSound, AskLogout, gate
<1>3. SeenOnlyThePast' BY DEF GateInv, SeenOnlyThePast, AskLogout, gate, net, worker
<1>4. AppliedSound' BY DEF GateInv, AppliedSound, AskLogout, gate, net
<1>5. RenewalSound' BY DEF GateInv, RenewalSound, AskLogout, gate, net
<1>6. RefreshSound' BY DEF GateInv, RefreshSound, AskLogout, gate, net
<1>7. TokensSound' BY DEF GateInv, TokensSound, AskLogout, gate, net
<1> QED BY <1>1, <1>2, <1>3, <1>4, <1>5, <1>6, <1>7 DEF GateInv

LEMMA LogoutStep ==
    ASSUME GateInv, Logout
    PROVE  GateInv'
<1>1. TypeOK' BY DEF GateInv, TypeOK, Logout, Purged, Underway, gate
<1>2. GateSound' BY DEF GateInv, GateSound, Logout, gate
<1>3. SeenOnlyThePast' BY DEF GateInv, TypeOK, SeenOnlyThePast, Logout, Purged, gate
<1>4. AppliedSound' BY DEF GateInv, AppliedSound, Logout, gate
<1>5. RenewalSound' BY DEF GateInv, RenewalSound, Logout, gate
<1>6. RefreshSound' BY DEF GateInv, RefreshSound, Logout, gate
<1>7. TokensSound' BY DEF GateInv, TokensSound, Logout, gate
<1> QED BY <1>1, <1>2, <1>3, <1>4, <1>5, <1>6, <1>7 DEF GateInv

LEMMA LogoutFailsStep ==
    ASSUME GateInv, LogoutFails
    PROVE  GateInv'
<1>1. TypeOK'
  <2>1. strays' \subseteq Nat /\ cached' = {}
      BY DEF GateInv, TypeOK, LogoutFails, Purged, Underway
  <2> QED BY <2>1 DEF GateInv, TypeOK, LogoutFails, gate, net
<1>2. GateSound' BY DEF GateInv, GateSound, LogoutFails, gate
<1>3. SeenOnlyThePast' BY DEF GateInv, SeenOnlyThePast, LogoutFails, Purged, gate, net
<1>4. AppliedSound' BY DEF GateInv, AppliedSound, LogoutFails
<1>5. RenewalSound' BY DEF GateInv, RenewalSound, LogoutFails, gate, net
<1>6. RefreshSound' BY DEF GateInv, RefreshSound, LogoutFails, gate, net
<1>7. TokensSound' BY DEF GateInv, TokensSound, LogoutFails, gate, net
<1> QED BY <1>1, <1>2, <1>3, <1>4, <1>5, <1>6, <1>7 DEF GateInv

LEMMA GoAwayStep ==
    ASSUME GateInv, GoAway
    PROVE  GateInv'
<1>1. TypeOK'
  <2>1. call' \in [Calls -> Call]
    <3>1. Unsent \in Call BY DEF Unsent, Call, Kinds
    <3> QED BY <3>1 DEF TornDown, GoAway
  <2>2. renewal' \in [Calls -> Renewal]
    <3>1. \A c1 \in Calls : renewal[c1] \in Renewal BY DEF GateInv, TypeOK
    <3>2. \A c1 \in Calls : [renewal[c1] EXCEPT !.heard = "nobody"] \in Renewal
        BY <3>1 DEF Renewal
    <3>3. NoRenewal \in Renewal BY DEF NoRenewal, Renewal
    <3> QED BY <3>2, <3>3 DEF TornDown, GoAway
  <2>3. ended' \subseteq Nat BY DEF GateInv, TypeOK, GoAway
  <2> QED BY <2>1, <2>2, <2>3 DEF GateInv, TypeOK, TornDown, GoAway, net
<1>2. GateSound' BY NoneAssumption DEF GateSound, GoAway, TornDown, Unsent, NoRenewal
<1>3. SeenOnlyThePast'
    BY DEF GateInv, TypeOK, SeenOnlyThePast, GoAway, TornDown, Unsent, NoRenewal, net
<1>4. AppliedSound' BY DEF AppliedSound, GoAway, TornDown, Unsent
<1>5. RenewalSound' BY DEF RenewalSound, GoAway, TornDown, Unsent, NoRenewal
<1>6. RefreshSound' BY DEF GateInv, RefreshSound, GoAway, TornDown, Unsent, NoRenewal,
       net
<1>7. TokensSound' BY DEF GateInv, TokensSound, GoAway, TornDown, Unsent, NoRenewal, net
<1> QED BY <1>1, <1>2, <1>3, <1>4, <1>5, <1>6, <1>7 DEF GateInv

LEMMA BootStep ==
    ASSUME GateInv, Boot
    PROVE  GateInv'
<1>1. TypeOK' BY DEF GateInv, TypeOK, Boot, gate, net, worker
<1>2. GateSound' BY DEF GateInv, GateSound, Boot, gate
<1>3. SeenOnlyThePast' BY DEF GateInv, SeenOnlyThePast, Boot, gate, net, worker
<1>4. AppliedSound' BY DEF GateInv, AppliedSound, Boot
<1>5. RenewalSound' BY DEF GateInv, RenewalSound, Boot, gate, net
<1>6. RefreshSound' BY DEF GateInv, RefreshSound, Boot, gate, net
<1>7. TokensSound' BY DEF GateInv, TokensSound, Boot, gate, net
<1> QED BY <1>1, <1>2, <1>3, <1>4, <1>5, <1>6, <1>7 DEF GateInv

LEMMA LoginStep ==
    ASSUME GateInv, Login
    PROVE  GateInv'
<1>a. /\ \A c \in Calls : call[c] = Unsent
      /\ slot = None /\ gen = 0 /\ issued \in Nat /\ expired \in Nat /\ login \in Nat
    BY DEF GateInv, TypeOK, GateSound, Login
<1>b. /\ issued' = issued + 1 /\ issued < MaxTokens /\ login' = login + 1
      /\ jar' = [session |-> issued + 1, refresh |-> issued + 1]
      /\ good' = issued + 1 /\ page' = "boot"
      /\ lost' = (\E c \in Calls : renewal[c].at # "none")
      /\ UNCHANGED <<call, gen, slot, renewal, expired, cached, puts>>
    BY DEF Login, gate, worker
<1>1. TypeOK' BY DEF GateInv, TypeOK, Login, gate, worker
<1>2. GateSound' BY DEF GateInv, GateSound, Login, gate
<1>3. SeenOnlyThePast'
  <2>1. \A c \in Calls : /\ call[c].token \in Nat /\ renewal[c].token \in Nat
                         /\ puts[c] \in Nat
      BY DEF GateInv, TypeOK, Call, Renewal
  <2>2. MaxTokens \in Nat /\ cached \subseteq Nat BY BoundsAssumption DEF GateInv, TypeOK
  <2>3. \A c \in Calls : /\ call[c].gen <= gen /\ call[c].token <= issued + 1
                         /\ renewal[c].token <= issued + 1 /\ puts[c] <= login + 1
      BY <1>a, <2>1 DEF GateInv, SeenOnlyThePast
  <2>4. expired <= issued + 1 /\ issued + 1 <= MaxTokens /\ \A l \in cached : l <= login + 1
      BY <1>a, <1>b, <2>2 DEF GateInv, SeenOnlyThePast
  <2> QED BY <1>a, <1>b, <2>3, <2>4 DEF SeenOnlyThePast
<1>4. AppliedSound' BY DEF GateInv, AppliedSound, Login
<1>5. RenewalSound' BY <1>a, <1>b DEF RenewalSound, Unsent
<1>c. ~lost' => \A c \in Calls : renewal'[c].at = "none" BY <1>b
<1>6. RefreshSound' BY <1>b, <1>c DEF RefreshSound
<1>7. TokensSound'
  <2>1. \A c \in Calls : call'[c].at = "idle" /\ ~call'[c].again
      BY <1>a, <1>b DEF Unsent
  <2> QED BY <1>c, <2>1 DEF TokensSound
<1> QED BY <1>1, <1>2, <1>3, <1>4, <1>5, <1>6, <1>7 DEF GateInv

LEMMA SessionEndsStep ==
    ASSUME GateInv, SessionEnds
    PROVE  GateInv'
<1>1. TypeOK' BY DEF GateInv, TypeOK, SessionEnds, gate, worker
<1>2. GateSound' BY DEF GateInv, GateSound, SessionEnds, gate
<1>3. SeenOnlyThePast' BY DEF GateInv, SeenOnlyThePast, SessionEnds, gate, worker
<1>4. AppliedSound' BY DEF GateInv, AppliedSound, SessionEnds, gate
<1>5. RenewalSound' BY DEF GateInv, RenewalSound, SessionEnds, gate
<1>6. RefreshSound' BY DEF GateInv, RefreshSound, SessionEnds, gate
<1>7. TokensSound' BY DEF GateInv, TokensSound, SessionEnds, gate
<1> QED BY <1>1, <1>2, <1>3, <1>4, <1>5, <1>6, <1>7 DEF GateInv

LEMMA ExpireStep ==
    ASSUME GateInv, Expire
    PROVE  GateInv'
<1>1. TypeOK' BY DEF GateInv, TypeOK, Expire, gate, worker
<1>2. GateSound' BY DEF GateInv, GateSound, Expire, gate
<1>3. SeenOnlyThePast' BY DEF GateInv, TypeOK, SeenOnlyThePast, Expire, gate, worker
<1>4. AppliedSound' BY DEF GateInv, AppliedSound, Expire
<1>5. RenewalSound' BY DEF GateInv, RenewalSound, Expire, gate
<1>6. RefreshSound' BY DEF GateInv, RefreshSound, Expire
<1>7. TokensSound'
  <2>1. CASE lost \/ leaving = "served" BY <2>1 DEF TokensSound, Expire
  <2>2. CASE ~(lost \/ leaving = "served")
    <3>1. /\ expired' = expired + 1 /\ UNCHANGED <<call, gen, renewal, jar, good, misread>>
          /\ \A c \in Calls : call[c].at # "idle" =>
                call[c].token = expired + 1 /\ ~call[c].again
        BY DEF Expire, gate
    <3>2. expired \in Nat /\ jar.session \in Nat BY DEF GateInv, TypeOK
    <3>3. \A c \in Calls : call[c].at # "leads"
        BY <3>1, <3>2 DEF GateInv, RenewalSound
    <3>4. \A c \in Calls : renewal[c].at = "none"
        BY <2>2, <3>3 DEF GateInv, RenewalSound, GateSound
    <3>5. \A c \in Calls : ~call[c].again
        BY <2>2, <3>1 DEF GateInv, TokensSound
    <3>6. \A c \in Calls : call[c].at # "idle" /\ call[c].gen < gen =>
            jar.session > expired + 1
        BY <2>2, <3>1, <3>5 DEF GateInv, TokensSound
    <3> QED BY <2>2, <3>1, <3>4, <3>5, <3>6 DEF GateInv, TokensSound
  <2> QED BY <2>1, <2>2
<1> QED BY <1>1, <1>2, <1>3, <1>4, <1>5, <1>6, <1>7 DEF GateInv


----------------------------------------------------------------------------
(* The invariant of the gate.                                              *)

LEMMA InitGateInv == Init => GateInv
<1> SUFFICES ASSUME Init PROVE GateInv OBVIOUS
<1>a. /\ \A c \in Calls : call[c] = Unsent /\ renewal[c] = NoRenewal /\ puts[c] = 0
      /\ slot = None /\ gen = 0 /\ issued = 1 /\ expired = 0 /\ login = 1 /\ page = "open"
      /\ good = 1 /\ jar = [session |-> 1, refresh |-> 1] /\ cached = {} /\ lost = FALSE
      /\ misread = FALSE
    BY DEF Init
<1>1. TypeOK
  <2>1. Unsent \in Call /\ NoRenewal \in Renewal
      BY DEF Unsent, Call, Kinds, NoRenewal, Renewal
  <2>2. call \in [Calls -> Call] /\ renewal \in [Calls -> Renewal] BY <2>1 DEF Init
  <2>3. jar \in [session : Nat, refresh : Nat] /\ puts \in [Calls -> Nat] BY DEF Init
  <2>4. cached \subseteq Nat /\ ended \subseteq Nat \ {0} /\ strays \subseteq Nat BY DEF Init
  <2>5. leaving = "no" /\ asked = "no" /\ lost \in BOOLEAN BY DEF Init
  <2>6. /\ gen \in Nat /\ issued \in Nat /\ expired \in Nat /\ good \in Nat
        /\ login \in Nat \ {0} /\ slot \in Calls \cup {None}
      BY <1>a
  <2> QED BY <1>a, <2>2, <2>3, <2>4, <2>5, <2>6 DEF TypeOK
<1>2. GateSound BY <1>a, NoneAssumption DEF GateSound, Unsent, NoRenewal
<1>3. SeenOnlyThePast BY <1>a, BoundsAssumption DEF SeenOnlyThePast, Unsent, NoRenewal
<1>4. AppliedSound BY <1>a DEF AppliedSound, Unsent
<1>5. RenewalSound BY <1>a DEF RenewalSound, Unsent, NoRenewal
<1>6. RefreshSound BY <1>a DEF RefreshSound, NoRenewal
<1>7. TokensSound BY <1>a DEF TokensSound, Unsent, NoRenewal
<1> QED BY <1>1, <1>2, <1>3, <1>4, <1>5, <1>6, <1>7 DEF GateInv

LEMMA StutterGateInv == GateInv /\ UNCHANGED vars => GateInv'
<1> SUFFICES ASSUME GateInv, UNCHANGED vars PROVE GateInv' OBVIOUS
<1>1. TypeOK' BY DEF GateInv, TypeOK, vars, gate, net, worker
<1>2. GateSound' BY DEF GateInv, GateSound, vars, gate
<1>3. SeenOnlyThePast' BY DEF GateInv, SeenOnlyThePast, vars, gate, net, worker
<1>4. AppliedSound' BY DEF GateInv, AppliedSound, vars
<1>5. RenewalSound' BY DEF GateInv, RenewalSound, vars, gate, net
<1>6. RefreshSound' BY DEF GateInv, RefreshSound, vars, gate, net
<1>7. TokensSound' BY DEF GateInv, TokensSound, vars, gate, net
<1> QED BY <1>1, <1>2, <1>3, <1>4, <1>5, <1>6, <1>7 DEF GateInv

LEMMA NextGateInv == GateInv /\ [Next]_vars => GateInv'
<1> SUFFICES ASSUME GateInv, [Next]_vars PROVE GateInv' OBVIOUS
<1>1. CASE \E c \in Calls :
        \/ Put(c) \/ Send(c) \/ Serve(c) \/ ArriveOk(c) \/ NoAnswer(c)
        \/ ArriveRefused(c) \/ Resend(c)
    BY <1>1, PutStep, SendStep, ServeStep, ArriveOkStep, NoAnswerStep,
       ArriveRefusedStep,
       ResendStep
<1>2. CASE \E c \in Calls :
        \/ ServeRenewal(c) \/ RenewalFails(c) \/ ArriveRenewal(c) \/ Abandon(c) \/ DropLead(c)
        \/ ToLogin(c)
    BY <1>2, ServeRenewalStep, RenewalFailsStep, ArriveRenewalStep, AbandonStep,
       DropLeadStep,
       ToLoginStep
<1>3. CASE GiveUpBoot \/ AskLogout \/ Logout \/ LogoutFails \/ GoAway \/ Boot \/ Login
           \/ SessionEnds \/ Expire
    BY <1>3, GiveUpBootStep, AskLogoutStep, LogoutStep, LogoutFailsStep, GoAwayStep,
       BootStep,
       LoginStep, SessionEndsStep, ExpireStep
<1>4. CASE UNCHANGED vars BY <1>4, StutterGateInv
<1> QED BY <1>1, <1>2, <1>3, <1>4 DEF Next

(* The gate leads one renewal at a time, for the call in its slot;         *)
(* nobody waits on an empty slot; and while the session is good, the page  *)
(* holds the token that renews it or is about to (session_retry.rs,        *)
(* send_authed).                                                           *)
THEOREM SpecGateInv == Spec => []GateInv
<1>1. Init => GateInv BY InitGateInv
<1>2. GateInv /\ [Next]_vars => GateInv' BY NextGateInv
<1> QED BY <1>1, <1>2, PTL DEF Spec

(* However many calls are refused at once, one of them goes to the login   *)
(* page only if the session is over (api.rs, session_retry.rs).            *)
THEOREM SpecLoginMeansOver == Spec => []LoginMeansOver
<1>1. GateInv => LoginMeansOver BY DEF GateInv, TokensSound, LoginMeansOver
<1> QED BY <1>1, SpecGateInv, PTL

(* A call that is sent again after a renewal takes effect once (api.rs,    *)
(* auth/middleware.rs).                                                    *)
THEOREM SpecAppliedOnce == Spec => []AppliedOnce
<1>1. GateInv => AppliedOnce BY DEF GateInv, AppliedSound, AppliedOnce
<1> QED BY <1>1, SpecGateInv, PTL

----------------------------------------------------------------------------
(* What starts a renewal.                                                  *)

(* The only step that asks for a renewal is the refusal of a call that has *)
(* seen the last one.                                                      *)
LEMMA OnlyRefusedAsks ==
    ASSUME GateInv, Next, NEW c \in Calls, renewal[c].at = "none", renewal'[c].at = "asked"
    PROVE  ArriveRefused(c) /\ slot' = c /\ ~RenewedSince(c) /\ UNCHANGED <<jar, expired, lost, misread>>
<1>1. CASE \E d \in Calls : ArriveRefused(d)
  <2>1. PICK d \in Calls : ArriveRefused(d) BY <1>1
  <2>2. d = c BY <2>1 DEF GateInv, TypeOK, ArriveRefused
  <2>3. slot' = c /\ ~RenewedSince(c)
      BY <2>1, <2>2 DEF GateInv, TypeOK, ArriveRefused
  <2>4. UNCHANGED <<jar, expired, lost, misread>> BY <2>1 DEF ArriveRefused, net
  <2> QED BY <2>1, <2>2, <2>3, <2>4
<1>2. CASE \E d \in Calls : Put(d) \/ Send(d) \/ Serve(d) \/ ArriveOk(d) \/ NoAnswer(d)
                            \/ Resend(d)
    BY <1>2 DEF Put, Send, Serve, ArriveOk, NoAnswer, Resend
<1>3. CASE \E d \in Calls : ServeRenewal(d)
    BY <1>3 DEF GateInv, TypeOK, Renewal, ServeRenewal
<1>4. CASE \E d \in Calls : RenewalFails(d) \/ ArriveRenewal(d)
    BY <1>4 DEF GateInv, TypeOK, Renewal, RenewalFails, ArriveRenewal, NoRenewal
<1>5. CASE \E d \in Calls : Abandon(d) \/ DropLead(d)
  <2>1. PICK d \in Calls, h \in {"nobody", "browser"} :
            renewal' = [renewal EXCEPT ![d].heard = h]
      BY <1>5 DEF Abandon, DropLead
  <2>2. renewal'[c].at = renewal[c].at BY <2>1 DEF GateInv, TypeOK, Renewal
  <2> QED BY <2>2
<1>6. CASE (\E d \in Calls : ToLogin(d)) \/ GiveUpBoot \/ GoAway
    BY <1>6 DEF GateInv, TypeOK, Renewal, ToLogin, GiveUpBoot, GoAway, TornDown, NoRenewal
<1>7. CASE AskLogout \/ Logout \/ LogoutFails \/ Boot \/ Login \/ SessionEnds \/ Expire
    BY <1>7 DEF AskLogout, Logout, LogoutFails, Boot, Login, SessionEnds, Expire
<1> QED BY <1>1, <1>2, <1>3, <1>4, <1>5, <1>6, <1>7 DEF Next

(* A session that has just been renewed is not renewed again: who asks has *)
(* seen the last renewal and was refused with the token of the jar         *)
(* (session_retry.rs, on_unauthorized).                                    *)
THEOREM SpecRenewsTheExpired == Spec => RenewsTheExpired
<1>1. GateInv /\ [Next]_vars =>
        [\A c \in Calls : renewal[c].at = "none" /\ renewal'[c].at = "asked" =>
            jar.session <= expired \/ lost]_vars
  <2> SUFFICES ASSUME GateInv, Next, NEW c \in Calls,
                      renewal[c].at = "none", renewal'[c].at = "asked", ~lost
               PROVE  jar.session <= expired
      OBVIOUS
  <2>1. ArriveRefused(c) /\ ~RenewedSince(c) BY OnlyRefusedAsks
  <2>2. call[c].at = "refused" /\ ~(gen > call[c].gen)
      BY <2>1 DEF ArriveRefused, RenewedSince
  <2>3. /\ gen \in Nat /\ call[c].gen \in Nat /\ call[c].token \in Nat /\ expired \in Nat
        /\ call[c].gen <= gen
      BY DEF GateInv, TypeOK, Call, SeenOnlyThePast
  <2>4. call[c].gen = gen BY <2>2, <2>3
  <2>5. call[c].token <= expired /\ jar.session \in {0, call[c].token}
      BY <2>2, <2>4 DEF GateInv, RenewalSound
  <2> QED BY <2>3, <2>5
<1> QED BY <1>1, SpecGateInv, PTL DEF Spec, RenewsTheExpired
----------------------------------------------------------------------------
(* The invariant of the cache: what each step does to the sign-in's        *)
(* answers, and to whether it has ended.                                   *)

CacheSound == LeavingSound /\ PurgeSound /\ EndedSound

(* A step that leaves the page, the cookies and the cache alone disturbs   *)
(* nothing, unless it brings a call closer to an answer or to a refusal.   *)
LEMMA CallsOnly ==
    ASSUME Inv, UNCHANGED <<page, leaving, jar, expired, login, worker, asked>>,
           NotRenewed => NotRenewed', RefusedGet' => RefusedGet,
           Barren => \A c \in Calls : /\ call'[c].at # "answered"
                                      /\ call'[c].at = "sent" => call'[c].token <= expired
    PROVE  CacheSound'
<1>1. LeavingSound' BY DEF Inv, LeavingSound, worker
<1>2. Barren => Barren' BY DEF Barren, worker
<1>3. PurgeSound' BY <1>2 DEF Inv, PurgeSound, worker
<1>4. EndedSound' BY DEF Inv, EndedSound, worker
<1> QED BY <1>1, <1>2, <1>3, <1>4 DEF CacheSound

LEMMA PutCache ==
    ASSUME Inv, NEW c \in Calls, Put(c)
    PROVE  CacheSound'
<1>1. /\ puts[c] # 0 /\ cached' = cached \cup {puts[c]} /\ puts'[c] = 0 /\ login # 0
      /\ 0 \notin ended /\ \A d \in Calls : d # c => puts'[d] = puts[d]
    BY DEF Inv, GateInv, TypeOK, Put
<1>2. UNCHANGED <<page, call, renewal, leaving, jar, expired, good, login, ended, strays, lost, misread,
                  asked>>
    BY DEF Put, net
<1>3. LeavingSound' BY <1>2 DEF Inv, LeavingSound
<1>4. Barren => Barren' BY <1>1, <1>2 DEF Barren
<1>5. PurgeSound' BY <1>2, <1>4 DEF Inv, PurgeSound, RefusedGet
<1>6. EndedSound'
  <2>1. NotRenewed' = NotRenewed BY <1>2 DEF NotRenewed
  <2> QED BY <1>1, <1>2, <2>1 DEF Inv, EndedSound
<1> QED BY <1>3, <1>5, <1>6 DEF CacheSound

LEMMA SendCache ==
    ASSUME Inv, NEW c \in Calls, Send(c)
    PROVE  CacheSound'
<1>1. /\ call'[c].at = "sent" /\ call'[c].token = jar.session
      /\ \A d \in Calls : d # c => call'[d] = call[d]
    BY DEF Inv, GateInv, TypeOK, Send
<1>2. UNCHANGED <<page, renewal, leaving, jar, expired, good, login, worker, lost, misread, asked>>
    BY DEF Send, net
<1>3. RefusedGet' => RefusedGet BY <1>1, <1>2 DEF RefusedGet
<1>4. NotRenewed => NotRenewed' BY <1>2 DEF NotRenewed
<1>5. Barren => \A d \in Calls : /\ call'[d].at # "answered"
                                 /\ call'[d].at = "sent" => call'[d].token <= expired
    BY <1>1 DEF Barren
<1> QED BY <1>2, <1>3, <1>4, <1>5, CallsOnly

LEMMA ServeCache ==
    ASSUME Inv, NEW c \in Calls, Serve(c)
    PROVE  CacheSound'
<1>1. /\ call[c].at = "sent"
      /\ call'[c].at = IF call[c].token > expired THEN "answered" ELSE "refused"
      /\ \A d \in Calls : d # c => call'[d] = call[d]
    BY DEF Inv, GateInv, TypeOK, Call, Serve
<1>2. UNCHANGED <<page, renewal, leaving, jar, expired, good, login, worker, lost, misread, asked>>
    BY DEF Serve, net
<1>3. RefusedGet' => RefusedGet BY <1>1, <1>2 DEF RefusedGet
<1>4. NotRenewed => NotRenewed' BY <1>2 DEF NotRenewed
<1>5. Barren => \A d \in Calls : /\ call'[d].at # "answered"
                                 /\ call'[d].at = "sent" => call'[d].token <= expired
  <2>1. call[c].token \in Nat /\ expired \in Nat BY DEF Inv, GateInv, TypeOK, Call
  <2> QED BY <1>1, <2>1 DEF Barren
<1> QED BY <1>2, <1>3, <1>4, <1>5, CallsOnly

LEMMA ArriveOkCache ==
    ASSUME Inv, NEW c \in Calls, ArriveOk(c)
    PROVE  CacheSound'
<1>1. /\ call[c].at = "answered" /\ call'[c] = Unsent
      /\ \A d \in Calls : d # c => call'[d] = call[d]
      /\ \A d \in Calls : puts'[d] \in {puts[d], login}
      /\ page' \in {page, "open"}
    BY DEF Inv, GateInv, TypeOK, ArriveOk
<1>2. UNCHANGED <<renewal, leaving, jar, expired, good, login, cached, ended, strays, lost, misread,
                  asked>>
    BY DEF ArriveOk, net
<1>3. asked = "out" \/ RefusedGet \/ login \in ended => login \in strays
    BY <1>1 DEF Inv, PurgeSound, Barren
<1>4. LeavingSound' BY <1>1, <1>2, <1>3 DEF Inv, LeavingSound
<1>5. RefusedGet' => RefusedGet BY <1>1, <1>2 DEF RefusedGet, Unsent
<1>6. PurgeSound' BY <1>2, <1>3, <1>5 DEF PurgeSound
<1>7. EndedSound' BY <1>1, <1>2, <1>3 DEF Inv, EndedSound
<1> QED BY <1>4, <1>6, <1>7 DEF CacheSound

LEMMA NoAnswerCache ==
    ASSUME Inv, NEW c \in Calls, NoAnswer(c)
    PROVE  CacheSound'
<1>1. call'[c] = Unsent /\ \A d \in Calls : d # c => call'[d] = call[d]
    BY DEF Inv, GateInv, TypeOK, NoAnswer
<1>2. UNCHANGED <<page, renewal, leaving, jar, expired, good, login, worker, lost, misread, asked>>
    BY DEF NoAnswer, net
<1>3. RefusedGet' => RefusedGet BY <1>1, <1>2 DEF RefusedGet, Unsent
<1>4. NotRenewed => NotRenewed' BY <1>2 DEF NotRenewed
<1>5. Barren => \A d \in Calls : /\ call'[d].at # "answered"
                                 /\ call'[d].at = "sent" => call'[d].token <= expired
    BY <1>1 DEF Barren, Unsent
<1> QED BY <1>2, <1>3, <1>4, <1>5, CallsOnly

(* A purge makes a stray of the sign-in, or leaves nothing of it but what  *)
(* its token could still fetch.                                            *)
LEMMA PurgeEmpties ==
    ASSUME Inv, Purged, UNCHANGED <<puts, login>>,
           \A c \in Calls : call'[c].at \in {"sent", "answered"} => call'[c] = call[c]
    PROVE  /\ cached' = {} /\ strays \subseteq strays'
           /\ login \in strays' \/ (jar'.session <= expired' => Barren')
<1>1. /\ cached' = {} /\ strays \subseteq strays'
      /\ (\E c \in Calls : call[c].at \in {"sent", "answered"}) => login \in strays'
      /\ \A c \in Calls : puts[c] = login /\ login # 0 => login \in strays'
    BY DEF Purged, Underway
<1>2. login # 0 BY DEF Inv, GateInv, TypeOK
<1> QED BY <1>1, <1>2 DEF Barren

LEMMA ArriveRefusedCache ==
    ASSUME Inv, NEW c \in Calls, ArriveRefused(c)
    PROVE  CacheSound'
<1>1. /\ call[c].at = "refused" /\ call'[c].at \in {"leads", "waits", "again", "login"}
      /\ call'[c].kind = call[c].kind /\ \A d \in Calls : d # c => call'[d] = call[d]
      /\ call'[c].at = "login" => call[c].again
      /\ call'[c].at \in {"leads", "waits"} => ~(gen > call[c].gen)
    BY DEF Inv, GateInv, TypeOK, Call, ArriveRefused, RenewedSince
<1>2. UNCHANGED <<page, leaving, jar, expired, good, login, puts, ended, lost, misread, asked>>
    BY DEF ArriveRefused, net
<1>3. NotRenewed => NotRenewed'
  <2>1. \A d \in Calls : renewal'[d] = renewal[d] \/ renewal'[d].at = "asked"
    <3>1. CASE UNCHANGED renewal BY <3>1
    <3>2. CASE renewal' = [renewal EXCEPT ![c] = [NoRenewal EXCEPT !.at = "asked",
                                                       !.refresh = jar.refresh]]
      <4>1. [NoRenewal EXCEPT !.at = "asked", !.refresh = jar.refresh].at = "asked"
          BY DEF NoRenewal
      <4> QED BY <3>2, <4>1 DEF Inv, GateInv, TypeOK
    <3> QED BY <3>1, <3>2 DEF ArriveRefused
  <2> QED BY <1>2, <2>1 DEF NotRenewed
<1>4. CASE call[c].kind # "get"
  <2>1. UNCHANGED worker BY <1>2, <1>4 DEF ArriveRefused, worker
  <2>2. RefusedGet' => RefusedGet BY <1>1, <1>2, <1>4 DEF RefusedGet
  <2>3. Barren => \A d \in Calls : /\ call'[d].at # "answered"
                                   /\ call'[d].at = "sent" => call'[d].token <= expired
      BY <1>1 DEF Barren
  <2> QED BY <1>2, <1>3, <2>1, <2>2, <2>3, CallsOnly
<1>5. CASE call[c].kind = "get"
  <2>1. Purged BY <1>5 DEF ArriveRefused
  <2>2. \A d \in Calls : call'[d].at \in {"sent", "answered"} => call'[d] = call[d]
      BY <1>1
  <2>3. /\ cached' = {} /\ strays \subseteq strays'
        /\ login \in strays' \/ (jar'.session <= expired' => Barren')
      BY <1>2, <2>1, <2>2, PurgeEmpties
  <2>4. LeavingSound' BY <1>2, <2>3 DEF Inv, LeavingSound
  <2>5. asked = "out" \/ RefusedGet \/ login \in ended =>
            login \in strays \/ jar.session <= expired
      BY DEF Inv, PurgeSound, Barren
  <2>6. RefusedGet' => asked = "out" \/ RefusedGet \/ jar.session <= expired
    <3> SUFFICES ASSUME RefusedGet', asked # "out", ~RefusedGet PROVE jar.session <= expired
        OBVIOUS
    <3>1. ~lost /\ leaving # "served" /\ call'[c].at \in {"leads", "waits", "login"}
        BY <1>1, <1>2 DEF Inv, LeavingSound, RefusedGet
    <3>2. call[c].token <= expired /\ call[c].token \in Nat /\ expired \in Nat
        BY <1>1 DEF Inv, GateInv, TypeOK, Call, RenewalSound
    <3>3. call'[c].at # "login" BY <1>1, <3>1, <3>2 DEF Inv, GateInv, TokensSound
    <3>4. call[c].gen = gen
      <4>1. gen \in Nat /\ call[c].gen \in Nat /\ call[c].gen <= gen
          BY DEF Inv, GateInv, TypeOK, Call, SeenOnlyThePast
      <4> QED BY <1>1, <3>1, <3>3, <4>1
    <3>5. jar.session \in {0, call[c].token}
        BY <1>1, <3>1, <3>4 DEF Inv, GateInv, RenewalSound
    <3> QED BY <3>2, <3>5
  <2>7. PurgeSound' BY <1>2, <2>3, <2>5, <2>6 DEF PurgeSound
  <2>8. EndedSound' BY <1>2, <1>3, <2>3 DEF Inv, EndedSound
  <2> QED BY <2>4, <2>7, <2>8 DEF CacheSound
<1> QED BY <1>4, <1>5

LEMMA ResendCache ==
    ASSUME Inv, NEW c \in Calls, Resend(c)
    PROVE  CacheSound'
<1>1. /\ call'[c].at = "sent" /\ call'[c].token = jar.session
      /\ \A d \in Calls : d # c => call'[d] = call[d]
    BY DEF Inv, GateInv, TypeOK, Call, Resend
<1>2. UNCHANGED <<page, renewal, leaving, jar, expired, good, login, worker, lost, misread, asked>>
    BY DEF Resend, net
<1>3. RefusedGet' => RefusedGet BY <1>1, <1>2 DEF RefusedGet
<1>4. NotRenewed => NotRenewed' BY <1>2 DEF NotRenewed
<1>5. Barren => \A d \in Calls : /\ call'[d].at # "answered"
                                 /\ call'[d].at = "sent" => call'[d].token <= expired
    BY <1>1 DEF Barren
<1> QED BY <1>2, <1>3, <1>4, <1>5, CallsOnly

(* Settling a refresh: each call stays where it was, is let go, is sent    *)
(* again, or goes to the login page if it was leading or waiting.          *)
LEMMA SettleMoves ==
    ASSUME TypeOK, NEW c \in Calls, NEW outcome \in Outcomes, Settle(c, outcome)
    PROVE  \A d \in Calls :
             \/ call'[d] = call[d] /\ d # c /\ call[d].at # "waits"
             \/ call'[d] = Unsent
             \/ call'[d].at = "again"
             \/ /\ call'[d].at = "login" /\ outcome = "rejected"
                /\ call'[d].kind = call[d].kind /\ (d = c \/ call[d].at = "waits")
<1> SUFFICES ASSUME NEW d \in Calls
             PROVE  \/ call'[d] = call[d] /\ d # c /\ call[d].at # "waits"
                    \/ call'[d] = Unsent
                    \/ call'[d].at = "again"
                    \/ /\ call'[d].at = "login" /\ outcome = "rejected"
                       /\ call'[d].kind = call[d].kind /\ (d = c \/ call[d].at = "waits")
    OBVIOUS
<1>1. call'[d] = IF d = c \/ call[d].at = "waits" THEN After(d, outcome) ELSE call[d]
    BY DEF Settle
<1>2. /\ outcome = "refreshed" => After(d, outcome) = [call[d] EXCEPT !.at = "again"]
      /\ outcome = "rejected" => After(d, outcome) = [call[d] EXCEPT !.at = "login"]
      /\ outcome = "unavailable" => After(d, outcome) = Unsent
    BY DEF After
<1>3. /\ [call[d] EXCEPT !.at = "again"].at = "again"
      /\ [call[d] EXCEPT !.at = "login"].at = "login"
      /\ [call[d] EXCEPT !.at = "login"].kind = call[d].kind
    BY DEF TypeOK, Call
<1> QED BY <1>1, <1>2, <1>3 DEF Outcomes

LEMMA ServeRenewalCache ==
    ASSUME Inv, NEW c \in Calls, ServeRenewal(c)
    PROVE  CacheSound'
<1>1. UNCHANGED <<page, call, leaving, jar, expired, login, worker, lost, misread, asked>>
    BY DEF ServeRenewal
<1>2. RefusedGet' => RefusedGet BY <1>1 DEF RefusedGet
<1>3. NotRenewed => NotRenewed'
  <2> SUFFICES ASSUME NotRenewed, asked # "out" PROVE NotRenewed'
      BY <1>1 DEF NotRenewed
  <2>1. good = 0 /\ good' = 0 BY DEF NotRenewed, ServeRenewal, Honoured
  <2>2. renewal' = [renewal EXCEPT ![c].at = "refused"] BY <2>1 DEF ServeRenewal, Honoured
  <2>3. \A d \in Calls : renewal'[d].at = "issued" => renewal'[d] = renewal[d]
      BY <2>2 DEF Inv, GateInv, TypeOK, Renewal
  <2> QED BY <2>1, <2>3 DEF NotRenewed
<1>4. Barren => \A d \in Calls : /\ call'[d].at # "answered"
                                 /\ call'[d].at = "sent" => call'[d].token <= expired
    BY <1>1 DEF Barren
<1> QED BY <1>1, <1>2, <1>3, <1>4, CallsOnly

LEMMA RenewalFailsCache ==
    ASSUME Inv, NEW c \in Calls, RenewalFails(c)
    PROVE  CacheSound'
<1>1. UNCHANGED <<page, call, leaving, jar, expired, login, worker, asked>>
    BY DEF RenewalFails
<1>2. (lost => lost') /\ (misread => misread') /\ (good = 0 => good' = 0)
    BY Failed DEF Inv, GateInv
<1>3. \A d \in Calls : renewal'[d].at = "issued" => renewal'[d] = renewal[d]
  <2>1. renewal'[c].at # "issued" BY Failed DEF Inv, GateInv
  <2> QED BY <2>1, Failed DEF Inv, GateInv
<1>4. NotRenewed => NotRenewed' BY <1>1, <1>2, <1>3 DEF NotRenewed
<1>5. RefusedGet' => RefusedGet BY <1>1, <1>2 DEF RefusedGet
<1>6. Barren => \A d \in Calls : /\ call'[d].at # "answered"
                                 /\ call'[d].at = "sent" => call'[d].token <= expired
    BY <1>1 DEF Barren
<1> QED BY <1>1, <1>4, <1>5, <1>6, CallsOnly

(* A renewal arrives: it brings a session to a sign-in that the user has   *)
(* left, which makes it a stray, or to one that no refused GET has ended.  *)
LEMMA ArriveRenewalCache ==
    ASSUME Inv, NEW c \in Calls, ArriveRenewal(c)
    PROVE  CacheSound'
<1>1. /\ UNCHANGED <<page, leaving, expired, good, login, cached, puts, ended, lost, misread, asked>>
      /\ renewal[c].at \in {"issued", "refused", "failed"}
      /\ strays' = IF asked = "out" /\ jar' # jar THEN strays \cup {login} ELSE strays
      /\ jar' # jar => renewal[c].at = "issued" /\ renewal[c].heard # "nobody"
    BY DEF ArriveRenewal
<1>2. renewal'[c] = NoRenewal /\ \A d \in Calls : d # c => renewal'[d] = renewal[d]
    BY DEF Inv, GateInv, TypeOK, ArriveRenewal
<1>3. /\ renewal[c].heard = "page" => Settle(c, Outcome(c)) /\ call[c].at = "leads"
      /\ renewal[c].heard # "page" => UNCHANGED call
    BY <1>1 DEF ArriveRenewal, gate, Inv, GateInv, GateSound
<1>4. /\ Outcome(c) \in Outcomes
      /\ renewal[c].at = "issued" => Outcome(c) = "refreshed"
    BY <1>1 DEF Outcome, Outcomes
<1>5. \A d \in Calls :
        \/ call'[d] = call[d] /\ (renewal[c].heard = "page" => d # c /\ call[d].at # "waits")
        \/ call'[d] = Unsent
        \/ call'[d].at = "again"
        \/ /\ call'[d].at = "login" /\ Outcome(c) = "rejected"
           /\ call'[d].kind = call[d].kind /\ call[d].at \in {"leads", "waits"}
  <2>1. CASE renewal[c].heard = "page"
      BY <1>3, <1>4, <2>1, SettleMoves DEF Inv, GateInv
  <2>2. CASE renewal[c].heard # "page" BY <1>3, <2>2
  <2> QED BY <2>1, <2>2
<1>6. NotRenewed => NotRenewed' BY <1>1, <1>2 DEF NotRenewed, NoRenewal
<1>7. RefusedGet' => RefusedGet BY <1>1, <1>5 DEF RefusedGet, Unsent
<1>8. strays \subseteq strays' BY <1>1
<1>9. LeavingSound' BY <1>1, <1>8 DEF Inv, LeavingSound
<1>10. PurgeSound'
  <2>1. CASE jar' = jar
    <3>1. Barren => Barren' BY <1>1, <1>5, <2>1 DEF Barren, Unsent
    <3> QED BY <1>1, <1>7, <1>8, <3>1 DEF Inv, PurgeSound
  <2>2. CASE jar' # jar /\ asked = "out" BY <1>1, <2>2 DEF PurgeSound
  <2>3. CASE jar' # jar /\ asked # "out"
    <3>1. renewal[c].at = "issued" /\ renewal[c].heard # "nobody" BY <1>1, <2>3
    <3>2. login \in ended => login \in strays
        BY <2>3, <3>1 DEF Inv, EndedSound, NotRenewed
    <3>3. ~RefusedGet'
      <4> SUFFICES ASSUME RefusedGet' PROVE FALSE OBVIOUS
      <4>1. PICK d \in Calls : call'[d].at \in {"leads", "waits", "login"}
          BY DEF RefusedGet
      <4>2. ~lost /\ ~misread /\ leaving # "served" BY <1>1, <2>3 DEF RefusedGet, Inv, LeavingSound
      <4>3. renewal[c].heard = "page" /\ call[c].at = "leads"
          BY <1>1, <1>3, <3>1, <4>2 DEF Inv, GateInv, RenewalSound
      <4>4. call'[d] = call[d] /\ d # c /\ call[d].at # "waits"
          BY <1>4, <1>5, <3>1, <4>1, <4>3 DEF Unsent
      <4>5. call[d].at = "login" BY <4>1, <4>3, <4>4 DEF Inv, GateInv, GateSound
      <4> QED BY <3>1, <4>2, <4>5 DEF Inv, GateInv, TokensSound
    <3> QED BY <1>1, <2>3, <3>2, <3>3 DEF PurgeSound
  <2> QED BY <2>1, <2>2, <2>3
<1>11. EndedSound' BY <1>1, <1>6, <1>8 DEF Inv, EndedSound
<1> QED BY <1>9, <1>10, <1>11 DEF CacheSound

(* Whoever leads goes without the answer: no renewal has been lost before  *)
(* that a refused GET could count on.                                      *)
LEMMA AbandonCache ==
    ASSUME Inv, NEW c \in Calls, Abandon(c) \/ DropLead(c)
    PROVE  CacheSound'
<1>1. /\ UNCHANGED <<page, leaving, jar, expired, good, login, worker, asked>>
      /\ call[c].at = "leads" /\ Settle(c, "unavailable") /\ lost'
    BY DEF Abandon, DropLead, net
<1>2. \A d \in Calls : call'[d] = call[d] \/ call'[d] = Unsent \/ call'[d].at = "again"
                                          \/ call'[d].at = "login"
    BY <1>1, SettleMoves DEF Inv, GateInv, Outcomes
<1>3. RefusedGet' => RefusedGet BY <1>1 DEF RefusedGet
<1>4. NotRenewed => NotRenewed'
  <2>1. PICK h \in {"nobody", "browser"} : renewal' = [renewal EXCEPT ![c].heard = h]
      BY DEF Abandon, DropLead
  <2>2. /\ \A d \in Calls : d # c => renewal'[d] = renewal[d]
        /\ renewal'[c].at = renewal[c].at
      BY <2>1 DEF Inv, GateInv, TypeOK, Renewal
  <2>3. renewal[c].heard = "page" BY <1>1 DEF Inv, GateInv, GateSound
  <2> QED BY <1>1, <2>2, <2>3 DEF NotRenewed
<1>5. Barren => \A d \in Calls : /\ call'[d].at # "answered"
                                 /\ call'[d].at = "sent" => call'[d].token <= expired
    BY <1>2 DEF Barren, Unsent
<1> QED BY <1>1, <1>3, <1>4, <1>5, CallsOnly

(* The page is torn down, for good if the user left it or a GET that is    *)
(* refused with an ended session sends it to the login page.               *)
LEMMA TornDownCache ==
    ASSUME Inv, TornDown, UNCHANGED <<net, cached, puts, strays, asked>>,
           \/ ended' = ended
           \/ ended' = ended \cup {login} /\ (asked = "out" \/ (RefusedGet /\ good = 0))
    PROVE  CacheSound'
<1>1. /\ UNCHANGED <<jar, expired, good, login, cached, puts, strays, asked>>
      /\ page' = "away" /\ leaving' = "no"
      /\ \A c \in Calls : /\ call'[c] = Unsent
                          /\ renewal'[c].at = "issued" => renewal'[c].heard = "nobody"
  <2>1. \A c \in Calls : renewal'[c].at = "issued" => renewal'[c].heard = "nobody"
      BY DEF TornDown, Inv, GateInv, TypeOK, Renewal, NoRenewal
  <2> QED BY <2>1 DEF TornDown, net
<1>2. LeavingSound' BY <1>1 DEF LeavingSound
<1>3. ~RefusedGet' BY <1>1 DEF RefusedGet, Unsent
<1>4. Barren => Barren' BY <1>1 DEF Barren, Unsent
<1>5. login \in ended' => login \in strays \/ Barren BY DEF Inv, PurgeSound
<1>6. PurgeSound' BY <1>1, <1>3, <1>4, <1>5 DEF Inv, PurgeSound
<1>7. EndedSound'
  <2>1. NotRenewed => NotRenewed' BY <1>1 DEF NotRenewed
  <2>2. login \in ended' => login \in strays \/ NotRenewed'
    <3>1. login \in ended => login \in strays \/ NotRenewed' BY <2>1 DEF Inv, EndedSound
    <3>2. asked = "out" \/ good = 0 => NotRenewed' BY <1>1 DEF NotRenewed
    <3> QED BY <3>1, <3>2
  <2>3. \A l \in ended' : l \in ended \/ l = login OBVIOUS
  <2>4. login \in Nat BY DEF Inv, GateInv, TypeOK
  <2>5. \A l \in ended' : /\ l <= login
                          /\ l \in cached => l \in strays
      BY <1>5, <2>3, <2>4 DEF Inv, EndedSound, Barren
  <2>6. \A c \in Calls : puts[c] \in ended' => puts[c] \in strays
      BY <1>5, <2>3 DEF Inv, EndedSound, Barren
  <2> QED BY <1>1, <2>2, <2>5, <2>6 DEF EndedSound
<1> QED BY <1>2, <1>6, <1>7 DEF CacheSound

LEMMA ToLoginCache ==
    ASSUME Inv, NEW c \in Calls, ToLogin(c)
    PROVE  CacheSound'
<1>1. call[c].at = "login" /\ TornDown /\ UNCHANGED <<net, cached, puts, strays, asked>>
    BY DEF ToLogin
<1>2. call[c].kind = "get" /\ ~lost /\ ~misread => asked = "out" \/ (RefusedGet /\ good = 0)
    BY <1>1 DEF Inv, GateInv, TokensSound, LeavingSound, RefusedGet
<1>3. ended' = IF call[c].kind = "get" /\ ~lost /\ ~misread THEN ended \cup {login} ELSE ended
    BY DEF ToLogin
<1> QED BY <1>1, <1>2, <1>3, TornDownCache

LEMMA GiveUpBootCache ==
    ASSUME Inv, GiveUpBoot
    PROVE  CacheSound'
<1>1. TornDown /\ UNCHANGED <<net, worker, asked>> BY DEF GiveUpBoot
<1> QED BY <1>1, TornDownCache DEF worker

LEMMA GoAwayCache ==
    ASSUME Inv, GoAway
    PROVE  CacheSound'
<1>1. leaving = "served" /\ TornDown /\ UNCHANGED <<net, cached, puts, strays, asked>>
      /\ ended' = ended \cup {login}
    BY DEF GoAway
<1>2. asked = "out" BY <1>1 DEF Inv, LeavingSound
<1> QED BY <1>1, <1>2, TornDownCache

LEMMA AskLogoutCache ==
    ASSUME Inv, AskLogout
    PROVE  CacheSound'
<1>1. /\ page = "open" /\ leaving = "no" /\ leaving' = "asked" /\ asked' = "asked"
      /\ UNCHANGED <<page, call, renewal, jar, expired, good, login, cached, puts, ended,
                     strays, lost, misread>>
    BY DEF AskLogout, net, worker
<1>2. LeavingSound' BY <1>1 DEF LeavingSound
<1>3. Barren => Barren' BY <1>1 DEF Barren
<1>4. PurgeSound' BY <1>1, <1>3 DEF Inv, PurgeSound, RefusedGet
<1>5. EndedSound' BY <1>1 DEF Inv, EndedSound
<1> QED BY <1>2, <1>4, <1>5 DEF CacheSound

LEMMA LogoutCache ==
    ASSUME Inv, Logout
    PROVE  CacheSound'
<1>1. /\ leaving = "asked" /\ leaving' = "served" /\ asked' = "out" /\ jar'.session = 0
      /\ Purged /\ UNCHANGED <<page, call, login, expired, puts, ended>>
    BY DEF Logout, Inv, GateInv, TypeOK
<1>2. page = "open" BY <1>1 DEF Inv, LeavingSound
<1>3. /\ cached' = {} /\ strays \subseteq strays'
      /\ login \in strays' \/ (jar'.session <= expired' => Barren')
    BY <1>1, PurgeEmpties
<1>4. jar'.session <= expired' BY <1>1 DEF Inv, GateInv, TypeOK
<1>5. LeavingSound' BY <1>1, <1>2 DEF LeavingSound
<1>6. PurgeSound' BY <1>1, <1>3, <1>4 DEF PurgeSound
<1>7. EndedSound' BY <1>1, <1>2, <1>3 DEF Inv, EndedSound
<1> QED BY <1>5, <1>6, <1>7 DEF CacheSound

LEMMA LogoutFailsCache ==
    ASSUME Inv, LogoutFails
    PROVE  CacheSound'
<1>1. /\ leaving = "asked" /\ leaving' = "no" /\ Purged
      /\ UNCHANGED <<page, call, renewal, jar, expired, good, login, puts, ended, lost, misread, asked>>
    BY DEF LogoutFails, net
<1>2. /\ cached' = {} /\ strays \subseteq strays'
      /\ login \in strays' \/ (jar'.session <= expired' => Barren')
    BY <1>1, PurgeEmpties
<1>3. LeavingSound' BY <1>1, <1>2 DEF Inv, LeavingSound
<1>4. PurgeSound' BY <1>1, <1>2 DEF Inv, PurgeSound, RefusedGet, Barren
<1>5. NotRenewed' = NotRenewed BY <1>1 DEF NotRenewed
<1>6. EndedSound' BY <1>1, <1>2, <1>5 DEF Inv, EndedSound
<1> QED BY <1>3, <1>4, <1>6 DEF CacheSound

LEMMA BootCache ==
    ASSUME Inv, Boot
    PROVE  CacheSound'
<1>1. /\ page = "away" /\ page' = "boot"
      /\ UNCHANGED <<call, renewal, leaving, jar, expired, good, login, cached, puts, ended,
                     strays, lost, misread, asked>>
    BY DEF Boot, net, worker
<1>2. LeavingSound' BY <1>1 DEF Inv, LeavingSound
<1>3. Barren => Barren' BY <1>1 DEF Barren
<1>4. PurgeSound' BY <1>1, <1>3 DEF Inv, PurgeSound, RefusedGet
<1>5. NotRenewed' = NotRenewed BY <1>1 DEF NotRenewed
<1>6. EndedSound' BY <1>1, <1>5 DEF Inv, EndedSound
<1> QED BY <1>2, <1>4, <1>6 DEF CacheSound

(* Whoever signs in next has cached nothing yet.                           *)
LEMMA LoginCache ==
    ASSUME Inv, Login
    PROVE  CacheSound'
<1>1. /\ page = "away" /\ page' = "boot" /\ login' = login + 1 /\ asked' = "no"
      /\ UNCHANGED <<call, leaving, cached, puts, ended, strays>>
    BY DEF Login, worker
<1>2. \A c \in Calls : call[c].at = "idle"
    BY <1>1 DEF Inv, GateInv, GateSound, Unsent
<1>3. login' \notin ended' /\ \A l \in ended' : l <= login'
  <2>1. /\ login \in Nat /\ ended \subseteq Nat /\ \A l \in ended : l <= login
      BY DEF Inv, GateInv, TypeOK, EndedSound
  <2> QED BY <1>1, <2>1
<1>4. LeavingSound' BY <1>1 DEF Inv, LeavingSound
<1>5. PurgeSound' BY <1>1, <1>2, <1>3 DEF PurgeSound, RefusedGet
<1>6. EndedSound' BY <1>1, <1>3 DEF Inv, EndedSound
<1> QED BY <1>4, <1>5, <1>6 DEF CacheSound

LEMMA SessionEndsCache ==
    ASSUME Inv, SessionEnds
    PROVE  CacheSound'
<1>1. /\ UNCHANGED <<page, call, renewal, leaving, jar, expired, login, worker, lost, misread, asked>>
      /\ good' = 0
    BY DEF SessionEnds
<1>2. RefusedGet' => RefusedGet BY <1>1 DEF RefusedGet
<1>3. NotRenewed => NotRenewed' BY <1>1 DEF NotRenewed
<1>4. Barren => \A d \in Calls : /\ call'[d].at # "answered"
                                 /\ call'[d].at = "sent" => call'[d].token <= expired
    BY <1>1 DEF Barren
<1> QED BY <1>1, <1>2, <1>3, <1>4, CallsOnly

LEMMA ExpireCache ==
    ASSUME Inv, Expire
    PROVE  CacheSound'
<1>1. /\ UNCHANGED <<page, call, renewal, leaving, jar, good, login, cached, puts, ended,
                     strays, lost, misread, asked>>
      /\ expired' = expired + 1
    BY DEF Expire, worker
<1>2. LeavingSound' BY <1>1 DEF Inv, LeavingSound
<1>3. Barren => Barren'
  <2>1. /\ expired \in Nat /\ jar.session \in Nat /\ \A c \in Calls : call[c].token \in Nat
      BY DEF Inv, GateInv, TypeOK, Call
  <2> QED BY <1>1, <2>1 DEF Barren
<1>4. PurgeSound' BY <1>1, <1>3 DEF Inv, PurgeSound, RefusedGet
<1>5. NotRenewed' = NotRenewed BY <1>1 DEF NotRenewed
<1>6. EndedSound' BY <1>1, <1>5 DEF Inv, EndedSound
<1> QED BY <1>2, <1>4, <1>6 DEF CacheSound

LEMMA StutterCache ==
    ASSUME Inv, UNCHANGED vars
    PROVE  CacheSound'
<1>1. UNCHANGED <<page, call, renewal, leaving, jar, expired, good, login, worker, lost, misread, asked>>
    BY DEF vars, net
<1>2. RefusedGet' => RefusedGet BY <1>1 DEF RefusedGet
<1>3. NotRenewed => NotRenewed' BY <1>1 DEF NotRenewed
<1>4. Barren => \A d \in Calls : /\ call'[d].at # "answered"
                                 /\ call'[d].at = "sent" => call'[d].token <= expired
    BY <1>1 DEF Barren
<1> QED BY <1>1, <1>2, <1>3, <1>4, CallsOnly

LEMMA NextInv == Inv /\ [Next]_vars => Inv'
<1> SUFFICES ASSUME Inv, [Next]_vars PROVE Inv' OBVIOUS
<1>1. CacheSound'
  <2>1. CASE \E c \in Calls :
          \/ Put(c) \/ Send(c) \/ Serve(c) \/ ArriveOk(c) \/ NoAnswer(c)
          \/ ArriveRefused(c) \/ Resend(c)
      BY <2>1, PutCache, SendCache, ServeCache, ArriveOkCache, NoAnswerCache,
         ArriveRefusedCache, ResendCache
  <2>2. CASE \E c \in Calls :
          \/ ServeRenewal(c) \/ RenewalFails(c) \/ ArriveRenewal(c) \/ Abandon(c)
          \/ DropLead(c) \/ ToLogin(c)
      BY <2>2, ServeRenewalCache, RenewalFailsCache, ArriveRenewalCache, AbandonCache,
         ToLoginCache
  <2>3. CASE GiveUpBoot \/ AskLogout \/ Logout \/ LogoutFails \/ GoAway \/ Boot \/ Login
             \/ SessionEnds \/ Expire
      BY <2>3, GiveUpBootCache, AskLogoutCache, LogoutCache, LogoutFailsCache, GoAwayCache,
         BootCache, LoginCache, SessionEndsCache, ExpireCache
  <2>4. CASE UNCHANGED vars BY <2>4, StutterCache
  <2> QED BY <2>1, <2>2, <2>3, <2>4 DEF Next
<1>2. GateInv' BY NextGateInv DEF Inv
<1> QED BY <1>1, <1>2 DEF Inv, CacheSound

(* A purge leaves nothing of the sign-in that could come back into the     *)
(* cache without making a stray of it, and its end brings nothing back     *)
(* (sw.js, the fetch handler; api.rs, logout).                             *)
THEOREM SpecInv == Spec => []Inv
<1>1. Init => Inv
  <2> SUFFICES ASSUME Init PROVE Inv OBVIOUS
  <2>1. GateInv BY InitGateInv
  <2>2. /\ \A c \in Calls : call[c].at = "idle" /\ puts[c] = 0
        /\ leaving = "no" /\ asked = "no" /\ ended = {}
      BY DEF Init, Unsent
  <2>3. LeavingSound BY <2>2 DEF LeavingSound
  <2>4. PurgeSound BY <2>2 DEF PurgeSound, RefusedGet
  <2>5. EndedSound BY <2>2 DEF EndedSound
  <2> QED BY <2>1, <2>3, <2>4, <2>5 DEF Inv
<1>2. Inv /\ [Next]_vars => Inv' BY NextInv
<1> QED BY <1>1, <1>2, PTL DEF Spec

(* What the worker cached for someone is gone once the user has logged out *)
(* or been sent to the login page by a refused GET, strays apart (sw.js,   *)
(* auth_state.rs).                                                         *)
THEOREM SpecCacheEndsWithTheSession == Spec => []CacheEndsWithTheSession
<1>1. Inv => CacheEndsWithTheSession BY DEF Inv, EndedSound, CacheEndsWithTheSession
<1> QED BY <1>1, SpecInv, PTL
==============================================================================
