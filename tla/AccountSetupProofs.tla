-------------------------- MODULE AccountSetupProofs --------------------------
(***************************************************************************)
(* Who gets to play, and for which company, for any accounts, pages and    *)
(* tours: what a tab shows agrees with the account it shows it to, although *)
(* every answer it goes by may be late and may have been given for another *)
(* page or another user.                                                   *)
(***************************************************************************)
EXTENDS AccountSetup, TLAPS

\* Types of the variables.
Accounts == Users \cup {Nobody}
Steps == {0} \cup DOMAIN TourSteps
Places == [page : Pages, tour : Steps, next : Pages \cup {""}]
Statuses == {"new", "founded", "ready"}
Queries == {"gate", "page", "companies"}
Calls == [by : Queries \cup Errands \cup {"session"}, for : Accounts,
          page : Pages \cup {""}, wanted : BOOLEAN,
          answer : {"none", "failed", "ok"} \cup Statuses, rows : SUBSET Accounts]
Gates == [status : {"none"} \cup Statuses, statusFor : Pages \cup {""}, of : Accounts,
          loading : BOOLEAN, failed : BOOLEAN, ran : {<<>>} \cup (Pages \X Accounts),
          fired : {<<>>} \cup (Pages \X (Places \cup {Nowhere}))]
Views == [on : Pages \cup {""}, narrow : BOOLEAN, ready : BOOLEAN, busy : SUBSET Errands,
          company : Accounts]

CallTypes(cs) == cs \subseteq Calls /\ \A c \in cs : c.by \in Errands => c.page \in Pages

Typed ==
    /\ owners \subseteq Accounts /\ taught \subseteq Accounts
    /\ account \in Accounts /\ session \in Accounts
    /\ known \in BOOLEAN /\ narrow \in BOOLEAN /\ apart \in BOOLEAN
    /\ location \in Places /\ going \in Places \cup {Nowhere}
    /\ gate \in Gates /\ view \in Views
    /\ stored \in Accounts /\ CallTypes(calls)

\* What a status says of a user.
Truthful(status, u) ==
    /\ status \in {"founded", "ready"} => u \in owners
    /\ status = "ready" => u \in taught

\* An answer is true of the account it was given for, as long as it is under way: a
\* player loses neither the company nor the tutorial.
AnswersTrue ==
    \A c \in calls :
        /\ c.by \in Queries => c.answer # "ok"
        /\ c.answer \in Statuses => c.for # Nobody
        /\ Truthful(c.answer, c.for)
        /\ c.rows \subseteq {c.for} \cap owners

\* The tab has a session only if it knows of it; and unless another account has been
\* signed in since, requests are made for that session's account, or for none.
SessionTrue ==
    /\ session # Nobody => known
    /\ session # Nobody /\ ~apart => account \in {Nobody, session}

\* If u has the session, and no other account has been signed in since, u asked.
Own(u, asker) == u = session /\ ~apart => asker = u

\* The answer the gate waits for is about the page its effect ran for, and was
\* asked for the session the effect ran for, or for nobody.
GateAsks ==
    \A c \in calls : c.by = "gate" /\ c.wanted =>
        \E u \in Users : gate.ran = <<c.page, u>> /\ (c.for = Nobody \/ Own(u, c.for))

\* What the gate knows, when it waits for nothing and nothing has failed, is true
\* of the page its effect ran for and of the account that was asked for.
GateTrue ==
    \A page \in Pages, u \in Users :
        /\ gate.ran = <<page, u>> /\ ~IsStaff(u)
        /\ ~gate.loading /\ ~gate.failed /\ gate.status # "none"
        => gate.statusFor = page /\ Truthful(gate.status, gate.of) /\ Own(u, gate.of)

\* A company is chosen, or asked for, only where the provider asks.
ChosenInGame ==
    /\ view.company # Nobody => view.company \in owners /\ view.on \in AppPages \cup {Notice}
    /\ \A c \in calls : c.by = "companies" /\ c.wanted => view.on \in AppPages \cup {Notice}

\* And in the game it is the company of the player that the page is shown to.
ChosenForUser ==
    gate.ran = Depends /\ Shown /\ view.on = here /\ here \in AppPages /\ ~apart =>
        /\ view.company \in {Nobody, session}
        /\ \A c \in calls : c.by = "companies" /\ c.wanted => c.for \in {Nobody, session}

\* What the invariant says apart from the types.
Knowledge ==
    AnswersTrue /\ SessionTrue /\ GateAsks /\ GateTrue /\ ChosenInGame /\ ChosenForUser

\* The inductive invariant.
AccountInv == Typed /\ Knowledge
-----------------------------------------------------------------------------
(* Pages and places.                                                       *)

LEMMA PageNames ==
  /\ AppPages \subseteq Pages
  /\ {"/sign-in", "/onboarding", "/tutorial", "/profile", "/admin", "/moderation",
      "/overview", Notice} \subseteq Pages
  /\ "" \notin Pages
BY PagesAssumption DEF Pages, AuthPages, Notice

LEMMA AtPlace == \A page \in Pages : At(page) \in Places /\ At(page) # Nowhere /\ At(page).page = page
BY PageNames DEF At, Nowhere, Places, Steps

LEMMA TourPlaces ==
  /\ 1 \in DOMAIN TourSteps
  /\ \A step \in DOMAIN TourSteps : TourSteps[step] \in AppPages /\ OnTour(step) \in Places
<1>1. TourSteps \in Seq(AppPages) /\ TourSteps # <<>>
  BY PagesAssumption
<1>2. 1 \in DOMAIN TourSteps /\ \A step \in DOMAIN TourSteps : TourSteps[step] \in AppPages
  BY <1>1
<1>3. QED
  BY <1>2, PageNames DEF OnTour, Places, Steps

LEMMA SafePlace == \A next \in Pages \cup {""} : SafeNext(next) \in Pages
BY PageNames DEF SafeNext

LEMMA NextPlace == \A page \in Pages : [At("/sign-in") EXCEPT !.next = page] \in Places
BY PageNames, AtPlace DEF Places, At, Nowhere

LEMMA RedirectTyped == ASSUME Typed PROVE RedirectTarget \in Places \cup {Nowhere}
<1>1. here \in Pages /\ location.next \in Pages \cup {""}
  BY DEF Typed, Places, here
<1>2. /\ [At("/sign-in") EXCEPT !.next = here] \in Places
      /\ At(SafeNext(location.next)) \in Places
      /\ At("/onboarding") \in Places /\ At("/tutorial") \in Places
  BY <1>1, AtPlace, SafePlace, NextPlace, PageNames
<1>3. CASE ~known
  BY <1>3 DEF RedirectTarget
<1>4. CASE known /\ session = Nobody
  BY <1>2, <1>4 DEF RedirectTarget, IsStaff
<1>5. CASE known /\ session # Nobody /\ IsStaff(session)
  <2>1. At(StaffHome[Role[session]]) \in Places
    BY <1>5, AtPlace, PageNames, AccountAssumption DEF StaffHome, IsStaff, Typed, Accounts
  <2>2. QED
    BY <1>5, <2>1 DEF RedirectTarget
<1>6. CASE known /\ session # Nobody /\ ~IsStaff(session)
  <2>1. CASE gate.loading \/ gate.statusFor # here \/ gate.status = "none"
    BY <1>6, <2>1 DEF RedirectTarget
  <2>2. CASE ~(gate.loading \/ gate.statusFor # here \/ gate.status = "none")
    <3>1. gate.status \in Statuses
      BY <2>2 DEF Typed, Gates
    <3>2. QED
      BY <1>2, <1>6, <2>2, <3>1 DEF RedirectTarget, Statuses
  <2>3. QED
    BY <2>1, <2>2
<1>7. QED
  BY <1>3, <1>4, <1>5, <1>6

-----------------------------------------------------------------------------
(* What a page of the game says about the gate that shows it.              *)

LEMMA ShownInGame ==
  ASSUME Typed, Shown, here \in AppPages
  PROVE  /\ known /\ session \in Users /\ ~IsStaff(session)
         /\ ~gate.loading /\ ~gate.failed /\ gate.status \in Statuses
         /\ gate.statusFor = here =>
                /\ gate.status # "new"
                /\ gate.status = "founded" => location.tour > 0 /\ here \in GuidedPages
<1>1. here \notin {"", "/sign-in", "/onboarding", "/tutorial", "/profile", "/admin", "/moderation",
                   Notice}
  BY PagesAssumption DEF Notice
<1>2. known /\ RedirectTarget = Nowhere /\ session \in Accounts
  BY DEF Shown, Typed
<1>3. session # Nobody
  <2>1. here \in Pages
    BY DEF Typed, Places, here
  <2>2. [At("/sign-in") EXCEPT !.next = here] # Nowhere
    BY DEF At, Nowhere
  <2>3. QED
    BY <1>1, <1>2, <2>2 DEF RedirectTarget, PublicPages, AuthPages, IsStaff
<1>4. ~IsStaff(session)
  <2> SUFFICES ASSUME IsStaff(session) PROVE FALSE
    OBVIOUS
  <2>1. Role[session] \in {"ADMIN", "MODERATOR"}
    BY <1>2, <1>3, AccountAssumption DEF IsStaff, Accounts
  <2>2. here \notin StaffPages[Role[session]] \cup PublicPages
    BY <1>1, <2>1 DEF StaffPages, PublicPages, AuthPages
  <2>3. At(StaffHome[Role[session]]) # Nowhere
    BY <2>1, AtPlace, PageNames DEF StaffHome
  <2>4. QED
    BY <1>2, <1>3, <2>2, <2>3 DEF RedirectTarget
<1>5. ~gate.loading /\ gate.status \in Statuses /\ ~gate.failed
  BY <1>1, <1>3 DEF Shown, Typed, Gates
<1>6. ASSUME gate.statusFor = here PROVE gate.status # "new"
  BY <1>1, <1>2, <1>3, <1>4, <1>5, <1>6, AtPlace, PageNames DEF RedirectTarget, Statuses
<1>7. ASSUME gate.statusFor = here, gate.status = "founded"
      PROVE  location.tour > 0 /\ here \in GuidedPages
  BY <1>1, <1>2, <1>3, <1>4, <1>5, <1>7, AtPlace, PageNames DEF RedirectTarget, Statuses
<1>8. QED
  BY <1>2, <1>3, <1>4, <1>5, <1>6, <1>7 DEF Accounts

\* The same, said of the state after a step.
LEMMA ShownInGameNext ==
  (Typed /\ Shown /\ here \in AppPages =>
      known /\ session \in Users /\ ~IsStaff(session) /\ ~gate.loading)'
<1>1. Typed /\ Shown /\ here \in AppPages =>
         known /\ session \in Users /\ ~IsStaff(session) /\ ~gate.loading
  BY ShownInGame
<1>2. QED
  BY <1>1, PTL

-----------------------------------------------------------------------------
(* Requests.                                                               *)

\* A request as it was, except that it may no longer be wanted.
Echo(c, d) ==
    /\ c.by = d.by /\ c.for = d.for /\ c.page = d.page
    /\ c.answer = d.answer /\ c.rows = d.rows
    /\ c.wanted => d.wanted

LEMMA CallTyped ==
  ASSUME Typed, NEW by \in Queries \cup Errands \cup {"session"}, NEW page \in Pages \cup {""}
  PROVE  /\ Call(by, page) \in Calls
         /\ Call(by, page).by = by /\ Call(by, page).for = account /\ Call(by, page).page = page
         /\ Call(by, page).answer = "none" /\ Call(by, page).rows = {}
BY DEF Call, Calls, Typed

LEMMA AskingTyped ==
  ASSUME Typed, NEW by, NEW now, CallTypes(now)
  PROVE  /\ CallTypes(Asking(by, now))
         /\ \A c \in Asking(by, now) :
               c \in now \/ \E d \in calls : Echo(c, d) /\ (c.wanted => c.by \notin by)
<1>1. ASSUME NEW c \in Asking(by, now), c \notin now
      PROVE  /\ c \in Calls /\ (c.by \in Errands => c.page \in Pages)
             /\ \E d \in calls : Echo(c, d) /\ (c.wanted => c.by \notin by)
  <2>1. PICK d \in calls : c = IF d.by \in by THEN [d EXCEPT !.wanted = FALSE] ELSE d
    BY <1>1 DEF Asking
  <2>2. d \in Calls /\ (d.by \in Errands => d.page \in Pages)
    BY DEF Typed, CallTypes
  <2>3. QED
    BY <2>1, <2>2 DEF Calls, Echo
<1>2. QED
  BY <1>1 DEF CallTypes

LEMMA AsksTyped ==
  ASSUME Typed
  PROVE  /\ CallTypes(PageAsks) /\ CallTypes(PageAsks \cup CompanyAsks)
         /\ \A c \in PageAsks : c.by = "page"
         /\ \A c \in PageAsks \cup CompanyAsks :
               /\ c.for = account /\ c.answer = "none" /\ c.rows = {}
               /\ c.by = "page" \/ (c.by = "companies" /\ here \in AppPages \cup {Notice})
<1>1. here \in Pages
  BY DEF Typed, Places, here
<1> DEFINE Asked(by) ==
      /\ Call(by, here) \in Calls /\ Call(by, here).by = by /\ Call(by, here).for = account
      /\ Call(by, here).answer = "none" /\ Call(by, here).rows = {}
<1>5. Asked("page") /\ Asked("companies")
  BY <1>1 DEF Call, Calls, Queries, Typed
<1>2. ASSUME NEW c \in PageAsks
      PROVE  c \in Calls /\ c.by = "page" /\ c.for = account /\ c.answer = "none" /\ c.rows = {}
  BY <1>5, <1>2 DEF PageAsks
<1>3. ASSUME NEW c \in CompanyAsks
      PROVE  /\ c \in Calls /\ c.by = "companies" /\ c.for = account /\ c.answer = "none" /\ c.rows = {}
             /\ here \in AppPages \cup {Notice}
  BY <1>5, <1>3 DEF CompanyAsks
<1>4. QED
  BY <1>2, <1>3 DEF CallTypes, Errands

\* What the gate asks when its effect runs for another page or session.
GateCalls == IF session = Nobody \/ IsStaff(session) THEN {} ELSE {Call("gate", here)}

LEMMA GateCallsTyped ==
  ASSUME Typed
  PROVE  /\ CallTypes(GateCalls)
         /\ \A c \in GateCalls :
               /\ c.by = "gate" /\ c.for = account /\ c.page = here
               /\ c.answer = "none" /\ c.rows = {}
               /\ session \in Users
<1>1. here \in Pages
  BY DEF Typed, Places, here
<1>2. LET c == Call("gate", here) IN
         /\ c \in Calls /\ c.by = "gate" /\ c.for = account /\ c.page = here
         /\ c.answer = "none" /\ c.rows = {}
  BY <1>1 DEF Call, Calls, Queries, Typed
<1>3. ASSUME NEW c \in GateCalls
      PROVE  /\ c \in Calls /\ c.by = "gate" /\ c.for = account /\ c.page = here
             /\ c.answer = "none" /\ c.rows = {} /\ session \in Users
  BY <1>2, <1>3 DEF GateCalls, Typed, Accounts
<1>4. QED
  BY <1>3 DEF CallTypes, Errands

\* The request c, answered.
Reply(c, d) ==
    /\ d.by = c.by /\ d.for = c.for /\ d.page = c.page /\ d.wanted = c.wanted
    /\ c.by \in Queries => d.answer # "ok"
    /\ d.answer \in Statuses => c.for # Nobody
    /\ Truthful(d.answer, c.for)'
    /\ d.rows \subseteq {c.for} \cap owners'

\* Signing somebody in, or out.
LEMMA SignTyped ==
  ASSUME Typed, NEW user \in Accounts, Sign(user), UNCHANGED <<session, known>>
  PROVE  /\ UNCHANGED <<owners, taught>> /\ account' \in Accounts /\ apart' \in BOOLEAN
         /\ apart => apart'
         /\ SessionTrue => SessionTrue'
BY DEF Sign, Overtaken, Typed, SessionTrue

\* Answering a request changes what it has been answered, and nothing else in the tab.
LEMMA ServeTyped ==
  ASSUME Typed, NEW c \in calls, Serve(c) \/ Break(c)
  PROVE  /\ Typed' /\ UNCHANGED <<session, known, narrow, location, going, gate, view, stored>>
         /\ owners \subseteq owners' /\ taught \subseteq taught'
         /\ apart => apart'
         /\ SessionTrue => SessionTrue'
         /\ \A d \in calls' : d \in calls \/ Reply(c, d)
<1>1. c \in Calls /\ (c.by \in Errands => c.page \in Pages)
  BY DEF Typed, CallTypes
<1>2. UNCHANGED <<session, known, narrow, location, going, gate, view, stored>>
  BY DEF Serve, Break, tab
<1> DEFINE Said(answer, rows) == [c EXCEPT !.answer = answer, !.rows = rows]
<1>3. ASSUME NEW answer \in {"failed", "ok"} \cup Statuses, NEW rows \in SUBSET Accounts
      PROVE  LET d == Said(answer, rows) IN
             /\ d \in Calls /\ d.by = c.by /\ d.for = c.for /\ d.page = c.page
             /\ d.wanted = c.wanted /\ d.answer = answer /\ d.rows = rows
  BY <1>1, <1>3 DEF Calls
<1>4. ASSUME NEW answer, NEW rows, Say(c, answer, rows)
      PROVE  calls' = (calls \ {c}) \cup {Said(answer, rows)}
  BY <1>4 DEF Say, Answered
<1> HIDE DEF Said
\* What each of them does to the accounts, and what it answers.
<1>5. /\ owners' \subseteq Accounts /\ taught' \subseteq Accounts /\ account' \in Accounts
      /\ owners \subseteq owners' /\ taught \subseteq taught'
      /\ apart' \in BOOLEAN /\ (apart => apart') /\ (SessionTrue => SessionTrue')
  <2>1. CASE ServeEntry(c)
    <3>1. c.for \in Accounts
      BY <1>1 DEF Calls
    <3>2. QED
      BY <1>2, <2>1, <3>1, SignTyped DEF ServeEntry, Typed
  <2>2. CASE ServeLeave(c)
    <3>1. Nobody \in Accounts
      BY DEF Accounts
    <3>2. QED
      BY <1>2, <2>2, <3>1, SignTyped DEF ServeLeave, Typed
  <2>3. CASE ServeFounding(c) \/ ServeFinishing(c)
    <3>1. /\ owners' \subseteq owners \cup {c.for} /\ taught' \subseteq taught \cup {c.for}
          /\ owners \subseteq owners' /\ taught \subseteq taught' /\ UNCHANGED <<account, apart>>
      BY <2>3 DEF ServeFounding, ServeFinishing
    <3>2. c.for \in Accounts
      BY <1>1 DEF Calls
    <3>3. QED
      BY <1>2, <3>1, <3>2 DEF Typed, SessionTrue
  <2>4. CASE ServeSession(c) \/ Refuse(c) \/ ServeQuery(c) \/ Break(c)
    <3>1. UNCHANGED <<owners, taught, account, apart>>
      BY <2>4 DEF ServeSession, Refuse, ServeQuery, Break, server, tab
    <3>2. QED
      BY <1>2, <3>1 DEF Typed, SessionTrue
  <2>5. QED
    BY <2>1, <2>2, <2>3, <2>4 DEF Serve
<1>6. PICK d \in Calls : calls' = (calls \ {c}) \cup {d} /\ Reply(c, d)
  <2>1. CASE /\ ServeEntry(c) \/ ServeLeave(c) \/ ServeSession(c) \/ ServeFounding(c) \/ ServeFinishing(c)
    <3>1. Say(c, "ok", {}) /\ c.by \notin Queries
      BY <2>1 DEF ServeEntry, ServeLeave, ServeSession, ServeFounding, ServeFinishing, Queries
    <3>2. Reply(c, Said("ok", {}))
      BY <1>3, <3>1 DEF Reply, Truthful, Statuses
    <3>3. QED
      BY <1>3, <1>4, <3>1, <3>2
  <2>2. CASE Refuse(c) \/ Break(c)
    <3>1. Say(c, "failed", {})
      BY <2>2 DEF Refuse, Break
    <3>2. Reply(c, Said("failed", {}))
      BY <1>3 DEF Reply, Truthful, Statuses
    <3>3. QED
      BY <1>3, <1>4, <3>1, <3>2
  <2>3. CASE ServeQuery(c)
    <3>1. PICK status \in Statuses, rows \in SUBSET Accounts :
             /\ status = StatusOf(c.for) /\ rows = CompaniesOf(c.for)
             /\ Truthful(status, c.for)
      BY DEF StatusOf, CompaniesOf, Statuses, Truthful, Typed
    <3>2. /\ Say(c, status, rows) /\ c.for # Nobody /\ UNCHANGED <<owners, taught>>
      BY <2>3, <3>1 DEF ServeQuery, server
    <3>3. Truthful(status, c.for)' /\ rows \subseteq {c.for} \cap owners'
      BY <3>1, <3>2 DEF Truthful, CompaniesOf
    <3>4. Reply(c, Said(status, rows))
      <4>1. Said(status, rows).answer = status /\ status # "ok"
        BY <1>3 DEF Statuses
      <4>2. Truthful(Said(status, rows).answer, c.for)'
        BY <3>3, <4>1 DEF Truthful, Said
      <4>3. /\ Said(status, rows).by = c.by /\ Said(status, rows).for = c.for
            /\ Said(status, rows).page = c.page /\ Said(status, rows).wanted = c.wanted
            /\ Said(status, rows).rows = rows
        BY <1>3
      <4>4. QED
        BY <3>2, <3>3, <4>1, <4>2, <4>3 DEF Reply
    <3>5. QED
      BY <1>3, <1>4, <3>2, <3>4
  <2>4. QED
    BY <2>1, <2>2, <2>3 DEF Serve
<1>7. CallTypes(calls')
  BY <1>1, <1>6 DEF Typed, CallTypes, Reply
<1>8. Typed'
  BY <1>2, <1>5, <1>7 DEF Typed, CallTypes
<1>9. QED
  BY <1>2, <1>5, <1>6, <1>8

-----------------------------------------------------------------------------
(* Types.                                                                  *)

LEMMA FreshTyped ==
  /\ NoGate \in Gates /\ NoView \in Views
  /\ account \in Accounts => CallTypes({Call("session", "")})
<1>1. NoGate \in Gates /\ NoView \in Views
  BY DEF NoGate, NoView, Gates, Views, Accounts
<1>2. ASSUME account \in Accounts PROVE CallTypes({Call("session", "")})
  BY <1>2 DEF CallTypes, Call, Calls, Errands
<1>3. QED
  BY <1>1, <1>2

LEMMA InitTyped == Init => Typed
<1> SUFFICES ASSUME Init PROVE Typed
  OBVIOUS
<1>1. location \in Places /\ going \in Places \cup {Nowhere}
  BY AtPlace, StartAssumption DEF Init
<1>2. gate \in Gates /\ view \in Views
  BY FreshTyped DEF Init
<1>3. /\ owners \subseteq Accounts /\ taught \subseteq Accounts /\ stored \in Accounts
      /\ account \in Accounts /\ session \in Accounts
  BY DEF Init, Accounts
<1>4. CallTypes(calls)
  BY <1>3, FreshTyped DEF Init
<1>5. QED
  BY <1>1, <1>2, <1>3, <1>4 DEF Init, Typed

\* What the effects do when they run for another page or session.
LEMMA EffectsAnew ==
  ASSUME Typed, Effects, gate.ran # Depends
  PROVE  LET fresh == [NoGate EXCEPT !.ran = Depends, !.fired = Directed] IN
         /\ gate' = IF session = Nobody THEN fresh
                    ELSE IF IsStaff(session)
                    THEN [fresh EXCEPT !.status = "ready", !.statusFor = here, !.of = session]
                    ELSE [fresh EXCEPT !.status = gate.status, !.of = gate.of, !.loading = TRUE]
         /\ calls' = Asking({"gate"}, GateCalls)
<1>1. calls' = Asking({"gate"}, GateCalls)
  BY DEF Effects, AskStatus, GateCalls
<1> DEFINE fresh == [NoGate EXCEPT !.ran = Depends, !.fired = Directed]
<1>2. gate' = CASE session = Nobody -> fresh
                [] IsStaff(session) -> [fresh EXCEPT !.status = "ready", !.statusFor = here,
                                                     !.of = session]
                [] OTHER -> [fresh EXCEPT !.status = gate.status, !.of = gate.of, !.loading = TRUE]
  BY DEF Effects, AskStatus
<1> HIDE DEF fresh
<1>3. gate' = IF session = Nobody THEN fresh
              ELSE IF IsStaff(session)
              THEN [fresh EXCEPT !.status = "ready", !.statusFor = here, !.of = session]
              ELSE [fresh EXCEPT !.status = gate.status, !.of = gate.of, !.loading = TRUE]
  BY <1>2 DEF IsStaff
<1>4. QED
  BY <1>1, <1>3 DEF fresh

LEMMA RenderingTyped == ASSUME Typed, Rendering PROVE Typed'
<1>1. here \in Pages /\ session \in Accounts
  BY DEF Typed, Places, here
<1>2. FitGoing \in Places \cup {Nowhere}
  BY AtPlace, PageNames DEF FitGoing, Typed
<1>3. CASE Effects
  <2>1. RedirectTarget \in Places \cup {Nowhere}
    BY RedirectTyped
  <2>2. Depends \in Pages \X Accounts /\ Directed \in Pages \X (Places \cup {Nowhere})
    BY <1>1, <2>1 DEF Depends, Directed
  <2>3. gate' \in Gates
    <3>1. CASE gate.ran = Depends
      <4>1. gate' = [gate EXCEPT !.fired = Directed]
        BY <1>3, <3>1 DEF Effects, AskStatus
      <4>2. gate \in Gates
        BY DEF Typed
      <4>3. QED
        BY <2>2, <4>1, <4>2 DEF Gates
    <3>2. CASE gate.ran # Depends
      <4> DEFINE fresh == [NoGate EXCEPT !.ran = Depends, !.fired = Directed]
      <4>1. fresh \in Gates
        BY <2>2, FreshTyped DEF Gates
      <4>2. gate.status \in {"none"} \cup Statuses /\ gate.of \in Accounts
        BY DEF Typed, Gates
      <4>3. gate' = IF session = Nobody THEN fresh
                    ELSE IF IsStaff(session)
                    THEN [fresh EXCEPT !.status = "ready", !.statusFor = here, !.of = session]
                    ELSE [fresh EXCEPT !.status = gate.status, !.of = gate.of, !.loading = TRUE]
        BY <1>3, <3>2, EffectsAnew
      <4> HIDE DEF fresh
      <4>4. /\ [fresh EXCEPT !.status = "ready", !.statusFor = here, !.of = session] \in Gates
            /\ [fresh EXCEPT !.status = gate.status, !.of = gate.of, !.loading = TRUE] \in Gates
        BY <1>1, <4>1, <4>2 DEF Gates, Statuses
      <4>5. QED
        BY <4>1, <4>3, <4>4
    <3>3. QED
      BY <3>1, <3>2
  <2>4. CallTypes(calls')
    <3>1. CASE gate.ran = Depends
      BY <1>3, <3>1 DEF Effects, AskStatus, Typed
    <3>2. CASE gate.ran # Depends
      BY <1>3, <3>2, EffectsAnew, GateCallsTyped, AskingTyped
    <3>3. QED
      BY <3>1, <3>2
  <2>5. going' \in Places \cup {Nowhere}
    BY <1>3, <2>1 DEF Effects, Typed
  <2>6. QED
    BY <1>3, <2>3, <2>4, <2>5 DEF Effects, Typed, server, CallTypes
<1>4. CASE Mount
  <2>1. CallTypes(calls')
    BY <1>4, AsksTyped, AskingTyped DEF Mount
  <2>2. view' \in Views
    BY <1>1, <1>4 DEF Mount, Views, NoView, Accounts, Typed
  <2>3. QED
    BY <1>2, <1>4, <2>1, <2>2 DEF Mount, Typed, server, CallTypes
<1>5. CASE Fit
  <2>1. CallTypes(calls')
    BY <1>5, AsksTyped, AskingTyped DEF Fit
  <2>2. view' \in Views
    BY <1>5 DEF Fit, Views, Typed
  <2>3. QED
    BY <1>2, <1>5, <2>1, <2>2 DEF Fit, Typed, server, CallTypes
<1>6. CASE Unmount
  <2>1. CallTypes({})
    BY DEF CallTypes
  <2>2. CallTypes(calls')
    BY <1>6, <2>1, AskingTyped DEF Unmount
  <2>3. view' \in Views
    BY <1>6, FreshTyped DEF Unmount
  <2>4. QED
    BY <1>6, <2>2, <2>3 DEF Unmount, Typed, server, CallTypes
<1>7. QED
  BY <1>3, <1>4, <1>5, <1>6 DEF Rendering

\* A page that is loaded anew, or by the sign-in page.
LEMMA LoadTyped ==
  ASSUME Typed, NEW where \in Places, Load(where), UNCHANGED <<server, narrow, stored>>
  PROVE  Typed'
<1>1. gate' \in Gates /\ view' \in Views
  BY FreshTyped DEF Load
<1>2. CallTypes(calls')
  BY FreshTyped DEF Load, Typed
<1>3. QED
  BY <1>1, <1>2 DEF Load, Typed, server, CallTypes, Accounts

LEMMA HearingTyped ==
  ASSUME Typed, AnswersTrue, NEW c \in calls,
         SessionHears(c) \/ GateHears(c) \/ PageHears(c) \/ ProviderHears(c) \/ HandlerHears(c)
         \/ LoadHears(c)
  PROVE  Typed'
<1>1. c \in Calls /\ CallTypes(calls \ {c}) /\ (c.by \in Errands => c.page \in Pages)
  BY DEF Typed, CallTypes
<1>2. c.for \in Accounts /\ c.rows \subseteq Accounts /\ c.page \in Pages \cup {""}
  BY <1>1 DEF Calls
<1>3. CASE SessionHears(c)
  <2>1. session' \in Accounts
    BY <1>2, <1>3 DEF SessionHears, Typed, Accounts
  <2>2. view' \in Views
    BY <1>3 DEF SessionHears, Typed, Views, Accounts
  <2>3. apart' \in BOOLEAN
    BY <1>3 DEF SessionHears, Typed, Overtaken
  <2>4. QED
    BY <1>1, <1>3, <2>1, <2>2, <2>3 DEF SessionHears, Typed, server
<1>4. CASE GateHears(c)
  <2>1. c.answer \in {"failed"} \cup Statuses
    BY <1>1, <1>4 DEF GateHears, AnswersTrue, Calls, Queries
  <2>2. gate \in Gates
    BY DEF Typed
  <2>3. gate' \in Gates
    BY <1>2, <1>4, <2>1, <2>2 DEF GateHears, Gates
  <2>4. QED
    BY <1>1, <1>4, <2>3 DEF GateHears, Typed, server
<1>5. CASE PageHears(c)
  <2>1. Elsewhere(c.page, c.answer) = "" \/ At(Elsewhere(c.page, c.answer)) \in Places
    BY AtPlace, PageNames DEF Elsewhere
  <2>2. going' \in Places \cup {Nowhere}
    BY <1>5, <2>1 DEF PageHears, Typed
  <2>3. view' \in Views
    BY <1>5 DEF PageHears, Typed, Views
  <2>4. QED
    BY <1>1, <1>5, <2>2, <2>3 DEF PageHears, Typed, server
<1>6. CASE ProviderHears(c)
  <2>1. Pick(c.rows, stored) \in Accounts /\ Pick(c.rows, stored) \in c.rows \cup {Nobody}
    BY <1>2 DEF Pick, Typed, Accounts
  <2>2. view' \in Views /\ stored' \in Accounts
    BY <1>6, <2>1 DEF ProviderHears, Typed, Views
  <2>3. QED
    BY <1>1, <1>6, <2>2 DEF ProviderHears, Typed, server
<1>7. CASE c.by \in Errands /\ (HandlerHears(c) \/ LoadHears(c))
  <2>1. At(Destination(c)) \in Places
    BY <1>1, <1>7, AtPlace, PageNames DEF Destination
  <2>2. CASE HandlerHears(c)
    <3>1. going' \in Places \cup {Nowhere}
      BY <2>1, <2>2 DEF HandlerHears, Typed
    <3>2. view' \in Views
      BY <2>2 DEF HandlerHears, Typed, Views
    <3>3. QED
      BY <1>1, <2>2, <3>1, <3>2 DEF HandlerHears, Typed, server
  <2>3. CASE LoadHears(c)
    BY <2>1, <2>3, LoadTyped DEF LoadHears
  <2>4. QED
    BY <1>7, <2>2, <2>3
<1>8. QED
  BY <1>3, <1>4, <1>5, <1>6, <1>7 DEF HandlerHears, LoadHears, Errands

\* A request that a handler sends, or the session's.
NewCall(c) ==
    /\ c \in Calls /\ c.by \notin Queries /\ c.answer = "none" /\ c.rows = {}
    /\ c.by \in Errands => c.page \in Pages

LEMMA Submitting ==
  ASSUME Typed, (\E u \in Users : SignIn(u)) \/ SignOut \/ Found \/ FinishTutorial
  PROVE  \E call : Submit(call) /\ NewCall(call) /\ call.by \in Errands
<1>1. here \in Pages
  BY DEF Typed, Places, here
<1>2. ASSUME NEW by \in Errands, NEW page \in Pages, NEW u \in Accounts
      PROVE  LET c == [Call(by, page) EXCEPT !.for = u] IN NewCall(c) /\ c.by \in Errands
  BY <1>2 DEF Call, Calls, NewCall, Errands, Queries
<1>3. ASSUME NEW by \in Errands
      PROVE  NewCall(Call(by, here)) /\ Call(by, here).by \in Errands
  BY <1>1, <1>3 DEF Call, Calls, NewCall, Errands, Queries, Typed
<1>4. ASSUME NEW u \in Users, SignIn(u)
      PROVE  \E call : Submit(call) /\ NewCall(call) /\ call.by \in Errands
  <2>1. SafeNext(location.next) \in Pages
    BY SafePlace DEF Typed, Places
  <2>2. QED
    BY <1>2, <1>4, <2>1 DEF SignIn, Accounts, Errands
<1>5. QED
  BY <1>3, <1>4 DEF SignOut, Found, FinishTutorial, Errands

LEMMA MovingTyped ==
  ASSUME Typed, SessionTrue, Refetch \/ Arrive \/ Clicks
  PROVE  Typed'
<1>1. CASE Refetch
  <2>1. CallTypes(calls')
    BY <1>1, FreshTyped DEF Refetch, Typed, CallTypes
  <2>2. QED
    BY <1>1, <2>1 DEF Refetch, Typed, server
<1>2. CASE Arrive
  BY <1>2 DEF Arrive, Typed, server, CallTypes
<1>3. ASSUME NEW p \in StartPages, Open(At(p)) PROVE Typed'
  BY <1>3, LoadTyped, AtPlace, StartAssumption DEF Open
<1>4. ASSUME NEW p \in AppPages \cup {"/profile"}, Follow(At(p)) PROVE Typed'
  <2>1. At(p) \in Places
    BY AtPlace, PageNames
  <2>2. QED
    BY <1>4, <2>1 DEF Follow, UsingPage, Clicking, Typed, server, CallTypes
<1>5. CASE (\E u \in Users : SignIn(u)) \/ SignOut \/ Found \/ FinishTutorial
  <2>1. PICK call : Submit(call) /\ NewCall(call) /\ call.by \in Errands
    BY <1>5, Submitting
  <2>2. view' \in Views
    BY <2>1 DEF Submit, Typed, Views
  <2>3. CallTypes(calls')
    BY <2>1 DEF Submit, NewCall, Typed, CallTypes
  <2>4. QED
    BY <2>1, <2>2, <2>3 DEF Submit, UsingPage, Clicking, Typed, server
<1>6. ASSUME NEW u \in Users \cup {Nobody}, SwitchElsewhere(u) PROVE Typed'
  <2>1. /\ UNCHANGED <<owners, taught>> /\ account' \in Accounts /\ apart' \in BOOLEAN
    BY <1>6, SignTyped DEF SwitchElsewhere, Accounts
  <2>2. QED
    BY <1>6, <2>1 DEF SwitchElsewhere, Clicking, Typed, CallTypes
<1>7. CASE FoundElsewhere
  BY <1>7 DEF FoundElsewhere, Typed, tab, CallTypes
<1>8. CASE Resize
  BY <1>8 DEF Resize, Clicking, Typed, server, CallTypes
<1>9. CASE Tour
  <2>1. going' \in Places
    BY <1>9, TourPlaces DEF Tour
  <2>2. QED
    BY <1>9, <2>1 DEF Tour, UsingPage, Clicking, Typed, server, CallTypes
<1>10. QED
  BY <1>1, <1>2, <1>3, <1>4, <1>5, <1>6, <1>7, <1>8, <1>9 DEF Clicks

-----------------------------------------------------------------------------
(* What the gate and the views below it know.                              *)

LEMMA TruthLasts ==
  ASSUME owners \subseteq owners', taught \subseteq taught', NEW status, NEW u,
         Truthful(status, u)
  PROVE  Truthful(status, u)'
BY DEF Truthful

\* Between two renderings, as long as its effects need not run and no other page
\* is mounted, the tab shows what it showed, for the same session.
LEMMA SameUser ==
  ASSUME Typed, Typed', Rendered, gate'.ran = gate.ran, view'.on = view.on,
         gate'.ran = Depends', (view.on = here)'
  PROVE  gate.ran = Depends /\ Shown /\ view.on = here /\ session' = session /\ here' = here
<1>1. gate.ran = Depends
  BY DEF Rendered, EffectsRan
<1>2. here' = here /\ session' = session
  <2>1. Depends' = Depends
    BY <1>1
  <2>2. Depends[1] = here /\ Depends[2] = session /\ Depends'[1] = here' /\ Depends'[2] = session'
    BY DEF Depends
  <2>3. QED
    BY <2>1, <2>2
<1>3. here' \in Pages /\ here' # ""
  BY PageNames DEF Typed, Places, here
<1>4. Shown /\ view.on = here
  BY <1>3 DEF Rendered
<1>5. QED
  BY <1>1, <1>2, <1>4

\* A request after a step that leaves what the gate and the provider wait for alone.
Plain(c) == c \in calls \/ NewCall(c) \/ \E d \in calls : Reply(d, c)

\* Steps that leave the gate and what is mounted alone, and the session as it is.
LEMMA StepKeeps ==
  ASSUME Typed, Typed', Knowledge, Rendered, UNCHANGED <<gate, session>>,
         view'.on = view.on, view'.company = view.company,
         owners \subseteq owners', taught \subseteq taught', apart => apart', SessionTrue',
         \A c \in calls' : Plain(c)
  PROVE  Knowledge'
<1>1. AnswersTrue'
  <2> SUFFICES ASSUME NEW c \in calls'
               PROVE  /\ c.by \in Queries => c.answer # "ok"
                      /\ c.answer \in Statuses => c.for # Nobody
                      /\ Truthful(c.answer, c.for)'
                      /\ c.rows \subseteq {c.for} \cap owners'
    BY DEF AnswersTrue
  <2>1. CASE c \in calls
    BY <2>1, TruthLasts DEF Knowledge, AnswersTrue
  <2>2. CASE NewCall(c)
    BY <2>2 DEF NewCall, Truthful, Statuses
  <2>3. CASE \E d \in calls : Reply(d, c)
    BY <2>3 DEF Reply, Truthful
  <2>4. QED
    BY <2>1, <2>2, <2>3 DEF Plain
<1>2. \A c \in calls' : c.by \in Queries =>
         \E d \in calls : c.by = d.by /\ c.for = d.for /\ c.page = d.page /\ c.wanted = d.wanted
  BY DEF Plain, NewCall, Reply
<1>3. ASSUME NEW u, NEW asker, Own(u, asker) PROVE Own(u, asker)'
  BY <1>3 DEF Own
<1>4. GateAsks'
  <2> SUFFICES ASSUME NEW c \in calls', c.by = "gate", c.wanted
               PROVE  \E u \in Users : gate'.ran = <<c.page, u>> /\ (c.for = Nobody \/ Own(u, c.for)')
    BY DEF GateAsks
  <2>1. PICK d \in calls : c.by = d.by /\ c.for = d.for /\ c.page = d.page /\ c.wanted = d.wanted
    BY <1>2 DEF Queries
  <2>2. PICK u \in Users : gate.ran = <<d.page, u>> /\ (d.for = Nobody \/ Own(u, d.for))
    BY <2>1 DEF Knowledge, GateAsks
  <2>3. QED
    BY <1>3, <2>1, <2>2
<1>5. GateTrue'
  <2> SUFFICES ASSUME NEW page \in Pages, NEW u \in Users, gate.ran = <<page, u>>, ~IsStaff(u),
                      ~gate.loading, ~gate.failed, gate.status # "none"
               PROVE  /\ gate.statusFor = page
                      /\ Truthful(gate.status, gate.of)' /\ Own(u, gate.of)'
    BY DEF GateTrue, IsStaff
  <2>1. gate.statusFor = page /\ Truthful(gate.status, gate.of) /\ Own(u, gate.of)
    BY DEF Knowledge, GateTrue
  <2>2. QED
    BY <2>1 DEF Truthful, Own
<1>6. ChosenInGame'
  BY <1>2 DEF Knowledge, ChosenInGame, Queries
<1>7. ChosenForUser'
  BY <1>2, SameUser DEF Knowledge, ChosenForUser, Queries
<1>8. QED
  BY <1>1, <1>4, <1>5, <1>6, <1>7 DEF Knowledge

\* The API answers: what it says of an account stays true, and the tab is as it was.
LEMMA ServeKeeps ==
  ASSUME Typed, Knowledge, Rendered, NEW c \in calls, Serve(c) \/ Break(c)
  PROVE  Typed' /\ Knowledge'
<1>1. /\ Typed' /\ UNCHANGED <<session, known, gate, view>>
      /\ owners \subseteq owners' /\ taught \subseteq taught' /\ (apart => apart') /\ SessionTrue'
      /\ \A d \in calls' : d \in calls \/ Reply(c, d)
  BY ServeTyped DEF Knowledge
<1>2. \A d \in calls' : Plain(d)
  BY <1>1 DEF Plain
<1>3. QED
  BY <1>1, <1>2, StepKeeps

\* A company that is asked for in the game is asked for by the player to whom the
\* page is shown.
LEMMA AskedByUser ==
  ASSUME Typed, Knowledge, Rendered, NEW c \in calls, c.by = "companies", c.wanted
  PROVE  /\ view.on \in AppPages \cup {Notice}
         /\ here \in AppPages /\ ~apart => c.for \in {Nobody, session}
<1>1. view.on \in AppPages \cup {Notice} /\ view.on # ""
  BY PagesAssumption DEF Knowledge, ChosenInGame, Notice
<1>2. Shown /\ view.on = here /\ gate.ran = Depends
  BY <1>1 DEF Rendered, EffectsRan
<1>3. QED
  BY <1>1, <1>2 DEF Knowledge, ChosenForUser

LEMMA GateHearsKeeps ==
  ASSUME Typed, Typed', Knowledge, Rendered, NEW c \in calls, GateHears(c)
  PROVE  Knowledge'
<1>1. /\ calls' \subseteq calls /\ c.by = "gate" /\ c \in Calls /\ c.answer # "none"
      /\ UNCHANGED <<owners, taught, account, session, known, apart, location, view>>
  BY DEF GateHears, server, Typed, CallTypes
<1>2. c.answer \in {"failed"} \cup Statuses
  BY <1>1 DEF Knowledge, AnswersTrue, Calls, Queries
<1>3. gate'.ran = gate.ran
  BY DEF GateHears, Typed, Gates
<1>4. AnswersTrue' /\ SessionTrue' /\ ChosenInGame'
  BY <1>1 DEF Knowledge, AnswersTrue, SessionTrue, ChosenInGame, Truthful
<1>5. GateAsks'
  BY <1>1, <1>3 DEF Knowledge, GateAsks, Own
<1>6. GateTrue'
  <2>1. CASE gate' = gate
    BY <1>1, <2>1 DEF Knowledge, GateTrue, IsStaff, Truthful, Own
  <2>2. CASE c.wanted /\ c.answer = "failed"
    BY <2>2 DEF GateHears, Wanted, GateTrue, Typed, Gates
  <2>3. CASE c.wanted /\ c.answer # "failed"
    <3>1. PICK u \in Users : gate.ran = <<c.page, u>> /\ (c.for = Nobody \/ Own(u, c.for))
      BY <1>1, <2>3 DEF Knowledge, GateAsks
    <3>2. Truthful(c.answer, c.for) /\ c.for # Nobody
      BY <1>1, <1>2, <2>3 DEF Knowledge, AnswersTrue
    <3>3. gate'.status = c.answer /\ gate'.statusFor = c.page /\ gate'.of = c.for
      BY <2>3 DEF GateHears, Wanted, Typed, Gates
    <3>4. ASSUME NEW page \in Pages, NEW v \in Users, gate'.ran = <<page, v>>
          PROVE  gate'.statusFor = page /\ Truthful(gate.status, gate.of)' /\ Own(v, gate.of)'
      <4>1. page = c.page /\ v = u
        BY <1>3, <3>1, <3>4
      <4>2. QED
        BY <1>1, <3>1, <3>2, <3>3, <4>1 DEF Truthful, Own
    <3>5. QED
      BY <3>4 DEF GateTrue
  <2>4. QED
    BY <2>1, <2>2, <2>3 DEF GateHears, Wanted
<1>7. ChosenForUser'
  BY <1>1, <1>3, SameUser DEF Knowledge, ChosenForUser
<1>8. QED
  BY <1>4, <1>5, <1>6, <1>7 DEF Knowledge

\* The provider takes companies of the account that it asked for.
LEMMA ProviderHearsKeeps ==
  ASSUME Typed, Typed', Knowledge, Rendered, NEW c \in calls, ProviderHears(c)
  PROVE  Knowledge'
<1>1. /\ calls' \subseteq calls /\ view'.on = view.on
      /\ UNCHANGED <<owners, taught, account, session, known, apart, location, gate>>
  BY DEF ProviderHears, server, Typed, Views
<1>2. AnswersTrue' /\ SessionTrue' /\ GateAsks' /\ GateTrue'
  BY <1>1 DEF Knowledge, AnswersTrue, SessionTrue, GateAsks, GateTrue, Truthful, IsStaff, Own
<1>3. \/ view'.company = view.company
      \/ c.by = "companies" /\ c.wanted /\ view'.company \in {Nobody} \cup ({c.for} \cap owners)
  <2>1. Pick(c.rows, stored) \in {Nobody} \cup ({c.for} \cap owners)
    BY DEF Knowledge, AnswersTrue, Pick
  <2>2. QED
    BY <2>1 DEF ProviderHears, Typed, Views
<1>4. ChosenInGame'
  BY <1>1, <1>3, AskedByUser DEF Knowledge, ChosenInGame
<1>5. ChosenForUser'
  BY <1>1, <1>3, SameUser, AskedByUser DEF Knowledge, ChosenForUser
<1>6. QED
  BY <1>2, <1>4, <1>5 DEF Knowledge

\* An answer about the session: either it is the session that the tab had, or its
\* effects have yet to run.
LEMMA SessionHearsKeeps ==
  ASSUME Typed, Typed', Knowledge, Rendered, NEW c \in calls, SessionHears(c)
  PROVE  Knowledge'
<1>1. /\ calls' \subseteq calls /\ view'.on = view.on /\ known' = TRUE
      /\ view'.company \in {view.company, Nobody}
      /\ UNCHANGED <<owners, taught, account, location, gate>>
  BY DEF SessionHears, server, Typed, Views
<1>2. AnswersTrue' /\ ChosenInGame'
  BY <1>1 DEF Knowledge, AnswersTrue, ChosenInGame, Truthful
<1>3. apart' = IF session' = session THEN apart ELSE Overtaken(session', account)
  BY DEF SessionHears
<1>4. SessionTrue'
  BY <1>1, <1>3 DEF Knowledge, SessionTrue, Overtaken
<1>5. ASSUME NEW page, NEW u, gate.ran = <<page, u>>, NEW asker, Own(u, asker)
      PROVE  Own(u, asker)'
  <2>1. u = session
    <3>1. <<page, u>> = Depends
      BY <1>5 DEF Rendered, EffectsRan
    <3>2. <<page, u>>[2] = u /\ Depends[2] = session
      BY DEF Depends
    <3>3. QED
      BY <3>1, <3>2
  <2>2. QED
    BY <1>3, <1>5, <2>1 DEF Own
<1>6. GateAsks'
  BY <1>1, <1>5 DEF Knowledge, GateAsks
<1>7. GateTrue'
  <2> SUFFICES ASSUME NEW page \in Pages, NEW u \in Users, gate.ran = <<page, u>>, ~IsStaff(u),
                      ~gate.loading, ~gate.failed, gate.status # "none"
               PROVE  /\ gate.statusFor = page
                      /\ Truthful(gate.status, gate.of)' /\ Own(u, gate.of)'
    BY <1>1 DEF GateTrue, IsStaff
  <2>1. gate.statusFor = page /\ Truthful(gate.status, gate.of) /\ Own(u, gate.of)
    BY DEF Knowledge, GateTrue
  <2>2. Truthful(gate.status, gate.of)'
    BY <1>1, <2>1 DEF Truthful
  <2>3. Own(u, gate.of)'
    BY <1>1, <1>5, <2>1 DEF Own
  <2>4. QED
    BY <2>1, <2>2, <2>3
<1>8. ChosenForUser'
  <2> SUFFICES ASSUME gate.ran = Depends', (view.on = here)', here' \in AppPages, ~apart'
               PROVE  /\ view'.company \in {Nobody, session'}
                      /\ \A d \in calls' : d.by = "companies" /\ d.wanted => d.for \in {Nobody, session'}
    BY <1>1 DEF ChosenForUser
  <2>1. gate.ran = Depends /\ Shown /\ view.on = here /\ session' = session /\ here' = here
    BY <1>1, SameUser
  <2>2. ~apart
    BY <1>3, <2>1
  <2>3. QED
    BY <1>1, <2>1, <2>2 DEF Knowledge, ChosenForUser
<1>9. QED
  BY <1>2, <1>4, <1>6, <1>7, <1>8 DEF Knowledge

LEMMA LoadKeeps ==
  ASSUME Typed, Typed', NEW where, Load(where)
  PROVE  Knowledge'
<1>1. /\ gate' = NoGate /\ view' = NoView /\ session' = Nobody
      /\ \A c \in calls' : c.by = "session" /\ c.answer = "none" /\ c.rows = {}
  <2>1. LET c == Call("session", "") IN c.by = "session" /\ c.answer = "none" /\ c.rows = {}
    BY DEF Call
  <2>2. QED
    BY <2>1 DEF Load
<1>2. AnswersTrue'
  BY <1>1 DEF AnswersTrue, Truthful, Queries, Statuses
<1>3. SessionTrue' /\ GateAsks' /\ GateTrue' /\ ChosenInGame' /\ ChosenForUser'
  BY <1>1 DEF SessionTrue, GateAsks, GateTrue, ChosenInGame, ChosenForUser, NoGate, NoView
<1>4. QED
  BY <1>2, <1>3 DEF Knowledge

\* When the effects run for another page or another session, the gate forgets what
\* it knew and asks anew; its earlier requests are no longer wanted.
LEMMA EffectsKeep ==
  ASSUME Typed, Typed', Knowledge, Effects
  PROVE  Knowledge'
<1>1. UNCHANGED <<owners, taught, account, session, known, apart, location, view>>
  BY DEF Effects, server
<1>2. SessionTrue'
  BY <1>1 DEF Knowledge, SessionTrue
<1>3. CASE gate.ran = Depends
  <2>1. /\ UNCHANGED calls /\ gate'.of = gate.of
        /\ gate'.status = gate.status /\ gate'.statusFor = gate.statusFor
        /\ gate'.loading = gate.loading /\ gate'.failed = gate.failed /\ gate'.ran = gate.ran
    BY <1>3 DEF Effects, AskStatus, Typed, Gates
  <2>2. AnswersTrue' /\ GateAsks' /\ GateTrue' /\ ChosenInGame'
    BY <1>1, <2>1
       DEF Knowledge, AnswersTrue, GateAsks, GateTrue, ChosenInGame, Truthful, IsStaff, Own
  <2>3. RedirectTarget' = RedirectTarget
    BY <1>1, <2>1 DEF RedirectTarget, here
  <2>4. Shown' = Shown
    BY <1>1, <2>1, <2>3 DEF Shown, here
  <2>5. ChosenForUser'
    BY <1>1, <1>3, <2>1, <2>4 DEF Knowledge, ChosenForUser, here
  <2>6. QED
    BY <1>2, <2>2, <2>5 DEF Knowledge
<1>4. CASE gate.ran # Depends
  <2>1. /\ calls' = Asking({"gate"}, GateCalls)
        /\ gate'.ran = Depends
        /\ session = Nobody => gate'.status = "none"
        /\ session # Nobody /\ ~IsStaff(session) => gate'.loading
    BY <1>4, EffectsAnew DEF NoGate, IsStaff
  <2>2. /\ CallTypes(GateCalls)
        /\ \A c \in GateCalls : /\ c.by = "gate" /\ c.answer = "none" /\ c.rows = {}
                                /\ c.page = here /\ c.for = account /\ session \in Users
    BY GateCallsTyped
  <2>3. \A c \in calls' :
           c \in GateCalls \/ \E d \in calls : Echo(c, d) /\ (c.wanted => c.by # "gate")
    BY <2>1, <2>2, AskingTyped
  <2>4. AnswersTrue'
    BY <1>1, <2>2, <2>3 DEF Knowledge, AnswersTrue, Echo, Truthful, Queries, Statuses
  <2>5. GateAsks'
    <3> SUFFICES ASSUME NEW c \in calls', c.by = "gate", c.wanted
                 PROVE  \E u \in Users : gate'.ran = <<c.page, u>>
                        /\ (c.for = Nobody \/ Own(u, c.for)')
      BY DEF GateAsks
    <3>1. c.page = here /\ c.for = account /\ session \in Users
      BY <2>2, <2>3
    <3>2. PICK u \in Users : u = session
      BY <3>1
    <3>3. gate'.ran = <<c.page, u>>
      BY <2>1, <3>1, <3>2 DEF Depends
    <3>4. c.for = Nobody \/ Own(u, c.for)'
      BY <1>1, <3>1, <3>2, AccountAssumption DEF Knowledge, SessionTrue, Own
    <3>5. QED
      BY <3>3, <3>4
  <2>6. ChosenInGame'
    BY <1>1, <2>2, <2>3 DEF Knowledge, ChosenInGame, Echo
  <2>7. GateTrue'
    <3> SUFFICES ASSUME NEW page \in Pages, NEW u \in Users, gate'.ran = <<page, u>>,
                        ~IsStaff(u), ~gate'.loading, gate'.status # "none"
                 PROVE  FALSE
      BY DEF GateTrue, IsStaff
    <3>1. u = session
      <4>1. <<page, u>>[2] = u /\ Depends[2] = session
        BY DEF Depends
      <4>2. QED
        BY <2>1, <4>1
    <3>2. QED
      BY <2>1, <3>1
  <2>8. ChosenForUser'
    <3> SUFFICES ASSUME Shown', here' \in AppPages
                 PROVE  FALSE
      BY DEF ChosenForUser
    <3>1. (known /\ session \in Users /\ ~IsStaff(session) /\ ~gate.loading)'
      BY ShownInGameNext
    <3>2. session # Nobody /\ ~IsStaff(session)
      BY <1>1, <3>1, AccountAssumption DEF IsStaff
    <3>3. QED
      BY <2>1, <3>1, <3>2
  <2>9. QED
    BY <1>2, <2>4, <2>5, <2>6, <2>7, <2>8 DEF Knowledge
<1>5. QED
  BY <1>3, <1>4

\* A page that is mounted, fitted to the window or taken away: the first and the
\* last leave no company, and what an earlier page asked for is no longer wanted.
LEMMA MountKeeps ==
  ASSUME Typed, Typed', Knowledge, Mount \/ Fit \/ Unmount
  PROVE  Knowledge'
<1>1. UNCHANGED <<owners, taught, account, session, known, apart, location, gate>>
  BY DEF Mount, Fit, Unmount, server
<1>2. PICK now, by :
         /\ calls' = Asking(by, now) /\ CallTypes(now)
         /\ \A c \in now :
               /\ c.for = account /\ c.answer = "none" /\ c.rows = {}
               /\ c.by = "page" \/ (c.by = "companies" /\ Mount /\ view'.on \in AppPages \cup {Notice})
         /\ \/ Fit /\ view'.on = view.on /\ view'.company = view.company
            \/ "companies" \in by /\ view'.company = Nobody
  <2>1. CASE Mount
    <3>1. /\ calls' = Asking({"page", "companies"}, PageAsks \cup CompanyAsks)
          /\ view'.on = here /\ view'.company = Nobody
      BY <2>1 DEF Mount, NoView
    <3>2. QED
      BY <2>1, <3>1, AsksTyped
  <2>2. CASE Fit
    <3>1. /\ calls' = Asking({"page"}, PageAsks)
          /\ view'.on = view.on /\ view'.company = view.company
      BY <2>2 DEF Fit, Typed, Views
    <3>2. QED
      BY <2>2, <3>1, AsksTyped
  <2>3. CASE Unmount
    <3>1. calls' = Asking({"page", "companies"}, {}) /\ view'.company = Nobody
      BY <2>3 DEF Unmount, NoView
    <3>2. CallTypes({})
      BY DEF CallTypes
    <3>3. QED
      BY <3>1, <3>2
  <2>4. QED
    BY <2>1, <2>2, <2>3
<1>3. \A c \in calls' :
         c \in now \/ \E d \in calls : Echo(c, d) /\ (c.wanted => c.by \notin by)
  BY <1>2, AskingTyped
<1>4. AnswersTrue' /\ SessionTrue'
  BY <1>1, <1>2, <1>3
     DEF Knowledge, AnswersTrue, SessionTrue, Echo, Truthful, Statuses
<1>5. GateAsks'
  <2> SUFFICES ASSUME NEW c \in calls', c.by = "gate", c.wanted
               PROVE  \E u \in Users : gate.ran = <<c.page, u>> /\ (c.for = Nobody \/ Own(u, c.for)')
    BY <1>1 DEF GateAsks
  <2>1. PICK d \in calls : Echo(c, d)
    BY <1>2, <1>3
  <2>2. PICK u \in Users : gate.ran = <<d.page, u>> /\ (d.for = Nobody \/ Own(u, d.for))
    BY <2>1 DEF Knowledge, GateAsks, Echo
  <2>3. QED
    BY <1>1, <2>1, <2>2 DEF Echo, Own
<1>6. GateTrue'
  BY <1>1 DEF Knowledge, GateTrue, Truthful, IsStaff, Own
<1>7. ASSUME NEW c \in calls', c.by = "companies", c.wanted
      PROVE  \/ c \in now /\ c.for = account /\ view'.on \in AppPages \cup {Notice}
             \/ /\ Fit /\ view'.on = view.on /\ view'.company = view.company
                /\ \E d \in calls : d.by = "companies" /\ d.wanted /\ d.for = c.for
  BY <1>2, <1>3, <1>7 DEF Echo
<1>8. ChosenInGame'
  <2>1. view'.company # Nobody => Fit /\ view'.on = view.on /\ view'.company = view.company
    BY <1>2
  <2>2. QED
    BY <1>1, <1>7, <2>1 DEF Knowledge, ChosenInGame
<1>9. ChosenForUser'
  <2> SUFFICES ASSUME here \in AppPages, ~apart, Shown', (view.on = here)'
               PROVE  /\ view'.company \in {Nobody, session}
                      /\ \A c \in calls' : c.by = "companies" /\ c.wanted => c.for \in {Nobody, session}
    BY <1>1 DEF ChosenForUser, here
  <2>1. (known /\ session \in Users /\ ~IsStaff(session) /\ ~gate.loading)'
    BY <1>1, ShownInGameNext DEF here
  <2>2. account \in {Nobody, session}
    BY <1>1, <2>1, AccountAssumption DEF Knowledge, SessionTrue
  <2>3. CASE Fit
    <3>1. gate.ran = Depends /\ Shown /\ view.on = here
      BY <2>3 DEF Fit, EffectsRan
    <3>2. /\ view.company \in {Nobody, session}
          /\ \A c \in calls : c.by = "companies" /\ c.wanted => c.for \in {Nobody, session}
      BY <3>1 DEF Knowledge, ChosenForUser
    <3>3. QED
      BY <1>2, <1>7, <2>2, <3>2
  <2>4. CASE ~Fit
    BY <1>2, <1>7, <2>2, <2>4
  <2>5. QED
    BY <2>3, <2>4
<1>10. QED
  BY <1>4, <1>5, <1>6, <1>8, <1>9 DEF Knowledge

-----------------------------------------------------------------------------
(* The theorems.                                                           *)

LEMMA AccountInit == Init => AccountInv
<1> SUFFICES ASSUME Init PROVE AccountInv
  OBVIOUS
<1>1. Typed
  BY InitTyped
<1>2. \A c \in calls : c.by = "session" /\ c.answer = "none" /\ c.rows = {}
  <2>1. LET c == Call("session", "") IN c.by = "session" /\ c.answer = "none" /\ c.rows = {}
    BY DEF Call
  <2>2. QED
    BY <2>1 DEF Init
<1>3. AnswersTrue
  BY <1>2 DEF AnswersTrue, Truthful, Queries, Statuses
<1>4. SessionTrue /\ GateAsks /\ GateTrue /\ ChosenInGame /\ ChosenForUser
  BY <1>2 DEF Init, NoGate, NoView, SessionTrue, GateAsks, GateTrue, ChosenInGame, ChosenForUser
<1>5. QED
  BY <1>1, <1>3, <1>4 DEF AccountInv, Knowledge

\* What the tab hears.
LEMMA HearingKeeps ==
  ASSUME Typed, Knowledge, Rendered, NEW c \in calls,
         SessionHears(c) \/ GateHears(c) \/ PageHears(c) \/ ProviderHears(c) \/ HandlerHears(c)
         \/ LoadHears(c)
  PROVE  Typed' /\ Knowledge'
<1>1. Typed'
  BY HearingTyped DEF Knowledge
<1>2. CASE PageHears(c) \/ HandlerHears(c)
  <2>1. /\ calls' \subseteq calls /\ view'.on = view.on /\ view'.company = view.company
        /\ UNCHANGED <<owners, taught, account, session, known, apart, gate>>
    BY <1>2 DEF PageHears, HandlerHears, server, Typed, Views
  <2>2. SessionTrue' /\ \A d \in calls' : Plain(d)
    BY <2>1 DEF Knowledge, SessionTrue, Plain
  <2>3. QED
    BY <1>1, <2>1, <2>2, StepKeeps
<1>3. CASE LoadHears(c)
  BY <1>1, <1>3, LoadKeeps DEF LoadHears
<1>4. QED
  BY <1>1, <1>2, <1>3, SessionHearsKeeps, GateHearsKeeps, ProviderHearsKeeps

\* What users do, and the steps of the browser that hear of nothing.
LEMMA MovingKeeps ==
  ASSUME Typed, Knowledge, Rendered, Refetch \/ Arrive \/ Clicks
  PROVE  Typed' /\ Knowledge'
<1>1. Typed'
  BY MovingTyped DEF Knowledge
<1>2. CASE \E p \in StartPages : Open(At(p))
  BY <1>1, <1>2, LoadKeeps DEF Open
<1>3. CASE Refetch
  <2>1. NewCall(Call("session", ""))
    BY DEF NewCall, Call, Calls, Typed, Queries, Errands
  <2>2. \A c \in calls' : Plain(c)
    BY <1>3, <2>1 DEF Refetch, Plain
  <2>3. /\ UNCHANGED <<owners, taught, session, account, apart, gate, view>>
        /\ known' = (session # Nobody)
    BY <1>3 DEF Refetch, server
  <2>4. SessionTrue'
    BY <2>3 DEF Knowledge, SessionTrue
  <2>5. QED
    BY <1>1, <2>2, <2>3, <2>4, StepKeeps
<1>4. CASE (\E u \in Users : SignIn(u)) \/ SignOut \/ Found \/ FinishTutorial
  <2>1. PICK call : Submit(call) /\ NewCall(call)
    BY <1>4, Submitting
  <2>2. \A c \in calls' : Plain(c)
    BY <2>1 DEF Submit, Plain
  <2>3. /\ UNCHANGED <<owners, taught, session, known, account, apart, gate>>
        /\ view'.on = view.on /\ view'.company = view.company
    BY <2>1 DEF Submit, UsingPage, server, Typed, Views
  <2>4. SessionTrue'
    BY <2>3 DEF Knowledge, SessionTrue
  <2>5. QED
    BY <1>1, <2>2, <2>3, <2>4, StepKeeps
<1>5. CASE \E u \in Users \cup {Nobody} : SwitchElsewhere(u)
  <2>1. UNCHANGED <<session, known, gate, view, calls>>
    BY <1>5 DEF SwitchElsewhere
  <2>2. UNCHANGED <<owners, taught>> /\ (apart => apart') /\ SessionTrue'
    BY <1>5, <2>1, SignTyped DEF SwitchElsewhere, Accounts, Knowledge
  <2>3. \A c \in calls' : Plain(c)
    BY <2>1 DEF Plain
  <2>4. QED
    BY <1>1, <2>1, <2>2, <2>3, StepKeeps
<1>6. CASE \/ Arrive \/ Resize \/ FoundElsewhere \/ Tour
           \/ \E p \in AppPages \cup {"/profile"} : Follow(At(p))
  <2>1. /\ UNCHANGED <<account, session, known, apart, gate, view, calls>>
        /\ owners \subseteq owners' /\ taught \subseteq taught'
    BY <1>6 DEF Arrive, Resize, FoundElsewhere, Tour, Follow, UsingPage, server, tab
  <2>2. SessionTrue' /\ \A c \in calls' : Plain(c)
    BY <2>1 DEF Knowledge, SessionTrue, Plain
  <2>3. QED
    BY <1>1, <2>1, <2>2, StepKeeps
<1>7. QED
  BY <1>2, <1>3, <1>4, <1>5, <1>6 DEF Clicks

LEMMA AccountNext == AccountInv /\ [Next]_vars => AccountInv'
<1> SUFFICES ASSUME Typed, Knowledge, [Next]_vars PROVE Typed' /\ Knowledge'
  BY DEF AccountInv
<1>1. CASE Rendering
  BY <1>1, RenderingTyped, EffectsKeep, MountKeeps DEF Rendering
<1>2. CASE Rendered /\ (Refetch \/ Arrive \/ Clicks)
  BY <1>2, MovingKeeps
<1>3. ASSUME Rendered, NEW c \in calls,
             SessionHears(c) \/ GateHears(c) \/ PageHears(c) \/ ProviderHears(c) \/ HandlerHears(c)
             \/ LoadHears(c)
      PROVE  Typed' /\ Knowledge'
  BY <1>3, HearingKeeps
<1>4. ASSUME Rendered, NEW c \in calls, Serve(c) \/ Break(c) PROVE Typed' /\ Knowledge'
  BY <1>4, ServeKeeps
<1>5. CASE UNCHANGED vars
  <2>1. Typed'
    BY <1>5 DEF vars, server, tab, Typed, CallTypes
  <2>2. AnswersTrue' /\ SessionTrue' /\ GateAsks' /\ GateTrue' /\ ChosenInGame'
    BY <1>5 DEF vars, server, tab, Knowledge, AnswersTrue, SessionTrue, GateAsks, GateTrue,
       ChosenInGame, Truthful, IsStaff, Own
  <2>3. RedirectTarget' = RedirectTarget /\ Depends' = Depends /\ here' = here
    BY <1>5 DEF vars, server, tab, RedirectTarget, Depends, here
  <2>4. Shown' = Shown
    BY <1>5, <2>3 DEF vars, server, tab, Shown
  <2>5. ChosenForUser'
    BY <1>5, <2>3, <2>4 DEF vars, server, tab, Knowledge, ChosenForUser
  <2>6. QED
    BY <2>1, <2>2, <2>5 DEF Knowledge
<1>6. QED
  BY <1>1, <1>2, <1>3, <1>4, <1>5 DEF Next, Browser, Api, Resting

LEMMA AccountInvariant == Spec => []AccountInv
BY AccountInit, AccountNext, PTL DEF Spec

\* A page of the game is shown by the status of a player who has a company and has
\* done the tutorial or is on its tour: the gate compares its answer with the page,
\* forgets it when the session changes, and takes no answer to a request it has
\* given up.  The player is the one of the session, unless the cookie changed.
THEOREM PlayersAreReady == Spec => []OnlyReadyPlayersPlay
<1>1. AccountInv => OnlyReadyPlayersPlay
  <2> SUFFICES ASSUME AccountInv, Rendered, Shown, here \in AppPages
               PROVE  /\ gate.of \in owners
                      /\ gate.of \in taught \/ (location.tour > 0 /\ here \in GuidedPages)
                      /\ apart \/ gate.of = session
    BY DEF OnlyReadyPlayersPlay
  <2>1. /\ session \in Users /\ ~IsStaff(session) /\ here \in Pages
        /\ ~gate.loading /\ ~gate.failed /\ gate.status \in Statuses
    BY ShownInGame, PageNames DEF AccountInv
  <2>2. gate.ran = <<here, session>>
    BY DEF Rendered, EffectsRan, Depends
  <2>3. gate.statusFor = here /\ Truthful(gate.status, gate.of) /\ Own(session, gate.of)
    BY <2>1, <2>2 DEF AccountInv, Knowledge, GateTrue, Statuses
  <2>4. /\ gate.status # "new"
        /\ gate.status = "founded" => location.tour > 0 /\ here \in GuidedPages
    BY <2>3, ShownInGame DEF AccountInv
  <2>5. QED
    BY <2>1, <2>3, <2>4 DEF Truthful, Statuses, Own
<1>2. QED
  BY <1>1, AccountInvariant, PTL

\* The active company has an owner, who is the player of the session unless the
\* cookie changed: a provider takes an answer only while the page that asked is
\* mounted, which the gate takes away when the session changes.
THEOREM CompanyIsOwn == Spec => []ActiveCompanyIsOwn
<1>1. AccountInv => ActiveCompanyIsOwn
  <2> SUFFICES ASSUME AccountInv, Rendered, view.on \in AppPages, view.company # Nobody
               PROVE  view.company \in owners /\ (apart \/ view.company = session)
    BY DEF ActiveCompanyIsOwn
  <2>1. view.on # ""
    BY PagesAssumption
  <2>2. gate.ran = Depends /\ Shown /\ view.on = here
    BY <2>1 DEF Rendered, EffectsRan
  <2>3. QED
    BY <2>2 DEF AccountInv, Knowledge, ChosenInGame, ChosenForUser
<1>2. QED
  BY <1>1, AccountInvariant, PTL

=============================================================================
