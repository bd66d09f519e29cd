----------------------------- MODULE AccountSetup -----------------------------
(***************************************************************************)
(* How a player gets to a company and into the game: a tab of the web      *)
(* client, whose route gate (auth-route-gate.tsx) and pages ask the API    *)
(* (onboarding.service.ts) for the state of the account and navigate by    *)
(* what they are told, each on its own.  Requests are answered in any      *)
(* order; by then the tab may show another page or serve another user.     *)
(* Below the gate, another one (device-support-gate.tsx) sends narrow      *)
(* windows to a page that tells them so.                                   *)
(*                                                                         *)
(* Requests are made for the account whose cookie the browser has, which   *)
(* every tab of it may change; what the tab takes for its session is what  *)
(* it was told when it last asked.                                         *)
(*                                                                         *)
(* Effects run after the rendering that changed what they depend on,       *)
(* before anything else happens to the tab.                                *)
(***************************************************************************)
EXTENDS Integers, Sequences, FiniteSets

CONSTANTS
    Users, Nobody,  \* accounts, and the absence of one
    Role,           \* of each account, as roles.ts classifies it
    AppPages,       \* pages of the game
    TourSteps,      \* the page of each step of the guided tour
    StartPages,     \* pages that are opened by their address
    MaxEvents       \* bound for model checking: what users do and what fails

ASSUME AccountAssumption ==
    Nobody \notin Users /\ Role \in [Users -> {"USER", "MODERATOR", "ADMIN"}]

\* The pages of the game are those that neither the gates nor onboarding name; the
\* players' home is one of them, and so are the steps of the tour, of which there
\* is at least one.
ASSUME PagesAssumption ==
    /\ "/overview" \in AppPages
    /\ AppPages \cap {"", "/sign-in", "/onboarding", "/tutorial", "/profile", "/admin", "/moderation",
                     "/unsupported-device"} = {}
    /\ TourSteps \in Seq(AppPages) /\ TourSteps # <<>>

VARIABLES
    owners, taught,   \* API: users with a company, and with the tutorial done
    account,          \* API: whom the cookie of the browser signs in
    session, known,   \* what useSession says, and whether it has an answer
    signal,           \* the session is due to be asked for again
    narrow,           \* whether the window is too narrow for the game
    location, going,  \* where the tab is, and where it has been sent
    gate,             \* state of AuthRouteGate
    view,             \* what is mounted below it
    stored,           \* the active company kept in the browser
    calls,            \* requests to the API
    events,           \* how much has happened so far that is bounded
    overtaken,        \* history: a handler sent the tab elsewhere than it was being sent
    apart             \* history: another account was signed in since the session was heard

server == <<owners, taught, account>>
tab == <<session, known, signal, narrow, location, going, gate, view, stored, overtaken, apart>>
vars == <<server, tab, calls, events>>

-----------------------------------------------------------------------------
(* Pages (auth-routes.ts)                                                  *)

AuthPages == {"/sign-in"}
Notice == "/unsupported-device"
PublicPages == AuthPages \cup {Notice}
GuidedPages == {TourSteps[k] : k \in DOMAIN TourSteps}
StaffPages == [role \in {"ADMIN", "MODERATOR"} |->
                  IF role = "ADMIN" THEN {"/admin", "/moderation", "/profile"}
                                    ELSE {"/moderation", "/profile"}]
StaffHome == [role \in {"ADMIN", "MODERATOR"} |-> IF role = "ADMIN" THEN "/admin" ELSE "/moderation"]
Pages == AuthPages \cup AppPages \cup
         {"/onboarding", "/tutorial", "/profile", "/admin", "/moderation", Notice}

ASSUME StartAssumption == StartPages \subseteq Pages

Nowhere == [page |-> "", tour |-> 0, next |-> ""]
At(page) == [Nowhere EXCEPT !.page = page]
OnTour(step) == [page |-> TourSteps[step], tour |-> step, next |-> ""]
here == location.page

IsStaff(u) == u # Nobody /\ Role[u] # "USER"

\* resolveSafeNextPath: where to go on after signing in.
SafeNext(next) == IF next \in {"", "/onboarding", "/tutorial"} \cup AuthPages THEN "/overview" ELSE next

-----------------------------------------------------------------------------
(* The API                                                                 *)

\* getStatus: "new" without a company, "founded" with the tutorial before it.
StatusOf(u) == IF u \notin owners THEN "new" ELSE IF u \notin taught THEN "founded" ELSE "ready"

\* listMyCompanies; a company is named after its owner.
CompaniesOf(u) == {u} \cap owners

Call(by, page) == [by |-> by, for |-> account, page |-> page, wanted |-> TRUE, answer |-> "none",
                   rows |-> {}]

\* Each effect that asks again no longer wants what it asked before.
Asking(by, now) == {IF c.by \in by THEN [c EXCEPT !.wanted = FALSE] ELSE c : c \in calls} \cup now

Answered(c, answer) == calls' = (calls \ {c}) \cup {answer}

\* A tab has one account's session, and another is signed in.
Overtaken(shown, user) == shown # Nobody /\ user \notin {Nobody, shown}

\* Whoever is signed in from now on.
Sign(user) ==
    /\ account' = user
    /\ apart' = (apart \/ Overtaken(session, user))
    /\ UNCHANGED <<owners, taught>>

Say(c, answer, rows) == Answered(c, [c EXCEPT !.answer = answer, !.rows = rows])

\* Signing in and out, complete, completeTutorial and the queries, each of which
\* the API carries out for the account that was signed in when it was sent, and
\* refuses when there was none.  A company is founded once, and the tutorial
\* cannot be completed without one.
ServeEntry(c) == c.by = "entering" /\ Sign(c.for) /\ Say(c, "ok", {})
ServeLeave(c) == c.by = "leaving" /\ Sign(Nobody) /\ Say(c, "ok", {})
ServeSession(c) == c.by = "session" /\ Say(c, "ok", {}) /\ UNCHANGED <<server, apart>>

Refuse(c) ==
    /\ \/ c.by \in {"gate", "page", "companies", "founding", "finishing"} /\ c.for = Nobody
       \/ c.by = "finishing" /\ c.for \notin owners
    /\ Say(c, "failed", {})
    /\ UNCHANGED <<server, apart>>

ServeFounding(c) ==
    /\ c.by = "founding" /\ c.for # Nobody
    /\ owners' = owners \cup {c.for}
    /\ Say(c, "ok", {})
    /\ UNCHANGED <<taught, account, apart>>

ServeFinishing(c) ==
    /\ c.by = "finishing" /\ c.for \in owners
    /\ taught' = taught \cup {c.for}
    /\ Say(c, "ok", {})
    /\ UNCHANGED <<owners, account, apart>>

ServeQuery(c) ==
    /\ c.by \in {"gate", "page", "companies"} /\ c.for # Nobody
    /\ Say(c, StatusOf(c.for), CompaniesOf(c.for))
    /\ UNCHANGED <<server, apart>>

Serve(c) ==
    /\ c.answer = "none"
    /\ \/ ServeEntry(c) \/ ServeLeave(c) \/ ServeSession(c)
       \/ Refuse(c) \/ ServeFounding(c) \/ ServeFinishing(c) \/ ServeQuery(c)
    /\ UNCHANGED <<session, known, signal, narrow, location, going, gate, view, stored, overtaken,
                   events>>

\* Something that is not only due to the program.
Another == events < MaxEvents /\ events' = events + 1

\* A request fails on its way or in the API.
Break(c) ==
    /\ c.answer = "none" /\ Another
    /\ Say(c, "failed", {})
    /\ UNCHANGED <<server, tab>>

-----------------------------------------------------------------------------
(* AuthRouteGate                                                           *)

\* `of' is the account that the status was given for.
NoGate == [status |-> "none", statusFor |-> "", of |-> Nobody, loading |-> FALSE, failed |-> FALSE,
           ran |-> <<>>, fired |-> <<>>]

\* What is mounted below the gate, for which width of the window; whether the page
\* has loaded, and the handlers of it that have not returned.
NoView == [on |-> "", narrow |-> FALSE, ready |-> FALSE, busy |-> {}, company |-> Nobody]

\* redirectTarget: where the gate sends the tab, or nowhere.
RedirectTarget ==
    CASE ~known -> Nowhere
      [] known /\ session = Nobody ->
            IF here \in PublicPages THEN Nowhere ELSE [At("/sign-in") EXCEPT !.next = here]
      [] known /\ IsStaff(session) ->
            IF here \in StaffPages[Role[session]] \cup PublicPages THEN Nowhere
                                                              ELSE At(StaffHome[Role[session]])
      [] OTHER ->
            IF gate.loading \/ gate.statusFor # here \/ gate.status = "none" THEN Nowhere
            ELSE CASE gate.status = "new" ->
                        IF here \in {"/onboarding", "/profile"} THEN Nowhere ELSE At("/onboarding")
                   [] gate.status = "founded" ->
                        IF \/ here \in {"/tutorial", "/profile"}
                           \/ location.tour > 0 /\ here \in GuidedPages
                        THEN Nowhere ELSE At("/tutorial")
                   [] gate.status = "ready" ->
                        IF here \in AuthPages \cup {"/onboarding", "/tutorial"}
                        THEN At(SafeNext(location.next)) ELSE Nowhere

\* Whether the gate shows the page, and not a message in its place.
Shown ==
    /\ known
    /\ RedirectTarget = Nowhere
    /\ session # Nobody => ~gate.loading /\ gate.status # "none" /\ (gate.failed => here = "/profile")

\* What the two effects depend on.
Depends == <<here, session>>
Directed == <<here, RedirectTarget>>

\* The effect that asks for the status: when the page or the user has changed.
AskStatus ==
    IF gate.ran = Depends THEN UNCHANGED calls /\ gate' = [gate EXCEPT !.fired = Directed]
    ELSE LET fresh == [NoGate EXCEPT !.ran = Depends, !.fired = Directed] IN
         /\ gate' = CASE session = Nobody -> fresh
                      [] IsStaff(session) -> [fresh EXCEPT !.status = "ready", !.statusFor = here,
                                                           !.of = session]
                      [] OTHER -> [fresh EXCEPT !.status = gate.status, !.of = gate.of,
                                                !.loading = TRUE]
         /\ calls' = Asking({"gate"}, IF session = Nobody \/ IsStaff(session) THEN {}
                                     ELSE {Call("gate", here)})

EffectsRan == gate.ran = Depends /\ gate.fired = Directed

\* The effects run after a rendering: the redirect as it was rendered.
Effects ==
    /\ ~EffectsRan
    /\ AskStatus
    /\ going' = IF gate.fired # Directed /\ RedirectTarget # Nowhere THEN RedirectTarget ELSE going
    /\ UNCHANGED <<server, session, known, signal, narrow, location, view, stored, events,
                   overtaken, apart>>

\* Mutant: answers to an effect that has been cleaned up are taken.
Any(c) == TRUE

Wanted(c) == c.wanted

\* The answer to the gate.
GateHears(c) ==
    /\ c.by = "gate" /\ c.answer # "none"
    /\ gate' = IF ~Wanted(c) THEN gate
               ELSE IF c.answer = "failed" THEN [gate EXCEPT !.failed = TRUE, !.loading = FALSE]
               ELSE [gate EXCEPT !.status = c.answer, !.statusFor = c.page, !.of = c.for,
                                 !.loading = FALSE]
    /\ calls' = calls \ {c}
    /\ UNCHANGED <<server, session, known, signal, narrow, location, going, view, stored, events, overtaken, apart>>

-----------------------------------------------------------------------------
(* The session (useSession of better-auth): asked for when a page is       *)
(* loaded, and again some time after signing in or out.                    *)

\* Until there is an answer the session counts as pending, if there is none.
Refetch ==
    /\ signal /\ signal' = FALSE
    /\ calls' = calls \cup {Call("session", "")}
    /\ known' = (session # Nobody)
    /\ UNCHANGED <<server, session, narrow, location, going, gate, view, stored, events,
                   overtaken, apart>>

\* The session is the one that was signed in when it was asked for; after an
\* error it is kept, or lost.  Without a session the provider forgets the company.
SessionHears(c) ==
    /\ c.by = "session" /\ c.answer # "none"
    /\ session' \in IF c.answer = "ok" THEN {c.for} ELSE {session, Nobody}
    /\ known' = TRUE
    /\ view' = IF session' = Nobody THEN [view EXCEPT !.company = Nobody] ELSE view
    /\ apart' = IF session' = session THEN apart ELSE Overtaken(session', account)
    /\ calls' = calls \ {c}
    /\ UNCHANGED <<server, signal, narrow, location, going, gate, stored, events, overtaken>>

\* A page is loaded: nothing of the tab's state remains.
Load(where) ==
    /\ location' = where /\ going' = Nowhere
    /\ session' = Nobody /\ known' = FALSE /\ signal' = FALSE /\ apart' = FALSE
    /\ gate' = NoGate /\ view' = NoView
    /\ calls' = {Call("session", "")}

\* The router carries out the latest navigation.
Arrive ==
    /\ going # Nowhere
    /\ location' = going /\ going' = Nowhere
    /\ UNCHANGED <<server, session, known, signal, narrow, gate, view, stored, calls, events,
                   overtaken, apart>>

-----------------------------------------------------------------------------
(* Below the gate: ActiveCompanyProvider, DeviceSupportGate and the page.  *)

\* A narrow window has only the notice, which is for no other.
Unfit == narrow # (here = Notice)
PageHidden == narrow /\ here # Notice
FitGoing == IF Unfit THEN At(IF narrow THEN Notice ELSE "/overview") ELSE going

\* What the page asks for when it is mounted, and the provider, which has nothing
\* to ask for under sign-in, onboarding, tutorial and profile; staff have no company.
PageAsks == IF here \in {"/onboarding", "/tutorial"} /\ ~PageHidden THEN {Call("page", here)} ELSE {}
CompanyAsks == IF here \in AppPages \cup {Notice} /\ session # Nobody /\ ~IsStaff(session)
               THEN {Call("companies", here)} ELSE {}

Mount ==
    /\ EffectsRan /\ Shown /\ view.on # here
    /\ view' = [NoView EXCEPT !.on = here, !.narrow = narrow]
    /\ calls' = Asking({"page", "companies"}, PageAsks \cup CompanyAsks)
    /\ going' = FitGoing
    /\ UNCHANGED <<server, session, known, signal, narrow, location, gate, stored, events,
                   overtaken, apart>>

\* The page goes, or comes back, with the width of the window.
Fit ==
    /\ EffectsRan /\ Shown /\ view.on = here /\ view.narrow # narrow
    /\ view' = [view EXCEPT !.narrow = narrow, !.ready = FALSE, !.busy = {}]
    /\ calls' = Asking({"page"}, PageAsks)
    /\ going' = FitGoing
    /\ UNCHANGED <<server, session, known, signal, narrow, location, gate, stored, events,
                   overtaken, apart>>

Unmount ==
    /\ EffectsRan /\ ~Shown /\ view # NoView
    /\ view' = NoView
    /\ calls' = Asking({"page", "companies"}, {})
    /\ UNCHANGED <<server, session, known, signal, narrow, location, going, gate, stored, events, overtaken, apart>>

\* Mutant: the tutorial page lets everybody with a company go on.
FoundedIsEnough(on, status) ==
    CASE on = "/onboarding" /\ status \in {"founded", "ready"} ->
            IF status = "ready" THEN "/overview" ELSE "/tutorial"
      [] on = "/tutorial" /\ status = "new" -> "/onboarding"
      [] on = "/tutorial" /\ status # "new" -> "/overview"
      [] OTHER -> ""

\* Where the two pages send a user who should not be there.
Elsewhere(on, status) ==
    CASE on = "/onboarding" /\ status \in {"founded", "ready"} ->
            IF status = "ready" THEN "/overview" ELSE "/tutorial"
      [] on = "/tutorial" /\ status = "new" -> "/onboarding"
      [] on = "/tutorial" /\ status = "ready" -> "/overview"
      [] OTHER -> ""

\* A page that is sent away stays until the router has left it.
PageHears(c) ==
    /\ c.by = "page" /\ c.answer # "none"
    /\ calls' = calls \ {c}
    /\ IF c.wanted
       THEN /\ view' = [view EXCEPT !.ready = TRUE]
            /\ going' = IF Elsewhere(c.page, c.answer) = "" THEN going
                        ELSE At(Elsewhere(c.page, c.answer))
       ELSE UNCHANGED <<view, going>>
    /\ UNCHANGED <<server, session, known, signal, narrow, location, gate, stored, events,
                   overtaken, apart>>

\* Mutant: the company kept in the browser is taken as it is.
Trusting(rows, preferred) == IF preferred # Nobody THEN preferred
                             ELSE IF rows = {} THEN Nobody ELSE CHOOSE r \in rows : TRUE

\* pickInitialCompany
Pick(rows, preferred) == IF preferred \in rows THEN preferred
                         ELSE IF rows = {} THEN Nobody ELSE CHOOSE r \in rows : TRUE

\* The companies arrive; a provider that is gone may still write what it picks
\* into the browser's storage.
ProviderHears(c) ==
    LET picked == Pick(c.rows, stored) IN
    /\ c.by = "companies" /\ c.answer # "none"
    /\ calls' = calls \ {c}
    /\ IF c.answer = "failed" THEN UNCHANGED <<view, stored>>
       ELSE /\ view' = IF c.wanted THEN [view EXCEPT !.company = picked] ELSE view
            /\ stored' \in {IF picked = Nobody THEN stored ELSE picked} \cup
                           IF c.wanted THEN {} ELSE {stored}
    /\ UNCHANGED <<server, session, known, signal, narrow, location, going, gate, events,
                   overtaken, apart>>

Errands == {"founding", "finishing", "entering", "leaving"}

Destination(c) ==
    CASE c.by = "founding"  -> "/tutorial"
      [] c.by = "finishing" -> "/overview"
      [] c.by = "leaving"   -> "/sign-in"
      [] OTHER              -> c.page

\* The handlers of a page go on after it has gone.
HandlerHears(c) ==
    /\ c.by \in Errands /\ c.answer # "none"
    /\ calls' = calls \ {c}
    /\ view' = [view EXCEPT !.busy = @ \ {c.by}]
    /\ going' = IF c.answer = "failed" THEN going ELSE At(Destination(c))
    /\ signal' = (signal \/ (c.answer # "failed" /\ c.by \in {"entering", "leaving"}))
    /\ overtaken' = (overtaken \/ going \notin {Nowhere, going'})
    /\ UNCHANGED <<server, session, known, narrow, location, gate, stored, events, apart>>

\* Signing in can end with an address to load.
LoadHears(c) ==
    /\ c.by = "entering" /\ c.answer = "ok"
    /\ Load(At(Destination(c)))
    /\ UNCHANGED <<server, narrow, stored, events, overtaken>>

-----------------------------------------------------------------------------
(* What the user does.                                                     *)

Clicking == Another /\ UNCHANGED overtaken

UsingPage == Clicking /\ Shown /\ view.on = here /\ ~PageHidden /\ UNCHANGED server

\* A page is opened anew.
Open(where) == Clicking /\ Load(where) /\ UNCHANGED <<server, narrow, stored>>

\* The window is made wider or narrower.
Resize ==
    /\ Clicking
    /\ narrow' = ~narrow
    /\ UNCHANGED <<server, session, known, signal, location, going, gate, view, stored, calls, apart>>

Follow(where) ==
    /\ UsingPage /\ here \in AppPages \cup {"/profile"}
    /\ going' = where
    /\ UNCHANGED <<session, known, signal, narrow, location, gate, view, stored, calls, apart>>

\* Another tab signs out, or signs another user in, of which better-auth may tell
\* this one.
SwitchElsewhere(u) ==
    /\ Clicking /\ u # account
    /\ Sign(u)
    /\ signal' \in {signal, TRUE}
    /\ UNCHANGED <<session, known, narrow, location, going, gate, view, stored, calls>>

\* The same user founds a company and finishes the tutorial in another tab.
FoundElsewhere ==
    /\ Another
    /\ account # Nobody /\ ~IsStaff(account)
    /\ \/ owners' = owners \cup {account} /\ UNCHANGED taught
       \/ account \in owners /\ taught' = taught \cup {account} /\ UNCHANGED owners
    /\ UNCHANGED <<account, tab, calls>>

\* A handler of the page sends a request, unless it waits for one.
Submit(call) ==
    /\ UsingPage /\ call.by \notin view.busy
    /\ calls' = calls \cup {call}
    /\ view' = [view EXCEPT !.busy = @ \cup {call.by}]
    /\ UNCHANGED <<session, known, signal, narrow, location, going, gate, stored, apart>>

\* handleSubmit of the sign-in page.
SignIn(u) ==
    here \in AuthPages /\ Submit([Call("entering", SafeNext(location.next)) EXCEPT !.for = u])

\* handleSignOut of the profile panel, which is part of the frame around the game.
SignOut == here \in AppPages \cup {"/admin", "/moderation"} /\ Submit(Call("leaving", here))

\* The form of the onboarding page, once it has loaded.
Found == here = "/onboarding" /\ view.ready /\ Submit(Call("founding", here))

\* Skipping or finishing: on the tutorial page or at a step of the tour.
FinishTutorial ==
    /\ (here = "/tutorial" /\ view.ready) \/ location.tour > 0
    /\ Submit(Call("finishing", here))

\* handleStartTour and goToStep
Tour ==
    /\ UsingPage /\ "finishing" \notin view.busy
    /\ \/ here = "/tutorial" /\ view.ready /\ going' = OnTour(1)
       \/ \E step \in {location.tour - 1, location.tour + 1} \cap DOMAIN TourSteps :
             location.tour > 0 /\ going' = OnTour(step)
    /\ UNCHANGED <<session, known, signal, narrow, location, gate, view, stored, calls, apart>>

-----------------------------------------------------------------------------

Init ==
    /\ owners \in SUBSET {u \in Users : ~IsStaff(u)} /\ taught \in SUBSET owners
    /\ account \in Users \cup {Nobody} /\ session = Nobody /\ known = FALSE /\ signal = FALSE
    /\ narrow \in BOOLEAN
    /\ location \in {At(p) : p \in StartPages} /\ going = Nowhere
    /\ gate = NoGate /\ view = NoView /\ stored \in owners \cup {Nobody}
    /\ calls = {Call("session", "")} /\ events = 0
    /\ overtaken = FALSE /\ apart = FALSE

Clicks ==
    \/ \E p \in StartPages : Open(At(p))
    \/ \E p \in AppPages \cup {"/profile"} : Follow(At(p))
    \/ \E u \in Users : SignIn(u)
    \/ SignOut \/ Resize
    \/ \E u \in Users \cup {Nobody} : SwitchElsewhere(u)
    \/ FoundElsewhere \/ Found \/ FinishTutorial \/ Tour

Browser == \/ Refetch \/ Arrive
           \/ \E c \in calls : \/ SessionHears(c) \/ GateHears(c) \/ PageHears(c)
                               \/ ProviderHears(c) \/ HandlerHears(c) \/ LoadHears(c)

Api == \E c \in calls : Serve(c) \/ Break(c)

\* The user does no more.
Resting == calls = {} /\ events = MaxEvents /\ UNCHANGED vars

\* A rendering is completed, with its effects, before anything else is heard.
Rendered ==
    /\ EffectsRan
    /\ view.on = IF Shown THEN here ELSE ""
    /\ Shown => view.narrow = narrow

Rendering == Effects \/ Mount \/ Fit \/ Unmount

Next == Rendering \/ (Rendered /\ (Clicks \/ Browser \/ Api)) \/ Resting

\* The browser runs what is due, and the API answers.
Fairness == /\ WF_vars(Rendering)
            /\ WF_vars(Rendered /\ Browser)
            /\ WF_vars(Rendered /\ \E c \in calls : Serve(c))

Spec == Init /\ [][Next]_vars /\ Fairness

-----------------------------------------------------------------------------
(* Properties.                                                             *)

\* Once the effects of a rendering have run, a page of the game is shown only by
\* the status of a player who has a company and has done the tutorial or is on its
\* tour, whichever answers came late; and that player is the one of the tab's
\* session, unless another account was signed in after the tab heard of it.
OnlyReadyPlayersPlay ==
    Rendered /\ Shown /\ here \in AppPages =>
        /\ gate.of \in owners
        /\ \/ gate.of \in taught
           \/ location.tour > 0 /\ here \in GuidedPages
        /\ apart \/ gate.of = session

\* The company a player acts for in the game has an owner, who is the player,
\* also when another user's company is still kept in the browser; or another
\* account was signed in after the tab heard of its session.
ActiveCompanyIsOwn ==
    Rendered /\ view.on \in AppPages =>
        view.company = Nobody \/ (view.company \in owners /\ (apart \/ view.company = session))

\* The one case in which the two gates send the tab back and forth for ever: a
\* narrow window and an account that has still to be set up.
TornBetweenGates ==
    /\ narrow /\ session # Nobody /\ ~IsStaff(session)
    /\ account # Nobody /\ StatusOf(account) # "ready"

\* Otherwise, wherever they start, gates and pages agree in the end: the tab comes
\* to rest on a page it shows, unless the gate was refused an answer or a handler
\* that ends late has overtaken a redirect, which is not repeated.
NavigationSettles ==
    <>[](TornBetweenGates \/ (going = Nowhere /\ (Shown \/ gate.failed \/ overtaken)))
=============================================================================
