--------------------------- MODULE OnboardingTour ---------------------------
(***************************************************************************)
(* The interactive onboarding tour of one browser: the persisted           *)
(* onboardingStore, OnboardingProvider (which lives as long as the role's  *)
(* layout), the welcome carousel, GuidedTour with its effects, and the     *)
(* user's onboarding_status on the server, patched by calls nobody waits   *)
(* for.                                                                    *)
(*                                                                         *)
(* React runs the effects of a render before the next event of the user:   *)
(* a user's action is possible only in a Settled state, and Commit is the  *)
(* run of every effect whose dependencies the last render changed.  A      *)
(* child's effects run before its parent's, and all of them see the values *)
(* of the render, not the ones an earlier effect has just written.         *)
(***************************************************************************)
EXTENDS Routes, Naturals, FiniteSets

CONSTANTS Accounts,    \* users of the browser
          RoleOf,      \* their roles
          Statuses,    \* onboarding_status the accounts may start with
          Visited,     \* routes the user visits by a link
          MaxEvents,   \* bound: logins, page loads, restarts of the tour,
                       \* and steps the user skips or goes back, together
          MaxCalls     \* bound: PATCH calls in flight

ASSUME RoleAssumption == RoleOf \in [Accounts -> {"agent", "client"}]
ASSUME StatusAssumption == Statuses \subseteq {"pending", "active", "snoozed", "completed", "skipped"}
ASSUME VisitedAssumption == Visited \subseteq RouteNames
ASSUME BoundAssumption == MaxEvents \in Nat /\ MaxCalls \in Nat

VARIABLES
  user,      \* authStore: the account signed in, or NoUser
  server,    \* server: onboarding_status of each account
  calls,     \* PATCH /auth/me calls in flight
  ob,        \* onboardingStore
  session,   \* sessionStorage: account the carousel was offered to
  route,     \* current route
  desktop,   \* useMediaQuery("(min-width: 1024px)")
  drawer,    \* uiStore.drawerOpen
  prov,      \* OnboardingProvider: state and refs
  tour,      \* GuidedTour: refs, useTourTarget and the effects' dependencies
  result,    \* the calculator page shows a result
  events     \* counter for MaxEvents

serverSide == <<server, calls>>
vars == <<user, server, calls, ob, session, route, desktop, drawer, prov, tour,
          result, events>>

NoUser == "nobody"
ASSUME AccountsAssumption == NoUser \notin Accounts
NoStep == "no_step"
NoTarget == "no_target"
TourStatus == {"pending", "active", "snoozed", "completed", "skipped"}

Step(id, target, r) == [id |-> id, target |-> target, route |-> r]

AgentSteps ==
  << Step("agent_nav_intro", "tour_sidebar_nav", "agent_dashboard"),
     Step("agent_calculator", "tour_calculator", "standalone_calc"),
     Step("agent_calc_shipment", "tour_calc_shipment", "standalone_calc"),
     Step("agent_calc_hscode", "tour_calc_hscode", "standalone_calc"),
     Step("agent_calculator_quantity", "tour_calc_quantity", "standalone_calc"),
     Step("agent_calculator_price", "tour_calc_price", "standalone_calc"),
     Step("agent_calc_weight", "tour_calc_weight", "standalone_calc"),
     Step("agent_calculator_submit", "tour_calc_button", "standalone_calc"),
     Step("agent_calculator_result", "tour_calc_result", "standalone_calc"),
     Step("agent_marketplace", "tour_marketplace", "marketplace"),
     Step("agent_my_products", "tour_my_products", "my_products"),
     Step("agent_upload", "tour_upload", "doc_upload"),
     Step("agent_review", "tour_review", "product_review"),
     Step("agent_purchase_requests", "tour_purchase_requests", "rfq_list"),
     Step("agent_inbox", "tour_supplier_inbox", "supplier_inbox"),
     Step("agent_quotes", "tour_quotes", "quotes"),
     Step("agent_tracking", "tour_orders", "orders"),
     Step("agent_reels", "tour_reels", "agent_reels"),
     Step("agent_chat_profile", "tour_chat", "agent_dashboard") >>

ClientSteps ==
  << Step("client_nav_intro", "tour_sidebar_nav", "client_dashboard"),
     Step("client_marketplace", "tour_marketplace", "marketplace"),
     Step("client_rfq", "tour_new_rfq", "rfq_create"),
     Step("client_rfq_product_name", "tour_rfq_product_name", "rfq_create"),
     Step("client_rfq_quantity", "tour_rfq_quantity", "rfq_create"),
     Step("client_rfq_submit", "tour_rfq_submit", "rfq_create"),
     Step("client_my_requests", "tour_my_requests", "rfq_list"),
     Step("client_tracking", "tour_orders", "orders"),
     Step("client_chat", "tour_chat", "client_dashboard") >>

LastSlide == 2   \* three welcome slides for either role

GetTourSteps(role) ==
  CASE role = "agent" -> AgentSteps [] role = "client" -> ClientSteps [] OTHER -> <<>>

UserRole == IF user = NoUser THEN NoRole ELSE RoleOf[user]
Steps == GetTourSteps(UserRole)
StepIds ==
  [role \in {"agent", "client", NoRole} |->
     {GetTourSteps(role)[i].id : i \in 1 .. Len(GetTourSteps(role))}]
Ids == StepIds["agent"] \cup StepIds["client"]

\* Sidebar-anchored steps point at the menu, the others at a field of a page.
SidebarTargets ==
  [role \in {"agent", "client", "admin"} |->
     {"tour_sidebar_nav"} \cup DOMAIN SidebarNav[role]]
IsSidebarStep(step) == step.target \in SidebarTargets[UserRole]

\* findIndex: position of the active step in the tour of the user's role, 0
\* when it is another role's or there is none.
Position ==
  [role \in {"agent", "client", NoRole} |-> [id \in Ids \cup {NoStep} |->
     IF id \in StepIds[role]
     THEN CHOOSE i \in 1 .. Len(GetTourSteps(role)) : GetTourSteps(role)[i].id = id
     ELSE 0]]
CurrentIndex == Position[UserRole][ob.step]
HasStep == CurrentIndex # 0
CurrentStep == Steps[CurrentIndex]
OnSameRoute == HasStep /\ route = CurrentStep.route
TargetId == IF OnSameRoute THEN CurrentStep.target ELSE NoTarget

PageAnchors ==
  { <<s.target, s.route>> :
      s \in {AgentSteps[i] : i \in 1 .. Len(AgentSteps)}
             \cup {ClientSteps[i] : i \in 1 .. Len(ClientSteps)} }

\* An element with that data-tour is in the document.  The phone's calculator
\* page renders tour-calc-result only around a result, the desktop's always.
Present(target) ==
  \/ target \in SidebarTargets[UserRole]
  \/ /\ <<target, route>> \in PageAnchors
     /\ target = "tour_calc_result" => desktop \/ result

Fresh(u, restart) ==
  [user |-> u, status |-> "pending", step |-> NoStep, completed |-> {}, restart |-> restart]

\* fetched is authStore's user.onboarding_status, which the provider reads
\* once, when it is mounted.
ProviderOff == [reconciled |-> FALSE, fetched |-> "read", signal |-> "unmounted", welcome |-> FALSE,
                slide |-> 0, completion |-> FALSE]
NoDeps == [step |-> "unmounted", same |-> FALSE, st |-> "waiting"]
TourOff == [on |-> FALSE, navFor |-> NoStep, skippedFor |-> NoStep, rfqDone |-> FALSE,
            targetId |-> NoTarget, st |-> "waiting", deps |-> NoDeps]

\* OnboardingProvider's render: the carousel, the completion card or the tour.
GuidedShown == user # NoUser /\ ~prov.welcome /\ ~prov.completion
Deps == [step |-> ob.step, same |-> OnSameRoute, st |-> tour.st]

Settled ==
  user # NoUser =>
    /\ prov.reconciled /\ prov.signal = ob.restart
    /\ tour.on = GuidedShown
    /\ GuidedShown => tour.deps = Deps /\ tour.targetId = TargetId

Init ==
  /\ user = NoUser
  /\ server \in [Accounts -> Statuses]
  /\ calls = {}
  /\ ob = Fresh(NoUser, 0)
  /\ session = NoUser
  /\ route = "login"
  /\ desktop \in BOOLEAN
  /\ drawer = FALSE
  /\ prov = ProviderOff /\ tour = TourOff
  /\ result = FALSE
  /\ events = 0

Event == events < MaxEvents /\ events' = events + 1

-----------------------------------------------------------------------------
(* onboardingStore *)

\* Mutant of InitFor: whoever used the browser before.
InitForAny(o, u) == o

InitFor(o, u) == IF o.user # u THEN Fresh(u, o.restart) ELSE o
StartTour(o, id) == [o EXCEPT !.status = "active", !.step = id]
GoToStep(o, id) == [o EXCEPT !.status = "active", !.step = id]
CompleteStep(o, id) == [o EXCEPT !.completed = @ \cup {id}]
\* Mutant of Snooze: a status nobody knows.
SnoozeLater(o) == [o EXCEPT !.status = "later", !.step = NoStep]

Snooze(o) == [o EXCEPT !.status = "snoozed", !.step = NoStep]
SkipForever(o) == [o EXCEPT !.status = "skipped", !.step = NoStep]
CompleteTour(o) == [o EXCEPT !.status = "completed", !.step = NoStep]
ResetTour(o) == Fresh(o.user, o.restart + 1)

\* GuidedTour.advance from the current step.
Advance(o, mark) ==
  LET marked == IF mark THEN CompleteStep(o, CurrentStep.id) ELSE o
  IN IF CurrentIndex < Len(Steps)
     THEN GoToStep(marked, Steps[CurrentIndex + 1].id)
     ELSE CompleteTour(marked)

\* authService.updateOnboardingStatus(st).catch(() => {}): sent, not awaited.
Patch(st) == {[acct |-> user, st |-> st]}
MayCall == Cardinality(calls) < MaxCalls

\* The calls and the provider after a step was left by Advance.
AfterAdvance(o) ==
  /\ ob' = o
  /\ calls' = IF o.status = "completed" THEN calls \cup Patch("completed") ELSE calls
  /\ prov' = [prov EXCEPT !.completion = @ \/ o.status = "completed"]

-----------------------------------------------------------------------------
(* Effects *)

\* useTourTarget: looks the element up when the id changes.
TargetAfter ==
  IF tour.on /\ tour.targetId = TargetId THEN tour.st
  ELSE IF TargetId # NoTarget /\ Present(TargetId) THEN "found" ELSE "waiting"

StepChanged == ~tour.on \/ tour.deps.step # ob.step
StepOrRouteChanged == StepChanged \/ tour.deps.same # OnSameRoute

\* Takes the user to the page of a step that has just become active.
NavigateEffect ==
  GuidedShown /\ HasStep /\ StepChanged /\ tour.navFor # CurrentStep.id

\* On a phone, opens the drawer for the menu's steps and closes it for a page's.
DrawerEffect == GuidedShown /\ ~desktop /\ OnSameRoute /\ StepOrRouteChanged

\* Leaving the page of the submit step counts as having submitted the request.
RfqSubmitEffect ==
  /\ GuidedShown /\ HasStep /\ StepOrRouteChanged
  /\ CurrentStep.id = "client_rfq_submit"
  /\ ~OnSameRoute /\ ~tour.rfqDone

\* Mutant of AutoSkipEffect: the timeout is ignored.
NoAutoSkip == FALSE

\* A step whose target has not shown up in time is skipped, once.
AutoSkipEffect ==
  /\ GuidedShown /\ OnSameRoute
  /\ ~tour.on \/ tour.deps # Deps
  /\ tour.st = "timeout"
  /\ tour.skippedFor # CurrentStep.id

\* GuidedTour after its effects.
TourAfter ==
  IF ~GuidedShown THEN TourOff
  ELSE [on |-> TRUE,
        navFor |-> IF HasStep /\ StepChanged THEN CurrentStep.id ELSE tour.navFor,
        skippedFor |-> IF AutoSkipEffect THEN CurrentStep.id ELSE tour.skippedFor,
        rfqDone |-> IF HasStep /\ StepOrRouteChanged /\ CurrentStep.id = "client_rfq_submit"
                    THEN ~OnSameRoute ELSE tour.rfqDone,
        targetId |-> TargetId,
        st |-> TargetAfter,
        deps |-> Deps]

\* OnboardingProvider's reconciliation: the server's status replaces the
\* store's, and the carousel is offered once per browser session.
Reconcile(o) == [InitFor(o, user) EXCEPT !.status = prov.fetched]
Offered == session # user /\ prov.fetched \in {"pending", "snoozed"}

Commit ==
  /\ user # NoUser /\ ~Settled
  /\ LET skipped == RfqSubmitEffect \/ AutoSkipEffect
         o == IF skipped THEN Advance(ob, TRUE) ELSE ob
         done == skipped /\ o.status = "completed"
         mounting == ~prov.reconciled
         restarted == ~mounting /\ prov.signal # ob.restart
     IN /\ ob' = IF mounting THEN Reconcile(o) ELSE o
        /\ calls' = IF done THEN calls \cup Patch("completed") ELSE calls
        /\ session' = IF mounting /\ Offered THEN user ELSE session
        /\ prov' = [reconciled |-> TRUE, fetched |-> "read", signal |-> ob.restart,
                    welcome |-> prov.welcome \/ restarted \/ (mounting /\ Offered),
                    slide |-> prov.slide,
                    completion |-> (prov.completion \/ done) /\ ~restarted]
  /\ route' = IF NavigateEffect THEN CurrentStep.route ELSE route
  /\ result' = (result /\ route' = route)
  /\ drawer' = IF DrawerEffect THEN IsSidebarStep(CurrentStep) ELSE drawer
  /\ tour' = TourAfter
  /\ UNCHANGED <<user, server, desktop, events>>

\* The MutationObserver sees the target appear; the timer ends the wait.
TargetAppears ==
  /\ Settled /\ tour.on /\ tour.targetId # NoTarget
  /\ tour.st # "found" /\ Present(tour.targetId)
  /\ tour' = [tour EXCEPT !.st = "found"]
  /\ UNCHANGED <<user, server, calls, ob, session, route, desktop,
                 drawer, prov, result, events>>

WaitTimeout ==
  /\ Settled /\ tour.on /\ tour.targetId # NoTarget
  /\ tour.st = "waiting" /\ ~Present(tour.targetId)
  /\ tour' = [tour EXCEPT !.st = "timeout"]
  /\ UNCHANGED <<user, server, calls, ob, session, route, desktop,
                 drawer, prov, result, events>>

-----------------------------------------------------------------------------
(* Overlays *)

Ready == user # NoUser /\ Settled
still == <<user, server, session, route, desktop, drawer, tour,
           result>>

\* The three ways out of the carousel.  The carousel's component goes away.
Leaves(o, st) ==
  /\ MayCall
  /\ ob' = o
  /\ calls' = calls \cup Patch(st)
  /\ prov' = [prov EXCEPT !.welcome = FALSE, !.slide = 0]
HandleStartTour == Leaves(StartTour(ob, Steps[1].id), "active")
HandleSnooze == Leaves(Snooze(ob), "snoozed")
HandleSkipForever == Leaves(SkipForever(ob), "skipped")

\* useCarouselNav: next and back stop at the ends, a dot goes anywhere.
ShowSlide(i) == prov' = [prov EXCEPT !.slide = i] /\ UNCHANGED <<ob, calls>>

WelcomeCarouselDesktop ==
  /\ Ready /\ prov.welcome /\ desktop
  /\ \/ \E i \in 0 .. LastSlide \ {prov.slide} : ShowSlide(i)
     \/ prov.slide = LastSlide /\ HandleStartTour
     \/ HandleSnooze
     \/ HandleSkipForever
  /\ UNCHANGED <<still, events>>

WelcomeCarouselMobile ==
  /\ Ready /\ prov.welcome /\ ~desktop
  /\ \/ \E i \in 0 .. LastSlide \ {prov.slide} : ShowSlide(i)
     \/ prov.slide = LastSlide /\ HandleStartTour
     \/ HandleSnooze
     \/ HandleSkipForever
  /\ UNCHANGED <<still, events>>

\* GuidedTour's panel is rendered on the step's page.
PanelMounted == Ready /\ GuidedShown /\ ob.status = "active" /\ OnSameRoute
ToastShown ==
  /\ Ready /\ GuidedShown /\ ob.status = "active" /\ HasStep
  /\ ~OnSameRoute /\ CurrentStep.id # "client_rfq_submit"

HandleAdvance == AfterAdvance(Advance(ob, TRUE)) /\ UNCHANGED events
HandleSkipStep == Event /\ AfterAdvance(Advance(ob, FALSE))
HandleBack ==
  /\ CurrentIndex > 1
  /\ Event
  /\ ob' = GoToStep(ob, Steps[CurrentIndex - 1].id)
  /\ UNCHANGED <<calls, prov>>
HandleTourSnooze ==
  /\ MayCall
  /\ ob' = Snooze(ob)
  /\ calls' = calls \cup Patch("snoozed")
  /\ UNCHANGED <<prov, events>>

\* The popover hides without a rectangle, but its keyboard shortcuts stay.
TourPopover ==
  /\ PanelMounted /\ desktop
  /\ \/ HandleAdvance \/ HandleBack \/ HandleTourSnooze
     \/ tour.st = "found" /\ HandleSkipStep
  /\ UNCHANGED still

\* The bottom sheet has a skeleton while it waits and nothing after a timeout.
TourBottomSheet ==
  /\ PanelMounted /\ ~desktop
  /\ tour.st = "found"
  /\ HandleAdvance \/ HandleBack \/ HandleTourSnooze \/ HandleSkipStep
  /\ UNCHANGED still

\* "Forgiveness": any input on the calculator page while its menu entry is the
\* step.
CalculatorInput ==
  /\ Ready /\ GuidedShown /\ OnSameRoute
  /\ CurrentStep.id = "agent_calculator"
  /\ HandleAdvance
  /\ UNCHANGED still

CompletionCard ==
  /\ Ready /\ ~prov.welcome /\ prov.completion
  /\ prov' = [prov EXCEPT !.completion = FALSE]
  /\ UNCHANGED <<user, serverSide, ob, session, route, desktop, drawer,
                 tour, result, events>>

-----------------------------------------------------------------------------
(* The rest of the application, as far as the tour sees it *)

\* Leaving a page drops the result it showed.
GoTo(r) ==
  /\ route' = r
  /\ result' = (result /\ r = route)
  /\ UNCHANGED <<user, serverSide, ob, session, desktop, drawer,
                 prov, tour, events>>

NavGuardToast == ToastShown /\ GoTo(CurrentStep.route)

Navigate(r) ==
  /\ Ready /\ ~prov.welcome /\ ~prov.completion
  /\ r \in MenuLinks(UserRole) \ {route}
  /\ GoTo(r)

\* The client's request was created: its page is shown.
SubmitRfq ==
  /\ Ready /\ ~prov.welcome /\ UserRole = "client" /\ route = "rfq_create"
  /\ GoTo("rfq_detail")

\* The calculator has answered.
Calculate ==
  /\ Ready /\ ~prov.welcome /\ route = "standalone_calc" /\ ~result
  /\ result' = TRUE
  /\ UNCHANGED <<user, serverSide, ob, session, route, desktop, drawer,
                 prov, tour, events>>

\* TopBar's menu button and the drawer's close button and backdrop.
ToggleDrawer ==
  /\ Ready /\ ~prov.welcome /\ ~prov.completion /\ ~desktop
  /\ drawer' = ~drawer
  /\ UNCHANGED <<user, serverSide, ob, session, route, desktop, prov,
                 tour, result, events>>

\* SettingsPage: "restart tour".
RestartTour ==
  /\ Ready /\ ~prov.welcome /\ ~prov.completion /\ route = "settings"
  /\ Event /\ MayCall
  /\ ob' = ResetTour(ob)
  /\ calls' = calls \cup Patch("pending")
  /\ UNCHANGED <<user, server, session, route, desktop, drawer,
                 prov, tour, result>>

\* A session begins: the profile is fetched, and the layout is mounted.
Mount(u, r) ==
  /\ user' = u /\ route' = r
  /\ prov' = [ProviderOff EXCEPT !.fetched = server[u]] /\ tour' = TourOff
  /\ result' = FALSE
  /\ Event
  /\ UNCHANGED <<serverSide, desktop>>

Login(u) ==
  /\ user = NoUser
  /\ Mount(u, DashboardPathForRole(RoleOf[u]))
  /\ UNCHANGED <<ob, session, drawer>>

\* A reload keeps the sessionStorage; a new window has an empty one.  The
\* store comes back from localStorage, without restartSignal.
Reload ==
  /\ Ready
  /\ Mount(user, route)
  /\ ob' = [ob EXCEPT !.restart = 0]
  /\ session' \in {session, NoUser}
  /\ drawer' = FALSE

Logout ==
  /\ Ready /\ ~prov.welcome /\ ~prov.completion
  /\ user' = NoUser /\ route' = "login"
  /\ prov' = ProviderOff /\ tour' = TourOff /\ result' = FALSE
  /\ UNCHANGED <<serverSide, ob, session, desktop, drawer, events>>

\* The server handles a call, in any order, or it is lost.
Deliver(c) ==
  /\ c \in calls
  /\ server' = [server EXCEPT ![c.acct] = c.st]
  /\ calls' = calls \ {c}
  /\ UNCHANGED <<user, ob, session, route, desktop, drawer,
                 prov, tour, result, events>>

Lost(c) ==
  /\ c \in calls
  /\ calls' = calls \ {c}
  /\ UNCHANGED <<user, server, ob, session, route, desktop, drawer,
                 prov, tour, result, events>>

-----------------------------------------------------------------------------

Next ==
  \/ Commit \/ TargetAppears \/ WaitTimeout
  \/ WelcomeCarouselDesktop \/ WelcomeCarouselMobile \/ CompletionCard
  \/ TourPopover \/ TourBottomSheet \/ CalculatorInput \/ NavGuardToast
  \/ \E r \in Visited : Navigate(r)
  \/ SubmitRfq \/ Calculate \/ ToggleDrawer \/ RestartTour
  \/ \E u \in Accounts : Login(u)
  \/ Reload \/ Logout
  \/ \E c \in calls : Deliver(c) \/ Lost(c)

Spec == Init /\ [][Next]_vars

\* React runs effects and the browser its observers and timers.
Fairness == WF_vars(TargetAppears \/ WaitTimeout \/ Commit)
FairSpec == Spec /\ Fairness

-----------------------------------------------------------------------------
(* Properties *)

\* Type invariant.
TypeOK ==
  /\ user \in Accounts \cup {NoUser} /\ session \in Accounts \cup {NoUser}
  /\ server \in [Accounts -> TourStatus]
  /\ calls \subseteq [acct : Accounts, st : TourStatus]
  /\ ob \in [user : Accounts \cup {NoUser}, status : TourStatus,
             step : Ids \cup {NoStep}, completed : SUBSET Ids, restart : 0 .. MaxEvents]
  /\ route \in RouteNames
  /\ {desktop, drawer, result} \subseteq BOOLEAN
  /\ prov.slide \in 0 .. LastSlide /\ {prov.welcome, prov.completion} \subseteq BOOLEAN
  /\ tour.st \in {"waiting", "found", "timeout"}

\* The browser's store is the signed-in user's once the effects have run: no
\* step and no progress of whoever used the browser before.
OwnTour ==
  Ready => /\ ob.user = user
           /\ ob.step \in StepIds[UserRole] \cup {NoStep}
           /\ ob.completed \subseteq StepIds[UserRole]

\* While a step is active something is on the screen: the panel or the toast.
\* (Not said of a step that was skipped for a missing target and that the user
\* has gone back to.)
SomethingShown ==
  Ready /\ GuidedShown /\ ob.status = "active" /\ HasStep
    /\ ~(OnSameRoute /\ tour.skippedFor = CurrentStep.id)
  ~> ~Ready \/ ToastShown \/ (PanelMounted /\ tour.st = "found")
       \/ ~GuidedShown \/ ob.status # "active"
       \/ (OnSameRoute /\ tour.skippedFor = CurrentStep.id)

=============================================================================
