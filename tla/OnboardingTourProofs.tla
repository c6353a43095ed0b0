------------------------ MODULE OnboardingTourProofs ------------------------
(* Theorems about OnboardingTour, for any accounts of the two roles, any    *)
(* status they start with, and any number of events and calls.             *)
EXTENDS OnboardingTour, TLAPS

-----------------------------------------------------------------------------
(* The invariant *)

TourRoles == {"agent", "client"}

\* The role of whoever the store belongs to.
RoleIs(u) == IF u = NoUser THEN NoRole ELSE RoleOf[u]

StoreShape == [user : Accounts \cup {NoUser}, status : TourStatus, step : Ids \cup {NoStep},
               completed : SUBSET Ids, restart : 0 .. MaxEvents]
ProviderShape == [reconciled : BOOLEAN, fetched : TourStatus \cup {"read"},
                  signal : (0 .. MaxEvents) \cup {"unmounted"}, welcome : BOOLEAN,
                  slide : 0 .. LastSlide, completion : BOOLEAN]
TargetStates == {"waiting", "found", "timeout"}

\* The tour's own refs hold steps and targets; of those only the state of the
\* look-up is read by name.
TourShape == \E T : tour \in [on : BOOLEAN, navFor : T, skippedFor : T, rfqDone : BOOLEAN,
                              targetId : T, st : TargetStates, deps : T]

Shapes ==
  /\ user \in Accounts \cup {NoUser} /\ session \in Accounts \cup {NoUser}
  /\ server \in [Accounts -> TourStatus] /\ calls \subseteq [acct : Accounts, st : TourStatus]
  /\ ob \in StoreShape /\ prov \in ProviderShape /\ TourShape
  /\ route \in RouteNames
  /\ desktop \in BOOLEAN /\ drawer \in BOOLEAN /\ result \in BOOLEAN

\* A store that restarted has had an event for it.
RestartsAreEvents == events \in 0 .. MaxEvents /\ ob.restart <= events

\* The status a provider has not read yet is one the server sent.
FetchedOnce == user # NoUser /\ ~prov.reconciled => prov.fetched \in TourStatus

\* A store is in the tour of the role of whoever it belongs to ...
InTourOf(o) ==
  /\ o.step \in StepIds[RoleIs(o.user)] \cup {NoStep}
  /\ o.completed \subseteq StepIds[RoleIs(o.user)]

\* ... who is the user signed in, once the provider has reconciled them: until
\* then it may be whoever used the browser before.
Reconciled == user # NoUser /\ prov.reconciled => ob.user = user

TourInv == Shapes /\ RestartsAreEvents /\ FetchedOnce /\ InTourOf(ob) /\ Reconciled

-----------------------------------------------------------------------------
(* Lemmas about the tours *)

LEMMA RouteOfStep ==
  ASSUME NEW id, NEW target, NEW r
  PROVE  Step(id, target, r).route = r
BY DEF Step

\* Both tours have steps, on routes there are.
LEMMA AgentTour ==
  Len(AgentSteps) = 19 /\ \A i \in 1 .. 19 : AgentSteps[i].route \in RouteNames
<1>1. {"agent_dashboard", "standalone_calc", "marketplace", "my_products", "doc_upload",
       "product_review", "rfq_list", "supplier_inbox", "quotes", "orders", "agent_reels"}
        \subseteq RouteNames
  BY DEF RouteNames, GuardRoles, OpenRoutes, PublicRoutes
<1>2. Len(AgentSteps) = 19
  BY DEF AgentSteps
<1>3. \A i \in 1 .. 19 : AgentSteps[i].route \in RouteNames
  BY <1>1, RouteOfStep, SMTT(60) DEF AgentSteps
<1> QED BY <1>2, <1>3

LEMMA ClientTour ==
  Len(ClientSteps) = 9 /\ \A i \in 1 .. 9 : ClientSteps[i].route \in RouteNames
<1>1. {"client_dashboard", "marketplace", "rfq_create", "rfq_list", "orders"} \subseteq RouteNames
  BY DEF RouteNames, GuardRoles, OpenRoutes, PublicRoutes
<1>2. Len(ClientSteps) = 9
  BY DEF ClientSteps
<1>3. \A i \in 1 .. 9 : ClientSteps[i].route \in RouteNames
  BY <1>1, RouteOfStep, SMTT(60) DEF ClientSteps
<1> QED BY <1>2, <1>3

LEMMA ToursAreTours ==
  ASSUME NEW role \in TourRoles
  PROVE  /\ Len(GetTourSteps(role)) \in Nat /\ Len(GetTourSteps(role)) > 1
         /\ \A i \in 1 .. Len(GetTourSteps(role)) :
              /\ GetTourSteps(role)[i].route \in RouteNames
              /\ GetTourSteps(role)[i].id \in StepIds[role]
         /\ StepIds[role] \subseteq Ids
<1>1. /\ Len(GetTourSteps(role)) \in Nat /\ Len(GetTourSteps(role)) > 1
      /\ \A i \in 1 .. Len(GetTourSteps(role)) : GetTourSteps(role)[i].route \in RouteNames
  <2>1. CASE role = "agent"
    <3>1. GetTourSteps(role) = AgentSteps
      BY <2>1 DEF GetTourSteps
    <3> QED BY <3>1, AgentTour
  <2>2. CASE role = "client"
    <3>1. GetTourSteps(role) = ClientSteps
      BY <2>2 DEF GetTourSteps
    <3> QED BY <3>1, ClientTour
  <2> QED BY <2>1, <2>2 DEF TourRoles
<1>2. StepIds[role] = {GetTourSteps(role)[i].id : i \in 1 .. Len(GetTourSteps(role))}
  BY DEF StepIds, TourRoles
<1>3. StepIds[role] \subseteq Ids
  BY DEF Ids, TourRoles
<1> QED BY <1>1, <1>2, <1>3

LEMMA NobodysTour == StepIds[NoRole] = {}
<1>1. GetTourSteps(NoRole) = <<>>
  BY DEF GetTourSteps, NoRole
<1>2. StepIds[NoRole] = {GetTourSteps(NoRole)[i].id : i \in 1 .. Len(GetTourSteps(NoRole))}
  BY DEF StepIds, NoRole
<1> QED BY <1>1, <1>2

LEMMA RolesOfUsers ==
  ASSUME NEW u \in Accounts \cup {NoUser}
  PROVE  RoleIs(u) \in TourRoles \cup {NoRole} /\ (u # NoUser => RoleIs(u) \in TourRoles)
BY RoleAssumption DEF RoleIs, TourRoles

LEMMA RoleOfUser == UserRole = RoleIs(user)
BY DEF UserRole, RoleIs

\* The current step is one of the user's tour.
LEMMA CurrentInTour ==
  ASSUME Shapes, HasStep
  PROVE  /\ user # NoUser /\ UserRole \in TourRoles
         /\ CurrentIndex \in 1 .. Len(Steps) /\ Len(Steps) \in Nat
         /\ \A i \in 1 .. Len(Steps) : Steps[i].id \in StepIds[UserRole] /\ Steps[i].route \in RouteNames
         /\ CurrentStep.id \in StepIds[UserRole] /\ CurrentStep.route \in RouteNames
<1>1. UserRole \in TourRoles \cup {NoRole} /\ (user # NoUser => UserRole \in TourRoles)
  BY RoleOfUser, RolesOfUsers DEF Shapes
<1>2. ob.step \in Ids \cup {NoStep}
  BY DEF Shapes, StoreShape
<1>3. CurrentIndex = IF ob.step \in StepIds[UserRole]
                     THEN CHOOSE i \in 1 .. Len(Steps) : Steps[i].id = ob.step ELSE 0
  BY <1>1, <1>2 DEF CurrentIndex, Position, Steps, TourRoles
<1>4. ob.step \in StepIds[UserRole]
  BY <1>3 DEF HasStep
<1>5. UserRole \in TourRoles /\ user # NoUser
  BY <1>1, <1>4, NobodysTour DEF UserRole, NoRole, TourRoles
<1>6. /\ Len(Steps) \in Nat
      /\ \A i \in 1 .. Len(Steps) : Steps[i].id \in StepIds[UserRole] /\ Steps[i].route \in RouteNames
  BY <1>5, ToursAreTours DEF Steps
<1>7. \E i \in 1 .. Len(Steps) : Steps[i].id = ob.step
  BY <1>4, <1>5 DEF StepIds, Steps, TourRoles
<1>8. CurrentIndex \in 1 .. Len(Steps)
  BY <1>3, <1>4, <1>7
<1> QED BY <1>5, <1>6, <1>8 DEF CurrentStep

-----------------------------------------------------------------------------
(* Lemmas about the store *)

LEMMA GoneTo ==
  ASSUME NEW o \in StoreShape, NEW id \in Ids
  PROVE  /\ GoToStep(o, id) \in StoreShape /\ GoToStep(o, id).user = o.user
         /\ GoToStep(o, id).step = id /\ GoToStep(o, id).completed = o.completed
         /\ GoToStep(o, id).restart = o.restart
         /\ StartTour(o, id) = GoToStep(o, id)
BY DEF GoToStep, StartTour, StoreShape, TourStatus

LEMMA CompletedOne ==
  ASSUME NEW o \in StoreShape, NEW id \in Ids
  PROVE  /\ CompleteStep(o, id) \in StoreShape /\ CompleteStep(o, id).user = o.user
         /\ CompleteStep(o, id).step = o.step
         /\ CompleteStep(o, id).completed = o.completed \cup {id}
         /\ CompleteStep(o, id).restart = o.restart
BY DEF CompleteStep, StoreShape

\* The three ways a tour ends.
Over(o, e) == /\ e \in StoreShape /\ e.user = o.user /\ e.step = NoStep
              /\ e.completed = o.completed /\ e.restart = o.restart

LEMMA Ended ==
  ASSUME NEW o \in StoreShape
  PROVE  Over(o, Snooze(o)) /\ Over(o, SkipForever(o)) /\ Over(o, CompleteTour(o))
BY DEF Over, Snooze, SkipForever, CompleteTour, StoreShape, TourStatus

\* GuidedTour.advance stays in the tour of the user's role.
LEMMA Advanced ==
  ASSUME Shapes, HasStep, NEW mark \in BOOLEAN
  PROVE  /\ Advance(ob, mark) \in StoreShape
         /\ Advance(ob, mark).user = ob.user /\ Advance(ob, mark).restart = ob.restart
         /\ Advance(ob, mark).step \in StepIds[UserRole] \cup {NoStep}
         /\ Advance(ob, mark).completed \subseteq ob.completed \cup StepIds[UserRole]
<1> DEFINE marked == IF mark THEN CompleteStep(ob, CurrentStep.id) ELSE ob
           next == Steps[CurrentIndex + 1].id
<1>1. /\ UserRole \in TourRoles /\ CurrentIndex \in 1 .. Len(Steps) /\ Len(Steps) \in Nat
      /\ \A i \in 1 .. Len(Steps) : Steps[i].id \in StepIds[UserRole]
      /\ CurrentStep.id \in StepIds[UserRole]
  BY CurrentInTour
<1>2. StepIds[UserRole] \subseteq Ids
  BY <1>1, ToursAreTours
<1>3. /\ marked \in StoreShape /\ marked.user = ob.user /\ marked.restart = ob.restart
      /\ marked.completed \subseteq ob.completed \cup StepIds[UserRole]
  BY <1>1, <1>2, CompletedOne DEF Shapes
<1>4. CurrentIndex < Len(Steps) => next \in StepIds[UserRole]
  BY <1>1
<1>5. Advance(ob, mark) = IF CurrentIndex < Len(Steps) THEN GoToStep(marked, next)
                                                      ELSE CompleteTour(marked)
  BY DEF Advance
<1> HIDE DEF marked, next
<1>6. Over(marked, CompleteTour(marked))
  BY <1>3, Ended
<1>7. CASE CurrentIndex < Len(Steps)
  <2>1. Advance(ob, mark) = GoToStep(marked, next) /\ next \in Ids /\ next \in StepIds[UserRole]
    BY <1>2, <1>4, <1>5, <1>7
  <2> QED BY <1>3, <2>1, GoneTo
<1>8. CASE ~(CurrentIndex < Len(Steps))
  BY <1>3, <1>5, <1>6, <1>8 DEF Over
<1> QED BY <1>7, <1>8

-----------------------------------------------------------------------------
(* Steps *)

LEMMA TourRecord ==
  ASSUME NEW on \in BOOLEAN, NEW nav, NEW skipped, NEW rfq \in BOOLEAN, NEW target,
         NEW st \in TargetStates, NEW deps
  PROVE  \E T : [on |-> on, navFor |-> nav, skippedFor |-> skipped, rfqDone |-> rfq,
                 targetId |-> target, st |-> st, deps |-> deps]
           \in [on : BOOLEAN, navFor : T, skippedFor : T, rfqDone : BOOLEAN, targetId : T,
               st : TargetStates, deps : T]
<1> WITNESS {nav, skipped, target, deps}
<1> QED OBVIOUS

LEMMA OffRecord ==
  \E T : TourOff \in [on : BOOLEAN, navFor : T, skippedFor : T, rfqDone : BOOLEAN, targetId : T,
                     st : TargetStates, deps : T]
<1>1. FALSE \in BOOLEAN /\ "waiting" \in TargetStates
  BY DEF TargetStates
<1> QED BY <1>1, TourRecord, Zenon DEF TourOff

LEMMA ProviderKept ==
  ASSUME NEW p \in ProviderShape, NEW w \in BOOLEAN, NEW i \in 0 .. LastSlide
  PROVE  /\ [p EXCEPT !.welcome = w, !.slide = i] \in ProviderShape
         /\ [p EXCEPT !.welcome = w, !.slide = i].reconciled = p.reconciled
BY DEF ProviderShape

\* What the user does with the tour: the store stays his.
LEMMA OwnStep ==
  ASSUME TourInv, user # NoUser, UNCHANGED still,
         ob' \in StoreShape, ob'.user = user,
         ob'.step \in StepIds[UserRole] \cup {NoStep}, ob'.completed \subseteq StepIds[UserRole],
         events' \in 0 .. MaxEvents, ob'.restart <= events',
         prov' \in ProviderShape, prov'.reconciled,
         calls' \subseteq [acct : Accounts, st : TourStatus]
  PROVE  TourInv'
<1>1. Shapes'
  BY DEF TourInv, Shapes, TourShape, still
<1>2. RestartsAreEvents' /\ FetchedOnce' /\ Reconciled'
  BY DEF TourInv, RestartsAreEvents, FetchedOnce, Reconciled, still
<1>3. InTourOf(ob)'
  BY RoleOfUser DEF InTourOf
<1> QED BY <1>1, <1>2, <1>3 DEF TourInv

\* When the user may do anything, the store is his.
LEMMA ReadyOwn ==
  ASSUME TourInv, Ready
  PROVE  /\ user # NoUser /\ user \in Accounts /\ prov.reconciled /\ ob.user = user
         /\ ob \in StoreShape /\ prov \in ProviderShape /\ UserRole \in TourRoles
         /\ ob.step \in StepIds[UserRole] \cup {NoStep} /\ ob.completed \subseteq StepIds[UserRole]
         /\ StepIds[UserRole] \subseteq Ids
         /\ events \in 0 .. MaxEvents /\ ob.restart <= events /\ ob.restart \in 0 .. MaxEvents
         /\ \A st \in TourStatus : calls \cup Patch(st) \subseteq [acct : Accounts, st : TourStatus]
<1>1. /\ user # NoUser /\ user \in Accounts /\ prov.reconciled /\ ob.user = user
      /\ ob \in StoreShape /\ prov \in ProviderShape
  BY DEF TourInv, Shapes, Reconciled, Ready, Settled
<1>2. UserRole = RoleIs(ob.user) /\ UserRole \in TourRoles
  BY <1>1, RoleOfUser, RolesOfUsers
<1>3. events \in 0 .. MaxEvents /\ ob.restart <= events /\ ob.restart \in 0 .. MaxEvents
  BY <1>1 DEF TourInv, RestartsAreEvents, StoreShape
<1>4. \A st \in TourStatus : calls \cup Patch(st) \subseteq [acct : Accounts, st : TourStatus]
  BY <1>1 DEF TourInv, Shapes, Patch
<1>5. StepIds[UserRole] \subseteq Ids
  BY <1>2, ToursAreTours
<1>6. ob.step \in StepIds[UserRole] \cup {NoStep} /\ ob.completed \subseteq StepIds[UserRole]
  BY <1>2 DEF TourInv, InTourOf
<1> QED BY <1>1, <1>2, <1>3, <1>4, <1>5, <1>6

LEMMA CarouselStep ==
  ASSUME TourInv, WelcomeCarouselDesktop \/ WelcomeCarouselMobile
  PROVE  TourInv'
<1>1. Ready /\ UNCHANGED <<still, events>>
  BY DEF WelcomeCarouselDesktop, WelcomeCarouselMobile
<1>2. UNCHANGED still /\ events' = events
  BY <1>1
<1>3. ASSUME NEW i \in 0 .. LastSlide, ShowSlide(i) PROVE TourInv'
  <2>1. prov' \in ProviderShape /\ prov'.reconciled
    BY <1>1, <1>3, ReadyOwn DEF ShowSlide, ProviderShape
  <2>2. ob' = ob /\ calls' = calls
    BY <1>3 DEF ShowSlide
  <2>3. calls' \subseteq [acct : Accounts, st : TourStatus]
    BY <2>2 DEF TourInv, Shapes
  <2> QED BY <1>1, <1>2, <2>1, <2>2, <2>3, ReadyOwn, OwnStep
<1>4. ASSUME NEW o \in StoreShape, NEW st \in TourStatus, Leaves(o, st), o.user = user,
             o.step \in StepIds[UserRole] \cup {NoStep}, o.completed = ob.completed,
             o.restart = ob.restart
      PROVE  TourInv'
  <2>1. prov' \in ProviderShape /\ prov'.reconciled
    <3>1. prov' = [prov EXCEPT !.welcome = FALSE, !.slide = 0]
      BY <1>4 DEF Leaves
    <3>2. prov \in ProviderShape /\ prov.reconciled
      BY <1>1, ReadyOwn
    <3>3. FALSE \in BOOLEAN /\ 0 \in 0 .. LastSlide
      BY DEF LastSlide
    <3>4. prov' \in ProviderShape /\ prov'.reconciled = prov.reconciled
      BY <3>1, <3>2, <3>3, ProviderKept, Zenon
    <3> QED BY <3>2, <3>4
  <2>2. ob' = o /\ calls' = calls \cup Patch(st)
    BY <1>4 DEF Leaves
  <2> QED BY <1>1, <1>2, <1>4, <2>1, <2>2, ReadyOwn, OwnStep
<1>5. CASE HandleStartTour
  <2>1. Steps[1].id \in StepIds[UserRole] /\ Steps[1].id \in Ids
    BY <1>1, ReadyOwn, ToursAreTours DEF Steps
  <2> QED BY <1>1, <1>4, <1>5, <2>1, ReadyOwn, GoneTo DEF HandleStartTour, TourStatus
<1>6. CASE HandleSnooze
  BY <1>1, <1>4, <1>6, ReadyOwn, Ended DEF HandleSnooze, Over, TourStatus
<1>7. CASE HandleSkipForever
  BY <1>1, <1>4, <1>7, ReadyOwn, Ended DEF HandleSkipForever, Over, TourStatus
<1> QED BY <1>3, <1>5, <1>6, <1>7 DEF WelcomeCarouselDesktop, WelcomeCarouselMobile

\* The panel's buttons and the calculator's forgiveness.
LEMMA PanelStep ==
  ASSUME TourInv, TourPopover \/ TourBottomSheet \/ CalculatorInput
  PROVE  TourInv'
<1>1. Ready /\ HasStep /\ UNCHANGED still
  BY DEF TourPopover, TourBottomSheet, CalculatorInput, PanelMounted, OnSameRoute
<1>2. ASSUME NEW mark \in BOOLEAN, AfterAdvance(Advance(ob, mark)), events' \in 0 .. MaxEvents,
             events <= events'
      PROVE  TourInv'
  <2> DEFINE o == Advance(ob, mark)
  <2>1. /\ o \in StoreShape /\ o.user = ob.user /\ o.restart = ob.restart
        /\ o.step \in StepIds[UserRole] \cup {NoStep}
        /\ o.completed \subseteq ob.completed \cup StepIds[UserRole]
    BY <1>1, Advanced DEF TourInv
  <2> HIDE DEF o
  <2>2. /\ ob' = o /\ calls' \subseteq calls \cup Patch("completed")
        /\ prov' = [prov EXCEPT !.completion = prov.completion \/ o.status = "completed"]
    BY <1>2 DEF AfterAdvance, o
  <2>3. prov' \in ProviderShape /\ prov'.reconciled
    BY <1>1, <2>2, ReadyOwn DEF ProviderShape
  <2>4. calls' \subseteq [acct : Accounts, st : TourStatus]
    BY <1>1, <2>2, ReadyOwn DEF TourStatus
  <2>5. ob'.completed \subseteq StepIds[UserRole] /\ ob'.restart <= events' /\ ob'.user = user
    BY <1>1, <1>2, <2>1, <2>2, ReadyOwn
  <2> QED BY <1>1, <1>2, <2>1, <2>2, <2>3, <2>4, <2>5, ReadyOwn, OwnStep
<1>3. CASE HandleAdvance
  <2>1. AfterAdvance(Advance(ob, TRUE)) /\ events' = events
    BY <1>3 DEF HandleAdvance
  <2>2. events' \in 0 .. MaxEvents /\ events <= events'
    BY <1>1, <2>1, ReadyOwn
  <2> QED BY <1>2, <2>1, <2>2
<1>4. CASE HandleSkipStep
  <2>1. AfterAdvance(Advance(ob, FALSE)) /\ events' = events + 1 /\ events < MaxEvents
    BY <1>4 DEF HandleSkipStep, Event
  <2>2. events' \in 0 .. MaxEvents /\ events <= events'
    BY <1>1, <2>1, ReadyOwn, BoundAssumption
  <2> QED BY <1>2, <2>1, <2>2
<1>5. CASE HandleBack
  <2> DEFINE id == Steps[CurrentIndex - 1].id
  <2>1. id \in StepIds[UserRole] /\ id \in Ids
    BY <1>1, <1>5, CurrentInTour, ReadyOwn DEF TourInv, HandleBack
  <2>2. ob' = GoToStep(ob, id) /\ UNCHANGED <<calls, prov>> /\ events' = events + 1 /\ events < MaxEvents
    BY <1>5 DEF HandleBack, Event
  <2> HIDE DEF id
  <2>3. calls' \subseteq [acct : Accounts, st : TourStatus]
    BY <2>2 DEF TourInv, Shapes
  <2>4. events' \in 0 .. MaxEvents /\ ob'.restart <= events'
    BY <1>1, <2>1, <2>2, ReadyOwn, GoneTo, BoundAssumption
  <2> QED BY <1>1, <2>1, <2>2, <2>3, <2>4, ReadyOwn, GoneTo, OwnStep
<1>6. CASE HandleTourSnooze
  <2>1. ob' = Snooze(ob) /\ calls' = calls \cup Patch("snoozed") /\ UNCHANGED <<prov, events>>
    BY <1>6 DEF HandleTourSnooze
  <2>2. Over(ob, ob')
    BY <1>1, <2>1, ReadyOwn, Ended
  <2> QED BY <1>1, <2>1, <2>2, ReadyOwn, OwnStep DEF Over, TourStatus
<1> QED BY <1>3, <1>4, <1>5, <1>6 DEF TourPopover, TourBottomSheet, CalculatorInput

\* Effects: the provider reconciles the store with the user, or the tour goes
\* on by itself.
LEMMA CommitStep ==
  ASSUME TourInv, Commit
  PROVE  TourInv'
<1> DEFINE skipped == RfqSubmitEffect \/ AutoSkipEffect
           o == IF skipped THEN Advance(ob, TRUE) ELSE ob
           mounting == ~prov.reconciled
<1>1. /\ user # NoUser /\ user \in Accounts /\ UserRole = RoleIs(user)
      /\ ob \in StoreShape /\ prov \in ProviderShape /\ UserRole \in TourRoles
  BY RoleOfUser, RolesOfUsers DEF TourInv, Shapes, Commit
<1>2. skipped => HasStep
  BY DEF RfqSubmitEffect, AutoSkipEffect, OnSameRoute
<1>3. /\ o \in StoreShape /\ o.user = ob.user /\ o.restart = ob.restart
      /\ ob.user = user => /\ o.step \in StepIds[UserRole] \cup {NoStep}
                          /\ o.completed \subseteq StepIds[UserRole]
  BY <1>1, <1>2, Advanced DEF TourInv, InTourOf
<1>4. /\ ob' = IF mounting THEN Reconcile(o) ELSE o
      /\ prov'.reconciled /\ prov' \in ProviderShape
      /\ calls' \subseteq calls \cup Patch("completed")
      /\ session' \in {session, user}
  BY <1>1 DEF Commit, ProviderShape, StoreShape
<1>5. UNCHANGED <<user, server, desktop, events>> /\ tour' = TourAfter
  BY DEF Commit
<1> HIDE DEF skipped, o
<1>6. Fresh(user, o.restart) \in StoreShape /\ Fresh(user, o.restart).user = user
      /\ Fresh(user, o.restart).step = NoStep /\ Fresh(user, o.restart).completed = {}
      /\ Fresh(user, o.restart).restart = o.restart
  BY <1>1, <1>3 DEF Fresh, StoreShape, TourStatus
<1>7. /\ ob' \in StoreShape /\ ob'.user = user /\ ob'.restart = ob.restart
      /\ ob'.step \in StepIds[UserRole] \cup {NoStep} /\ ob'.completed \subseteq StepIds[UserRole]
  <2>1. CASE mounting
    <3> DEFINE i == InitFor(o, user)
    <3>1. /\ i \in StoreShape /\ i.user = user /\ i.restart = ob.restart
          /\ i.step \in StepIds[UserRole] \cup {NoStep} /\ i.completed \subseteq StepIds[UserRole]
      BY <1>3, <1>6 DEF InitFor
    <3>2. prov.fetched \in TourStatus
      BY <1>1, <2>1 DEF TourInv, FetchedOnce
    <3>3. ob' = [i EXCEPT !.status = prov.fetched]
      BY <1>4, <2>1 DEF Reconcile
    <3> HIDE DEF i
    <3> QED BY <3>1, <3>2, <3>3 DEF StoreShape
  <2>2. CASE ~mounting
    <3>1. ob.user = user
      BY <1>1, <2>2 DEF TourInv, Reconciled
    <3> QED BY <1>3, <1>4, <2>2, <3>1
  <2> QED BY <2>1, <2>2
<1>8. route' \in RouteNames /\ result' \in BOOLEAN /\ drawer' \in BOOLEAN
  <2>1. route' \in RouteNames
    BY CurrentInTour DEF TourInv, Shapes, Commit, NavigateEffect
  <2>2. result' \in BOOLEAN
    BY DEF Commit
  <2>3. drawer' \in BOOLEAN
    <3>1. CASE DrawerEffect
      <4>1. drawer' = IsSidebarStep(CurrentStep)
        BY <3>1 DEF Commit
      <4> QED BY <4>1 DEF IsSidebarStep
    <3>2. CASE ~DrawerEffect
      <4>1. drawer' = drawer /\ drawer \in BOOLEAN
        BY <3>2 DEF Commit, TourInv, Shapes
      <4> QED BY <4>1
    <3> QED BY <3>1, <3>2
  <2> QED BY <2>1, <2>2, <2>3
<1>9. TourShape'
  <2> DEFINE nav == IF HasStep /\ StepChanged THEN CurrentStep.id ELSE tour.navFor
             skip == IF AutoSkipEffect THEN CurrentStep.id ELSE tour.skippedFor
             same == ~OnSameRoute
             rfq == IF HasStep /\ StepOrRouteChanged /\ CurrentStep.id = "client_rfq_submit"
                    THEN same ELSE tour.rfqDone
  <2>1. TargetAfter \in TargetStates
    BY DEF TourInv, Shapes, TourShape, TargetAfter, TargetStates
  <2>2. same \in BOOLEAN /\ tour.rfqDone \in BOOLEAN /\ TRUE \in BOOLEAN
    BY DEF TourInv, Shapes, TourShape
  <2>3. rfq \in BOOLEAN
    <3> HIDE DEF same
    <3> QED BY <2>2
  <2>4. GuidedShown => TourAfter = [on |-> TRUE, navFor |-> nav, skippedFor |-> skip, rfqDone |-> rfq,
                                    targetId |-> TargetId, st |-> TargetAfter, deps |-> Deps]
    BY DEF TourAfter
  <2> HIDE DEF rfq, nav, skip
  <2>5. ASSUME NEW on \in BOOLEAN, NEW r \in BOOLEAN
        PROVE  \E T : [on |-> on, navFor |-> nav, skippedFor |-> skip, rfqDone |-> r,
                 targetId |-> TargetId, st |-> TargetAfter, deps |-> Deps]
            \in [on : BOOLEAN, navFor : T, skippedFor : T, rfqDone : BOOLEAN, targetId : T,
                st : TargetStates, deps : T]
    <3> WITNESS {nav, skip, TargetId, Deps}
    <3> QED BY <2>1
  <2>6. \E T : [on |-> TRUE, navFor |-> nav, skippedFor |-> skip, rfqDone |-> rfq,
                targetId |-> TargetId, st |-> TargetAfter, deps |-> Deps]
          \in [on : BOOLEAN, navFor : T, skippedFor : T, rfqDone : BOOLEAN, targetId : T,
              st : TargetStates, deps : T]
    BY <2>2, <2>3, <2>5, Zenon
  <2>7. CASE GuidedShown
    BY <1>5, <2>4, <2>6, <2>7, Zenon DEF TourShape
  <2>8. CASE ~GuidedShown
    <3>1. tour' = TourOff
      BY <1>5, <2>8 DEF TourAfter
    <3> QED BY <3>1, OffRecord DEF TourShape
  <2> QED BY <2>7, <2>8
<1>10. calls' \subseteq [acct : Accounts, st : TourStatus]
  BY <1>1, <1>4 DEF TourInv, Shapes, Patch, TourStatus
<1>11. Shapes'
  BY <1>1, <1>4, <1>5, <1>7, <1>8, <1>9, <1>10 DEF TourInv, Shapes
<1>12. RestartsAreEvents' /\ FetchedOnce' /\ Reconciled'
  BY <1>4, <1>5, <1>7 DEF TourInv, RestartsAreEvents, FetchedOnce, Reconciled
<1>13. InTourOf(ob)'
  BY <1>1, <1>7 DEF InTourOf
<1> QED BY <1>11, <1>12, <1>13 DEF TourInv

LEMMA LookupStep ==
  ASSUME TourInv, TargetAppears \/ WaitTimeout
  PROVE  TourInv'
<1>1. PICK st \in TargetStates : tour' = [tour EXCEPT !.st = st]
  BY DEF TargetAppears, WaitTimeout, TargetStates
<1>2. UNCHANGED <<user, server, calls, ob, session, route, desktop, drawer, prov, result, events>>
  BY DEF TargetAppears, WaitTimeout
<1>3. TourShape'
  <2>1. PICK T : tour \in [on : BOOLEAN, navFor : T, skippedFor : T, rfqDone : BOOLEAN,
                          targetId : T, st : TargetStates, deps : T]
    BY DEF TourInv, Shapes, TourShape
  <2>2. tour' \in [on : BOOLEAN, navFor : T, skippedFor : T, rfqDone : BOOLEAN, targetId : T,
                  st : TargetStates, deps : T]
    BY <1>1, <2>1
  <2> QED BY <2>2 DEF TourShape
<1>4. Shapes'
  BY <1>2, <1>3 DEF TourInv, Shapes
<1> QED BY <1>2, <1>4 DEF TourInv, RestartsAreEvents, FetchedOnce, Reconciled, InTourOf

\* What touches neither the store nor who is signed in.
LEMMA ElsewhereStep ==
  ASSUME TourInv, UNCHANGED <<user, ob, session, tour, events>>,
         server' \in [Accounts -> TourStatus], calls' \subseteq [acct : Accounts, st : TourStatus],
         route' \in RouteNames, desktop' \in BOOLEAN, drawer' \in BOOLEAN, result' \in BOOLEAN,
         prov' \in ProviderShape, prov'.reconciled = prov.reconciled, prov'.fetched = prov.fetched
  PROVE  TourInv'
<1>1. Shapes'
  BY DEF TourInv, Shapes, TourShape
<1> QED BY <1>1 DEF TourInv, RestartsAreEvents, FetchedOnce, Reconciled, InTourOf

LEMMA AwayStep ==
  ASSUME TourInv,
         \/ CompletionCard \/ NavGuardToast \/ SubmitRfq \/ Calculate \/ ToggleDrawer
         \/ \E r \in Visited : Navigate(r)
         \/ \E c \in calls : Deliver(c) \/ Lost(c)
  PROVE  TourInv'
<1>a. /\ server \in [Accounts -> TourStatus] /\ calls \subseteq [acct : Accounts, st : TourStatus]
      /\ route \in RouteNames /\ desktop \in BOOLEAN /\ drawer \in BOOLEAN /\ result \in BOOLEAN
      /\ prov \in ProviderShape
  BY DEF TourInv, Shapes
<1>1. ASSUME NEW r \in RouteNames, GoTo(r) PROVE TourInv'
  <2>1. route' = r /\ result' \in BOOLEAN
        /\ UNCHANGED <<user, server, calls, ob, session, desktop, drawer, prov, tour, events>>
    BY <1>1 DEF GoTo, serverSide
  <2> QED BY <1>a, <2>1, ElsewhereStep
<1>2. CASE NavGuardToast
  <2>1. CurrentStep.route \in RouteNames
    BY <1>2, CurrentInTour DEF TourInv, NavGuardToast, ToastShown
  <2> QED BY <1>1, <1>2, <2>1 DEF NavGuardToast
<1>3. CASE SubmitRfq
  <2>1. "rfq_detail" \in RouteNames
    BY DEF RouteNames, OpenRoutes
  <2> QED BY <1>1, <1>3, <2>1 DEF SubmitRfq
<1>4. CASE \E r \in Visited : Navigate(r)
  BY <1>1, <1>4, VisitedAssumption DEF Navigate
<1>5. CASE CompletionCard
  <2>1. prov' = [prov EXCEPT !.completion = FALSE]
    BY <1>5 DEF CompletionCard
  <2>2. prov' \in ProviderShape /\ prov'.reconciled = prov.reconciled /\ prov'.fetched = prov.fetched
    BY <1>a, <2>1 DEF ProviderShape
  <2>3. UNCHANGED <<user, server, calls, ob, session, route, desktop, drawer, tour, result, events>>
    BY <1>5 DEF CompletionCard, serverSide
  <2> QED BY <1>a, <2>2, <2>3, ElsewhereStep
<1>6. CASE Calculate
  <2>1. result' \in BOOLEAN
        /\ UNCHANGED <<user, server, calls, ob, session, route, desktop, drawer, prov, tour, events>>
    BY <1>6 DEF Calculate, serverSide
  <2> QED BY <1>a, <2>1, ElsewhereStep
<1>7. CASE ToggleDrawer
  <2>1. drawer' \in BOOLEAN
        /\ UNCHANGED <<user, server, calls, ob, session, route, desktop, prov, tour, result, events>>
    BY <1>7 DEF ToggleDrawer, serverSide
  <2> QED BY <1>a, <2>1, ElsewhereStep
<1>8. ASSUME NEW c \in calls, Deliver(c) \/ Lost(c) PROVE TourInv'
  <2>1. c.acct \in Accounts /\ c.st \in TourStatus
    BY <1>a
  <2>2. server' \in [Accounts -> TourStatus] /\ calls' \subseteq [acct : Accounts, st : TourStatus]
    BY <1>a, <1>8, <2>1 DEF Deliver, Lost
  <2>3. UNCHANGED <<user, ob, session, route, desktop, drawer, prov, tour, result, events>>
    BY <1>8 DEF Deliver, Lost
  <2> QED BY <1>a, <2>2, <2>3, ElsewhereStep
<1> QED BY <1>2, <1>3, <1>4, <1>5, <1>6, <1>7, <1>8

\* A session begins; the store is still whoever's it was.
LEMMA MountStep ==
  ASSUME TourInv, NEW u \in Accounts, NEW r \in RouteNames, Mount(u, r),
         ob' \in {ob, [ob EXCEPT !.restart = 0]}, session' \in {session, NoUser},
         drawer' \in {drawer, FALSE}
  PROVE  TourInv'
<1>1. /\ prov' = [reconciled |-> FALSE, fetched |-> server[u], signal |-> "unmounted",
                  welcome |-> FALSE, slide |-> 0, completion |-> FALSE]
      /\ user' = u /\ route' = r /\ tour' = TourOff /\ result' = FALSE
      /\ UNCHANGED <<server, calls, desktop>> /\ events < MaxEvents /\ events' = events + 1
  BY DEF Mount, Event, serverSide, ProviderOff
<1>2. prov' \in ProviderShape /\ ~prov'.reconciled /\ prov'.fetched \in TourStatus
  BY <1>1 DEF ProviderShape, TourInv, Shapes, LastSlide
<1>3. ob \in StoreShape /\ ob.restart \in 0 .. MaxEvents /\ events \in 0 .. MaxEvents
      /\ ob.restart <= events
  BY DEF TourInv, Shapes, RestartsAreEvents, StoreShape
<1>4. /\ ob' \in StoreShape /\ ob'.user = ob.user /\ ob'.step = ob.step
      /\ ob'.completed = ob.completed /\ ob'.restart \in {ob.restart, 0}
  BY <1>3, BoundAssumption DEF StoreShape
<1>5. TourShape'
  BY <1>1, OffRecord DEF TourShape
<1>6. Shapes'
  BY <1>1, <1>2, <1>4, <1>5 DEF TourInv, Shapes
<1>7. RestartsAreEvents'
  BY <1>1, <1>3, <1>4, BoundAssumption DEF RestartsAreEvents
<1>8. FetchedOnce' /\ Reconciled' /\ InTourOf(ob)'
  BY <1>2, <1>4 DEF TourInv, FetchedOnce, Reconciled, InTourOf
<1> QED BY <1>6, <1>7, <1>8 DEF TourInv

LEMMA SessionStep ==
  ASSUME TourInv, RestartTour \/ Reload \/ Logout \/ \E u \in Accounts : Login(u)
  PROVE  TourInv'
<1>1. CASE RestartTour
  <2>1. /\ Ready /\ ob' = Fresh(ob.user, ob.restart + 1) /\ calls' = calls \cup Patch("pending")
        /\ events < MaxEvents /\ events' = events + 1 /\ UNCHANGED still /\ prov' = prov
    BY <1>1 DEF RestartTour, ResetTour, Event, still
  <2>2. /\ ob' \in StoreShape /\ ob'.user = user /\ ob'.step = NoStep /\ ob'.completed = {}
        /\ ob'.restart = ob.restart + 1
    <3>1. ob.restart + 1 \in 0 .. MaxEvents /\ ob.user = user /\ user \in Accounts
      BY <2>1, ReadyOwn, BoundAssumption
    <3> QED BY <2>1, <3>1 DEF Fresh, StoreShape, TourStatus
  <2>3. events' \in 0 .. MaxEvents /\ ob'.restart <= events'
    BY <2>1, <2>2, ReadyOwn, BoundAssumption
  <2> QED BY <2>1, <2>2, <2>3, ReadyOwn, OwnStep DEF TourStatus
<1>2. CASE Reload
  BY <1>2, MountStep, ReadyOwn DEF Reload, TourInv, Shapes
<1>3. CASE \E u \in Accounts : Login(u)
  <2>1. PICK u \in Accounts : Login(u)
    BY <1>3
  <2>2. DashboardPathForRole(RoleOf[u]) \in RouteNames
    BY RoleAssumption DEF DashboardPathForRole, RouteNames, GuardRoles
  <2> QED BY <2>1, <2>2, MountStep DEF Login
<1>4. CASE Logout
  <2>1. /\ user' = NoUser /\ route' = "login" /\ prov' = ProviderOff /\ tour' = TourOff
        /\ result' = FALSE /\ UNCHANGED <<server, calls, ob, session, desktop, drawer, events>>
    BY <1>4 DEF Logout, serverSide
  <2>2. TourShape'
    BY <2>1, OffRecord DEF TourShape
  <2>3. prov' \in ProviderShape
    BY <2>1 DEF ProviderOff, ProviderShape, LastSlide
  <2>4. "login" \in RouteNames
    BY DEF RouteNames, PublicRoutes
  <2>5. Shapes'
    BY <2>1, <2>2, <2>3, <2>4 DEF TourInv, Shapes
  <2> QED BY <2>1, <2>5 DEF TourInv, RestartsAreEvents, FetchedOnce, Reconciled, InTourOf
<1> QED BY <1>1, <1>2, <1>3, <1>4

LEMMA TourInitial == Init => TourInv
<1> SUFFICES ASSUME Init PROVE TourInv
  OBVIOUS
<1>1. TourShape
  BY OffRecord DEF Init, TourShape
<1>2. ob = [user |-> NoUser, status |-> "pending", step |-> NoStep, completed |-> {}, restart |-> 0]
  BY DEF Init, Fresh
<1>3. ob \in StoreShape
  BY <1>2, BoundAssumption DEF StoreShape, TourStatus
<1>4. prov \in ProviderShape
  BY DEF Init, ProviderOff, ProviderShape, LastSlide
<1>5. "login" \in RouteNames
  BY DEF RouteNames, PublicRoutes
<1>6. Shapes
  BY <1>1, <1>3, <1>4, <1>5, StatusAssumption DEF Init, Shapes, TourStatus
<1> QED BY <1>2, <1>6, BoundAssumption DEF Init, TourInv, RestartsAreEvents, FetchedOnce, Reconciled,
                                           InTourOf

LEMMA TourStep == TourInv /\ [Next]_vars => TourInv'
<1> SUFFICES ASSUME TourInv, [Next]_vars PROVE TourInv'
  OBVIOUS
<1>1. CASE UNCHANGED vars
  BY <1>1 DEF vars, TourInv, Shapes, TourShape, RestartsAreEvents, FetchedOnce, Reconciled, InTourOf
<1> QED BY <1>1, CommitStep, LookupStep, CarouselStep, PanelStep, AwayStep, SessionStep DEF Next

LEMMA TourInvariance == Spec => []TourInv
BY TourInitial, TourStep, PTL DEF Spec

-----------------------------------------------------------------------------
(* The theorems *)

\* The browser's state has its shape: every step the store names is one of a
\* tour, every route a screen, every restart an event.
THEOREM TourTypeCorrect == Spec => []TypeOK
<1>1. TourInv => TypeOK
  BY DEF TourInv, Shapes, TourShape, TypeOK, StoreShape, ProviderShape, TargetStates
<1> QED BY <1>1, TourInvariance, PTL

\* Once the effects have run the store is the signed-in user's, with steps and
\* progress of his own role's tour, whoever used the browser before him, and
\* though the tour's effects may run before the store is reconciled.
THEOREM ToursAreOwn == Spec => []OwnTour
<1>1. TourInv => OwnTour
  BY ReadyOwn DEF OwnTour
<1> QED BY <1>1, TourInvariance, PTL

=============================================================================
