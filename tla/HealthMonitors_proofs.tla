----------------------- MODULE HealthMonitors_proofs -----------------------
(***************************************************************************)
(* The gateway's view of endpoints and vehicle, for any adapters and       *)
(* publishers, any window and timeout and any number of configurations,    *)
(* and, in the last part, its view of ROS time.                            *)
(***************************************************************************)
EXTENDS HealthMonitors, RosClock, TLAPS

LEMMA EndpointNames == Endpoints = {"vehicle", "source"}
BY DEF Endpoints, Views

LEMMA VehicleViews ==
    Views["vehicle"] = [who : Adapters \cup {None}, qos : BOOLEAN]
BY DEF Views

\* A tracker's verdicts are of what was looked at.
LEMMA ObservedTyped ==
    ASSUME NEW e \in Endpoints, NEW t \in Trackers(e), NEW view \in Views[e]
    PROVE  Observed(t, view) \in Trackers(e)
<1>1. 0 \in 0 .. StableWindow
    BY MonitorAssumption
<1>2. CASE view = t.stable
    BY <1>1, <1>2 DEF Observed, Trackers
<1>3. CASE view # t.stable /\ view # t.candidate
    BY <1>1, <1>3 DEF Observed, Trackers
<1>4. CASE /\ view # t.stable /\ view = t.candidate
           /\ t.age >= StableWindow
    BY <1>1, <1>4 DEF Observed, Trackers, NewTracker
<1>5. CASE /\ view # t.stable /\ view = t.candidate
           /\ ~(t.age >= StableWindow)
    BY <1>5 DEF Observed
<1>6. QED  BY <1>2, <1>3, <1>4, <1>5

LEMMA RefreshedTyped ==
    ASSUME NEW h \in Healths, NEW s, NEW valid \in BOOLEAN
    PROVE  /\ Refreshed(h, s, valid) \in Healths
           /\ Refreshed(h, s, valid).endpoints = h.endpoints
           /\ Refreshed(h, s, valid).qos = h.qos
           /\ Refreshed(h, s, valid).invariants = h.invariants
           /\ Refreshed(h, s, valid).valid = valid
           /\ Refreshed(h, s, valid).fresh = Fresh(s)
BY DEF Refreshed, Healths, Fresh

\* The holder of the vehicle role is an adapter.
LEMMA HolderTyped ==
    ASSUME EndpointsTyped
    PROVE  /\ Holder("vehicle") \in Adapters \cup {None}
           /\ StableQos(tracker["vehicle"]) \in BOOLEAN
<1>1. tracker["vehicle"].stable \in Views["vehicle"] \cup {None}
    BY EndpointNames DEF EndpointsTyped, Trackers
<1>2. tracker["vehicle"].stable # None
        => /\ tracker["vehicle"].stable.who \in Adapters \cup {None}
           /\ tracker["vehicle"].stable.qos \in BOOLEAN
    BY <1>1, VehicleViews
<1>3. QED  BY <1>2 DEF Holder, StableQos

-----------------------------------------------------------------------------
\* What starts knows nothing, which nothing contradicts.
LEMMA InitMonitorInv == Init => MonitorInv
<1> SUFFICES ASSUME Init PROVE MonitorInv
    OBVIOUS
<1>1. \A e \in Endpoints : /\ tracker[e] = NewTracker
                           /\ looks[e] = [view |-> None, span |-> 0]
    BY DEF Init
<1>2. EndpointsTyped
    BY <1>1, MonitorAssumption DEF EndpointsTyped, Trackers, Looks, NewTracker
<1>3. MemoryTyped
    BY DEF Init, MemoryTyped, Healths, NoHealth
<1>4. CandidateSeen
    BY <1>1 DEF CandidateSeen, NewTracker
<1>5. Holder("vehicle") = None
    BY <1>1, EndpointNames DEF Holder, NewTracker
<1>6. FeedbackOfConfirmed /\ MessageBacks /\ EndpointsHeld
    BY <1>5 DEF Init, FeedbackOfConfirmed, MessageBacks, EndpointsHeld, NoHealth
<1>7. PhaseTyped
  <2>1. bundle \in 0 .. MaxBundles /\ bundles \in 0 .. MaxBundles
      BY MonitorAssumption DEF Init
  <2>2. active \in BOOLEAN /\ trusted \in BOOLEAN
      BY DEF Init
  <2>3. poll \in 1 .. MaxBundles \cup {None}
      BY DEF Init
  <2>4. QED  BY <2>1, <2>2, <2>3 DEF PhaseTyped
<1>8. DecisionOnTruth
    BY DEF Init, DecisionOnTruth
<1>9. QED  BY <1>2, <1>3, <1>4, <1>6, <1>7, <1>8 DEF MonitorInv, TypeOK

-----------------------------------------------------------------------------
\* A new configuration, and a cleanup.
LEMMA StartOverKeeps ==
    MonitorInv /\ (OnConfigure \/ OnCleanup) /\ trusted' = FALSE => MonitorInv'
<1> SUFFICES ASSUME MonitorInv, OnConfigure \/ OnCleanup, trusted' = FALSE
             PROVE  MonitorInv'
    OBVIOUS
<1>1. StartOver
    BY DEF OnConfigure, OnCleanup
<1>2. (/\ EndpointsTyped /\ MemoryTyped /\ CandidateSeen
       /\ FeedbackOfConfirmed /\ MessageBacks /\ EndpointsHeld)'
  <2>1. /\ tracker' = [e \in Endpoints |-> NewTracker]
        /\ looks' = [e \in Endpoints |-> [view |-> None, span |-> 0]]
        /\ confirmed' = None /\ snapshot' = None /\ messageValid' = FALSE
        /\ health' = NoHealth /\ message' = None
      BY <1>1 DEF StartOver
  <2>2. \A e \in Endpoints : /\ tracker'[e] = NewTracker
                             /\ looks'[e] = [view |-> None, span |-> 0]
      BY <2>1
  <2>3. EndpointsTyped'
      BY <2>2, MonitorAssumption DEF EndpointsTyped, Trackers, Looks, NewTracker
  <2>4. MemoryTyped'
      BY <2>1 DEF MemoryTyped, Healths, NoHealth
  <2>5. CandidateSeen'
      BY <2>2 DEF CandidateSeen, NewTracker
  <2>6. Holder("vehicle")' = None
      BY <2>2, EndpointNames DEF Holder, NewTracker
  <2>7. QED
      BY <2>1, <2>3, <2>4, <2>5, <2>6
         DEF FeedbackOfConfirmed, MessageBacks, EndpointsHeld, NoHealth
<1>3. PhaseTyped'
  <2>1. bundle' \in 0 .. MaxBundles /\ bundles' \in 0 .. MaxBundles
      BY MonitorAssumption
         DEF MonitorInv, TypeOK, PhaseTyped, OnConfigure, OnCleanup
  <2>2. active' \in BOOLEAN /\ trusted' \in BOOLEAN
      BY <1>1 DEF StartOver
  <2>3. poll' \in 1 .. MaxBundles \cup {None}
      BY DEF MonitorInv, TypeOK, PhaseTyped, OnConfigure, OnCleanup
  <2>4. QED  BY <2>1, <2>2, <2>3 DEF PhaseTyped
<1>4. DecisionOnTruth'
    BY DEF DecisionOnTruth
<1>5. QED  BY <1>2, <1>3, <1>4 DEF MonitorInv, TypeOK

\* The steps that leave endpoints and messages alone, and of the health at
\* most say less or refresh it.
LEMMA LifecycleKeeps ==
    /\ MonitorInv
    /\ OnActivate \/ OnDeactivate \/ PollGraphStart \/ PollGraphFailed
    /\ trusted' = FALSE
    => MonitorInv'
<1> SUFFICES ASSUME MonitorInv, trusted' = FALSE,
                    OnActivate \/ OnDeactivate \/ PollGraphStart
                      \/ PollGraphFailed
             PROVE  MonitorInv'
    OBVIOUS
<1>1. UNCHANGED <<tracker, looks, confirmed, snapshot, messageValid, message>>
    BY DEF OnActivate, OnDeactivate, PollGraphStart, PollGraphFailed, memory
<1>2. health' \in Healths /\ health'.invariants = health.invariants
      /\ (health'.endpoints => health.endpoints)
  <2>1. health \in Healths /\ messageValid \in BOOLEAN
      BY DEF MonitorInv, TypeOK, MemoryTyped
  <2>2. CASE OnActivate
      BY <2>1, <2>2, RefreshedTyped DEF OnActivate, GateHealth
  <2>3. CASE OnDeactivate \/ PollGraphStart
      BY <2>1, <2>3 DEF OnDeactivate, PollGraphStart
  <2>4. CASE PollGraphFailed
      BY <2>1, <2>4 DEF PollGraphFailed, Healths
  <2>5. QED  BY <2>2, <2>3, <2>4
<1>3. EndpointsTyped' /\ CandidateSeen' /\ MemoryTyped'
    BY <1>1, <1>2
       DEF MonitorInv, TypeOK, EndpointsTyped, CandidateSeen, MemoryTyped
<1>4. Holder("vehicle")' = Holder("vehicle")
    BY <1>1 DEF Holder
<1>5. FeedbackOfConfirmed' /\ MessageBacks' /\ EndpointsHeld'
    BY <1>1, <1>2, <1>4
       DEF MonitorInv, FeedbackOfConfirmed, MessageBacks, EndpointsHeld
<1>6. GateOpens \in BOOLEAN
    BY DEF GateOpens
<1>7. PhaseTyped'
  <2>1. bundle' \in 0 .. MaxBundles /\ bundles' \in 0 .. MaxBundles
      BY DEF MonitorInv, TypeOK, PhaseTyped,
             OnActivate, OnDeactivate, PollGraphStart, PollGraphFailed
  <2>2. active' \in BOOLEAN /\ trusted' \in BOOLEAN
      BY <1>6 DEF MonitorInv, TypeOK, PhaseTyped,
                  OnActivate, OnDeactivate, PollGraphStart, PollGraphFailed
  <2>3. poll' \in 1 .. MaxBundles \cup {None}
      BY DEF MonitorInv, TypeOK, PhaseTyped, Configured,
             OnActivate, OnDeactivate, PollGraphStart, PollGraphFailed
  <2>4. QED  BY <2>1, <2>2, <2>3 DEF PhaseTyped
<1>8. DecisionOnTruth'
    BY DEF DecisionOnTruth
<1>9. QED  BY <1>3, <1>5, <1>7, <1>8 DEF MonitorInv, TypeOK

\* A tick refreshes the health, and then it is told the truth.
LEMMA RunOutputTickKeeps == MonitorInv /\ RunOutputTick => MonitorInv'
<1> SUFFICES ASSUME MonitorInv, RunOutputTick PROVE MonitorInv'
    OBVIOUS
<1>1. UNCHANGED <<tracker, looks, confirmed, snapshot, messageValid, message>>
    BY DEF RunOutputTick, memory
<1>2. health \in Healths /\ messageValid \in BOOLEAN
    BY DEF MonitorInv, TypeOK, MemoryTyped
<1>3. /\ health' \in Healths /\ health'.invariants = health.invariants
      /\ health'.endpoints = health.endpoints
      /\ health'.valid = messageValid /\ health'.fresh = Fresh(snapshot)
    BY <1>2, RefreshedTyped DEF RunOutputTick, TickHealth
<1>4. EndpointsTyped' /\ CandidateSeen' /\ MemoryTyped'
    BY <1>1, <1>3
       DEF MonitorInv, TypeOK, EndpointsTyped, CandidateSeen, MemoryTyped
<1>5. Holder("vehicle")' = Holder("vehicle")
    BY <1>1 DEF Holder
<1>6. FeedbackOfConfirmed' /\ MessageBacks' /\ EndpointsHeld'
    BY <1>1, <1>3, <1>5
       DEF MonitorInv, FeedbackOfConfirmed, MessageBacks, EndpointsHeld
<1>7. trusted' = (messageValid /\ Fresh(snapshot))
    BY <1>3 DEF RunOutputTick
<1>8. PhaseTyped'
    BY <1>2, <1>7 DEF MonitorInv, TypeOK, PhaseTyped, RunOutputTick, Fresh
<1>9. DecisionOnTruth'
  <2> SUFFICES ASSUME trusted'
               PROVE  /\ snapshot.age <= VehicleTimeout
                      /\ message.who = confirmed /\ message.content # "bad"
      BY <1>1 DEF DecisionOnTruth
  <2>1. messageValid /\ snapshot \in Snapshots /\ snapshot.age <= VehicleTimeout
      BY <1>7 DEF Fresh, MonitorInv, TypeOK, MemoryTyped
  <2>2. message = [who |-> confirmed, content |-> snapshot.content]
      BY <2>1 DEF MonitorInv, MessageBacks
  <2>3. QED  BY <2>1, <2>2 DEF Snapshots
<1>10. QED  BY <1>4, <1>6, <1>8, <1>9 DEF MonitorInv, TypeOK

-----------------------------------------------------------------------------
\* One more look: a candidate stays younger than its span, and what becomes
\* stable has been seen for the whole window.
LEMMA ObservedSeen ==
    ASSUME NEW e \in Endpoints, NEW t \in Trackers(e), NEW l \in Looks(e),
           NEW view \in Views[e],
           t.candidate # None => l.view = t.candidate /\ l.span >= t.age
    PROVE  LET o == Observed(t, view)
               span == IF l.view = view THEN l.span ELSE 0
           IN /\ o.candidate # None => o.candidate = view /\ span >= o.age
              /\ o.stable \notin {t.stable, None}
                   => /\ view = o.stable
                      /\ l = [view |-> view, span |-> StableWindow]
<1>1. /\ t.age \in 0 .. StableWindow /\ l.span \in 0 .. StableWindow
      /\ l = [view |-> l.view, span |-> l.span] /\ StableWindow \in Nat
    BY MonitorAssumption DEF Trackers, Looks
<1>2. CASE view = t.stable
  <2>1. Observed(t, view).candidate = None /\ Observed(t, view).stable = t.stable
      BY <1>2 DEF Observed, Trackers
  <2>2. QED  BY <2>1
<1>3. CASE view # t.stable /\ view # t.candidate
  <2>1. /\ Observed(t, view).candidate = view /\ Observed(t, view).age = 0
        /\ Observed(t, view).stable = t.stable
      BY <1>3 DEF Observed, Trackers
  <2>2. QED  BY <2>1, <1>1
<1>4. CASE view # t.stable /\ view = t.candidate /\ t.age >= StableWindow
  <2>1. Observed(t, view).candidate = None /\ Observed(t, view).stable = view
      BY <1>4 DEF Observed, NewTracker
  <2>2. view # None => l.view = view /\ l.span = StableWindow
      BY <1>1, <1>4
  <2>3. QED  BY <1>1, <2>1, <2>2
<1>5. CASE view # t.stable /\ view = t.candidate /\ ~(t.age >= StableWindow)
  <2>1. Observed(t, view) = t
      BY <1>5 DEF Observed
  <2>2. QED  BY <2>1, <1>5
<1>6. QED  BY <1>2, <1>3, <1>4, <1>5

\* A look of a configuration that is gone counts for nothing.
LEMMA StaleLook ==
    ASSUME PhaseTyped, poll # None, ~CurrentPoll
    PROVE  poll # bundle
BY DEF PhaseTyped, CurrentPoll, Configured

LEMMA CommitKeeps ==
    ASSUME MonitorInv, trusted' = FALSE, NEW views,
           \A e \in Endpoints : views[e] \in Views[e],
           PollGraphCommit(views)
    PROVE  MonitorInv'
<1>1. CASE ~CurrentPoll
  <2>1. UNCHANGED <<tracker, memory, health, looks, bundle, bundles, active>>
        /\ poll' = None
      BY <1>1, StaleLook DEF PollGraphCommit, MonitorInv, TypeOK
  <2>2. Holder("vehicle")' = Holder("vehicle")
      BY <2>1 DEF Holder
  <2>3. EndpointsTyped' /\ MemoryTyped' /\ CandidateSeen'
      BY <2>1 DEF memory, MonitorInv, TypeOK, EndpointsTyped, MemoryTyped,
                  CandidateSeen
  <2>4. PhaseTyped'
      BY <2>1 DEF MonitorInv, TypeOK, PhaseTyped
  <2>5. FeedbackOfConfirmed' /\ MessageBacks' /\ EndpointsHeld'
      BY <2>1, <2>2
         DEF memory, MonitorInv, FeedbackOfConfirmed, MessageBacks, EndpointsHeld
  <2>6. DecisionOnTruth'
      BY DEF DecisionOnTruth
  <2>7. QED  BY <2>3, <2>4, <2>5, <2>6 DEF MonitorInv, TypeOK
<1>2. CASE CurrentPoll
  <2> DEFINE who == Holder("vehicle")'
             seen == [health EXCEPT !.endpoints = who # None,
                                    !.qos = StableQos(tracker'["vehicle"])]
  <2>1. /\ tracker' = [e \in Endpoints |-> Observed(tracker[e], views[e])]
        /\ looks' = NewLooks(views)
        /\ confirmed' = IF who = None THEN confirmed ELSE who
        /\ \/ Inherits(who) /\ UNCHANGED <<snapshot, messageValid>>
           \/ ~Inherits(who) /\ snapshot' = None /\ messageValid' = FALSE
        /\ health' = Refreshed(seen, snapshot', messageValid')
        /\ UNCHANGED <<message, bundle, bundles, active>> /\ poll' = None
      BY <1>2 DEF PollGraphCommit, CurrentPoll
  <2>2. \A e \in Endpoints :
           tracker[e] \in Trackers(e) /\ looks[e] \in Looks(e)
      BY DEF MonitorInv, TypeOK, EndpointsTyped
  <2>3. EndpointsTyped'
    <3>1. \A e \in Endpoints : tracker'[e] \in Trackers(e)
        BY <2>1, <2>2, ObservedTyped
    <3>2. \A e \in Endpoints : looks'[e] \in Looks(e)
        BY <2>1, <2>2, MonitorAssumption DEF NewLooks, Looks
    <3>3. QED  BY <3>1, <3>2 DEF EndpointsTyped
  <2>4. CandidateSeen'
    <3> SUFFICES ASSUME NEW e \in Endpoints, tracker'[e].candidate # None
                 PROVE  /\ looks'[e].view = tracker'[e].candidate
                        /\ looks'[e].span >= tracker'[e].age
        BY DEF CandidateSeen
    <3>1. tracker[e].candidate # None
            => /\ looks[e].view = tracker[e].candidate
               /\ looks[e].span >= tracker[e].age
        BY DEF MonitorInv, CandidateSeen
    <3>2. tracker'[e] = Observed(tracker[e], views[e])
        BY <2>1
    <3>3. /\ looks'[e].view = views[e]
          /\ looks'[e].span =
               IF looks[e].view = views[e] THEN looks[e].span ELSE 0
        BY <2>1 DEF NewLooks
    <3>4. /\ Observed(tracker[e], views[e]).candidate = views[e]
          /\ (IF looks[e].view = views[e] THEN looks[e].span ELSE 0)
               >= Observed(tracker[e], views[e]).age
        BY <2>2, <3>1, <3>2, ObservedSeen
    <3>5. QED  BY <3>2, <3>3, <3>4
  <2>5. /\ who \in Adapters \cup {None}
        /\ StableQos(tracker'["vehicle"]) \in BOOLEAN
    <3>1. (Holder("vehicle") \in Adapters \cup {None}
             /\ StableQos(tracker["vehicle"]) \in BOOLEAN)'
        BY <2>3, HolderTyped, PTL
    <3>2. QED  BY <3>1
  <2>6. /\ confirmed \in Adapters \cup {None}
        /\ snapshot \in Snapshots \cup {None}
        /\ messageValid \in BOOLEAN /\ health \in Healths
        /\ message \in [who : Adapters, content : Contents] \cup {None}
      BY DEF MonitorInv, TypeOK, MemoryTyped
  <2>7. /\ seen \in Healths /\ seen.invariants = health.invariants
        /\ seen.endpoints = (who # None)
    <3> HIDE DEF who
    <3>1. QED  BY <2>5, <2>6 DEF Healths
  <2>8. messageValid' \in BOOLEAN /\ snapshot' \in Snapshots \cup {None}
      BY <2>1, <2>6
  <2>9. /\ health' \in Healths /\ health'.invariants = health.invariants
        /\ health'.endpoints = (who # None)
    <3> HIDE DEF who, seen
    <3>1. QED  BY <2>1, <2>7, <2>8, RefreshedTyped
  <2>10. MemoryTyped'
      BY <2>1, <2>5, <2>6, <2>8, <2>9 DEF MemoryTyped
  <2>11. FeedbackOfConfirmed'
      BY <2>1, <2>9 DEF FeedbackOfConfirmed, MonitorInv, Inherits
  <2>12. MessageBacks'
      BY <2>1 DEF MessageBacks, MonitorInv, Inherits
  <2>13. EndpointsHeld'
      BY <2>9 DEF EndpointsHeld
  <2>14. PhaseTyped'
      BY <2>1 DEF MonitorInv, TypeOK, PhaseTyped
  <2>15. DecisionOnTruth'
      BY DEF DecisionOnTruth
  <2>16. QED
      BY <2>3, <2>4, <2>10, <2>11, <2>12, <2>13, <2>14, <2>15
         DEF MonitorInv, TypeOK
<1>3. QED  BY <1>1, <1>2

-----------------------------------------------------------------------------
\* A message of the holder is one of the confirmed adapter, so the assertion
\* of the callback is never the step that is taken.
LEMMA HandleKeeps ==
    ASSUME MonitorInv, trusted' = FALSE, NEW v \in Adapters,
           NEW content \in Contents, HandleVehicleState(v, content)
    PROVE  MonitorInv'
<1>1. UNCHANGED <<bundle, bundles, active, tracker, confirmed, poll, looks>>
      /\ message' = [who |-> v, content |-> content]
    BY DEF HandleVehicleState
<1>2. FromHolder(v) => HolderConfirmed /\ v = confirmed
    BY MonitorAssumption
       DEF MonitorInv, FeedbackOfConfirmed, FromHolder, HolderConfirmed
<1>3. /\ snapshot \in Snapshots \cup {None} /\ health \in Healths
      /\ confirmed \in Adapters \cup {None}
    BY DEF MonitorInv, TypeOK, MemoryTyped
<1>4. Holder("vehicle")' = Holder("vehicle")
    BY <1>1 DEF Holder
<1>5. /\ snapshot' \in Snapshots \cup {None} /\ messageValid' \in BOOLEAN
      /\ health' = Refreshed(health, snapshot', messageValid')
      /\ snapshot' # None => snapshot'.who = confirmed
      /\ MessageBacks'
  <2>1. CASE FromHolder(v) /\ HolderConfirmed /\ content # "bad"
    <3>1. snapshot' = [who |-> v, content |-> content, age |-> 0]
          /\ messageValid' = TRUE /\ health' = Refreshed(health, snapshot', TRUE)
        BY <2>1 DEF HandleVehicleState
    <3>2. snapshot' \in Snapshots
        BY <2>1, <3>1, MonitorAssumption DEF Snapshots, Contents
    <3>3. snapshot' # None
        BY <3>2, MonitorAssumption
    <3>4. QED  BY <1>1, <1>2, <2>1, <3>1, <3>2, <3>3 DEF MessageBacks
  <2>2. CASE ~FromHolder(v) \/ (HolderConfirmed /\ content = "bad")
    <3>1. messageValid' = FALSE /\ snapshot' = snapshot
          /\ health' = Refreshed(health, snapshot, FALSE)
        BY <1>2, <2>2 DEF HandleVehicleState
    <3>2. QED
        BY <1>3, <3>1 DEF MessageBacks, MonitorInv, FeedbackOfConfirmed
  <2>3. QED  BY <1>2, <2>1, <2>2
<1>6. health' \in Healths /\ health'.invariants = health.invariants
      /\ health'.endpoints = health.endpoints
    BY <1>3, <1>5, RefreshedTyped
<1>7. EndpointsTyped' /\ CandidateSeen'
    BY <1>1 DEF MonitorInv, TypeOK, EndpointsTyped, CandidateSeen
<1>8. MemoryTyped'
    BY <1>1, <1>3, <1>5, <1>6 DEF MemoryTyped
<1>9. FeedbackOfConfirmed' /\ EndpointsHeld'
    BY <1>1, <1>4, <1>5, <1>6 DEF MonitorInv, FeedbackOfConfirmed, EndpointsHeld
<1>10. PhaseTyped' /\ DecisionOnTruth'
    BY <1>1 DEF MonitorInv, TypeOK, PhaseTyped, DecisionOnTruth
<1>11. QED  BY <1>5, <1>7, <1>8, <1>9, <1>10 DEF MonitorInv, TypeOK

\* Time passes for candidates and for what has been seen alike.
LEMMA TickKeeps ==
    ASSUME MonitorInv, trusted' = FALSE, Tick
    PROVE  MonitorInv'
<1>1. UNCHANGED <<bundle, bundles, active, confirmed, messageValid, message,
                  health, poll>>
    BY DEF Tick
<1>2. \A e \in Endpoints :
         /\ tracker[e] \in Trackers(e) /\ looks[e] \in Looks(e)
         /\ tracker'[e].stable = tracker[e].stable
         /\ tracker'[e].candidate = tracker[e].candidate
         /\ tracker'[e].age = IF tracker[e].candidate = None THEN tracker[e].age
                              ELSE Older(tracker[e].age, StableWindow)
         /\ looks'[e].view = looks[e].view
         /\ looks'[e].span = Older(looks[e].span, StableWindow)
    BY DEF Tick, MonitorInv, TypeOK, EndpointsTyped, Trackers, Looks
<1>3. \A n \in 0 .. StableWindow : Older(n, StableWindow) \in 0 .. StableWindow
    BY MonitorAssumption DEF Older
<1>4. EndpointsTyped'
    BY <1>2, <1>3 DEF Tick, EndpointsTyped, Trackers, Looks
<1>5. CandidateSeen'
  <2> SUFFICES ASSUME NEW e \in Endpoints, tracker[e].candidate # None
               PROVE  /\ looks'[e].view = tracker'[e].candidate
                      /\ looks'[e].span >= tracker'[e].age
      BY <1>2 DEF CandidateSeen
  <2>1. looks[e].view = tracker[e].candidate /\ looks[e].span >= tracker[e].age
      BY DEF MonitorInv, CandidateSeen
  <2>2. tracker[e].age \in 0 .. StableWindow /\ looks[e].span \in 0 .. StableWindow
      BY <1>2 DEF Trackers, Looks
  <2>3. Older(looks[e].span, StableWindow) >= Older(tracker[e].age, StableWindow)
      BY <2>1, <2>2, MonitorAssumption DEF Older
  <2>4. QED  BY <1>2, <2>1, <2>3
<1>6. /\ snapshot' \in Snapshots \cup {None}
      /\ snapshot' = None <=> snapshot = None
      /\ snapshot # None => /\ snapshot'.who = snapshot.who
                            /\ snapshot'.content = snapshot.content
  <2>1. CASE snapshot = None
      BY <2>1 DEF Tick
  <2>2. CASE snapshot # None
    <3>1. snapshot \in Snapshots
        BY <2>2 DEF MonitorInv, TypeOK, MemoryTyped
    <3>2. snapshot' = [snapshot EXCEPT !.age = Older(@, VehicleTimeout + 1)]
        BY <2>2 DEF Tick
    <3>3. Older(snapshot.age, VehicleTimeout + 1) \in 0 .. VehicleTimeout + 1
        BY <3>1, MonitorAssumption DEF Snapshots, Older
    <3>4. snapshot' \in Snapshots
        BY <3>1, <3>2, <3>3 DEF Snapshots
    <3>5. QED  BY <2>2, <3>1, <3>2, <3>4, MonitorAssumption DEF Snapshots
  <2>3. QED  BY <2>1, <2>2
<1>7. Holder("vehicle")' = Holder("vehicle")
    BY <1>2, EndpointNames DEF Holder
<1>8. MemoryTyped'
    BY <1>1, <1>6 DEF MonitorInv, TypeOK, MemoryTyped
<1>9. FeedbackOfConfirmed' /\ MessageBacks' /\ EndpointsHeld'
    BY <1>1, <1>6, <1>7
       DEF MonitorInv, FeedbackOfConfirmed, MessageBacks, EndpointsHeld
<1>10. PhaseTyped' /\ DecisionOnTruth'
    BY <1>1 DEF MonitorInv, TypeOK, PhaseTyped, DecisionOnTruth
<1>11. QED  BY <1>4, <1>5, <1>8, <1>9, <1>10 DEF MonitorInv, TypeOK

-----------------------------------------------------------------------------
\* Nothing but poll_graph's commit gives an endpoint a stable look.
LEMMA StableOnlyByCommit ==
    ASSUME MonitorInv, Other,
           ~\E seen \in Views["vehicle"], usable \in Views["source"] :
               PollGraphCommit([vehicle |-> seen, source |-> usable]),
           NEW e \in Endpoints
    PROVE  tracker'[e].stable \in {tracker[e].stable, None}
<1>1. CASE OnConfigure \/ OnCleanup
    BY <1>1 DEF OnConfigure, OnCleanup, StartOver, NewTracker
<1>2. CASE Tick
    BY <1>2 DEF Tick, MonitorInv, TypeOK, EndpointsTyped, Trackers
<1>3. CASE ~(OnConfigure \/ OnCleanup \/ Tick)
    BY <1>3 DEF Other, OnActivate, OnDeactivate, PollGraphStart,
                PollGraphFailed, HandleVehicleState
<1>4. QED  BY <1>1, <1>2, <1>3

\* What the look of one poll contains.
LEMMA LooksOfPoll ==
    ASSUME NEW seen \in Views["vehicle"], NEW usable \in Views["source"],
           NEW e \in Endpoints
    PROVE  [vehicle |-> seen, source |-> usable][e] \in Views[e]
BY EndpointNames

LEMMA NextKeeps == MonitorInv /\ [Next]_vars => MonitorInv'
<1> SUFFICES ASSUME MonitorInv, [Next]_vars PROVE MonitorInv'
    OBVIOUS
<1>1. CASE RunOutputTick
    BY <1>1, RunOutputTickKeeps
<1>2. CASE Other /\ trusted' = FALSE
  <2>1. CASE OnConfigure \/ OnCleanup
      BY <1>2, <2>1, StartOverKeeps
  <2>2. CASE OnActivate \/ OnDeactivate \/ PollGraphStart \/ PollGraphFailed
      BY <1>2, <2>2, LifecycleKeeps
  <2>3. CASE \E seen \in Views["vehicle"], usable \in Views["source"] :
                PollGraphCommit([vehicle |-> seen, source |-> usable])
      BY <1>2, <2>3, LooksOfPoll, CommitKeeps
  <2>4. CASE \E v \in Adapters, content \in Contents :
                HandleVehicleState(v, content)
      BY <1>2, <2>4, HandleKeeps
  <2>5. CASE Tick
      BY <1>2, <2>5, TickKeeps
  <2>6. QED  BY <1>2, <2>1, <2>2, <2>3, <2>4, <2>5 DEF Other
<1>3. CASE UNCHANGED vars
  <2>1. Holder("vehicle")' = Holder("vehicle")
      BY <1>3 DEF vars, Holder
  <2>2. QED
      BY <1>3, <2>1
         DEF vars, memory, MonitorInv, TypeOK, EndpointsTyped, MemoryTyped,
             PhaseTyped, CandidateSeen, FeedbackOfConfirmed, MessageBacks,
             EndpointsHeld, DecisionOnTruth
<1>4. QED  BY <1>1, <1>2, <1>3 DEF Next

LEMMA MonitorInvInvariant == Spec => []MonitorInv
BY InitMonitorInv, NextKeeps, PTL DEF Spec

(***************************************************************************)
(* Types, for any adapters, publishers, windows and timeouts.              *)
(***************************************************************************)
THEOREM TypesHold == Spec => []TypeOK
<1>1. MonitorInv => TypeOK
    BY DEF MonitorInv
<1>2. QED  BY <1>1, MonitorInvInvariant, PTL

(***************************************************************************)
(* Feedback is always the confirmed adapter's, and the assertion of        *)
(* handle_vehicle_state never fires, however many adapters replace each    *)
(* other and whenever the node is configured anew.                         *)
(***************************************************************************)
THEOREM FeedbackOfConfirmedHolds == Spec => []FeedbackOfConfirmed
<1>1. MonitorInv => FeedbackOfConfirmed
    BY DEF MonitorInv
<1>2. QED  BY <1>1, MonitorInvInvariant, PTL

(***************************************************************************)
(* A tick that trusts the vehicle health has a last message to show for    *)
(* it: the confirmed adapter's, accepted, within the timeout.              *)
(***************************************************************************)
THEOREM DecisionOnTruthHolds == Spec => []DecisionOnTruth
<1>1. MonitorInv => DecisionOnTruth
    BY DEF MonitorInv
<1>2. QED  BY <1>1, MonitorInvInvariant, PTL

\* What the gate of on_activate asks for.
LEMMA GateAsks ==
    ASSUME MonitorInv, GateOpens
    PROVE  /\ snapshot # None /\ snapshot.age <= VehicleTimeout
           /\ message = [who |-> Holder("vehicle"), content |-> "bootstrap"]
           /\ Holder("source") # None
<1>1. health \in Healths /\ messageValid \in BOOLEAN
    BY DEF MonitorInv, TypeOK, MemoryTyped
<1>2. /\ GateHealth.endpoints = health.endpoints
      /\ GateHealth.valid = messageValid /\ GateHealth.fresh = Fresh(snapshot)
    BY <1>1, RefreshedTyped DEF GateHealth
<1>3. health.endpoints /\ messageValid /\ Fresh(snapshot)
    BY <1>2 DEF GateOpens
<1>4. Holder("vehicle") = confirmed
    BY <1>3 DEF MonitorInv, EndpointsHeld, FeedbackOfConfirmed
<1>5. message = [who |-> confirmed, content |-> snapshot.content]
    BY <1>3 DEF MonitorInv, MessageBacks
<1>6. QED  BY <1>3, <1>4, <1>5 DEF GateOpens, Fresh

(***************************************************************************)
(* on_activate only opens the data plane on the word of the adapter that   *)
(* holds the role, given last, in its bootstrap state and within the       *)
(* timeout at that moment.                                                 *)
(***************************************************************************)
THEOREM ActivationGatedHolds == Spec => ActivationGated
<1> DEFINE Gated ==
      active' /\ ~active
        => /\ snapshot # None /\ snapshot.age <= VehicleTimeout
           /\ message = [who |-> Holder("vehicle"), content |-> "bootstrap"]
           /\ Holder("source") # None
<1>1. ASSUME MonitorInv, [Next]_vars PROVE [Gated]_vars
  <2> SUFFICES ASSUME active', ~active, Next
               PROVE  /\ snapshot # None /\ snapshot.age <= VehicleTimeout
                      /\ message = [who |-> Holder("vehicle"),
                                    content |-> "bootstrap"]
                      /\ Holder("source") # None
      BY <1>1
  <2>1. OnActivate
      BY DEF Next, Other, RunOutputTick, OnConfigure, OnCleanup, StartOver,
             OnDeactivate, PollGraphStart, PollGraphFailed, PollGraphCommit,
             HandleVehicleState, Tick
  <2>2. GateOpens
      BY <2>1 DEF OnActivate
  <2>3. QED  BY <1>1, <2>2, GateAsks
<1>2. QED  BY <1>1, MonitorInvInvariant, PTL DEF Spec, ActivationGated

(***************************************************************************)
(* An endpoint is stable only after a whole window of looks of this        *)
(* configuration that all showed it, for any length of the window.         *)
(***************************************************************************)
THEOREM EndpointProvenHolds == Spec => EndpointProven
<1> DEFINE Proven ==
      \A e \in Endpoints :
         tracker'[e].stable \notin {tracker[e].stable, None}
           => /\ looks'[e].view = tracker'[e].stable
              /\ looks[e] = [view |-> looks'[e].view, span |-> StableWindow]
<1>1. ASSUME MonitorInv, [Next]_vars PROVE [Proven]_vars
  <2> SUFFICES ASSUME Next, NEW e \in Endpoints,
                      tracker'[e].stable \notin {tracker[e].stable, None}
               PROVE  /\ looks'[e].view = tracker'[e].stable
                      /\ looks[e] = [view |-> looks'[e].view,
                                     span |-> StableWindow]
      BY <1>1
  <2>1. Other
      BY DEF Next, RunOutputTick
  <2>2. PICK seen \in Views["vehicle"], usable \in Views["source"] :
           PollGraphCommit([vehicle |-> seen, source |-> usable])
      BY <1>1, <2>1, StableOnlyByCommit
  <2> DEFINE views == [vehicle |-> seen, source |-> usable]
  <2>3. views[e] \in Views[e]
      BY LooksOfPoll
  <2> HIDE DEF views
  <2>4. CurrentPoll
      BY <2>2 DEF PollGraphCommit
  <2>5. /\ tracker' = [d \in Endpoints |-> Observed(tracker[d], views[d])]
        /\ looks' = NewLooks(views)
      BY <2>2, <2>4 DEF PollGraphCommit, CurrentPoll, views
  <2>6. tracker[e] \in Trackers(e) /\ looks[e] \in Looks(e)
      BY <1>1 DEF MonitorInv, TypeOK, EndpointsTyped
  <2>7. tracker[e].candidate # None
          => /\ looks[e].view = tracker[e].candidate
             /\ looks[e].span >= tracker[e].age
      BY <1>1 DEF MonitorInv, CandidateSeen
  <2>8. Observed(tracker[e], views[e]).stable \notin {tracker[e].stable, None}
          => /\ views[e] = Observed(tracker[e], views[e]).stable
             /\ looks[e] = [view |-> views[e], span |-> StableWindow]
      BY <2>3, <2>6, <2>7, ObservedSeen
  <2>9. tracker'[e] = Observed(tracker[e], views[e])
        /\ looks'[e].view = views[e]
      BY <2>5 DEF NewLooks
  <2>10. QED  BY <2>8, <2>9
<1>2. QED  BY <1>1, MonitorInvInvariant, PTL DEF Spec, EndpointProven

-----------------------------------------------------------------------------
\* The supervision of ROS time, one lemma for each kind of step.
LEMMA ClockStarts == ClockInit => ClockInv
<1> SUFFICES ASSUME ClockInit PROVE ClockInv
    OBVIOUS
<1>1. ClockTypeOK
  <2>1. /\ 0 \in 0 .. MaxRos /\ 0 \in 0 .. StallTimeout + 1
        /\ 0 \in 0 .. Oldest /\ 0 \in 0 .. MaxGap
      BY ClockAssumption DEF Oldest
  <2>2. QED  BY <2>1 DEF ClockInit, ClockTypeOK
<1>2. JumpRemembered /\ ProgressRecent /\ StillCovered
    BY DEF ClockInit, JumpRemembered, ProgressRecent, StillCovered, First, MovedOn
<1>3. QED  BY <1>1, <1>2 DEF ClockInv

\* Time moves on or back, and the jump is reported.
LEMMA SourceKeeps ==
    ClockInv /\ (Advance \/ JumpBack \/ JumpCallback) => ClockInv'
<1> SUFFICES ASSUME ClockInv, Advance \/ JumpBack \/ JumpCallback
             PROVE  ClockInv'
    OBVIOUS
<1> USE ClockAssumption DEF ClockInv
<1>1. ClockTypeOK'
  <2>1. /\ ros' \in 0 .. MaxRos /\ still' \in 0 .. Oldest
        /\ UNCHANGED <<last, progressAge, gap, slack>>
      BY DEF Advance, JumpBack, JumpCallback, ClockTypeOK, Oldest, monitor, history
  <2>2. /\ jumping' \in BOOLEAN /\ pending' \in BOOLEAN /\ advanced' \in BOOLEAN
        /\ UNCHANGED <<configured, backward, healthy>>
      BY DEF Advance, JumpBack, JumpCallback, ClockTypeOK, monitor, history
  <2>3. QED  BY <2>1, <2>2 DEF ClockTypeOK
<1>2. JumpRemembered'
    BY DEF Advance, JumpBack, JumpCallback, JumpRemembered, First, ClockTypeOK,
           monitor, history
<1>3. ProgressRecent'
    BY DEF Advance, JumpBack, JumpCallback, ProgressRecent, MovedOn, First,
           ClockTypeOK, Oldest, monitor, history
<1>4. StillCovered'
    BY DEF Advance, JumpBack, JumpCallback, StillCovered, First, ClockTypeOK,
           Oldest, monitor, history
<1>5. QED  BY <1>1, <1>2, <1>3, <1>4

\* A sample: what it forgets it has made good, or put into the flag.
LEMMA SampleKeeps == ClockInv /\ Sample => ClockInv'
<1> SUFFICES ASSUME ClockInv, Sample PROVE ClockInv'
    OBVIOUS
<1> USE ClockAssumption DEF ClockInv
<1>1. /\ ros \in 0 .. MaxRos /\ last \in 0 .. MaxRos \cup {NoSample}
      /\ progressAge \in 0 .. StallTimeout + 1 /\ still \in 0 .. Oldest
      /\ gap \in 0 .. MaxGap /\ slack \in 0 .. MaxGap
    BY DEF ClockTypeOK
<1>2. /\ last' = ros /\ ros' = ros /\ ~First' /\ ~MovedOn'
      /\ gap' = 0 /\ advanced' = advanced
    BY <1>1 DEF Sample, First, MovedOn, source
<1>3. ClockTypeOK'
  <2>1. /\ progressAge' \in 0 .. StallTimeout + 1 /\ still' \in 0 .. Oldest
        /\ gap' \in 0 .. MaxGap /\ slack' \in 0 .. MaxGap
      BY <1>1 DEF Sample, ProgressAfter, Oldest
  <2>2. BackwardAfter \in BOOLEAN
      BY DEF BackwardAfter
  <2>3. /\ jumping' \in BOOLEAN /\ configured' \in BOOLEAN
        /\ backward' \in BOOLEAN /\ pending' \in BOOLEAN
        /\ healthy' \in BOOLEAN /\ advanced' \in BOOLEAN
      BY <2>2 DEF Sample, source, ClockTypeOK
  <2>4. QED  BY <1>1, <1>2, <2>1, <2>3 DEF ClockTypeOK
<1>4. JumpRemembered'
  <2>1. ~advanced => WentBack \/ (backward /\ ~First /\ ~MovedOn)
      BY <1>1 DEF JumpRemembered, WentBack, MovedOn, First
  <2>2. ~advanced => backward'
      BY <2>1 DEF Sample, BackwardAfter
  <2>3. QED  BY <1>1, <1>2, <2>2 DEF JumpRemembered
<1>5. ProgressRecent'
    BY <1>2 DEF ProgressRecent
<1>6. StillCovered'
  <2> SUFFICES ASSUME ~backward'
               PROVE  \/ still' <= progressAge' + slack'
                      \/ progressAge' > StallTimeout
      BY DEF StillCovered
  <2>1. ~WentBack /\ ~(backward /\ ~First /\ ~MovedOn)
      BY DEF Sample, BackwardAfter
  <2>2. CASE First
      BY <1>1, <2>2 DEF Sample, ProgressAfter
  <2>3. CASE ~First /\ MovedOn
      BY <1>1, <2>3 DEF Sample, ProgressAfter, ProgressRecent
  <2>4. CASE ~First /\ ~MovedOn
      BY <1>1, <2>1, <2>4 DEF Sample, ProgressAfter, StillCovered
  <2>5. QED  BY <2>2, <2>3, <2>4
<1>7. QED  BY <1>3, <1>4, <1>5, <1>6

\* Steady time passes, and the node is configured and cleaned up.
LEMMA PassingKeeps ==
    ClockInv /\ (Configure \/ Cleanup \/ PassTime) => ClockInv'
<1> SUFFICES ASSUME ClockInv, Configure \/ Cleanup \/ PassTime PROVE ClockInv'
    OBVIOUS
<1> USE ClockAssumption DEF ClockInv
<1>1. CASE PassTime
  <2>1. /\ progressAge' = Aged(progressAge, StallTimeout + 1)
        /\ still' = Aged(still, Oldest) /\ gap' = gap + 1 /\ gap < MaxGap
        /\ UNCHANGED <<ros, jumping, configured, last, backward, pending,
                       healthy, advanced, slack>>
      BY <1>1 DEF PassTime, source
  <2>2. /\ progressAge \in 0 .. StallTimeout + 1 /\ still \in 0 .. Oldest
        /\ gap \in 0 .. MaxGap /\ slack \in 0 .. MaxGap
      BY DEF ClockTypeOK
  <2>3. /\ progressAge' \in 0 .. StallTimeout + 1 /\ still' \in 0 .. Oldest
        /\ gap' \in 0 .. MaxGap
      BY <2>1, <2>2 DEF Aged, Oldest
  <2>4. ClockTypeOK'
      BY <2>1, <2>3 DEF ClockTypeOK
  <2>5. JumpRemembered'
      BY <2>1 DEF JumpRemembered, First
  <2>6. ProgressRecent'
      BY <2>1, <2>2 DEF ProgressRecent, MovedOn, First, Aged, Oldest
  <2>7. StillCovered'
      BY <2>1, <2>2 DEF StillCovered, First, Aged, Oldest
  <2>8. QED  BY <2>4, <2>5, <2>6, <2>7
<1>2. CASE Configure \/ Cleanup
  <2>1. Unsampled /\ UNCHANGED source /\ configured' \in BOOLEAN
      BY <1>2 DEF Configure, Cleanup
  <2>2. ClockTypeOK'
    <3>1. /\ 0 \in 0 .. StallTimeout + 1
          /\ 0 \in 0 .. Oldest /\ 0 \in 0 .. MaxGap
        BY DEF Oldest
    <3>2. QED  BY <2>1, <3>1 DEF Unsampled, source, ClockTypeOK
  <2>3. JumpRemembered' /\ ProgressRecent' /\ StillCovered'
      BY <2>1 DEF Unsampled, JumpRemembered, ProgressRecent, StillCovered,
                  First, MovedOn
  <2>4. QED  BY <2>2, <2>3
<1>3. QED  BY <1>1, <1>2

\* The arithmetic of the last step, which the provers only find of constants.
LEMMA StillBound ==
    ASSUME NEW age \in Int, NEW limit \in Int, NEW rest \in Int,
           NEW span \in Int, age <= limit, span <= age + rest \/ age > limit
    PROVE  span <= limit + rest
OBVIOUS

LEMMA ClockInvInvariant == ClockSpec => []ClockInv
<1>1. ClockInv /\ [ClockNext]_clockVars => ClockInv'
  <2> SUFFICES ASSUME ClockInv, [ClockNext]_clockVars PROVE ClockInv'
      OBVIOUS
  <2>1. CASE UNCHANGED clockVars
      BY <2>1 DEF clockVars, source, monitor, history, ClockInv, ClockTypeOK,
                  JumpRemembered, ProgressRecent, StillCovered, First, MovedOn
  <2>2. QED  BY <2>1, SourceKeeps, SampleKeeps, PassingKeeps DEF ClockNext
<1>2. QED  BY <1>1, ClockStarts, PTL DEF ClockSpec

(***************************************************************************)
(* A sample that calls the clock healthy comes after ROS time has made     *)
(* good for every jump that was reported, for any times and timeouts.      *)
(***************************************************************************)
THEOREM JumpNeverHiddenHolds == ClockSpec => JumpNeverHidden
<1>1. ClockInv => (Sample /\ healthy' => advanced)
  <2> SUFFICES ASSUME ClockInv, Sample, healthy', ~advanced PROVE FALSE
      OBVIOUS
  <2>1. ~backward'
      BY DEF Sample
  <2>2. WentBack \/ (backward /\ ~First /\ ~MovedOn)
      BY ClockAssumption
         DEF ClockInv, ClockTypeOK, JumpRemembered, WentBack, MovedOn, First
  <2>3. QED  BY <2>1, <2>2 DEF Sample, BackwardAfter
<1>2. QED  BY <1>1, ClockInvInvariant, PTL DEF JumpNeverHidden

(***************************************************************************)
(* A sample that calls the clock healthy bounds how long ROS time has      *)
(* stood still by the stall timeout and one interval between samples.      *)
(***************************************************************************)
THEOREM StallDetectedHolds == ClockSpec => StallDetected
<1>1. ClockInv => (Sample /\ healthy' => still' <= StallTimeout + slack')
  <2>1. Sample /\ healthy' => progressAge' <= StallTimeout /\ ~backward'
      BY DEF Sample
  <2>2. SUFFICES ASSUME ClockInv, Sample, progressAge' <= StallTimeout, ~backward'
                 PROVE  still' <= StallTimeout + slack'
      BY <2>1
  <2>3. ClockInv'
      BY <2>2, SampleKeeps
  <2>4. ~First'
      BY <2>2, ClockAssumption DEF Sample, First, ClockInv, ClockTypeOK
  <2>5. /\ progressAge' \in 0 .. StallTimeout + 1 /\ still' \in 0 .. Oldest
        /\ slack' \in 0 .. MaxGap
      BY <2>3 DEF ClockInv, ClockTypeOK
  <2>6. \/ still' <= progressAge' + slack'
        \/ progressAge' > StallTimeout
      BY <2>2, <2>3, <2>4 DEF ClockInv, StillCovered
  <2>7. progressAge' <= StallTimeout
      BY <2>2
  <2>8. /\ progressAge' \in Int /\ still' \in Int /\ slack' \in Int
        /\ StallTimeout \in Int
      BY <2>5, ClockAssumption DEF Oldest
  <2>9. QED  BY <2>6, <2>7, <2>8, StillBound
<1>2. QED  BY <1>1, ClockInvInvariant, PTL DEF StallDetected
=============================================================================
