----------------------- MODULE CanonicalInput_proofs -----------------------
(***************************************************************************)
(* For any publishers and windows: what polls, commands and time do to the *)
(* canonical state keeps its types and CanonicalInv.  The lemmas are about *)
(* one CanonicalStep, for every module that is built on CanonicalInput.    *)
(***************************************************************************)
EXTENDS CanonicalInput, TLAPS

LEMMA OlderTyped ==
    ASSUME NEW limit \in Nat, NEW a \in 0 .. limit
    PROVE  Older(a, limit) \in 0 .. limit
BY DEF Older

\* The tracker reports one publisher, or why it reports none.
LEMMA EndpointTyped ==
    CanonicalTyped
      => Endpoint \in Publishers \cup {"unavailable", "unstable", "ambiguous"}
BY DEF CanonicalTyped, Endpoint, Reported, Observations

LEMMA CanonicalTypedKept ==
    CanonicalTyped /\ CanonicalStep => CanonicalTyped'
<1> SUFFICES ASSUME CanonicalTyped, CanonicalStep
             PROVE  CanonicalTyped'
    OBVIOUS
<1> USE CanonicalAssumption DEF CanonicalTyped
<1>1. ASSUME NEW observation \in Observations, Poll(observation)
      PROVE  CanonicalTyped'
  <2>1. stable' \in Observations \cup {None}
        /\ candidate' \in Observations \cup {None}
        /\ candidateAge' \in 0 .. StableWindow
        BY <1>1 DEF Poll, Observe, tracker
  <2>2. confirmed' \in Publishers \cup {None}
        /\ command' \in {None, "motion", "hold"}
        /\ rejected' \in {"None", "Endpoint", "Ambiguous", "Invalid"}
        /\ silence' \in (0 .. WatchdogTimeout + 1) \cup {None}
        BY <1>1 DEF Poll, PollMailbox, NewPublisher, mailbox
  <2>3. author' \in Publishers \cup {None}
        /\ seen' \in Observations \cup {None}
        /\ span' \in 0 .. StableWindow
        BY <1>1 DEF Poll
  <2>4. QED  BY <2>1, <2>2, <2>3
<1>2. ASSUME NEW p \in Publishers, NEW content \in Contents,
             Accept(p, content)
      PROVE  CanonicalTyped'
  <2>1. content # "bad"
        BY <1>2, EndpointTyped DEF Accept, GuardReason, Observations
  <2>2. command' \in {None, "motion", "hold"}
        BY <1>2, <2>1 DEF Accept, Contents
  <2>3. silence' \in (0 .. WatchdogTimeout + 1) \cup {None}
        BY <1>2 DEF Accept
  <2>4. QED  BY <1>2, <2>2, <2>3 DEF Accept, tracker
<1>3. ASSUME NEW p \in Publishers, NEW content \in Contents,
             Reject(p, content)
      PROVE  CanonicalTyped'
  <2>1. rejected' \in {"None", "Endpoint", "Ambiguous", "Invalid"}
        BY <1>3, EndpointTyped DEF Reject, GuardReason
  <2>2. QED  BY <1>3, <2>1 DEF Reject, tracker
<1>4. CASE CanonicalTime
  <2>1. candidateAge' \in 0 .. StableWindow /\ span' \in 0 .. StableWindow
        BY <1>4, OlderTyped DEF CanonicalTime
  <2>2. silence' \in (0 .. WatchdogTimeout + 1) \cup {None}
        BY <1>4, OlderTyped DEF CanonicalTime
  <2>3. QED  BY <1>4, <2>1, <2>2 DEF CanonicalTime
<1>5. CASE UNCHANGED canonical
      BY <1>5 DEF canonical, tracker, mailbox
<1>6. QED  BY <1>1, <1>2, <1>3, <1>4, <1>5 DEF CanonicalStep

\* What the tracker reports follows from what it has stored.
LEMMA PollKeepsSeen ==
    ASSUME CanonicalTyped, CandidateSeen,
           NEW observation \in Observations, Poll(observation)
    PROVE  CandidateSeen'
<1> USE CanonicalAssumption DEF CanonicalTyped, CandidateSeen
<1>0. observation # None
      BY DEF Observations
<1>1. CASE observation = stable
           /\ candidate' = None /\ candidateAge' = 0 /\ UNCHANGED stable
      BY <1>1 DEF Poll
<1>2. CASE /\ observation \notin {stable, candidate}
           /\ candidate' = observation /\ candidateAge' = 0
           /\ UNCHANGED stable
      BY <1>0, <1>2 DEF Poll
<1>3. CASE observation = candidate /\ candidateAge < StableWindow
           /\ UNCHANGED tracker
      BY <1>0, <1>3 DEF Poll, tracker
<1>4. CASE /\ observation = candidate /\ candidateAge >= StableWindow
           /\ stable' = candidate /\ candidate' = None /\ candidateAge' = 0
      BY <1>4 DEF Poll
<1>5. QED  BY <1>1, <1>2, <1>3, <1>4 DEF Poll, Observe

LEMMA CanonicalInvKept ==
    CanonicalTyped /\ CanonicalInv /\ CanonicalStep => CanonicalInv'
<1> SUFFICES ASSUME CanonicalTyped, CanonicalInv, CanonicalStep
             PROVE  CanonicalInv'
    OBVIOUS
<1>1. ASSUME NEW observation \in Observations, Poll(observation)
      PROVE  CanonicalInv'
  <2>1. CandidateSeen'
        BY <1>1, PollKeepsSeen DEF CanonicalInv
  <2>2. ReportedIsConfirmed'
        BY <1>1 DEF Poll, PollMailbox, NewPublisher, PublisherLost, mailbox,
                    ReportedIsConfirmed
  <2>3. CASE command' = None
        BY <2>1, <2>2, <2>3
        DEF CanonicalInv, CommandFromConfirmed, AcceptedLast
  <2>4. CASE command' # None
    <3>1. ~NewPublisher /\ ~PublisherLost /\ UNCHANGED mailbox
          BY <1>1, <2>4 DEF Poll, PollMailbox
    <3>2. command # None /\ author' = author
          BY <1>1, <2>4, <3>1 DEF Poll, mailbox
    <3>3. Endpoint \in Publishers /\ author = Endpoint /\ confirmed = Endpoint
          BY <3>2 DEF CanonicalInv, CommandFromConfirmed, ReportedIsConfirmed
    <3>4. Endpoint' = Endpoint /\ Endpoint' \in Publishers
          BY <3>1, <3>3 DEF NewPublisher, PublisherLost
    <3>5. CommandFromConfirmed'
          BY <3>2, <3>3, <3>4 DEF CommandFromConfirmed
    <3>6. AcceptedLast'
          BY <3>1, <3>2 DEF CanonicalInv, AcceptedLast, mailbox
    <3>7. QED  BY <2>1, <2>2, <3>5, <3>6 DEF CanonicalInv
  <2>5. QED  BY <2>3, <2>4
<1>2. ASSUME NEW p \in Publishers, NEW content \in Contents,
             Accept(p, content)
      PROVE  CanonicalInv'
  <2>1. Endpoint' = Endpoint /\ confirmed' = confirmed
        BY <1>2 DEF Accept, tracker, Endpoint
  <2>2. p = Endpoint
        BY <1>2, CanonicalAssumption
        DEF Accept, GuardReason, CanonicalTyped, Endpoint, Reported,
            Observations
  <2>3. CommandFromConfirmed' /\ ReportedIsConfirmed'
        BY <1>2, <2>1, <2>2
        DEF Accept, CanonicalInv, CommandFromConfirmed, ReportedIsConfirmed
  <2>4. CandidateSeen'
        BY <1>2 DEF Accept, tracker, CanonicalInv, CandidateSeen
  <2>5. AcceptedLast'
        BY <1>2 DEF Accept, AcceptedLast
  <2>6. QED  BY <2>3, <2>4, <2>5 DEF CanonicalInv
<1>3. ASSUME NEW p \in Publishers, NEW content \in Contents,
             Reject(p, content)
      PROVE  CanonicalInv'
  <2>1. Endpoint' = Endpoint /\ confirmed' = confirmed /\ command' = None
        BY <1>3 DEF Reject, tracker, Endpoint
  <2>2. CandidateSeen'
        BY <1>3 DEF Reject, tracker, CanonicalInv, CandidateSeen
  <2>3. QED
        BY <2>1, <2>2
        DEF CanonicalInv, CommandFromConfirmed, ReportedIsConfirmed,
            AcceptedLast
<1>4. CASE CanonicalTime
  <2>1. Endpoint' = Endpoint /\ command' = command /\ author' = author
        /\ confirmed' = confirmed /\ rejected' = rejected
        BY <1>4 DEF CanonicalTime, Endpoint
  <2>2. CandidateSeen'
        BY <1>4, CanonicalAssumption
        DEF CanonicalTime, Older, CanonicalInv, CandidateSeen, CanonicalTyped
  <2>3. QED
        BY <2>1, <2>2
        DEF CanonicalInv, CommandFromConfirmed, ReportedIsConfirmed,
            AcceptedLast
<1>5. CASE UNCHANGED canonical
      BY <1>5
      DEF canonical, tracker, mailbox, CanonicalInv, CommandFromConfirmed,
          ReportedIsConfirmed, CandidateSeen, AcceptedLast, Endpoint
<1>6. QED  BY <1>1, <1>2, <1>3, <1>4, <1>5 DEF CanonicalStep

\* Time never gives authority back.
LEMMA TimeKeepsUnauthorized ==
    CanonicalTyped /\ CanonicalTime /\ Authorized' => Authorized
BY CanonicalAssumption
   DEF CanonicalTyped, CanonicalTime, Authorized, WatchdogHealthy, Older,
       Endpoint

\* A new stable publisher was seen, and nothing else, for the whole window.
LEMMA ConfirmedAfterSpan ==
    CanonicalTyped /\ CandidateSeen /\ CanonicalStep
      => (stable' # stable /\ stable' \in Publishers
            => seen = stable' /\ seen' = stable' /\ span >= StableWindow)
<1> SUFFICES ASSUME CanonicalTyped, CandidateSeen, CanonicalStep,
                    stable' # stable, stable' \in Publishers
             PROVE  seen = stable' /\ seen' = stable' /\ span >= StableWindow
    OBVIOUS
<1>1. PICK observation \in Observations : Poll(observation)
      BY DEF CanonicalStep, Accept, Reject, CanonicalTime, canonical, tracker
<1>2. /\ observation = candidate /\ candidateAge >= StableWindow
      /\ stable' = candidate
      BY <1>1 DEF Poll, Observe, tracker
<1>3. candidate # None
      BY <1>2, CanonicalAssumption DEF Observations
<1>4. QED
      BY <1>1, <1>2, <1>3, CanonicalAssumption
      DEF Poll, CandidateSeen, CanonicalTyped
=============================================================================
