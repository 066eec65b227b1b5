--------------------------- MODULE CanonicalInput ---------------------------
(***************************************************************************)
(* The canonical boundary that both execution adapters build in: the       *)
(* stability tracker of the gateway's publisher, the input guard and the   *)
(* local watchdog.  All of it runs in serial ROS callbacks, under the      *)
(* adapter's mutex where another thread reads it.  Times are ages, which   *)
(* stop growing once no comparison can change any more.                    *)
(***************************************************************************)
EXTENDS Integers

CONSTANTS
    Publishers,       \* GIDs of publishers of the canonical topic
    None,             \* an empty std::optional
    StableWindow,     \* gateway.graph_stable_window_ms
    WatchdogTimeout   \* adapter.local_watchdog_timeout_ms

\* What one look at the ROS graph shows: no publisher (or one of the wrong
\* type), several, or exactly one.
Observations == Publishers \cup {"unavailable", "ambiguous"}

ASSUME CanonicalAssumption ==
    /\ None \notin Observations /\ "unstable" \notin Observations
    /\ "unavailable" \notin Publishers /\ "ambiguous" \notin Publishers
    /\ None \notin {"motion", "hold"}
    /\ None \notin Int
    /\ StableWindow \in Nat \ {0}
    /\ WatchdogTimeout \in Nat \ {0}

VARIABLES
    stable, candidate, candidateAge,  \* CanonicalEndpointTracker
    confirmed,       \* confirmed_gateway_publisher_
    command,         \* latest_command_
    rejected,        \* last_canonical_reject_reason_, by class
    silence,         \* age of the last valid command, None before the first
    author,          \* history: who sent latest_command_
    seen, span       \* history: the last observation, and for how long every
                     \* look at the graph has shown the same

tracker == <<stable, candidate, candidateAge>>
mailbox == <<confirmed, command, rejected, silence>>
canonical == <<tracker, mailbox, author, seen, span>>

CanonicalInit ==
    /\ stable = None /\ candidate = None /\ candidateAge = 0
    /\ confirmed = None /\ command = None /\ rejected = "None"
    /\ silence = None
    /\ author = None /\ seen = None /\ span = 0

-----------------------------------------------------------------------------
(***************************************************************************)
(* CanonicalEndpointTracker: an observation that differs from the stable   *)
(* one is a candidate until it has lasted for the stable window.           *)
(***************************************************************************)
Reported(st, cand) == IF cand = None /\ st # None THEN st ELSE "unstable"

Endpoint == Reported(stable, candidate)

Observe(observation) ==
    \/ /\ observation = stable
       /\ candidate' = None /\ candidateAge' = 0 /\ UNCHANGED stable
    \/ /\ observation \notin {stable, candidate}
       /\ candidate' = observation /\ candidateAge' = 0 /\ UNCHANGED stable
    \/ /\ observation = candidate /\ candidateAge < StableWindow
       /\ UNCHANGED tracker
    \/ /\ observation = candidate /\ candidateAge >= StableWindow
       /\ stable' = candidate /\ candidate' = None /\ candidateAge' = 0

(***************************************************************************)
(* What an observation does to the mailbox of the SocketCAN adapter: a new *)
(* publisher starts over, the loss of a confirmed one revokes the command. *)
(* (The robot's adapter does only the first, see Ros2ControlAdapter.)      *)
(***************************************************************************)
NewPublisher == Endpoint' \in Publishers /\ Endpoint' # confirmed

PublisherLost == Endpoint \in Publishers /\ Endpoint' \notin Publishers

PollMailbox ==
    \/ /\ NewPublisher
       /\ confirmed' = Endpoint'
       /\ command' = None /\ rejected' = "None" /\ silence' = None
    \/ /\ PublisherLost
       /\ command' = None
       /\ UNCHANGED <<confirmed, rejected, silence>>
    \/ /\ ~NewPublisher /\ ~PublisherLost
       /\ UNCHANGED mailbox

Poll(observation) ==
    /\ Observe(observation) /\ PollMailbox
    /\ author' = IF command' = None THEN None ELSE author
    /\ seen' = observation
    /\ span' = IF observation = seen THEN span ELSE 0

(***************************************************************************)
(* CanonicalInputGuard::validate, for a command of publisher p.  "bad" is  *)
(* any defect of its mode, motion, metadata or stamp, or of the name of    *)
(* the node that p belongs to.                                             *)
(***************************************************************************)
Contents == {"motion", "hold", "bad"}

\* Mutant of GuardReason: the GID of the message is not compared.
GuardAnonymous(p, content) ==
    CASE Endpoint \in {"unavailable", "unstable"} -> "Endpoint"
      [] Endpoint = "ambiguous" -> "Ambiguous"
      [] Endpoint \in Publishers ->
            IF content = "bad" THEN "Invalid" ELSE "None"

GuardReason(p, content) ==
    CASE Endpoint \in {"unavailable", "unstable"} -> "Endpoint"
      [] Endpoint = "ambiguous" -> "Ambiguous"
      [] Endpoint \in Publishers ->
            IF p = Endpoint /\ content # "bad" THEN "None" ELSE "Invalid"

Accept(p, content) ==
    /\ GuardReason(p, content) = "None"
    /\ command' = content /\ rejected' = "None" /\ silence' = 0
    /\ author' = p
    /\ UNCHANGED <<tracker, confirmed, seen, span>>

Reject(p, content) ==
    /\ GuardReason(p, content) # "None"
    /\ command' = None /\ rejected' = GuardReason(p, content)
    /\ author' = None
    /\ UNCHANGED <<tracker, confirmed, silence, seen, span>>

(***************************************************************************)
(* LocalWatchdog::evaluate: still healthy when the timeout is reached.     *)
(***************************************************************************)
WatchdogHealthy == silence # None /\ silence <= WatchdogTimeout

Authorized ==
    /\ Endpoint \in Publishers /\ rejected = "None"
    /\ WatchdogHealthy /\ command # None

Older(age, limit) == IF age < limit THEN age + 1 ELSE age

CanonicalTime ==
    /\ candidateAge' = IF candidate = None THEN candidateAge
                       ELSE Older(candidateAge, StableWindow)
    /\ silence' = IF silence = None THEN None
                  ELSE Older(silence, WatchdogTimeout + 1)
    /\ span' = Older(span, StableWindow)
    /\ UNCHANGED <<stable, candidate, confirmed, command, rejected, author,
                   seen>>

CanonicalTyped ==
    /\ stable \in Observations \cup {None}
    /\ candidate \in Observations \cup {None}
    /\ candidateAge \in 0 .. StableWindow
    /\ confirmed \in Publishers \cup {None}
    /\ command \in {None, "motion", "hold"}
    /\ rejected \in {"None", "Endpoint", "Ambiguous", "Invalid"}
    /\ silence \in (0 .. WatchdogTimeout + 1) \cup {None}
    /\ author \in Publishers \cup {None}
    /\ seen \in Observations \cup {None}
    /\ span \in 0 .. StableWindow

-----------------------------------------------------------------------------
(***************************************************************************)
(* The command the adapter may execute was sent by the publisher that the  *)
(* tracker reports right now: no command of an earlier gateway process,    *)
(* or of a publisher whose uniqueness is in doubt, survives                *)
(* (poll_canonical_endpoint, handle_canonical_command).                    *)
(***************************************************************************)
CommandFromConfirmed ==
    command # None => Endpoint \in Publishers /\ author = Endpoint

(***************************************************************************)
(* A publisher is only confirmed after every look at the graph has shown   *)
(* it, alone, for the whole stable window (CanonicalEndpointTracker).      *)
(***************************************************************************)
ConfirmationStable ==
    [][stable' # stable /\ stable' \in Publishers
         => seen = stable' /\ seen' = stable' /\ span >= StableWindow]_canonical
-----------------------------------------------------------------------------
(***************************************************************************)
(* What the proofs rest on: whoever is reported has been taken note of,    *)
(* and a candidate is as old as the span in which nothing else was seen.   *)
(***************************************************************************)
ReportedIsConfirmed == Endpoint \in Publishers => confirmed = Endpoint

CandidateSeen ==
    /\ candidate = None => seen = stable
    /\ candidate # None => seen = candidate /\ candidateAge <= span

AcceptedLast == command # None => rejected = "None"

CanonicalInv ==
    /\ CommandFromConfirmed /\ ReportedIsConfirmed
    /\ CandidateSeen /\ AcceptedLast

\* Everything that happens to the canonical state.
CanonicalStep ==
    \/ \E observation \in Observations : Poll(observation)
    \/ \E p \in Publishers, content \in Contents :
          Accept(p, content) \/ Reject(p, content)
    \/ CanonicalTime
    \/ UNCHANGED canonical
=============================================================================
