-------------------------- MODULE Reconfiguration --------------------------
(***************************************************************************)
(* The reconfiguration command: execute_reconfiguration drives the gateway *)
(* through its lifecycle services, every call may time out while the       *)
(* request it left behind is still carried out later, the gateway may fail *)
(* on its own and the command may be killed between any two steps.         *)
(***************************************************************************)
EXTENDS Naturals, Sequences

CONSTANTS
    Plans,        \* classifications the plan may have
    MaxAttempts   \* bound: activation requests within one timeout

ASSUME ReconfigurationAssumption ==
    /\ Plans \subseteq {"no_op", "rebuild", "rejected"}
    /\ MaxAttempts \in Nat \ {0}

VARIABLES
    \* the gateway node, as its services show it
    lifecycle, parameters, bundle,
    requests,     \* requests not carried out yet, one queue per service
    wire,         \* the last diagnostics published and not yet received
    \* GatewayRuntimeClient
    awaiting,     \* the call sent and not answered, "none" otherwise
    reply,        \* its answer
    latest,       \* latest_diagnostics_
    fresh,        \* its revision is above verification_floor_
    attempts,     \* activation requests of this step
    \* execute_reconfiguration
    plan, step, call, outcome,
    \* files, and the stage of the command that writes them
    lastKnownGood, manifest, stage,
    \* history
    installed, lost, quiesced,
    verified      \* configuration seen healthy since the last configure

gateway == <<lifecycle, parameters, bundle, wire>>
client == <<awaiting, reply, attempts>>
diagnostics == <<latest, fresh>>
files == <<lastKnownGood, manifest, stage>>
history == <<installed, lost, quiesced, verified>>
vars == <<gateway, requests, client, diagnostics, plan, step, call, outcome,
          files, history>>

NoDiagnostics == [hash |-> "none", healthy |-> FALSE]

-----------------------------------------------------------------------------
(***************************************************************************)
(* The steps of the transaction and the calls each of them makes.          *)
(***************************************************************************)
State(s) == [op |-> "get_state", arg |-> s]
Change(t) == [op |-> "change_state", arg |-> t]
SetParameters(c) == [op |-> "set_parameters", arg |-> c]
AwaitDiagnostics(c) == [op |-> "verify", arg |-> c]
RequireHash(c) == [op |-> "hash", arg |-> c]
WriteDescriptor == [op |-> "write", arg |-> "new"]

ConfigureCalls == <<Change("configure"), State("inactive")>>
VerifyCalls(c) == <<AwaitDiagnostics(c), RequireHash(c)>>
ActivateCalls(c) == <<State("inactive"), Change("activate"), State("active"),
                      RequireHash(c)>>

\* cleanup_candidate decides on the state it reads: calls 1 and 4.
CleanupCalls == <<State("any"), Change("deactivate"), State("inactive"),
                  State("any"), Change("cleanup"), State("unconfigured")>>

Calls ==
    [PRECONDITION |-> <<State("active")>>,
     PRECHECK |-> <<RequireHash("old")>>,
     DEACTIVATE_CURRENT |-> <<State("active"), Change("deactivate"),
                              State("inactive")>>,
     CLEANUP_CURRENT |-> <<Change("cleanup"), State("unconfigured")>>,
     SET_CANDIDATE_CONFIG |-> <<SetParameters("new")>>,
     CONFIGURE_CANDIDATE |-> ConfigureCalls,
     VERIFY_CANDIDATE |-> VerifyCalls("new"),
     ACTIVATE_CANDIDATE |-> ActivateCalls("new"),
     COMMIT_CANDIDATE |-> <<WriteDescriptor>>,
     CLEANUP_CANDIDATE |-> CleanupCalls,
     RESTORE_PREVIOUS_CONFIG |-> <<SetParameters("old")>>,
     CONFIGURE_PREVIOUS |-> ConfigureCalls,
     VERIFY_PREVIOUS |-> VerifyCalls("old"),
     ACTIVATE_PREVIOUS |-> ActivateCalls("old"),
     END |-> <<>>]

\* Mutant of Forward: the descriptor is written before the activation.
ForwardEager == <<"DEACTIVATE_CURRENT", "CLEANUP_CURRENT",
                  "SET_CANDIDATE_CONFIG", "CONFIGURE_CANDIDATE",
                  "VERIFY_CANDIDATE", "COMMIT_CANDIDATE",
                  "ACTIVATE_CANDIDATE">>

Forward == <<"DEACTIVATE_CURRENT", "CLEANUP_CURRENT", "SET_CANDIDATE_CONFIG",
             "CONFIGURE_CANDIDATE", "VERIFY_CANDIDATE", "ACTIVATE_CANDIDATE",
             "COMMIT_CANDIDATE">>

Rollback == <<"CLEANUP_CANDIDATE", "RESTORE_PREVIOUS_CONFIG",
              "CONFIGURE_PREVIOUS", "VERIFY_PREVIOUS", "ACTIVATE_PREVIOUS">>

InOrder(steps, s) == \E i \in DOMAIN steps : steps[i] = s

StepAfter(steps) ==
    LET i == CHOOSE j \in DOMAIN steps : steps[j] = step IN
    IF i = Len(steps) THEN "END" ELSE steps[i + 1]

Current == Calls[step][call]

Working == stage = "transaction" /\ step # "END"

Init ==
    /\ lifecycle = "active" /\ parameters = "old" /\ bundle = "old"
    /\ requests = [change_state |-> <<>>, set_parameters |-> <<>>]
    /\ wire = NoDiagnostics
    /\ awaiting = "none" /\ reply = "none" /\ attempts = 0
    /\ latest = [hash |-> "old", healthy |-> TRUE] /\ fresh = FALSE
    /\ plan \in Plans
    /\ step = "PRECONDITION" /\ call = 1 /\ outcome = "RUNNING"
    /\ lastKnownGood = "old" /\ manifest = "INVALID" /\ stage = "transaction"
    /\ installed = "old" /\ lost = FALSE /\ quiesced = FALSE
    /\ verified = "none"

-----------------------------------------------------------------------------
(***************************************************************************)
(* How a step ends.                                                        *)
(***************************************************************************)
Goto(s) == step' = s /\ call' = 1

End(result) == Goto("END") /\ outcome' = result

Succeeds ==
    \/ /\ step = "PRECONDITION" /\ Goto("PRECHECK") /\ UNCHANGED outcome
    \/ /\ step = "PRECHECK"
       /\ \/ plan = "rejected" /\ End("REJECTED")
          \/ plan = "no_op" /\ End("NO_OP")
          \/ plan = "rebuild" /\ Goto(Forward[1]) /\ UNCHANGED outcome
    \/ /\ InOrder(Forward, step)
       /\ IF StepAfter(Forward) = "END" THEN End("COMMITTED")
          ELSE Goto(StepAfter(Forward)) /\ UNCHANGED outcome
    \/ /\ InOrder(Rollback, step)
       /\ IF StepAfter(Rollback) = "END" THEN End("ROLLED_BACK")
          ELSE Goto(StepAfter(Rollback)) /\ UNCHANGED outcome

\* A step that throws: before the transaction it is rejected (a failed
\* precondition by the catch block of main, to the same manifest), on the way
\* forward it is rolled back, and a rollback is not tried twice.
Fails ==
    \/ step \in {"PRECONDITION", "PRECHECK"} /\ End("REJECTED")
    \/ InOrder(Forward, step) /\ Goto(Rollback[1]) /\ UNCHANGED outcome
    \/ InOrder(Rollback, step) /\ End("ROLLBACK_FAILED")

\* The call at index i is next; beyond the last one the step has succeeded.
Proceed(i) ==
    IF i > Len(Calls[step]) THEN Succeeds
    ELSE call' = i /\ UNCHANGED <<step, outcome>>

-----------------------------------------------------------------------------
(***************************************************************************)
(* Calls to the gateway's services.  A request that the client gives up on *)
(* stays in the queue of its service and is still carried out.             *)
(***************************************************************************)
Services == {"get_state", "change_state", "set_parameters"}

Send ==
    /\ Working /\ awaiting = "none" /\ Current.op \in Services
    /\ awaiting' = Current.op
    /\ requests' = IF Current.op = "get_state" THEN requests
                   ELSE [requests EXCEPT ![Current.op] =
                           Append(@, [arg |-> Current.arg, live |-> TRUE])]
    \* mark_verification_floor
    /\ IF Current = Change("configure")
       THEN fresh' = FALSE /\ verified' = "none"
       ELSE UNCHANGED <<fresh, verified>>
    /\ UNCHANGED <<gateway, reply, attempts, latest, plan, step, call,
                   outcome, files, installed, lost, quiesced>>

Left(a) == [arg |-> a, live |-> FALSE]

Forget(queue) == [i \in DOMAIN queue |-> Left(queue[i].arg)]

\* Mutant of TimeOut: a call that is not answered is taken for done.
TimeOutProceeds ==
    /\ Working /\ awaiting # "none"
    /\ awaiting' = "none" /\ reply' = "none" /\ attempts' = 0
    /\ requests' = [s \in DOMAIN requests |-> Forget(requests[s])]
    /\ Proceed(call + 1)
    /\ UNCHANGED <<gateway, diagnostics, plan, files, history>>

TimeOut ==
    /\ Working /\ awaiting # "none"
    /\ awaiting' = "none" /\ reply' = "none" /\ attempts' = 0
    /\ requests' = [s \in DOMAIN requests |-> Forget(requests[s])]
    /\ Fails
    /\ UNCHANGED <<gateway, diagnostics, plan, files, history>>

Answered(op) ==
    /\ Working /\ awaiting = op /\ reply # "none"
    /\ awaiting' = "none" /\ reply' = "none"

ReadState ==
    /\ Answered("get_state")
    /\ IF step = "CLEANUP_CANDIDATE" /\ call = 1
       THEN Proceed(IF reply = "active" THEN 2 ELSE 4)
       ELSE IF step = "CLEANUP_CANDIDATE" /\ call = 4
            THEN IF reply = "inactive" THEN Proceed(5)
                 ELSE IF reply = "unconfigured" THEN Succeeds ELSE Fails
            ELSE IF reply = Current.arg THEN Proceed(call + 1) ELSE Fails
    /\ UNCHANGED <<gateway, requests, diagnostics, attempts, plan, files,
                   history>>

\* Mutant of ChangeState: every refusal renews the deadline.
ChangeStateRenewed ==
    /\ Answered("change_state")
    /\ \/ /\ reply = "accepted"
          /\ attempts' = 0 /\ Proceed(call + 1)
       \/ /\ reply = "refused"
          /\ attempts' = 0
          /\ IF Current.arg = "activate" THEN Proceed(1) ELSE Fails
    /\ UNCHANGED <<gateway, requests, diagnostics, plan, files, history>>

\* activate_with_retry asks again until its deadline.
ChangeState ==
    /\ Answered("change_state")
    /\ \/ /\ reply = "accepted"
          /\ attempts' = 0 /\ Proceed(call + 1)
       \/ /\ reply = "refused"
          /\ IF Current.arg = "activate" /\ attempts + 1 < MaxAttempts
             THEN attempts' = attempts + 1 /\ Proceed(1)
             ELSE attempts' = 0 /\ Fails
    /\ UNCHANGED <<gateway, requests, diagnostics, plan, files, history>>

ParametersSet ==
    /\ Answered("set_parameters")
    /\ IF reply = "accepted" THEN Proceed(call + 1) ELSE Fails
    /\ UNCHANGED <<gateway, requests, diagnostics, attempts, plan, files,
                   history>>

-----------------------------------------------------------------------------
(***************************************************************************)
(* Diagnostics: the client keeps the last message it has received.         *)
(***************************************************************************)
Receive ==
    /\ Working /\ wire # NoDiagnostics
    /\ latest' = wire /\ fresh' = TRUE /\ wire' = NoDiagnostics
    /\ verified' = IF wire.healthy THEN wire.hash ELSE verified
    /\ UNCHANGED <<lifecycle, parameters, bundle, requests, client, plan,
                   step, call, outcome, files, installed, lost, quiesced>>

\* Mutant of Verifies: the health of the endpoints is not looked at.
VerifiesHash(c) == fresh /\ latest.hash = c

Verifies(c) == fresh /\ latest.hash = c /\ latest.healthy

\* wait_for_configuration ends with the diagnostics it waits for, or throws.
Verify ==
    /\ Working /\ Current.op = "verify"
    /\ \/ Verifies(Current.arg) /\ Proceed(call + 1)
       \/ Fails
    /\ UNCHANGED <<gateway, requests, client, diagnostics, plan, files,
                   history>>

RequireIdentity ==
    /\ Working /\ Current.op = "hash"
    /\ IF latest.hash = Current.arg THEN Proceed(call + 1) ELSE Fails
    /\ UNCHANGED <<gateway, requests, client, diagnostics, plan, files,
                   history>>

-----------------------------------------------------------------------------
(***************************************************************************)
(* Files.  atomic_write_text fails before the rename or after it, when the *)
(* directory is synchronised.                                              *)
(***************************************************************************)
CommitCandidate ==
    /\ Working /\ Current.op = "write"
    /\ \/ lastKnownGood' = "new" /\ Succeeds
       \/ lastKnownGood' \in {lastKnownGood, "new"} /\ Fails
    /\ UNCHANGED <<gateway, requests, client, diagnostics, plan, manifest,
                   stage, history>>

\* main writes the result, and in its catch block a rejection.
WriteResult ==
    /\ stage = "transaction" /\ step = "END"
    /\ \/ manifest' = outcome /\ stage' = "done"
       \/ manifest' \in {manifest, outcome} /\ stage' = "catch"
    /\ UNCHANGED <<gateway, requests, client, diagnostics, plan, step, call,
                   outcome, lastKnownGood, history>>

WriteRejection ==
    /\ stage = "catch"
    /\ manifest' \in {manifest, "REJECTED"}
    /\ stage' = "done"
    /\ UNCHANGED <<gateway, requests, client, diagnostics, plan, step, call,
                   outcome, lastKnownGood, history>>

\* The command is killed, its requests stay.
Crash ==
    /\ stage \in {"transaction", "catch"}
    /\ stage' = "crashed"
    /\ requests' = [s \in DOMAIN requests |-> Forget(requests[s])]
    /\ outcome' = IF outcome = "RUNNING" THEN "CRASHED" ELSE outcome
    /\ UNCHANGED <<gateway, client, diagnostics, plan, step, call,
                   lastKnownGood, manifest, history>>

ClientStep ==
    \/ Send \/ TimeOut \/ ReadState \/ ChangeState \/ ParametersSet
    \/ Verify \/ RequireIdentity
    \/ CommitCandidate \/ WriteResult \/ WriteRejection

-----------------------------------------------------------------------------
(***************************************************************************)
(* The gateway: its services answer one request at a time, in the order of *)
(* each service; a transition fails, or ends in error processing.          *)
(***************************************************************************)
Respond(request, answer) ==
    reply' = IF request.live THEN answer ELSE reply

AnswerState ==
    /\ Working /\ awaiting = "get_state" /\ reply = "none"
    /\ reply' = lifecycle
    /\ UNCHANGED <<gateway, requests, awaiting, attempts, diagnostics, plan,
                   step, call, outcome, files, history>>

AnswerParameters ==
    LET queue == requests.set_parameters IN
    /\ queue # <<>>
    /\ requests' = [requests EXCEPT !.set_parameters = Tail(queue)]
    /\ \/ parameters' = Head(queue).arg /\ Respond(Head(queue), "accepted")
       \/ UNCHANGED parameters /\ Respond(Head(queue), "refused")
    /\ UNCHANGED <<lifecycle, bundle, wire, awaiting, attempts, diagnostics,
                   plan, step, call, outcome, files, history>>

Transition(from, to) == lifecycle = from /\ lifecycle' = to

Accepted(transition) ==
    \/ /\ transition = "configure" /\ Transition("unconfigured", "inactive")
       /\ bundle' = parameters
       /\ UNCHANGED <<installed, lost, quiesced>>
    \/ /\ transition = "activate" /\ Transition("inactive", "active")
       /\ installed' = bundle /\ lost' = FALSE
       /\ UNCHANGED <<bundle, quiesced>>
    \/ /\ transition = "deactivate" /\ Transition("active", "inactive")
       /\ quiesced' = TRUE
       /\ UNCHANGED <<bundle, installed, lost>>
    \/ /\ transition = "cleanup" /\ Transition("inactive", "unconfigured")
       /\ bundle' = "none"
       /\ UNCHANGED <<installed, lost, quiesced>>

Start == [configure |-> "unconfigured", activate |-> "inactive",
          deactivate |-> "active", cleanup |-> "inactive"]

\* Refused where it does not apply, or on_configure or on_activate says
\* FAILURE; an ERROR of on_activate or on_deactivate ends unconfigured.
Refused(transition) ==
    \/ /\ \/ lifecycle # Start[transition]
          \/ transition \in {"configure", "activate"}
       /\ UNCHANGED <<lifecycle, bundle, installed, lost, quiesced>>
    \/ /\ transition = "activate" /\ Transition("inactive", "unconfigured")
       /\ bundle' = "none"
       /\ UNCHANGED <<installed, lost, quiesced>>
    \/ /\ transition = "deactivate" /\ Transition("active", "unconfigured")
       /\ bundle' = "none" /\ quiesced' = TRUE
       /\ UNCHANGED <<installed, lost>>

AnswerChange ==
    LET queue == requests.change_state IN
    /\ queue # <<>>
    /\ requests' = [requests EXCEPT !.change_state = Tail(queue)]
    /\ \/ Accepted(Head(queue).arg) /\ Respond(Head(queue), "accepted")
       \/ Refused(Head(queue).arg) /\ Respond(Head(queue), "refused")
    /\ UNCHANGED <<parameters, wire, awaiting, attempts, diagnostics, plan,
                   step, call, outcome, files, verified>>

PublishDiagnostics ==
    /\ lifecycle \in {"inactive", "active"} /\ Working
    /\ \E healthy \in BOOLEAN :
          wire' = [hash |-> bundle, healthy |-> healthy]
    /\ UNCHANGED <<lifecycle, parameters, bundle, requests, client,
                   diagnostics, plan, step, call, outcome, files, history>>

\* An internal error of the gateway: GatewayNode!TriggerDeactivate.
GatewayFails ==
    \/ /\ Transition("active", "errorprocessing") /\ lost' = TRUE
       /\ UNCHANGED <<parameters, bundle, wire, requests, client, diagnostics,
                      plan, step, call, outcome, files, installed, quiesced,
                      verified>>
    \/ /\ Transition("errorprocessing", "unconfigured") /\ bundle' = "none"
       /\ UNCHANGED <<parameters, wire, requests, client, diagnostics, plan,
                      step, call, outcome, files, history>>

GatewayStep ==
    \/ AnswerState \/ AnswerParameters \/ AnswerChange
    \/ PublishDiagnostics \/ GatewayFails

Next == ClientStep \/ Receive \/ Crash \/ GatewayStep

Spec == Init /\ [][Next]_vars

(***************************************************************************)
(* The command runs on until it ends or is killed.  Nothing obliges the    *)
(* gateway to answer or a message to arrive.                               *)
(***************************************************************************)
FairSpec == Spec /\ WF_vars(ClientStep)

-----------------------------------------------------------------------------
Configs == {"old", "new"}

Transitions == {"configure", "activate", "deactivate", "cleanup"}

Diagnostics == [hash : Configs \cup {"none"}, healthy : BOOLEAN]

GatewayTyped ==
    /\ lifecycle \in {"unconfigured", "inactive", "active",
                      "errorprocessing"}
    /\ parameters \in Configs /\ bundle \in Configs \cup {"none"}
    /\ requests \in
         [change_state : Seq([arg : Transitions, live : BOOLEAN]),
          set_parameters : Seq([arg : Configs, live : BOOLEAN])]
    /\ wire \in Diagnostics
    /\ installed \in Configs /\ lost \in BOOLEAN /\ quiesced \in BOOLEAN
    /\ verified \in Configs \cup {"none"}

ClientTyped ==
    /\ awaiting \in Services \cup {"none"}
    /\ reply \in {"none", "accepted", "refused", "unconfigured", "inactive",
                  "active", "errorprocessing"}
    /\ latest \in Diagnostics /\ fresh \in BOOLEAN
    /\ attempts \in 0 .. MaxAttempts
    /\ plan \in Plans /\ step \in DOMAIN Calls
    /\ call \in Nat
    /\ step # "END" => call \in DOMAIN Calls[step]
    /\ lastKnownGood \in Configs
    /\ stage \in {"transaction", "catch", "done", "crashed"}

Typed == GatewayTyped /\ ClientTyped

(***************************************************************************)
(* The command implements ConfigSwitch: COMMITTED and ROLLED_BACK say what *)
(* the gateway runs, NO_OP and REJECTED leave it alone, and whatever was   *)
(* left behind by calls that timed out, nothing moves the gateway once one *)
(* of these is the outcome.                                                *)
(***************************************************************************)
Switch == INSTANCE ConfigSwitch WITH active <- lifecycle = "active"

Switched == Switch!Spec

ReportTyped ==
    /\ outcome \in Switch!Outcomes
    /\ manifest \in Switch!Outcomes \cup {"INVALID"}

TypeOK == Typed /\ ReportTyped

(***************************************************************************)
(* No configuration becomes active, by whichever request, unless healthy   *)
(* diagnostics of it were received since the last configure was requested. *)
(***************************************************************************)
ActivatesVerified ==
    [][lifecycle' = "active" /\ lifecycle # "active"
          => verified = bundle]_vars

(***************************************************************************)
(* The last-known-good descriptor only ever names a configuration that was *)
(* active when it was written (the gateway may have failed since).         *)
(***************************************************************************)
LastKnownGoodActive ==
    [][lastKnownGood' # lastKnownGood
          => Switch!Up(lastKnownGood')]_vars

\* Liveness: the command ends, whatever the gateway does.
Terminates == <>(stage \in {"done", "crashed"})

-----------------------------------------------------------------------------
(***************************************************************************)
(* The inductive strengthening that the proofs rest on.                    *)
(***************************************************************************)
RollingBack == InOrder(Rollback, step)

Target == IF RollingBack THEN "old" ELSE "new"

Settled == {"NO_OP", "REJECTED", "COMMITTED", "ROLLED_BACK"}

\* The command works on the call it waits for, and an answer is one of it.
Disciplined ==
    /\ outcome = "RUNNING"
    /\ awaiting # "none" => awaiting = Current.op
    /\ awaiting = "none" => reply = "none"
    /\ awaiting \in {"change_state", "set_parameters"}
         => reply \in {"none", "accepted", "refused"}
    /\ awaiting = "get_state" => reply \notin {"accepted", "refused"}

\* A queue holds the request that is waited for, behind at most one that an
\* earlier call of a transaction now rolled back has left.
Waiting(op) == awaiting = op /\ reply = "none"
Mine == [arg |-> Current.arg, live |-> TRUE]

Kept(queue, op, args) ==
    \/ queue = IF Waiting(op) THEN <<Mine>> ELSE <<>>
    \/ /\ RollingBack
       /\ \E a \in args :
             queue = IF Waiting(op) THEN <<Left(a), Mine>> ELSE <<Left(a)>>

Stale(queue) == queue # <<>> /\ ~Head(queue).live

QueuesKept ==
    /\ Kept(requests.change_state, "change_state", Transitions)
    /\ Kept(requests.set_parameters, "set_parameters", Configs)

\* An activation that is on its way, live or left behind, is of a gateway
\* that waits for it with the configuration verified last.
VerifiedWaits ==
    /\ lifecycle = "inactive" /\ verified = bundle
    /\ wire.hash \in {"none", bundle}

Armed ==
    \A i \in DOMAIN requests.change_state :
       requests.change_state[i].arg = "activate" => i = 1 /\ VerifiedWaits

\* The gateway has nothing loaded, or what a configure left behind brought.
Blank ==
    /\ lifecycle \in {"unconfigured", "inactive"}
    /\ Stale(requests.change_state)
         => /\ lifecycle = "unconfigured"
            /\ Head(requests.change_state).arg # "activate"

Configuring == step \in {"CONFIGURE_CANDIDATE", "CONFIGURE_PREVIOUS"}
Verifying == step \in {"VERIFY_CANDIDATE", "VERIFY_PREVIOUS"}
Activating == step \in {"ACTIVATE_CANDIDATE", "ACTIVATE_PREVIOUS"}
Setting == step \in {"SET_CANDIDATE_CONFIG", "RESTORE_PREVIOUS_CONFIG"}

BlankUntilConfigured ==
    \/ awaiting = "get_state" /\ reply = "unconfigured"
    \/ Setting
    \/ Configuring /\ call = 1 /\ reply = "none"
  => Blank

\* Nothing is published before the gateway is configured.
SilentUntilConfigured ==
    Configuring /\ Waiting("change_state") /\ lifecycle = "unconfigured"
    /\ fresh
      => wire = NoDiagnostics

ParametersAreTarget ==
    \/ Setting /\ reply = "accepted"
    \/ Configuring \/ Verifying \/ Activating
  => parameters = Target /\ requests.set_parameters = <<>>

TargetLoaded ==
    Verifying \/ (Configuring /\ (call = 2 \/ reply = "accepted"))
      => /\ lifecycle = "inactive" /\ bundle = Target
         /\ requests.change_state = <<>>
         /\ fresh => wire.hash \in {"none", Target}
         /\ Verifying /\ call = 2 => fresh /\ verified = Target

BeforeActivation ==
    Activating /\ (call = 1 \/ (call = 2 /\ reply # "accepted"))
      => /\ lifecycle \in {"inactive", "unconfigured"}
         /\ lifecycle = "inactive" => bundle = Target /\ VerifiedWaits
         /\ (call = 1 /\ reply = "inactive") \/ (call = 2 /\ reply = "none")
              => lifecycle = "inactive"
         /\ ~Stale(requests.change_state)

AfterActivation ==
    \/ Activating /\ (call \in {3, 4} \/ (call = 2 /\ reply = "accepted"))
    \/ step = "COMMIT_CANDIDATE"
  => requests.change_state = <<>> /\ Switch!Up(Target)

BeforeTransaction ==
    step \in {"PRECONDITION", "PRECHECK"} => installed = "old" /\ ~quiesced

\* What holds at the step and the call that the command has come to.
Placed ==
    /\ Disciplined /\ QueuesKept
    /\ BlankUntilConfigured /\ SilentUntilConfigured /\ ParametersAreTarget
    /\ TargetLoaded /\ BeforeActivation /\ AfterActivation
    /\ BeforeTransaction

\* What holds of the gateway and the diagnostics at any time.
Grounded ==
    /\ lifecycle \in {"inactive", "active"} => bundle \in Configs
    /\ lifecycle # "active" => quiesced \/ lost
    /\ fresh /\ latest.healthy => verified = latest.hash
    /\ wire.hash = "none" => wire = NoDiagnostics

\* What is left behind when the command ends moves nothing that is settled.
Ended ==
    /\ outcome \in Settled => requests.change_state = <<>>
    /\ stage \in {"catch", "done"} => step = "END"
    /\ outcome = "RUNNING" <=> Working

\* And while it runs every step has its place.
ReconfigurationInv ==
    /\ Typed /\ Grounded /\ Ended /\ Armed
    /\ Working => Placed
=============================================================================
