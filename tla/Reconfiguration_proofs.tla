------------------------ MODULE Reconfiguration_proofs ------------------------
(***************************************************************************)
(* The proofs about Reconfiguration: that ReconfigurationInv is inductive, *)
(* that the command never activates what it has not verified nor names a   *)
(* configuration last-known-good that was not up, and that it implements   *)
(* ConfigSwitch step by step.                                              *)
(***************************************************************************)
EXTENDS Reconfiguration, SequenceTheorems, TLAPS

-----------------------------------------------------------------------------
\* Sequences of at most two requests.
LEMMA Short ==
    ASSUME NEW a, NEW b
    PROVE  /\ Append(<<>>, a) = <<a>> /\ Append(<<a>>, b) = <<a, b>>
           /\ Head(<<a>>) = a /\ Tail(<<a>>) = <<>>
           /\ Head(<<a, b>>) = a /\ Tail(<<a, b>>) = <<b>>
           /\ <<a>> # <<>> /\ <<a, b>> # <<>>
           /\ DOMAIN <<a>> = {1} /\ DOMAIN <<a, b>> = {1, 2}
<1>1. Append(<<>>, a) = <<a>>
    OBVIOUS
<1>2. Append(<<a>>, b) = <<a, b>>
  <2>1. <<a>> \in Seq({a, b}) /\ <<a, b>> \in Seq({a, b}) /\ b \in {a, b}
      OBVIOUS
  <2>2. /\ Append(<<a>>, b) \in Seq({a, b})
        /\ Len(Append(<<a>>, b)) = 2
        /\ Append(<<a>>, b)[1] = a /\ Append(<<a>>, b)[2] = b
      BY <2>1, AppendProperties
  <2>3. Len(<<a, b>>) = 2 /\ <<a, b>>[1] = a /\ <<a, b>>[2] = b
      OBVIOUS
  <2>4. \A i \in 1 .. 2 : Append(<<a>>, b)[i] = <<a, b>>[i]
      BY <2>2, <2>3
  <2>5. QED  BY <2>1, <2>2, <2>3, <2>4, SeqEqual
<1>3. Head(<<a>>) = a /\ Head(<<a, b>>) = a
    OBVIOUS
<1>4. Tail(<<a>>) = <<>>
    OBVIOUS
<1>5. Tail(<<a, b>>) = <<b>>
    OBVIOUS
<1>6. <<a>> # <<>> /\ <<a, b>> # <<>>
    OBVIOUS
<1>7. DOMAIN <<a>> = {1} /\ DOMAIN <<a, b>> = {1, 2}
    OBVIOUS
<1>8. QED  BY <1>1, <1>2, <1>3, <1>4, <1>5, <1>6, <1>7

Requests(args) == [arg : args, live : BOOLEAN]

\* What giving up does to the requests of a queue.
LEMMA Forgotten ==
    ASSUME NEW args, NEW queue \in Seq(Requests(args))
    PROVE  /\ Forget(queue) \in Seq(Requests(args))
           /\ DOMAIN Forget(queue) = DOMAIN queue
           /\ \A i \in DOMAIN queue : Forget(queue)[i].arg = queue[i].arg
           /\ queue = <<>> => Forget(queue) = <<>>
           /\ \A a : queue = <<[arg |-> a, live |-> TRUE]>>
                       => Forget(queue) = <<Left(a)>>
<1>1. \A i \in 1 .. Len(queue) :
         /\ queue[i].arg \in args /\ Left(queue[i].arg) \in Requests(args)
         /\ Left(queue[i].arg).arg = queue[i].arg
  <2>1. SUFFICES ASSUME NEW r \in Requests(args)
                 PROVE  /\ r.arg \in args /\ Left(r.arg) \in Requests(args)
                        /\ Left(r.arg).arg = r.arg
      BY ElementOfSeq
  <2>2. QED  BY DEF Requests, Left
<1>2. DOMAIN queue = 1 .. Len(queue) /\ Len(queue) \in Nat
    OBVIOUS
<1>3. Forget(queue) = [i \in 1 .. Len(queue) |-> Left(queue[i].arg)]
    BY <1>2 DEF Forget
<1>4. Forget(queue) \in Seq(Requests(args))
    BY <1>1, <1>2, <1>3
<1>5. /\ DOMAIN Forget(queue) = DOMAIN queue
      /\ \A i \in DOMAIN queue : Forget(queue)[i].arg = queue[i].arg
    BY <1>1, <1>2, <1>3
<1>6. ASSUME queue = <<>> PROVE Forget(queue) = <<>>
    BY <1>2, <1>4, <1>5, <1>6
<1>7. ASSUME NEW a, queue = <<[arg |-> a, live |-> TRUE]>>
      PROVE  Forget(queue) = <<Left(a)>>
  <2>1. Len(queue) = 1 /\ queue[1].arg = a
      BY <1>7
  <2>2. Forget(queue) = [i \in 1 .. 1 |-> Left(a)]
      BY <1>3, <2>1
  <2>3. QED  BY <2>2
<1>8. QED  BY <1>4, <1>5, <1>6, <1>7

-----------------------------------------------------------------------------
\* The call that each step of the transaction has come to.
LEMMA Script ==
    ASSUME Typed, Working
    PROVE
      /\ step = "PRECONDITION" => call = 1 /\ Len(Calls[step]) = 1
                                  /\ Current = State("active")
      /\ step = "PRECHECK" => call = 1 /\ Len(Calls[step]) = 1
                              /\ Current = RequireHash("old")
      /\ step = "DEACTIVATE_CURRENT"
           => /\ call \in 1 .. 3 /\ Len(Calls[step]) = 3
              /\ call = 1 => Current = State("active")
              /\ call = 2 => Current = Change("deactivate")
              /\ call = 3 => Current = State("inactive")
      /\ step = "CLEANUP_CURRENT"
           => /\ call \in 1 .. 2 /\ Len(Calls[step]) = 2
              /\ call = 1 => Current = Change("cleanup")
              /\ call = 2 => Current = State("unconfigured")
      /\ Setting => /\ call = 1 /\ Len(Calls[step]) = 1
                    /\ Current = SetParameters(Target)
      /\ Configuring => /\ call \in 1 .. 2 /\ Len(Calls[step]) = 2
                        /\ call = 1 => Current = Change("configure")
                        /\ call = 2 => Current = State("inactive")
      /\ Verifying => /\ call \in 1 .. 2 /\ Len(Calls[step]) = 2
                      /\ call = 1 => Current = AwaitDiagnostics(Target)
                      /\ call = 2 => Current = RequireHash(Target)
      /\ Activating => /\ call \in 1 .. 4 /\ Len(Calls[step]) = 4
                       /\ call = 1 => Current = State("inactive")
                       /\ call = 2 => Current = Change("activate")
                       /\ call = 3 => Current = State("active")
                       /\ call = 4 => Current = RequireHash(Target)
      /\ step = "COMMIT_CANDIDATE" => call = 1 /\ Len(Calls[step]) = 1
                                      /\ Current = WriteDescriptor
      /\ step = "CLEANUP_CANDIDATE"
           => /\ call \in 1 .. 6 /\ Len(Calls[step]) = 6
              /\ call = 1 => Current = State("any")
              /\ call = 2 => Current = Change("deactivate")
              /\ call = 3 => Current = State("inactive")
              /\ call = 4 => Current = State("any")
              /\ call = 5 => Current = Change("cleanup")
              /\ call = 6 => Current = State("unconfigured")
      /\ \/ step \in {"PRECONDITION", "PRECHECK", "DEACTIVATE_CURRENT",
                      "CLEANUP_CURRENT", "COMMIT_CANDIDATE",
                      "CLEANUP_CANDIDATE"}
         \/ Setting \/ Configuring \/ Verifying \/ Activating
<1>1. call \in DOMAIN Calls[step] /\ step \in DOMAIN Calls
    BY DEF Typed, ClientTyped, Working
<1>2. /\ Len(Calls["PRECONDITION"]) = 1 /\ Len(Calls["PRECHECK"]) = 1
      /\ DOMAIN Calls["PRECONDITION"] = {1} /\ DOMAIN Calls["PRECHECK"] = {1}
      /\ Calls["PRECONDITION"][1] = State("active")
      /\ Calls["PRECHECK"][1] = RequireHash("old")
    BY DEF Calls
<1>3. LET c == Calls["DEACTIVATE_CURRENT"] IN
      /\ Len(c) = 3 /\ DOMAIN c = 1 .. 3
      /\ c[1] = State("active") /\ c[2] = Change("deactivate")
      /\ c[3] = State("inactive")
    BY DEF Calls
<1>4. LET c == Calls["CLEANUP_CURRENT"] IN
      /\ Len(c) = 2 /\ DOMAIN c = 1 .. 2
      /\ c[1] = Change("cleanup") /\ c[2] = State("unconfigured")
    BY DEF Calls
<1>5. Setting => LET c == Calls[step] IN
                 /\ Len(c) = 1 /\ DOMAIN c = {1}
                 /\ c[1] = SetParameters(Target)
    BY DEF Calls, Setting, Target, RollingBack, InOrder, Rollback
<1>6. Configuring => LET c == Calls[step] IN
                     /\ Len(c) = 2 /\ DOMAIN c = 1 .. 2
                     /\ c[1] = Change("configure") /\ c[2] = State("inactive")
    BY DEF Calls, Configuring, ConfigureCalls
<1>7. Verifying => LET c == Calls[step] IN
                   /\ Len(c) = 2 /\ DOMAIN c = 1 .. 2
                   /\ c[1] = AwaitDiagnostics(Target)
                   /\ c[2] = RequireHash(Target)
    BY DEF Calls, Verifying, VerifyCalls, Target, RollingBack, InOrder,
           Rollback
<1>8. Activating => LET c == Calls[step] IN
                    /\ Len(c) = 4 /\ DOMAIN c = 1 .. 4
                    /\ c[1] = State("inactive") /\ c[2] = Change("activate")
                    /\ c[3] = State("active") /\ c[4] = RequireHash(Target)
    BY DEF Calls, Activating, ActivateCalls, Target, RollingBack, InOrder,
           Rollback
<1>9. LET c == Calls["COMMIT_CANDIDATE"] IN
      Len(c) = 1 /\ DOMAIN c = {1} /\ c[1] = WriteDescriptor
    BY DEF Calls
<1>10. LET c == Calls["CLEANUP_CANDIDATE"] IN
       /\ Len(c) = 6 /\ DOMAIN c = 1 .. 6
       /\ c[1] = State("any") /\ c[2] = Change("deactivate")
       /\ c[3] = State("inactive") /\ c[4] = State("any")
       /\ c[5] = Change("cleanup") /\ c[6] = State("unconfigured")
    BY DEF Calls, CleanupCalls
<1>11. \/ step \in {"PRECONDITION", "PRECHECK", "DEACTIVATE_CURRENT",
                    "CLEANUP_CURRENT", "COMMIT_CANDIDATE",
                    "CLEANUP_CANDIDATE"}
       \/ Setting \/ Configuring \/ Verifying \/ Activating
    BY <1>1 DEF Calls, Working, Setting, Configuring, Verifying, Activating
<1>12. QED
    BY <1>1, <1>2, <1>3, <1>4, <1>5, <1>6, <1>7, <1>8, <1>9, <1>10, <1>11
       DEF Current

-----------------------------------------------------------------------------
\* The order of the steps.
LEMMA Directions ==
    /\ RollingBack <=> step \in {"CLEANUP_CANDIDATE",
                                 "RESTORE_PREVIOUS_CONFIG",
                                 "CONFIGURE_PREVIOUS", "VERIFY_PREVIOUS",
                                 "ACTIVATE_PREVIOUS"}
    /\ InOrder(Forward, step)
         <=> step \in {"DEACTIVATE_CURRENT", "CLEANUP_CURRENT",
                       "SET_CANDIDATE_CONFIG", "CONFIGURE_CANDIDATE",
                       "VERIFY_CANDIDATE", "ACTIVATE_CANDIDATE",
                       "COMMIT_CANDIDATE"}
<1>1. RollingBack <=> step \in {"CLEANUP_CANDIDATE",
                                "RESTORE_PREVIOUS_CONFIG",
                                "CONFIGURE_PREVIOUS", "VERIFY_PREVIOUS",
                                "ACTIVATE_PREVIOUS"}
    BY DEF RollingBack, InOrder, Rollback
<1>2. DOMAIN Forward = 1 .. 7
    BY DEF Forward
<1>3. InOrder(Forward, step) <=> \E i \in 1 .. 7 : Forward[i] = step
    BY <1>2 DEF InOrder
<1>4. /\ Forward[1] = "DEACTIVATE_CURRENT" /\ Forward[2] = "CLEANUP_CURRENT"
      /\ Forward[3] = "SET_CANDIDATE_CONFIG"
      /\ Forward[4] = "CONFIGURE_CANDIDATE"
      /\ Forward[5] = "VERIFY_CANDIDATE" /\ Forward[6] = "ACTIVATE_CANDIDATE"
      /\ Forward[7] = "COMMIT_CANDIDATE"
    BY DEF Forward
<1>5. QED  BY <1>1, <1>3, <1>4

LEMMA AfterForward ==
    ASSUME NEW n \in 1 .. 7, step = Forward[n]
    PROVE  StepAfter(Forward) = IF n = 7 THEN "END" ELSE Forward[n + 1]
<1>1. \A j \in DOMAIN Forward : Forward[j] = step => j = n
    BY DEF Forward
<1>2. n \in DOMAIN Forward /\ Len(Forward) = 7
    BY DEF Forward
<1> DEFINE j == CHOOSE i \in DOMAIN Forward : Forward[i] = step
<1>3. j = n
    BY <1>1, <1>2
<1>4. QED  BY <1>2, <1>3 DEF StepAfter

LEMMA AfterRollback ==
    ASSUME NEW n \in 1 .. 5, step = Rollback[n]
    PROVE  StepAfter(Rollback) = IF n = 5 THEN "END" ELSE Rollback[n + 1]
<1>1. \A j \in DOMAIN Rollback : Rollback[j] = step => j = n
    BY DEF Rollback
<1>2. n \in DOMAIN Rollback /\ Len(Rollback) = 5
    BY DEF Rollback
<1> DEFINE j == CHOOSE i \in DOMAIN Rollback : Rollback[i] = step
<1>3. j = n
    BY <1>1, <1>2
<1>4. QED  BY <1>2, <1>3 DEF StepAfter

\* Where a step that has succeeded leads to.
LEMMA Successors ==
    ASSUME Succeeds
    PROVE  /\ call' = 1
           /\ step = "PRECONDITION" => step' = "PRECHECK" /\ UNCHANGED outcome
           /\ step = "PRECHECK"
                => \/ step' = "END" /\ outcome' \in {"REJECTED", "NO_OP"}
                   \/ step' = "DEACTIVATE_CURRENT" /\ UNCHANGED outcome
           /\ step = "DEACTIVATE_CURRENT"
                => step' = "CLEANUP_CURRENT" /\ UNCHANGED outcome
           /\ step = "CLEANUP_CURRENT"
                => step' = "SET_CANDIDATE_CONFIG" /\ UNCHANGED outcome
           /\ step = "SET_CANDIDATE_CONFIG"
                => step' = "CONFIGURE_CANDIDATE" /\ UNCHANGED outcome
           /\ step = "CONFIGURE_CANDIDATE"
                => step' = "VERIFY_CANDIDATE" /\ UNCHANGED outcome
           /\ step = "VERIFY_CANDIDATE"
                => step' = "ACTIVATE_CANDIDATE" /\ UNCHANGED outcome
           /\ step = "ACTIVATE_CANDIDATE"
                => step' = "COMMIT_CANDIDATE" /\ UNCHANGED outcome
           /\ step = "COMMIT_CANDIDATE"
                => step' = "END" /\ outcome' = "COMMITTED"
           /\ step = "CLEANUP_CANDIDATE"
                => step' = "RESTORE_PREVIOUS_CONFIG" /\ UNCHANGED outcome
           /\ step = "RESTORE_PREVIOUS_CONFIG"
                => step' = "CONFIGURE_PREVIOUS" /\ UNCHANGED outcome
           /\ step = "CONFIGURE_PREVIOUS"
                => step' = "VERIFY_PREVIOUS" /\ UNCHANGED outcome
           /\ step = "VERIFY_PREVIOUS"
                => step' = "ACTIVATE_PREVIOUS" /\ UNCHANGED outcome
           /\ step = "ACTIVATE_PREVIOUS"
                => step' = "END" /\ outcome' = "ROLLED_BACK"
<1>1. CASE step \in {"PRECONDITION", "PRECHECK"}
  <2>1. ~InOrder(Forward, step) /\ ~InOrder(Rollback, step)
      BY <1>1, Directions DEF RollingBack
  <2>2. Forward[1] = "DEACTIVATE_CURRENT"
      BY DEF Forward
  <2>3. QED  BY <1>1, <2>1, <2>2 DEF Succeeds, Goto, End
<1>2. CASE InOrder(Forward, step)
  <2>1. ~InOrder(Rollback, step) /\ step \notin {"PRECONDITION", "PRECHECK"}
      BY <1>2, Directions DEF RollingBack
  <2>2. /\ call' = 1
        /\ IF StepAfter(Forward) = "END"
           THEN step' = "END" /\ outcome' = "COMMITTED"
           ELSE step' = StepAfter(Forward) /\ UNCHANGED outcome
      BY <1>2, <2>1 DEF Succeeds, Goto, End
  <2>3. PICK n \in 1 .. 7 : step = Forward[n]
      BY <1>2 DEF InOrder, Forward
  <2>4. StepAfter(Forward) = IF n = 7 THEN "END" ELSE Forward[n + 1]
      BY <2>3, AfterForward
  <2>5. /\ Forward[1] = "DEACTIVATE_CURRENT"
        /\ Forward[2] = "CLEANUP_CURRENT"
        /\ Forward[3] = "SET_CANDIDATE_CONFIG"
        /\ Forward[4] = "CONFIGURE_CANDIDATE"
        /\ Forward[5] = "VERIFY_CANDIDATE"
        /\ Forward[6] = "ACTIVATE_CANDIDATE"
        /\ Forward[7] = "COMMIT_CANDIDATE"
      BY DEF Forward
  <2>6. QED  BY <2>2, <2>3, <2>4, <2>5
<1>3. CASE InOrder(Rollback, step)
  <2>1. ~InOrder(Forward, step) /\ step \notin {"PRECONDITION", "PRECHECK"}
      BY <1>3, Directions DEF RollingBack
  <2>2. /\ call' = 1
        /\ IF StepAfter(Rollback) = "END"
           THEN step' = "END" /\ outcome' = "ROLLED_BACK"
           ELSE step' = StepAfter(Rollback) /\ UNCHANGED outcome
      BY <1>3, <2>1 DEF Succeeds, Goto, End
  <2>3. PICK n \in 1 .. 5 : step = Rollback[n]
      BY <1>3 DEF InOrder, Rollback
  <2>4. StepAfter(Rollback) = IF n = 5 THEN "END" ELSE Rollback[n + 1]
      BY <2>3, AfterRollback
  <2>5. /\ Rollback[1] = "CLEANUP_CANDIDATE"
        /\ Rollback[2] = "RESTORE_PREVIOUS_CONFIG"
        /\ Rollback[3] = "CONFIGURE_PREVIOUS"
        /\ Rollback[4] = "VERIFY_PREVIOUS"
        /\ Rollback[5] = "ACTIVATE_PREVIOUS"
      BY DEF Rollback
  <2>6. QED  BY <2>2, <2>3, <2>4, <2>5
<1>4. QED  BY <1>1, <1>2, <1>3 DEF Succeeds

\* Where a step that has failed leads to.
LEMMA Failures ==
    ASSUME Fails
    PROVE  /\ call' = 1
           /\ step \in {"PRECONDITION", "PRECHECK"}
                => step' = "END" /\ outcome' = "REJECTED"
           /\ InOrder(Forward, step)
                => step' = "CLEANUP_CANDIDATE" /\ UNCHANGED outcome
           /\ RollingBack => step' = "END" /\ outcome' = "ROLLBACK_FAILED"
           /\ \/ step \in {"PRECONDITION", "PRECHECK"}
              \/ InOrder(Forward, step) \/ RollingBack
<1>1. /\ ~(InOrder(Forward, step) /\ RollingBack)
      /\ step \in {"PRECONDITION", "PRECHECK"}
           => ~InOrder(Forward, step) /\ ~RollingBack
    BY Directions
<1>2. Rollback[1] = "CLEANUP_CANDIDATE"
    BY DEF Rollback
<1>3. QED  BY <1>1, <1>2 DEF Fails, Goto, End, RollingBack

-----------------------------------------------------------------------------
\* The place that the command comes to with a move.
Place ==
    /\ BlankUntilConfigured /\ ParametersAreTarget /\ TargetLoaded
    /\ BeforeActivation /\ AfterActivation /\ BeforeTransaction

\* The command works on no request that is on its way.
Free == reply # "none" \/ awaiting = "none"

\* A queue that no live request is in.
LEMMA FreeQueue ==
    ASSUME NEW queue, NEW op, NEW args, ~Waiting(op)
    PROVE  Kept(queue, op, args)
             <=> \/ queue = <<>>
                 \/ RollingBack /\ \E a \in args : queue = <<Left(a)>>
    BY DEF Kept

Moves ==
    /\ awaiting' = "none" /\ reply' = "none"
    /\ attempts' \in 0 .. MaxAttempts /\ lastKnownGood' \in Configs
    /\ UNCHANGED <<gateway, requests, diagnostics, plan, stage, history>>

LEMMA MoveKeeps ==
    ASSUME ReconfigurationInv, Working, Free, Moves,
           step' \in DOMAIN Calls, call' \in Nat,
           step' # "END" => call' \in DOMAIN Calls[step'] /\ Place',
           step' # "END" <=> outcome' = "RUNNING",
           outcome' \in Settled => requests.change_state = <<>>,
           RollingBack => RollingBack' \/ step' = "END"
    PROVE  ReconfigurationInv'
<1>1. /\ Typed /\ Grounded /\ Ended /\ Armed /\ Placed
    BY DEF ReconfigurationInv
<1>2. /\ UNCHANGED <<lifecycle, parameters, bundle, wire, requests, latest,
                     fresh, plan, stage, installed, lost, quiesced, verified>>
      /\ awaiting' = "none" /\ reply' = "none"
      /\ attempts' \in 0 .. MaxAttempts /\ lastKnownGood' \in Configs
    BY DEF Moves, gateway, diagnostics, history
<1>3. Typed'
    BY <1>1, <1>2 DEF Typed, GatewayTyped, ClientTyped
<1>4. Grounded'
    BY <1>1, <1>2 DEF Grounded
<1>5. Armed'
    BY <1>1, <1>2 DEF Armed, VerifiedWaits
<1>6. stage = "transaction"
    BY DEF Working
<1>7. Ended'
    BY <1>2, <1>6 DEF Ended, Working
<1>8. ASSUME Working' PROVE Placed'
  <2>1. step' # "END" /\ outcome' = "RUNNING" /\ Place'
      BY <1>8 DEF Working
  <2>2. Disciplined'
      BY <1>2, <2>1 DEF Disciplined
  <2>3. /\ ~Waiting("change_state") /\ ~Waiting("set_parameters")
        /\ ~Waiting("change_state")' /\ ~Waiting("set_parameters")'
      BY <1>2 DEF Free, Waiting
  <2>4. QueuesKept
      BY <1>1 DEF Placed
  <2>5. RollingBack => RollingBack'
      BY <2>1
  <2>6. QueuesKept'
    <3>1. Kept(requests.change_state, "change_state", Transitions)'
      <4>1. \/ requests.change_state = <<>>
            \/ RollingBack /\ \E a \in Transitions :
                                 requests.change_state = <<Left(a)>>
          BY <2>3, <2>4, FreeQueue DEF QueuesKept
      <4>2. \/ requests'.change_state = <<>>
            \/ RollingBack' /\ \E a \in Transitions :
                                  requests'.change_state = <<Left(a)>>
          BY <1>2, <2>5, <4>1
      <4>3. QED  BY <2>3, <4>2 DEF Kept
    <3>2. Kept(requests.set_parameters, "set_parameters", Configs)'
      <4>1. \/ requests.set_parameters = <<>>
            \/ RollingBack /\ \E a \in Configs :
                                 requests.set_parameters = <<Left(a)>>
          BY <2>3, <2>4, FreeQueue DEF QueuesKept
      <4>2. \/ requests'.set_parameters = <<>>
            \/ RollingBack' /\ \E a \in Configs :
                                  requests'.set_parameters = <<Left(a)>>
          BY <1>2, <2>5, <4>1
      <4>3. QED  BY <2>3, <4>2 DEF Kept
    <3>3. QED  BY <3>1, <3>2 DEF QueuesKept
  <2>7. SilentUntilConfigured'
      BY <2>3 DEF SilentUntilConfigured
  <2>8. QED  BY <2>1, <2>2, <2>6, <2>7 DEF Placed, Place
<1>9. QED  BY <1>3, <1>4, <1>5, <1>7, <1>8 DEF ReconfigurationInv

\* A step that fails, with the requests where they are.
LEMMA FailureKeeps ==
    ASSUME ReconfigurationInv, Working, Free, Moves, Fails
    PROVE  ReconfigurationInv'
<1>1. Typed /\ Ended /\ Placed
    BY DEF ReconfigurationInv
<1>2. outcome = "RUNNING"
    BY <1>1 DEF Ended
<1>3. requests.change_state = <<>> \/ RollingBack
  <2>1. ~Waiting("change_state")
      BY DEF Free, Waiting
  <2>2. QED  BY <1>1, <2>1, FreeQueue DEF Placed, QueuesKept
<1>4. \/ step' = "END" /\ outcome' = "REJECTED"
         /\ requests.change_state = <<>>
      \/ step' = "END" /\ outcome' = "ROLLBACK_FAILED"
      \/ step' = "CLEANUP_CANDIDATE" /\ outcome' = "RUNNING" /\ ~RollingBack
    BY <1>2, <1>3, Failures, Directions
<1>5. call' = 1
    BY Failures
<1>6. step' \in DOMAIN Calls
    BY <1>4 DEF Calls
<1>7. DOMAIN Calls["CLEANUP_CANDIDATE"] = 1 .. 6
    BY DEF Calls, CleanupCalls
<1>8. step' # "END" => call' \in DOMAIN Calls[step']
    BY <1>4, <1>5, <1>7
<1>9. step' = "CLEANUP_CANDIDATE" => Place'
    BY DEF Place, BlankUntilConfigured, ParametersAreTarget, TargetLoaded,
           BeforeActivation, AfterActivation, BeforeTransaction, Setting,
           Configuring, Verifying, Activating, Moves
<1>10. step' # "END" <=> outcome' = "RUNNING"
    BY <1>4
<1>11. outcome' \in Settled => requests.change_state = <<>>
    BY <1>4 DEF Settled
<1>12. QED
    BY <1>4, <1>5, <1>6, <1>8, <1>9, <1>10, <1>11, MoveKeeps

\* The next call of a step.
LEMMA CallKeeps ==
    ASSUME ReconfigurationInv, Working, Free, Moves,
           step' = step, outcome' = outcome, call' \in DOMAIN Calls[step],
           Place'
    PROVE  ReconfigurationInv'
<1>1. Typed /\ Ended
    BY DEF ReconfigurationInv
<1>2. outcome = "RUNNING" /\ step # "END"
    BY <1>1 DEF Ended, Working
<1>3. step \in DOMAIN Calls
    BY <1>1 DEF Typed, ClientTyped
<1>4. call' \in Nat
  <2>1. \A s \in DOMAIN Calls : \A i \in DOMAIN Calls[s] : i \in Nat
      BY DEF Calls, ConfigureCalls, VerifyCalls, ActivateCalls, CleanupCalls
  <2>2. QED  BY <1>3, <2>1
<1>5. RollingBack' = RollingBack
    BY DEF RollingBack, InOrder
<1>6. outcome' \notin Settled
    BY <1>2 DEF Settled
<1>7. QED  BY <1>2, <1>3, <1>4, <1>5, <1>6, MoveKeeps

LEMMA NextDirection ==
    /\ RollingBack' <=> step' \in {"CLEANUP_CANDIDATE",
                                   "RESTORE_PREVIOUS_CONFIG",
                                   "CONFIGURE_PREVIOUS", "VERIFY_PREVIOUS",
                                   "ACTIVATE_PREVIOUS"}
    /\ Target' = IF RollingBack' THEN "old" ELSE "new"
    BY DEF RollingBack, InOrder, Rollback, Target

\* A step that has succeeded, with what its last answer has said.
LEMMA SuccessKeeps ==
    ASSUME ReconfigurationInv, Working, Free, Moves, Succeeds,
           step \in {"CLEANUP_CURRENT", "CLEANUP_CANDIDATE"} => Blank,
           Setting => /\ parameters = Target
                      /\ requests.set_parameters = <<>>,
           Configuring \/ Verifying => call = 2,
           Activating => call = 4
    PROVE  ReconfigurationInv'
<1>1. /\ Typed /\ Ended /\ Grounded /\ Placed /\ outcome = "RUNNING"
    BY DEF ReconfigurationInv, Ended
<1>2. requests.change_state = <<>> \/ RollingBack
  <2>1. ~Waiting("change_state")
      BY DEF Free, Waiting
  <2>2. QED  BY <1>1, <2>1, FreeQueue DEF Placed, QueuesKept
<1>3. /\ UNCHANGED <<lifecycle, parameters, bundle, wire, requests, latest,
                     fresh, plan, stage, installed, lost, quiesced, verified>>
      /\ awaiting' = "none" /\ reply' = "none"
    BY DEF Moves, gateway, diagnostics, history
<1>4. call' = 1
    BY Successors
<1> DEFINE Enters(s) == step' = s /\ outcome' = "RUNNING"
<1>5. \/ step = "PRECONDITION" /\ Enters("PRECHECK")
      \/ step = "PRECHECK" /\ Enters("DEACTIVATE_CURRENT")
      \/ step = "PRECHECK" /\ step' = "END"
         /\ outcome' \in {"REJECTED", "NO_OP"}
      \/ step = "DEACTIVATE_CURRENT" /\ Enters("CLEANUP_CURRENT")
      \/ step = "CLEANUP_CURRENT" /\ Enters("SET_CANDIDATE_CONFIG")
      \/ step = "SET_CANDIDATE_CONFIG" /\ Enters("CONFIGURE_CANDIDATE")
      \/ step = "CONFIGURE_CANDIDATE" /\ Enters("VERIFY_CANDIDATE")
      \/ step = "VERIFY_CANDIDATE" /\ Enters("ACTIVATE_CANDIDATE")
      \/ step = "ACTIVATE_CANDIDATE" /\ Enters("COMMIT_CANDIDATE")
      \/ step = "COMMIT_CANDIDATE" /\ step' = "END"
         /\ outcome' = "COMMITTED"
      \/ step = "CLEANUP_CANDIDATE" /\ Enters("RESTORE_PREVIOUS_CONFIG")
      \/ step = "RESTORE_PREVIOUS_CONFIG" /\ Enters("CONFIGURE_PREVIOUS")
      \/ step = "CONFIGURE_PREVIOUS" /\ Enters("VERIFY_PREVIOUS")
      \/ step = "VERIFY_PREVIOUS" /\ Enters("ACTIVATE_PREVIOUS")
      \/ step = "ACTIVATE_PREVIOUS" /\ step' = "END"
         /\ outcome' = "ROLLED_BACK"
  <2>1. \/ step \in {"PRECONDITION", "PRECHECK", "DEACTIVATE_CURRENT",
                     "CLEANUP_CURRENT", "COMMIT_CANDIDATE",
                     "CLEANUP_CANDIDATE", "SET_CANDIDATE_CONFIG",
                     "RESTORE_PREVIOUS_CONFIG", "CONFIGURE_CANDIDATE",
                     "CONFIGURE_PREVIOUS", "VERIFY_CANDIDATE",
                     "VERIFY_PREVIOUS", "ACTIVATE_CANDIDATE",
                     "ACTIVATE_PREVIOUS"}
      BY <1>1, Script DEF Setting, Configuring, Verifying, Activating
  <2>2. QED  BY <1>1, <2>1, Successors
<1>6. /\ step' \in DOMAIN Calls
      /\ step' # "END" => 1 \in DOMAIN Calls[step']
  <2>1. \A s \in DOMAIN Calls : s # "END" => 1 \in DOMAIN Calls[s]
      BY DEF Calls, ConfigureCalls, VerifyCalls, ActivateCalls, CleanupCalls
  <2>2. step' \in DOMAIN Calls
      BY <1>5 DEF Calls
  <2>3. QED  BY <2>1, <2>2
<1>7. step' # "END" <=> outcome' = "RUNNING"
    BY <1>5
<1>8. outcome' \in Settled => requests.change_state = <<>>
  <2>1. CASE step = "ACTIVATE_PREVIOUS"
      BY <1>1, <2>1 DEF Placed, AfterActivation, Activating
  <2>2. CASE step \in {"COMMIT_CANDIDATE", "PRECHECK"}
      BY <1>2, <2>2, Directions
  <2>3. QED  BY <1>5, <2>1, <2>2 DEF Settled
<1>9. RollingBack => RollingBack' \/ step' = "END"
    BY <1>5, Directions, NextDirection
<1>10. step' # "END" => Target' = Target
  <2>1. step' # "END" => (RollingBack' <=> RollingBack)
      BY <1>5, Directions, NextDirection
  <2>2. Target' = (IF RollingBack' THEN "old" ELSE "new")
      BY NextDirection
  <2>3. Target = (IF RollingBack THEN "old" ELSE "new")
      BY DEF Target
  <2>4. QED  BY <2>1, <2>2, <2>3
<1>11. ASSUME step' # "END" PROVE Place'
  <2>1. CASE \/ step = "PRECONDITION" /\ step' = "PRECHECK"
             \/ step = "PRECHECK" /\ step' = "DEACTIVATE_CURRENT"
             \/ step = "DEACTIVATE_CURRENT" /\ step' = "CLEANUP_CURRENT"
      BY <1>1, <1>3, <2>1
         DEF Place, BlankUntilConfigured, ParametersAreTarget, TargetLoaded,
             BeforeActivation, AfterActivation, BeforeTransaction, Setting,
             Configuring, Verifying, Activating, Placed
  <2>2. CASE \/ step = "CLEANUP_CURRENT" /\ step' = "SET_CANDIDATE_CONFIG"
             \/ step = "CLEANUP_CANDIDATE"
                /\ step' = "RESTORE_PREVIOUS_CONFIG"
    <3>1. Blank'
        BY <1>3, <2>2 DEF Blank, Stale
    <3>2. QED
        BY <1>3, <2>2, <3>1
           DEF Place, BlankUntilConfigured, ParametersAreTarget,
               TargetLoaded, BeforeActivation, AfterActivation,
               BeforeTransaction, Setting, Configuring, Verifying, Activating
  <2>3. CASE Setting /\ Configuring'
    <3>1. Blank
        BY <1>1, <2>3 DEF Placed, BlankUntilConfigured
    <3>2. Blank'
        BY <1>3, <3>1 DEF Blank, Stale
    <3>3. ParametersAreTarget'
        BY <1>3, <1>10, <1>11, <2>3 DEF ParametersAreTarget
    <3>4. QED
        BY <1>3, <1>4, <2>3, <3>2, <3>3
           DEF Place, BlankUntilConfigured, TargetLoaded, BeforeActivation,
               AfterActivation, BeforeTransaction, Setting, Configuring,
               Verifying, Activating
  <2>4. CASE Configuring /\ Verifying'
    <3>1. parameters = Target /\ requests.set_parameters = <<>>
        BY <1>1, <2>4 DEF Placed, ParametersAreTarget
    <3>2. /\ lifecycle = "inactive" /\ bundle = Target
          /\ requests.change_state = <<>>
          /\ fresh => wire.hash \in {"none", Target}
        BY <1>1, <2>4 DEF Placed, TargetLoaded
    <3>3. ParametersAreTarget' /\ TargetLoaded'
        BY <1>3, <1>4, <1>10, <1>11, <3>1, <3>2
           DEF ParametersAreTarget, TargetLoaded
    <3>4. QED
        BY <1>3, <1>4, <2>4, <3>3
           DEF Place, BlankUntilConfigured, BeforeActivation,
               AfterActivation, BeforeTransaction, Setting, Configuring,
               Verifying, Activating
  <2>5. CASE Verifying /\ Activating'
    <3>1. parameters = Target /\ requests.set_parameters = <<>>
        BY <1>1, <2>5 DEF Placed, ParametersAreTarget
    <3>2. /\ lifecycle = "inactive" /\ bundle = Target
          /\ requests.change_state = <<>>
          /\ wire.hash \in {"none", Target} /\ verified = Target
        BY <1>1, <2>5 DEF Placed, TargetLoaded
    <3>3. ParametersAreTarget' /\ BeforeActivation'
        BY <1>3, <1>10, <1>11, <3>1, <3>2
           DEF ParametersAreTarget, BeforeActivation, VerifiedWaits, Stale
    <3>4. QED
        BY <1>3, <1>4, <2>5, <3>3
           DEF Place, BlankUntilConfigured, TargetLoaded,
               AfterActivation, BeforeTransaction, Setting, Configuring,
               Verifying, Activating
  <2>6. CASE step = "ACTIVATE_CANDIDATE" /\ step' = "COMMIT_CANDIDATE"
    <3>1. requests.change_state = <<>> /\ Switch!Up(Target)
        BY <1>1, <2>6 DEF Placed, AfterActivation, Activating
    <3>2. AfterActivation'
        BY <1>3, <1>10, <1>11, <3>1 DEF AfterActivation, Switch!Up
    <3>3. QED
        BY <1>3, <2>6, <3>2
           DEF Place, BlankUntilConfigured, ParametersAreTarget,
               TargetLoaded, BeforeActivation, BeforeTransaction, Setting,
               Configuring, Verifying, Activating
  <2>7. QED
      BY <1>5, <1>11, <2>1, <2>2, <2>3, <2>4, <2>5, <2>6
         DEF Setting, Configuring, Verifying, Activating
<1>12. QED
    BY <1>4, <1>6, <1>7, <1>8, <1>9, <1>11, MoveKeeps

-----------------------------------------------------------------------------
\* The moves of the command.
LEMMA Operations ==
    /\ \A x : /\ State(x).op = "get_state" /\ State(x).arg = x
              /\ Change(x).op = "change_state" /\ Change(x).arg = x
              /\ SetParameters(x).op = "set_parameters"
              /\ SetParameters(x).arg = x
              /\ AwaitDiagnostics(x).op = "verify"
              /\ AwaitDiagnostics(x).arg = x
              /\ RequireHash(x).op = "hash" /\ RequireHash(x).arg = x
    /\ WriteDescriptor.op = "write"
    BY DEF State, Change, SetParameters, AwaitDiagnostics, RequireHash,
           WriteDescriptor

\* Nothing is demanded of the calls of these steps.
LEMMA UndemandingPlace ==
    ASSUME Moves,
           step' \in {"DEACTIVATE_CURRENT", "CLEANUP_CURRENT",
                      "CLEANUP_CANDIDATE"}
    PROVE  Place'
    BY DEF Moves, Place, BlankUntilConfigured, ParametersAreTarget,
           TargetLoaded, BeforeActivation, AfterActivation,
           BeforeTransaction, Setting, Configuring, Verifying, Activating

LEMMA NextTarget ==
    ASSUME step' = step
    PROVE  Target' = Target /\ (RollingBack' <=> RollingBack)
    BY DEF Target, RollingBack, InOrder

\* An activation has been answered.
LEMMA ActivatedKeeps ==
    ASSUME ReconfigurationInv, Working, Free, Moves, Activating,
           step' = step, outcome' = outcome,
           \/ call' = 3 /\ call = 2 /\ reply = "accepted"
           \/ call' = 4 /\ call = 3
    PROVE  ReconfigurationInv'
<1>1. Placed /\ Typed
    BY DEF ReconfigurationInv
<1>2. Activating'
    BY DEF Activating
<1>3. ParametersAreTarget /\ AfterActivation
    BY <1>1 DEF Placed
<1>4. Target' = Target
    BY NextTarget
<1>5. UNCHANGED <<lifecycle, parameters, requests, installed, lost>>
    BY DEF Moves, gateway, history
<1>6. ParametersAreTarget' /\ AfterActivation'
    BY <1>2, <1>3, <1>4, <1>5
       DEF ParametersAreTarget, AfterActivation, Switch!Up
<1>7. /\ awaiting' = "none" /\ reply' = "none"
    BY DEF Moves
<1>8. Place'
    BY <1>2, <1>6, <1>7
       DEF Place, BlankUntilConfigured, TargetLoaded, BeforeActivation,
           BeforeTransaction, Setting, Configuring, Verifying, Activating
<1>9. call' \in DOMAIN Calls[step]
  <2>1. Len(Calls[step]) = 4 /\ DOMAIN Calls[step] = 1 .. 4
      BY DEF Calls, Activating, ActivateCalls
  <2>2. QED  BY <2>1
<1>10. QED  BY <1>8, <1>9, CallKeeps

LEMMA ReadStateKeeps ==
    ASSUME ReconfigurationInv, ReadState
    PROVE  ReconfigurationInv'
<1>1. /\ Working /\ awaiting = "get_state" /\ reply # "none" /\ Free
    BY DEF ReadState, Answered, Free
<1>2. /\ Typed /\ Ended /\ Placed /\ Armed
    BY <1>1 DEF ReconfigurationInv
<1>3. Moves
    BY <1>2 DEF ReadState, Answered, Moves, files, Typed, ClientTyped
<1>4. Current.op = "get_state"
    BY <1>1, <1>2 DEF Placed, Disciplined
<1>5. reply = "unconfigured" => Blank
    BY <1>1, <1>2 DEF Placed, BlankUntilConfigured
<1>6. CASE Fails
    BY <1>1, <1>3, <1>6, FailureKeeps
<1>7. CASE step = "CLEANUP_CANDIDATE" /\ ~Fails
  <2>1. /\ call \in 1 .. 6 /\ Len(Calls[step]) = 6
        /\ call # 2 /\ call # 5
        /\ call = 6 => Current.arg = "unconfigured"
      BY <1>1, <1>2, <1>4, <1>7, Script, Operations
  <2>2. \/ Succeeds /\ reply = "unconfigured"
        \/ call' \in {2, 4, 5} /\ UNCHANGED <<step, outcome>>
      BY <1>7, <2>1 DEF ReadState, Proceed
  <2>3. CASE Succeeds /\ reply = "unconfigured"
      BY <1>1, <1>3, <1>5, <1>7, <2>3, SuccessKeeps
         DEF Setting, Configuring, Verifying, Activating
  <2>4. CASE call' \in {2, 4, 5} /\ UNCHANGED <<step, outcome>>
    <3>1. call' \in DOMAIN Calls[step]
        BY <1>7, <2>4 DEF Calls, CleanupCalls
    <3>2. Place'
        BY <1>3, <1>7, <2>4, UndemandingPlace
    <3>3. QED  BY <1>1, <1>3, <2>4, <3>1, <3>2, CallKeeps
  <2>5. QED  BY <2>2, <2>3, <2>4
<1>8. CASE step # "CLEANUP_CANDIDATE" /\ ~Fails
  <2>1. reply = Current.arg /\ Proceed(call + 1)
      BY <1>8 DEF ReadState
  <2>2. CASE step \in {"PRECONDITION", "CLEANUP_CURRENT"} \/ Configuring
    <3>1. /\ call = Len(Calls[step])
          /\ step = "CLEANUP_CURRENT" => reply = "unconfigured"
          /\ Configuring => call = 2
      <4>1. CASE step = "PRECONDITION"
          BY <1>1, <1>2, <4>1, Script DEF Configuring
      <4>2. CASE step = "CLEANUP_CURRENT"
        <5>1. /\ call \in 1 .. 2 /\ Len(Calls[step]) = 2
              /\ call = 1 => Current = Change("cleanup")
              /\ call = 2 => Current = State("unconfigured")
            BY <1>1, <1>2, <4>2, Script
        <5>2. call # 1
            BY <1>4, <5>1, Operations
        <5>3. call = 2 /\ reply = "unconfigured"
            BY <2>1, <5>1, <5>2, Operations
        <5>4. QED  BY <4>2, <5>1, <5>3 DEF Configuring
      <4>3. CASE Configuring
        <5>1. /\ call \in 1 .. 2 /\ Len(Calls[step]) = 2
              /\ call = 1 => Current = Change("configure")
            BY <1>1, <1>2, <4>3, Script
        <5>2. call # 1
            BY <1>4, <5>1, Operations
        <5>3. QED  BY <4>3, <5>1, <5>2 DEF Configuring
      <4>4. QED  BY <2>2, <4>1, <4>2, <4>3
    <3>2. call \in Nat
        BY <1>2 DEF Typed, ClientTyped
    <3>3. Succeeds
        BY <2>1, <3>1, <3>2 DEF Proceed
    <3>4. QED
        BY <1>1, <1>3, <1>5, <1>8, <2>2, <3>1, <3>3, SuccessKeeps
           DEF Setting, Configuring, Verifying, Activating
  <2>3. CASE step = "DEACTIVATE_CURRENT"
    <3>1. call \in {1, 3} /\ Len(Calls[step]) = 3
        BY <1>1, <1>2, <1>4, <2>3, Script, Operations
    <3>2. CASE call = 3
      <4>1. Succeeds
          BY <2>1, <3>1, <3>2 DEF Proceed
      <4>2. QED
          BY <1>1, <1>3, <2>3, <4>1, SuccessKeeps
             DEF Setting, Configuring, Verifying, Activating
    <3>3. CASE call = 1
      <4>1. call' = 2 /\ UNCHANGED <<step, outcome>>
          BY <2>1, <3>1, <3>3 DEF Proceed
      <4>2. call' \in DOMAIN Calls[step]
          BY <2>3, <4>1 DEF Calls
      <4>3. Place'
          BY <1>3, <2>3, <4>1, UndemandingPlace
      <4>4. QED  BY <1>1, <1>3, <4>1, <4>2, <4>3, CallKeeps
    <3>4. QED  BY <3>1, <3>2, <3>3
  <2>4. CASE Activating
    <3>1. /\ call \in {1, 3} /\ Len(Calls[step]) = 4
          /\ call = 1 => reply = "inactive"
      <4>1. /\ call \in 1 .. 4 /\ Len(Calls[step]) = 4
            /\ call = 1 => Current = State("inactive")
            /\ call = 2 => Current = Change("activate")
            /\ call = 4 => Current = RequireHash(Target)
          BY <1>1, <1>2, <2>4, Script
      <4>2. call # 2 /\ call # 4
          BY <1>4, <4>1, Operations
      <4>3. QED  BY <2>1, <4>1, <4>2, Operations
    <3>2. call' = call + 1 /\ UNCHANGED <<step, outcome>>
        BY <2>1, <3>1 DEF Proceed
    <3>3. CASE call = 3
        BY <1>1, <1>3, <2>4, <3>2, <3>3, ActivatedKeeps
    <3>4. CASE call = 1
      <4>1. call' = 2 /\ Activating' /\ Target' = Target
          BY <2>4, <3>2, <3>4, NextTarget DEF Activating
      <4>2. /\ lifecycle = "inactive" /\ bundle = Target /\ VerifiedWaits
            /\ ~Stale(requests.change_state)
          BY <1>2, <2>4, <3>1, <3>4 DEF Placed, BeforeActivation
      <4>3. parameters = Target /\ requests.set_parameters = <<>>
          BY <1>2, <2>4 DEF Placed, ParametersAreTarget
      <4>4. UNCHANGED <<lifecycle, parameters, bundle, wire, requests,
                        verified>>
          BY <1>3 DEF Moves, gateway, history
      <4>5. VerifiedWaits' /\ ~Stale(requests.change_state)'
          BY <4>2, <4>4 DEF VerifiedWaits, Stale
      <4>6. BeforeActivation' /\ ParametersAreTarget'
          BY <4>1, <4>2, <4>3, <4>4, <4>5
             DEF BeforeActivation, ParametersAreTarget
      <4>7. awaiting' = "none" /\ reply' = "none"
          BY <1>3 DEF Moves
      <4>8. Place'
          BY <4>1, <4>6, <4>7
             DEF Place, BlankUntilConfigured, TargetLoaded, AfterActivation,
                 BeforeTransaction, Setting, Configuring, Verifying,
                 Activating
      <4>9. call' \in DOMAIN Calls[step]
          BY <2>4, <4>1 DEF Calls, Activating, ActivateCalls
      <4>10. QED  BY <1>1, <1>3, <3>2, <4>8, <4>9, CallKeeps
    <3>5. QED  BY <3>1, <3>3, <3>4
  <2>5. CASE step \in {"PRECHECK", "COMMIT_CANDIDATE"} \/ Setting
             \/ Verifying
    <3>1. Current.op # "get_state"
      <4>1. CASE step \in {"PRECHECK", "COMMIT_CANDIDATE"} \/ Setting
          BY <1>1, <1>2, <4>1, Script, Operations
      <4>2. CASE Verifying
          BY <1>1, <1>2, <4>2, Script, Operations
      <4>3. QED  BY <2>5, <4>1, <4>2
    <3>2. QED  BY <1>4, <3>1
  <2>6. QED
      BY <1>1, <1>2, <1>8, <2>2, <2>3, <2>4, <2>5, Script
<1>9. QED  BY <1>6, <1>7, <1>8

\* The steps that change the gateway's state.
LEMMA ChangeCalls ==
    ASSUME Typed, Working, Current.op = "change_state"
    PROVE  /\ \/ step = "DEACTIVATE_CURRENT" /\ call = 2
                 /\ Current.arg = "deactivate" /\ Len(Calls[step]) = 3
              \/ step = "CLEANUP_CURRENT" /\ call = 1
                 /\ Current.arg = "cleanup" /\ Len(Calls[step]) = 2
              \/ Configuring /\ call = 1
                 /\ Current.arg = "configure" /\ Len(Calls[step]) = 2
              \/ step = "CLEANUP_CANDIDATE" /\ call = 2
                 /\ Current.arg = "deactivate" /\ Len(Calls[step]) = 6
              \/ step = "CLEANUP_CANDIDATE" /\ call = 5
                 /\ Current.arg = "cleanup" /\ Len(Calls[step]) = 6
              \/ Activating /\ call = 2
                 /\ Current.arg = "activate" /\ Len(Calls[step]) = 4
           /\ call + 1 \in DOMAIN Calls[step]
<1>1. CASE step \in {"PRECONDITION", "PRECHECK", "COMMIT_CANDIDATE"}
           \/ Setting
  <2>1. Current.op # "change_state"
      BY <1>1, Script, Operations
  <2>2. QED  BY <2>1
<1>2. CASE Verifying
  <2>1. /\ call \in 1 .. 2
        /\ call = 1 => Current = AwaitDiagnostics(Target)
        /\ call = 2 => Current = RequireHash(Target)
      BY <1>2, Script
  <2>2. QED  BY <2>1, Operations
<1>3. CASE step = "DEACTIVATE_CURRENT"
  <2>1. /\ call \in 1 .. 3 /\ Len(Calls[step]) = 3
        /\ call = 1 => Current = State("active")
        /\ call = 2 => Current = Change("deactivate")
        /\ call = 3 => Current = State("inactive")
      BY <1>3, Script
  <2>2. DOMAIN Calls[step] = 1 .. 3
      BY <1>3 DEF Calls
  <2>3. QED  BY <1>3, <2>1, <2>2, Operations
<1>4. CASE step = "CLEANUP_CURRENT"
  <2>1. /\ call \in 1 .. 2 /\ Len(Calls[step]) = 2
        /\ call = 1 => Current = Change("cleanup")
        /\ call = 2 => Current = State("unconfigured")
      BY <1>4, Script
  <2>2. DOMAIN Calls[step] = 1 .. 2
      BY <1>4 DEF Calls
  <2>3. QED  BY <1>4, <2>1, <2>2, Operations
<1>5. CASE Configuring
  <2>1. /\ call \in 1 .. 2 /\ Len(Calls[step]) = 2
        /\ call = 1 => Current = Change("configure")
        /\ call = 2 => Current = State("inactive")
      BY <1>5, Script
  <2>2. DOMAIN Calls[step] = 1 .. 2
      BY <1>5 DEF Calls, Configuring, ConfigureCalls
  <2>3. QED  BY <1>5, <2>1, <2>2, Operations
<1>6. CASE Activating
  <2>1. /\ call \in 1 .. 4 /\ Len(Calls[step]) = 4
        /\ call = 1 => Current = State("inactive")
        /\ call = 2 => Current = Change("activate")
        /\ call = 3 => Current = State("active")
        /\ call = 4 => Current = RequireHash(Target)
      BY <1>6, Script
  <2>2. DOMAIN Calls[step] = 1 .. 4
      BY <1>6 DEF Calls, Activating, ActivateCalls
  <2>3. QED  BY <1>6, <2>1, <2>2, Operations
<1>7. CASE step = "CLEANUP_CANDIDATE"
  <2>1. /\ call \in 1 .. 6 /\ Len(Calls[step]) = 6
        /\ call = 1 => Current = State("any")
        /\ call = 2 => Current = Change("deactivate")
        /\ call = 3 => Current = State("inactive")
        /\ call = 4 => Current = State("any")
        /\ call = 5 => Current = Change("cleanup")
        /\ call = 6 => Current = State("unconfigured")
      BY <1>7, Script
  <2>2. DOMAIN Calls[step] = 1 .. 6
      BY <1>7 DEF Calls, CleanupCalls
  <2>3. QED  BY <1>7, <2>1, <2>2, Operations
<1>8. QED
    BY <1>1, <1>2, <1>3, <1>4, <1>5, <1>6, <1>7, Script

\* And those that make other calls.
LEMMA OtherCalls ==
    ASSUME Typed, Working
    PROVE  /\ Current.op = "set_parameters"
                => /\ Setting /\ call = 1 /\ Len(Calls[step]) = 1
                   /\ Current.arg = Target
           /\ Current.op = "verify"
                => /\ Verifying /\ call = 1 /\ Len(Calls[step]) = 2
                   /\ Current.arg = Target
           /\ Current.op = "hash"
                => \/ step = "PRECHECK" /\ call = 1 /\ Len(Calls[step]) = 1
                   \/ Verifying /\ call = 2 /\ Len(Calls[step]) = 2
                      /\ Current.arg = Target
                   \/ Activating /\ call = 4 /\ Len(Calls[step]) = 4
           /\ Current.op = "write"
                => step = "COMMIT_CANDIDATE" /\ call = 1
                   /\ Len(Calls[step]) = 1
<1>1. CASE step \in {"PRECONDITION", "PRECHECK", "COMMIT_CANDIDATE"}
           \/ Setting
    BY <1>1, Script, Operations
<1>2. CASE Verifying
  <2>1. /\ call \in 1 .. 2 /\ Len(Calls[step]) = 2
        /\ call = 1 => Current = AwaitDiagnostics(Target)
        /\ call = 2 => Current = RequireHash(Target)
      BY <1>2, Script
  <2>2. QED  BY <1>2, <2>1, Operations
<1>3. CASE Activating
  <2>1. /\ call \in 1 .. 4 /\ Len(Calls[step]) = 4
        /\ call = 1 => Current = State("inactive")
        /\ call = 2 => Current = Change("activate")
        /\ call = 3 => Current = State("active")
        /\ call = 4 => Current = RequireHash(Target)
      BY <1>3, Script
  <2>2. QED  BY <1>3, <2>1, Operations
<1>4. CASE \/ step \in {"DEACTIVATE_CURRENT", "CLEANUP_CURRENT",
                        "CLEANUP_CANDIDATE"}
           \/ Configuring
  <2>1. Current.op \in {"get_state", "change_state"}
    <3>1. CASE step = "DEACTIVATE_CURRENT"
        BY <3>1, Script, Operations
    <3>2. CASE step = "CLEANUP_CURRENT"
        BY <3>2, Script, Operations
    <3>3. CASE step = "CLEANUP_CANDIDATE"
        BY <3>3, Script, Operations
    <3>4. CASE Configuring
        BY <3>4, Script, Operations
    <3>5. QED  BY <1>4, <3>1, <3>2, <3>3, <3>4
  <2>2. QED  BY <2>1
<1>5. QED  BY <1>1, <1>2, <1>3, <1>4, Script

LEMMA ChangeStateKeeps ==
    ASSUME ReconfigurationInv, ChangeState
    PROVE  ReconfigurationInv'
<1>1. /\ Working /\ awaiting = "change_state" /\ reply # "none" /\ Free
    BY DEF ChangeState, Answered, Free
<1>2. /\ Typed /\ Ended /\ Placed /\ Armed
    BY <1>1 DEF ReconfigurationInv
<1>3. Moves
  <2>1. attempts' \in 0 .. MaxAttempts
    <3>1. attempts \in 0 .. MaxAttempts /\ MaxAttempts \in Nat \ {0}
        BY <1>2, ReconfigurationAssumption DEF Typed, ClientTyped
    <3>2. \/ attempts' = 0
          \/ attempts + 1 < MaxAttempts /\ attempts' = attempts + 1
        BY DEF ChangeState
    <3>3. QED  BY <3>1, <3>2
  <2>2. QED
      BY <1>2, <2>1 DEF ChangeState, Answered, Moves, files, Typed,
                        ClientTyped
<1>4. Current.op = "change_state"
    BY <1>1, <1>2 DEF Placed, Disciplined
<1>5. call + 1 \in DOMAIN Calls[step] /\ call \in Nat
    BY <1>1, <1>2, <1>4, ChangeCalls DEF Typed, ClientTyped
<1>6. CASE Fails
    BY <1>1, <1>3, <1>6, FailureKeeps
<1>7. CASE reply = "accepted" /\ Proceed(call + 1)
  <2>1. call' = call + 1 /\ UNCHANGED <<step, outcome>>
    <3>1. ~(call + 1 > Len(Calls[step]))
        BY <1>1, <1>2, <1>4, ChangeCalls
    <3>2. QED  BY <1>7, <3>1 DEF Proceed
  <2>2. CASE Activating
    <3>1. call = 2
        BY <1>1, <1>2, <1>4, <2>2, ChangeCalls DEF Activating, Configuring
    <3>2. QED  BY <1>1, <1>3, <1>7, <2>1, <2>2, <3>1, ActivatedKeeps
  <2>3. CASE step \in {"DEACTIVATE_CURRENT", "CLEANUP_CURRENT",
                       "CLEANUP_CANDIDATE"}
    <3>1. Place'
        BY <1>3, <2>1, <2>3, UndemandingPlace
    <3>2. QED  BY <1>1, <1>3, <1>5, <2>1, <3>1, CallKeeps
  <2>4. CASE Configuring
    <3>1. Configuring' /\ Target' = Target
        BY <2>1, <2>4, NextTarget DEF Configuring
    <3>2. call' = 2
        BY <1>1, <1>2, <1>4, <2>1, <2>4, ChangeCalls
           DEF Configuring, Activating
    <3>3. UNCHANGED <<lifecycle, parameters, bundle, wire, requests, fresh>>
          /\ awaiting' = "none" /\ reply' = "none"
        BY <1>3 DEF Moves, gateway, diagnostics
    <3>4. ParametersAreTarget' /\ TargetLoaded'
      <4>1. parameters = Target /\ requests.set_parameters = <<>>
          BY <1>2, <2>4 DEF Placed, ParametersAreTarget
      <4>2. /\ lifecycle = "inactive" /\ bundle = Target
            /\ requests.change_state = <<>>
            /\ fresh => wire.hash \in {"none", Target}
          BY <1>2, <1>7, <2>4 DEF Placed, TargetLoaded
      <4>3. ~Verifying'
          BY <3>1 DEF Verifying, Configuring
      <4>4. QED
          BY <3>1, <3>3, <4>1, <4>2, <4>3
             DEF ParametersAreTarget, TargetLoaded
    <3>5. Place'
        BY <3>1, <3>2, <3>3, <3>4
           DEF Place, BlankUntilConfigured, BeforeActivation,
               AfterActivation, BeforeTransaction, Setting, Configuring,
               Verifying, Activating
    <3>6. QED  BY <1>1, <1>3, <1>5, <2>1, <3>5, CallKeeps
  <2>5. QED  BY <1>1, <1>2, <1>4, <2>2, <2>3, <2>4, ChangeCalls
<1>8. CASE reply = "refused" /\ Current.arg = "activate" /\ Proceed(1)
  <2>1. Activating /\ call = 2 /\ Len(Calls[step]) = 4
      BY <1>1, <1>2, <1>4, <1>8, ChangeCalls
  <2>2. call' = 1 /\ UNCHANGED <<step, outcome>>
      BY <1>8, <2>1 DEF Proceed
  <2>3. Activating' /\ Target' = Target
      BY <2>1, <2>2, NextTarget DEF Activating
  <2>4. UNCHANGED <<lifecycle, parameters, bundle, wire, requests, verified>>
        /\ awaiting' = "none" /\ reply' = "none"
      BY <1>3 DEF Moves, gateway, history
  <2>5. parameters = Target /\ requests.set_parameters = <<>>
      BY <1>2, <2>1 DEF Placed, ParametersAreTarget
  <2>6. /\ lifecycle \in {"inactive", "unconfigured"}
        /\ lifecycle = "inactive" => bundle = Target /\ VerifiedWaits
        /\ ~Stale(requests.change_state)
      BY <1>2, <1>8, <2>1 DEF Placed, BeforeActivation
  <2>7. /\ VerifiedWaits => VerifiedWaits'
        /\ ~Stale(requests.change_state)'
      BY <2>4, <2>6 DEF VerifiedWaits, Stale
  <2>8. ParametersAreTarget' /\ BeforeActivation'
      BY <2>2, <2>3, <2>4, <2>5, <2>6, <2>7
         DEF ParametersAreTarget, BeforeActivation
  <2>9. Place'
      BY <2>2, <2>3, <2>4, <2>8
         DEF Place, BlankUntilConfigured, TargetLoaded, AfterActivation,
             BeforeTransaction, Setting, Configuring, Verifying, Activating
  <2>10. call' \in DOMAIN Calls[step]
      BY <2>1, <2>2 DEF Calls, Activating, ActivateCalls
  <2>11. QED  BY <1>1, <1>3, <2>2, <2>9, <2>10, CallKeeps
<1>9. QED  BY <1>6, <1>7, <1>8 DEF ChangeState

LEMMA ParametersSetKeeps ==
    ASSUME ReconfigurationInv, ParametersSet
    PROVE  ReconfigurationInv'
<1>1. /\ Working /\ awaiting = "set_parameters" /\ reply # "none" /\ Free
    BY DEF ParametersSet, Answered, Free
<1>2. /\ Typed /\ Placed
    BY <1>1 DEF ReconfigurationInv
<1>3. Moves
    BY <1>2 DEF ParametersSet, Answered, Moves, files, Typed, ClientTyped
<1>4. Current.op = "set_parameters"
    BY <1>1, <1>2 DEF Placed, Disciplined
<1>5. Setting /\ call = 1 /\ Len(Calls[step]) = 1
    BY <1>1, <1>2, <1>4, OtherCalls
<1>6. CASE Fails
    BY <1>1, <1>3, <1>6, FailureKeeps
<1>7. CASE reply = "accepted" /\ Proceed(call + 1)
  <2>1. Succeeds
      BY <1>5, <1>7 DEF Proceed
  <2>2. parameters = Target /\ requests.set_parameters = <<>>
      BY <1>2, <1>5, <1>7 DEF Placed, ParametersAreTarget
  <2>3. QED
      BY <1>1, <1>3, <1>5, <2>1, <2>2, SuccessKeeps
         DEF Setting, Configuring, Verifying, Activating
<1>8. QED  BY <1>6, <1>7 DEF ParametersSet

\* Calls without a service wait for nothing.
LEMMA NothingAwaited ==
    ASSUME ReconfigurationInv, Working, Current.op \notin Services
    PROVE  awaiting = "none" /\ reply = "none" /\ Free
<1>1. awaiting \in Services \cup {"none"}
    BY DEF ReconfigurationInv, Typed, ClientTyped
<1>2. Disciplined
    BY DEF ReconfigurationInv, Placed
<1>3. QED  BY <1>1, <1>2 DEF Disciplined, Free

LEMMA VerifyKeeps ==
    ASSUME ReconfigurationInv, Verify
    PROVE  ReconfigurationInv'
<1>1. /\ Working /\ Typed /\ Placed /\ Grounded
      /\ Current.op = "verify" /\ Current.op \notin Services
    BY DEF ReconfigurationInv, Verify, Services
<1>2. awaiting = "none" /\ reply = "none" /\ Free
    BY <1>1, NothingAwaited
<1>3. Moves
    BY <1>1, <1>2 DEF Verify, Moves, client, files, Typed, ClientTyped
<1>4. Verifying /\ call = 1 /\ Len(Calls[step]) = 2 /\ Current.arg = Target
    BY <1>1, OtherCalls
<1>5. CASE Fails
    BY <1>1, <1>2, <1>3, <1>5, FailureKeeps
<1>6. CASE Verifies(Current.arg) /\ Proceed(call + 1)
  <2>1. call' = 2 /\ UNCHANGED <<step, outcome>>
      BY <1>4, <1>6 DEF Proceed
  <2>2. Verifying' /\ Target' = Target
      BY <1>4, <2>1, NextTarget DEF Verifying
  <2>3. fresh /\ latest.hash = Target /\ latest.healthy
      BY <1>4, <1>6 DEF Verifies
  <2>4. verified = Target
      BY <1>1, <2>3 DEF Grounded
  <2>5. parameters = Target /\ requests.set_parameters = <<>>
      BY <1>1, <1>4 DEF Placed, ParametersAreTarget
  <2>6. /\ lifecycle = "inactive" /\ bundle = Target
        /\ requests.change_state = <<>>
        /\ fresh => wire.hash \in {"none", Target}
      BY <1>1, <1>4 DEF Placed, TargetLoaded
  <2>7. /\ UNCHANGED <<lifecycle, parameters, bundle, wire, requests, fresh,
                       verified>>
        /\ awaiting' = "none" /\ reply' = "none"
      BY <1>3 DEF Moves, gateway, diagnostics, history
  <2>8. ParametersAreTarget' /\ TargetLoaded'
      BY <2>2, <2>3, <2>4, <2>5, <2>6, <2>7
         DEF ParametersAreTarget, TargetLoaded
  <2>9. Place'
      BY <2>2, <2>7, <2>8
         DEF Place, BlankUntilConfigured, BeforeActivation, AfterActivation,
             BeforeTransaction, Setting, Configuring, Verifying, Activating
  <2>10. call' \in DOMAIN Calls[step]
      BY <1>4, <2>1 DEF Calls, Verifying, VerifyCalls
  <2>11. QED  BY <1>1, <1>2, <1>3, <2>1, <2>9, <2>10, CallKeeps
<1>7. QED  BY <1>5, <1>6 DEF Verify

LEMMA RequireIdentityKeeps ==
    ASSUME ReconfigurationInv, RequireIdentity
    PROVE  ReconfigurationInv'
<1>1. /\ Working /\ Typed /\ Placed
      /\ Current.op = "hash" /\ Current.op \notin Services
    BY DEF ReconfigurationInv, RequireIdentity, Services
<1>2. awaiting = "none" /\ reply = "none" /\ Free
    BY <1>1, NothingAwaited
<1>3. Moves
    BY <1>1, <1>2 DEF RequireIdentity, Moves, client, files, Typed,
                      ClientTyped
<1>4. \/ step = "PRECHECK" /\ call = 1 /\ Len(Calls[step]) = 1
      \/ Verifying /\ call = 2 /\ Len(Calls[step]) = 2
      \/ Activating /\ call = 4 /\ Len(Calls[step]) = 4
    BY <1>1, OtherCalls
<1>5. CASE Fails
    BY <1>1, <1>2, <1>3, <1>5, FailureKeeps
<1>6. CASE Proceed(call + 1)
  <2>1. Succeeds
    <3>1. call = Len(Calls[step]) /\ call \in Nat
      <4>1. call = Len(Calls[step])
        <5>1. CASE call = 1 /\ Len(Calls[step]) = 1
            BY <5>1
        <5>2. CASE call = 2 /\ Len(Calls[step]) = 2
            BY <5>2
        <5>3. CASE call = 4 /\ Len(Calls[step]) = 4
            BY <5>3
        <5>4. QED  BY <1>4, <5>1, <5>2, <5>3
      <4>2. call \in Nat
          BY <1>1 DEF Typed, ClientTyped
      <4>3. QED  BY <4>1, <4>2
    <3>2. call + 1 > Len(Calls[step])
        BY <3>1
    <3>3. QED  BY <1>6, <3>2 DEF Proceed
  <2>2. QED
      BY <1>1, <1>2, <1>3, <1>4, <2>1, SuccessKeeps
         DEF Setting, Configuring, Verifying, Activating
<1>7. QED  BY <1>5, <1>6 DEF RequireIdentity

LEMMA CommitCandidateKeeps ==
    ASSUME ReconfigurationInv, CommitCandidate
    PROVE  ReconfigurationInv'
<1>1. /\ Working /\ Typed
      /\ Current.op = "write" /\ Current.op \notin Services
    BY DEF ReconfigurationInv, CommitCandidate, Services
<1>2. awaiting = "none" /\ reply = "none" /\ Free
    BY <1>1, NothingAwaited
<1>3. lastKnownGood' \in Configs
    BY <1>1 DEF CommitCandidate, Typed, ClientTyped, Configs
<1>4. Moves
    BY <1>1, <1>2, <1>3 DEF CommitCandidate, Moves, client, Typed,
                            ClientTyped
<1>5. step = "COMMIT_CANDIDATE"
    BY <1>1, OtherCalls
<1>6. CASE Fails
    BY <1>1, <1>2, <1>4, <1>6, FailureKeeps
<1>7. CASE Succeeds
    BY <1>1, <1>2, <1>4, <1>5, <1>7, SuccessKeeps
       DEF Setting, Configuring, Verifying, Activating
<1>8. QED  BY <1>6, <1>7 DEF CommitCandidate

-----------------------------------------------------------------------------
\* The queues when the command gives up on its requests.
LEMMA QueuesTyped ==
    ASSUME Typed
    PROVE  /\ requests.change_state \in Seq(Requests(Transitions))
           /\ requests.set_parameters \in Seq(Requests(Configs))
           /\ DOMAIN requests = {"change_state", "set_parameters"}
    BY DEF Typed, GatewayTyped, Requests

LEMMA GivingUp ==
    ASSUME Typed, requests' = [s \in DOMAIN requests |-> Forget(requests[s])]
    PROVE  /\ requests'.change_state = Forget(requests.change_state)
           /\ requests'.set_parameters = Forget(requests.set_parameters)
           /\ requests' \in
                [change_state : Seq([arg : Transitions, live : BOOLEAN]),
                 set_parameters : Seq([arg : Configs, live : BOOLEAN])]
<1>1. /\ requests.change_state \in Seq(Requests(Transitions))
      /\ requests.set_parameters \in Seq(Requests(Configs))
      /\ DOMAIN requests = {"change_state", "set_parameters"}
    BY QueuesTyped
<1>2. /\ requests'.change_state = Forget(requests.change_state)
      /\ requests'.set_parameters = Forget(requests.set_parameters)
    BY <1>1
<1>3. /\ Forget(requests.change_state) \in Seq(Requests(Transitions))
      /\ Forget(requests.set_parameters) \in Seq(Requests(Configs))
    BY <1>1, Forgotten
<1>4. requests' = [change_state |-> Forget(requests.change_state),
                   set_parameters |-> Forget(requests.set_parameters)]
    BY <1>1
<1>5. QED  BY <1>2, <1>3, <1>4 DEF Requests

\* Giving up arms nothing.
LEMMA GivingUpArmed ==
    ASSUME Typed, Armed,
           requests' = [s \in DOMAIN requests |-> Forget(requests[s])],
           UNCHANGED <<lifecycle, verified, bundle, wire>>
    PROVE  Armed'
<1>1. requests'.change_state = Forget(requests.change_state)
    BY GivingUp
<1>2. requests.change_state \in Seq(Requests(Transitions))
    BY QueuesTyped
<1>3. /\ DOMAIN Forget(requests.change_state) = DOMAIN requests.change_state
      /\ \A i \in DOMAIN requests.change_state :
            Forget(requests.change_state)[i].arg
              = requests.change_state[i].arg
    BY <1>2, Forgotten
<1>4. VerifiedWaits' = VerifiedWaits
    BY DEF VerifiedWaits
<1>5. QED  BY <1>1, <1>3, <1>4 DEF Armed

LEMMA TimeOutKeeps ==
    ASSUME ReconfigurationInv, TimeOut
    PROVE  ReconfigurationInv'
<1>1. /\ Working /\ awaiting # "none"
      /\ awaiting' = "none" /\ reply' = "none" /\ attempts' = 0 /\ Fails
      /\ requests' = [s \in DOMAIN requests |-> Forget(requests[s])]
      /\ UNCHANGED <<lifecycle, parameters, bundle, wire, latest, fresh,
                     plan, lastKnownGood, manifest, stage, installed, lost,
                     quiesced, verified>>
    BY DEF TimeOut, gateway, diagnostics, files, history
<1>2. Typed /\ Grounded /\ Ended /\ Armed /\ Placed
    BY <1>1 DEF ReconfigurationInv
<1>3. /\ requests'.change_state = Forget(requests.change_state)
      /\ requests'.set_parameters = Forget(requests.set_parameters)
      /\ requests' \in
           [change_state : Seq([arg : Transitions, live : BOOLEAN]),
            set_parameters : Seq([arg : Configs, live : BOOLEAN])]
    BY <1>1, <1>2, GivingUp
<1>4. outcome = "RUNNING" /\ stage = "transaction" /\ step # "END"
    BY <1>1, <1>2 DEF Ended, Working
<1>5. /\ call' = 1
      /\ \/ /\ step \in {"PRECONDITION", "PRECHECK"}
            /\ step' = "END" /\ outcome' = "REJECTED"
         \/ /\ step' = "END" /\ outcome' = "ROLLBACK_FAILED"
         \/ /\ step' = "CLEANUP_CANDIDATE" /\ outcome' = "RUNNING"
            /\ ~RollingBack
    BY <1>1, <1>4, Failures, Directions
<1>6. Typed'
  <2>1. step' \in DOMAIN Calls
        /\ (step' # "END" => 1 \in DOMAIN Calls[step'])
      BY <1>5 DEF Calls, CleanupCalls
  <2>2. GatewayTyped'
      BY <1>1, <1>2, <1>3 DEF Typed, GatewayTyped
  <2>3. ClientTyped'
      BY <1>1, <1>2, <1>5, <2>1, ReconfigurationAssumption
         DEF Typed, ClientTyped
  <2>4. QED  BY <2>2, <2>3 DEF Typed
<1>7. Grounded' /\ Armed'
    BY <1>1, <1>2, GivingUpArmed DEF Grounded
<1>8. /\ requests.change_state \in Seq(Requests(Transitions))
      /\ requests.set_parameters \in Seq(Requests(Configs))
    BY <1>2, QueuesTyped
<1>9. Current.arg \in Transitions \/ ~Waiting("change_state")
  <2>1. SUFFICES ASSUME Waiting("change_state")
                 PROVE  Current.arg \in Transitions
      OBVIOUS
  <2>2. Current.op = "change_state"
      BY <1>2, <2>1 DEF Placed, Disciplined, Waiting
  <2>3. QED  BY <1>1, <1>2, <2>2, ChangeCalls DEF Transitions
<1>10. Current.arg \in Configs \/ ~Waiting("set_parameters")
  <2>1. SUFFICES ASSUME Waiting("set_parameters")
                 PROVE  Current.arg \in Configs
      OBVIOUS
  <2>2. Current.op = "set_parameters"
      BY <1>2, <2>1 DEF Placed, Disciplined, Waiting
  <2>3. QED  BY <1>1, <1>2, <2>2, OtherCalls DEF Target, Configs
<1>11. ~RollingBack => \/ requests.change_state = <<>>
                       \/ Waiting("change_state")
                          /\ requests.change_state = <<Mine>>
    BY <1>2 DEF Placed, QueuesKept, Kept
<1>12. ~RollingBack => \/ requests.set_parameters = <<>>
                       \/ Waiting("set_parameters")
                          /\ requests.set_parameters = <<Mine>>
    BY <1>2 DEF Placed, QueuesKept, Kept
<1>13. Ended'
  <2>1. CASE step' = "END" /\ outcome' = "REJECTED"
             /\ step \in {"PRECONDITION", "PRECHECK"}
    <3>1. Current.op # "change_state" /\ ~RollingBack
      <4>1. Current.op # "change_state"
          BY <1>1, <1>2, <2>1, Script, Operations
      <4>2. QED  BY <2>1, <4>1, Directions
    <3>2. ~Waiting("change_state")
        BY <1>2, <3>1 DEF Placed, Disciplined, Waiting
    <3>3. requests'.change_state = <<>>
        BY <1>3, <1>8, <1>11, <3>1, <3>2, Forgotten
    <3>4. QED  BY <1>1, <1>4, <2>1, <3>3 DEF Ended, Working
  <2>2. CASE step' = "END" /\ outcome' = "ROLLBACK_FAILED"
      BY <1>1, <1>4, <2>2 DEF Ended, Working, Settled
  <2>3. CASE step' = "CLEANUP_CANDIDATE" /\ outcome' = "RUNNING"
      BY <1>1, <1>4, <2>3 DEF Ended, Working, Settled
  <2>4. QED  BY <1>5, <2>1, <2>2, <2>3
<1>14. ASSUME Working' PROVE Placed'
  <2>1. step' = "CLEANUP_CANDIDATE" /\ outcome' = "RUNNING" /\ ~RollingBack
      BY <1>5, <1>14 DEF Working
  <2>2. RollingBack'
      BY <2>1, NextDirection
  <2>3. Disciplined'
      BY <1>1, <2>1 DEF Disciplined
  <2>4. /\ ~Waiting("change_state")' /\ ~Waiting("set_parameters")'
      BY <1>1 DEF Waiting
  <2>5. \/ requests'.change_state = <<>>
        \/ \E a \in Transitions : requests'.change_state = <<Left(a)>>
      BY <1>3, <1>8, <1>9, <1>11, <2>1, Forgotten DEF Mine
  <2>6. \/ requests'.set_parameters = <<>>
        \/ \E a \in Configs : requests'.set_parameters = <<Left(a)>>
      BY <1>3, <1>8, <1>10, <1>12, <2>1, Forgotten DEF Mine
  <2>7. QueuesKept'
      BY <2>2, <2>4, <2>5, <2>6 DEF QueuesKept, Kept
  <2>8. QED
      BY <1>1, <2>1, <2>3, <2>4, <2>7
         DEF Placed, BlankUntilConfigured, SilentUntilConfigured,
             ParametersAreTarget, TargetLoaded, BeforeActivation,
             AfterActivation, BeforeTransaction, Setting, Configuring,
             Verifying, Activating
<1>15. QED  BY <1>6, <1>7, <1>13, <1>14, <1>2 DEF ReconfigurationInv

LEMMA CrashKeeps ==
    ASSUME ReconfigurationInv, Crash
    PROVE  ReconfigurationInv'
<1>1. /\ stage \in {"transaction", "catch"} /\ stage' = "crashed"
      /\ requests' = [s \in DOMAIN requests |-> Forget(requests[s])]
      /\ outcome' = IF outcome = "RUNNING" THEN "CRASHED" ELSE outcome
      /\ UNCHANGED <<lifecycle, parameters, bundle, wire, awaiting, reply,
                     attempts, latest, fresh, plan, step, call,
                     lastKnownGood, manifest, installed, lost, quiesced,
                     verified>>
    BY DEF Crash, gateway, client, diagnostics, history
<1>2. Typed /\ Grounded /\ Ended /\ Armed
    BY DEF ReconfigurationInv
<1>3. /\ requests'.change_state = Forget(requests.change_state)
      /\ requests' \in
           [change_state : Seq([arg : Transitions, live : BOOLEAN]),
            set_parameters : Seq([arg : Configs, live : BOOLEAN])]
    BY <1>1, <1>2, GivingUp
<1>4. Typed'
    BY <1>1, <1>2, <1>3 DEF Typed, GatewayTyped, ClientTyped
<1>5. Grounded' /\ Armed'
    BY <1>1, <1>2, GivingUpArmed DEF Grounded
<1>6. ~Working' /\ outcome' # "RUNNING"
    BY <1>1 DEF Working
<1>7. outcome' \in Settled => requests'.change_state = <<>>
  <2>1. outcome' \in Settled => outcome \in Settled
      BY <1>1 DEF Settled
  <2>2. requests.change_state = <<>> => requests'.change_state = <<>>
      BY <1>2, <1>3, QueuesTyped, Forgotten
  <2>3. QED  BY <1>2, <2>1, <2>2 DEF Ended
<1>8. Ended'
    BY <1>1, <1>6, <1>7 DEF Ended
<1>9. QED  BY <1>4, <1>5, <1>6, <1>8 DEF ReconfigurationInv

LEMMA WritesKeep ==
    ASSUME ReconfigurationInv, WriteResult \/ WriteRejection
    PROVE  ReconfigurationInv'
<1>1. /\ stage' \in {"done", "catch"} /\ ~Working
      /\ UNCHANGED <<lifecycle, parameters, bundle, wire, requests, awaiting,
                     reply, attempts, latest, fresh, plan, step, call,
                     outcome, lastKnownGood, installed, lost, quiesced,
                     verified>>
    BY DEF WriteResult, WriteRejection, Working, gateway, client,
           diagnostics, history
<1>2. Typed /\ Grounded /\ Ended /\ Armed
    BY DEF ReconfigurationInv
<1>3. step = "END"
    BY <1>2 DEF WriteResult, WriteRejection, Ended
<1>4. Typed' /\ Grounded'
    BY <1>1, <1>2 DEF Typed, GatewayTyped, ClientTyped, Grounded
<1>5. Ended' /\ Armed' /\ ~Working'
    BY <1>1, <1>2, <1>3 DEF Ended, Armed, VerifiedWaits, Working
<1>6. QED  BY <1>4, <1>5 DEF ReconfigurationInv

-----------------------------------------------------------------------------
\* What the command sends.
LEMMA SendingReads ==
    ASSUME ReconfigurationInv, Send, Current.op = "get_state"
    PROVE  ReconfigurationInv'
<1>1. /\ Working /\ awaiting = "none" /\ awaiting' = "get_state"
      /\ Current # Change("configure")
      /\ UNCHANGED <<lifecycle, parameters, bundle, wire, requests, reply,
                     attempts, latest, fresh, plan, step, call, outcome,
                     lastKnownGood, stage, installed, lost, quiesced,
                     verified>>
    BY Operations DEF Send, gateway, files
<1>2. Typed /\ Grounded /\ Ended /\ Armed /\ Placed
    BY <1>1 DEF ReconfigurationInv
<1>3. reply = "none"
    BY <1>1, <1>2 DEF Placed, Disciplined
<1>4. Typed' /\ Grounded'
    BY <1>1, <1>2 DEF Typed, GatewayTyped, ClientTyped, Grounded, Services
<1>5. Ended' /\ Armed'
    BY <1>1, <1>2 DEF Ended, Armed, VerifiedWaits, Working
<1>6. Current' = Current /\ Target' = Target /\ (RollingBack' <=> RollingBack)
    BY <1>1, NextTarget DEF Current
<1>7. Disciplined'
    BY <1>1, <1>2, <1>3, <1>6 DEF Placed, Disciplined
<1>8. /\ ~Waiting("change_state") /\ ~Waiting("set_parameters")
      /\ ~Waiting("change_state")' /\ ~Waiting("set_parameters")'
    BY <1>1 DEF Waiting
<1>9. QueuesKept'
    BY <1>1, <1>2, <1>6, <1>8 DEF Placed, QueuesKept, Kept
<1>10. Blank => Blank'
    BY <1>1 DEF Blank, Stale
<1>11. BlankUntilConfigured'
  <2>1. Setting' = Setting /\ Configuring' = Configuring
      BY <1>1 DEF Setting, Configuring
  <2>2. QED
      BY <1>1, <1>2, <1>3, <1>10, <2>1 DEF Placed, BlankUntilConfigured
<1>12. SilentUntilConfigured'
    BY <1>8 DEF SilentUntilConfigured
<1>13. /\ Setting' = Setting /\ Configuring' = Configuring
       /\ Verifying' = Verifying /\ Activating' = Activating
    BY <1>1 DEF Setting, Configuring, Verifying, Activating
<1>14. ParametersAreTarget' /\ TargetLoaded'
    BY <1>1, <1>2, <1>6, <1>13 DEF Placed, ParametersAreTarget, TargetLoaded
<1>15. VerifiedWaits' = VerifiedWaits
       /\ Stale(requests.change_state)' = Stale(requests.change_state)
    BY <1>1 DEF VerifiedWaits, Stale
<1>16. BeforeActivation'
    BY <1>1, <1>2, <1>6, <1>13, <1>15 DEF Placed, BeforeActivation
<1>17. AfterActivation' /\ BeforeTransaction'
    BY <1>1, <1>2, <1>6, <1>13
       DEF Placed, AfterActivation, BeforeTransaction, Switch!Up
<1>18. QED
    BY <1>4, <1>5, <1>7, <1>9, <1>11, <1>12, <1>14, <1>16, <1>17
       DEF ReconfigurationInv, Placed

\* A request at the end of its queue.
LEMMA Appended ==
    ASSUME Typed, NEW op \in {"change_state", "set_parameters"}, NEW r,
           r \in Requests(IF op = "change_state" THEN Transitions
                          ELSE Configs),
           requests' = [requests EXCEPT ![op] = Append(@, r)]
    PROVE  /\ requests' \in
                [change_state : Seq([arg : Transitions, live : BOOLEAN]),
                 set_parameters : Seq([arg : Configs, live : BOOLEAN])]
           /\ op = "change_state"
                => /\ requests'.change_state = Append(requests.change_state, r)
                   /\ requests'.set_parameters = requests.set_parameters
           /\ op = "set_parameters"
                => /\ requests'.set_parameters
                        = Append(requests.set_parameters, r)
                   /\ requests'.change_state = requests.change_state
<1>1. /\ requests.change_state \in Seq(Requests(Transitions))
      /\ requests.set_parameters \in Seq(Requests(Configs))
      /\ DOMAIN requests = {"change_state", "set_parameters"}
      /\ requests = [change_state |-> requests.change_state,
                     set_parameters |-> requests.set_parameters]
    BY DEF Typed, GatewayTyped, Requests
<1>2. CASE op = "change_state"
  <2>1. requests' = [change_state |-> Append(requests.change_state, r),
                     set_parameters |-> requests.set_parameters]
      BY <1>1, <1>2
  <2>2. Append(requests.change_state, r) \in Seq(Requests(Transitions))
      BY <1>1, <1>2, AppendProperties
  <2>3. QED  BY <1>1, <1>2, <2>1, <2>2 DEF Requests
<1>3. CASE op = "set_parameters"
  <2>1. requests' = [change_state |-> requests.change_state,
                     set_parameters |-> Append(requests.set_parameters, r)]
      BY <1>1, <1>3
  <2>2. Append(requests.set_parameters, r) \in Seq(Requests(Configs))
      BY <1>1, <1>3, AppendProperties
  <2>3. QED  BY <1>1, <1>3, <2>1, <2>2 DEF Requests
<1>4. QED  BY <1>2, <1>3

\* A kept queue and the request that follows.
LEMMA KeptAppended ==
    ASSUME NEW queue, NEW op, NEW args, ~Waiting(op),
           Kept(queue, op, args)
    PROVE  /\ \/ queue = <<>> /\ Append(queue, Mine) = <<Mine>>
              \/ /\ RollingBack
                 /\ \E a \in args : /\ queue = <<Left(a)>>
                                    /\ Append(queue, Mine)
                                         = <<Left(a), Mine>>
           /\ Stale(Append(queue, Mine)) <=> Stale(queue)
           /\ Stale(queue) => Head(Append(queue, Mine)) = Head(queue)
<1>1. Mine.live = TRUE
    BY DEF Mine
<1>2. CASE queue = <<>>
  <2>1. Append(queue, Mine) = <<Mine>>
      BY <1>2, Short
  <2>2. Head(<<Mine>>) = Mine
      BY Short
  <2>3. QED  BY <1>1, <1>2, <2>1, <2>2 DEF Stale
<1>3. CASE RollingBack /\ \E a \in args : queue = <<Left(a)>>
  <2>1. PICK a \in args : queue = <<Left(a)>>
      BY <1>3
  <2>2. Append(queue, Mine) = <<Left(a), Mine>>
      BY <2>1, Short
  <2>3. /\ Head(<<Left(a), Mine>>) = Left(a) /\ Head(<<Left(a)>>) = Left(a)
        /\ <<Left(a)>> # <<>> /\ <<Left(a), Mine>> # <<>>
      BY Short
  <2>4. QED  BY <1>3, <2>1, <2>2, <2>3 DEF Stale
<1>4. QED  BY <1>2, <1>3, FreeQueue

LEMMA SendingChanges ==
    ASSUME ReconfigurationInv, Send, Current.op = "change_state"
    PROVE  ReconfigurationInv'
<1>1. /\ Working /\ awaiting = "none" /\ awaiting' = "change_state"
      /\ requests' = [requests EXCEPT !["change_state"] = Append(@, Mine)]
      /\ IF Current = Change("configure")
         THEN fresh' = FALSE /\ verified' = "none"
         ELSE UNCHANGED <<fresh, verified>>
      /\ UNCHANGED <<lifecycle, parameters, bundle, wire, reply,
                     attempts, latest, plan, step, call, outcome,
                     lastKnownGood, stage, installed, lost, quiesced>>
    BY DEF Send, gateway, files, Mine
<1>2. Typed /\ Grounded /\ Ended /\ Armed /\ Placed
    BY <1>1 DEF ReconfigurationInv
<1>3. reply = "none"
    BY <1>1, <1>2 DEF Placed, Disciplined
<1>4. \/ step = "DEACTIVATE_CURRENT" /\ Current.arg = "deactivate"
      \/ step = "CLEANUP_CURRENT" /\ Current.arg = "cleanup"
      \/ Configuring /\ call = 1 /\ Current.arg = "configure"
      \/ step = "CLEANUP_CANDIDATE" /\ Current.arg = "deactivate"
      \/ step = "CLEANUP_CANDIDATE" /\ Current.arg = "cleanup"
      \/ Activating /\ call = 2 /\ Current.arg = "activate"
    BY <1>1, <1>2, ChangeCalls
<1>5. Mine \in Requests(Transitions) /\ Mine.arg = Current.arg
    BY <1>4 DEF Mine, Requests, Transitions
<1>6. /\ requests' \in
           [change_state : Seq([arg : Transitions, live : BOOLEAN]),
            set_parameters : Seq([arg : Configs, live : BOOLEAN])]
      /\ requests'.change_state = Append(requests.change_state, Mine)
      /\ requests'.set_parameters = requests.set_parameters
    BY <1>1, <1>2, <1>5, Appended
<1>7. /\ Current' = Current /\ Target' = Target
      /\ (RollingBack' <=> RollingBack) /\ Mine' = Mine
    BY <1>1, NextTarget DEF Current, Mine
<1>8. /\ ~Waiting("change_state") /\ ~Waiting("set_parameters")
      /\ Waiting("change_state")' /\ ~Waiting("set_parameters")'
    BY <1>1, <1>3 DEF Waiting
<1>9. /\ \/ requests.change_state = <<>>
            /\ requests'.change_state = <<Mine>>
         \/ /\ RollingBack
            /\ \E a \in Transitions :
                  /\ requests.change_state = <<Left(a)>>
                  /\ requests'.change_state = <<Left(a), Mine>>
      /\ Stale(requests'.change_state) <=> Stale(requests.change_state)
      /\ Stale(requests.change_state)
           => Head(requests'.change_state) = Head(requests.change_state)
  <2> DEFINE queue == requests.change_state
  <2>1. /\ Kept(queue, "change_state", Transitions)
        /\ ~Waiting("change_state")
      BY <1>2, <1>8 DEF Placed, QueuesKept
  <2>2. requests'.change_state = Append(queue, Mine)
      BY <1>6
  <2> HIDE DEF queue
  <2>3. /\ \/ queue = <<>> /\ Append(queue, Mine) = <<Mine>>
           \/ /\ RollingBack
              /\ \E a \in Transitions :
                    /\ queue = <<Left(a)>>
                    /\ Append(queue, Mine) = <<Left(a), Mine>>
        /\ Stale(Append(queue, Mine)) <=> Stale(queue)
        /\ Stale(queue) => Head(Append(queue, Mine)) = Head(queue)
      BY <2>1, KeptAppended
  <2>4. /\ \/ queue = <<>>
              /\ requests'.change_state = <<Mine>>
           \/ /\ RollingBack
              /\ \E a \in Transitions :
                    /\ queue = <<Left(a)>>
                    /\ requests'.change_state = <<Left(a), Mine>>
        /\ Stale(requests'.change_state) <=> Stale(queue)
        /\ Stale(queue) => Head(requests'.change_state) = Head(queue)
      BY <2>2, <2>3
  <2>5. QED  BY <2>4 DEF queue
<1>10. Kept(requests.change_state, "change_state", Transitions)'
    BY <1>7, <1>8, <1>9 DEF Kept
<1>11. Kept(requests.set_parameters, "set_parameters", Configs)'
    BY <1>2, <1>6, <1>7, <1>8 DEF Placed, QueuesKept, Kept
<1>12. Typed'
  <2>1. fresh' \in BOOLEAN
      BY <1>1, <1>2 DEF Typed, ClientTyped
  <2>2. verified' \in Configs \cup {"none"}
      BY <1>1, <1>2 DEF Typed, GatewayTyped
  <2>3. GatewayTyped'
      BY <1>1, <1>2, <1>6, <2>2 DEF Typed, GatewayTyped
  <2>4. ClientTyped'
      BY <1>1, <1>2, <2>1 DEF Typed, ClientTyped, Services
  <2>5. QED  BY <2>3, <2>4 DEF Typed
<1>13. /\ Grounded'
    BY <1>1, <1>2 DEF Grounded
<1>14. outcome = "RUNNING"
    BY <1>1, <1>2 DEF Ended
<1>15. Ended'
    BY <1>1, <1>2, <1>14 DEF Ended, Working, Settled
<1>16. /\ Setting' = Setting /\ Configuring' = Configuring
       /\ Verifying' = Verifying /\ Activating' = Activating
    BY <1>1 DEF Setting, Configuring, Verifying, Activating
<1>17. Disciplined'
    BY <1>1, <1>2, <1>3, <1>7 DEF Placed, Disciplined, Send
<1>18. Blank => Blank'
    BY <1>1, <1>9 DEF Blank
<1>19. BlankUntilConfigured'
    BY <1>1, <1>2, <1>3, <1>16, <1>18 DEF Placed, BlankUntilConfigured
<1>20. Configuring => Current = Change("configure")
    BY <1>1, <1>2, <1>4, Script DEF Configuring, Activating
<1>21. SilentUntilConfigured'
    BY <1>1, <1>16, <1>20 DEF SilentUntilConfigured
<1>22. ParametersAreTarget'
    BY <1>1, <1>2, <1>3, <1>6, <1>7, <1>16
       DEF Placed, ParametersAreTarget
<1>23. ~Verifying /\ ~Setting
    BY <1>4 DEF Setting, Configuring, Verifying, Activating
<1>24. TargetLoaded'
  <2>1. Configuring => call = 1
      BY <1>4 DEF Configuring, Activating
  <2>2. QED  BY <1>1, <1>3, <1>16, <1>23, <2>1 DEF TargetLoaded
<1>25. Current.arg # "configure" => UNCHANGED <<fresh, verified>>
    BY <1>1, Operations
<1>26. ASSUME Activating
       PROVE  /\ call = 2 /\ lifecycle = "inactive" /\ bundle = Target
              /\ VerifiedWaits /\ VerifiedWaits'
              /\ requests'.change_state = <<Mine>>
  <2>1. call = 2 /\ Current.arg = "activate"
      BY <1>4, <1>26 DEF Configuring, Activating
  <2>2. /\ lifecycle = "inactive" /\ bundle = Target /\ VerifiedWaits
        /\ ~Stale(requests.change_state)
      BY <1>2, <1>3, <1>26, <2>1 DEF Placed, BeforeActivation
  <2>3. requests'.change_state = <<Mine>>
    <3>1. \A a : Stale(<<Left(a)>>)
        BY Short DEF Stale, Left
    <3>2. QED  BY <1>9, <2>2, <3>1
  <2>4. VerifiedWaits'
      BY <1>1, <1>25, <2>1, <2>2 DEF VerifiedWaits
  <2>5. QED  BY <2>1, <2>2, <2>3, <2>4
<1>27. BeforeActivation'
  <2>1. ~Stale(<<Mine>>)
      BY Short DEF Stale, Mine
  <2>2. QED
      BY <1>1, <1>3, <1>7, <1>9, <1>16, <1>26, <2>1 DEF BeforeActivation
<1>28. AfterActivation' /\ BeforeTransaction'
  <2>1. /\ step \notin {"COMMIT_CANDIDATE", "PRECONDITION", "PRECHECK"}
      BY <1>4 DEF Configuring, Activating
  <2>2. QED
      BY <1>1, <1>3, <1>16, <1>26, <2>1
         DEF AfterActivation, BeforeTransaction
<1>29. Armed'
  <2>1. SUFFICES ASSUME NEW i \in DOMAIN requests'.change_state,
                        requests'.change_state[i].arg = "activate"
                 PROVE  i = 1 /\ VerifiedWaits'
      BY DEF Armed
  <2>2. CASE Activating
    <3>1. DOMAIN <<Mine>> = {1}
        BY Short
    <3>2. QED  BY <1>26, <2>1, <2>2, <3>1
  <2>3. CASE ~Activating
    <3>1. Mine.arg # "activate"
        BY <1>4, <1>5, <2>3
    <3>2. PICK a \in Transitions :
             /\ requests.change_state = <<Left(a)>>
             /\ requests'.change_state = <<Left(a), Mine>>
      <4>1. requests'.change_state # <<Mine>>
        <5>1. DOMAIN <<Mine>> = {1} /\ <<Mine>>[1] = Mine
            BY Short
        <5>2. QED  BY <2>1, <3>1, <5>1
      <4>2. QED  BY <1>9, <4>1
    <3>3. /\ i = 1 /\ a = "activate"
          /\ 1 \in DOMAIN requests.change_state
          /\ requests.change_state[1].arg = "activate"
      <4>1. /\ DOMAIN <<Left(a), Mine>> = {1, 2} /\ DOMAIN <<Left(a)>> = {1}
            /\ <<Left(a), Mine>>[1] = Left(a) /\ <<Left(a), Mine>>[2] = Mine
            /\ <<Left(a)>>[1] = Left(a)
          BY Short
      <4>2. Left(a).arg = a
          BY DEF Left
      <4>3. QED  BY <2>1, <3>1, <3>2, <4>1, <4>2
    <3>4. VerifiedWaits
        BY <1>2, <3>3 DEF Armed
    <3>5. Current.arg # "configure"
      <4>1. SUFFICES ASSUME Configuring, call = 1 PROVE FALSE
          BY <1>4
      <4>2. Blank
          BY <1>2, <1>3, <4>1 DEF Placed, BlankUntilConfigured
      <4>3. Stale(requests.change_state)
            /\ Head(requests.change_state).arg = "activate"
          BY <3>2, <3>3, Short DEF Stale, Left
      <4>4. QED  BY <4>2, <4>3 DEF Blank
    <3>6. VerifiedWaits'
        BY <1>1, <1>25, <3>4, <3>5 DEF VerifiedWaits
    <3>7. QED  BY <3>3, <3>6
  <2>4. QED  BY <2>2, <2>3
<1>30. QED
    BY <1>10, <1>11, <1>12, <1>13, <1>15, <1>17, <1>19, <1>21, <1>22, <1>24,
       <1>27, <1>28, <1>29
       DEF ReconfigurationInv, Placed, QueuesKept

LEMMA SendingParameters ==
    ASSUME ReconfigurationInv, Send, Current.op = "set_parameters"
    PROVE  ReconfigurationInv'
<1>1. /\ Working /\ awaiting = "none" /\ awaiting' = "set_parameters"
      /\ requests' = [requests EXCEPT !["set_parameters"] = Append(@, Mine)]
      /\ UNCHANGED <<lifecycle, parameters, bundle, wire, reply, fresh,
                     attempts, latest, plan, step, call, outcome,
                     lastKnownGood, stage, installed, lost, quiesced,
                     verified>>
    BY Operations DEF Send, gateway, files, Mine
<1>2. Typed /\ Grounded /\ Ended /\ Armed /\ Placed
    BY <1>1 DEF ReconfigurationInv
<1>3. reply = "none"
    BY <1>1, <1>2 DEF Placed, Disciplined
<1>4. Setting /\ call = 1 /\ Current.arg = Target
    BY <1>1, <1>2, OtherCalls
<1>5. Mine \in Requests(Configs)
    BY <1>4 DEF Mine, Requests, Configs, Target
<1>6. /\ requests' \in
           [change_state : Seq([arg : Transitions, live : BOOLEAN]),
            set_parameters : Seq([arg : Configs, live : BOOLEAN])]
      /\ requests'.set_parameters = Append(requests.set_parameters, Mine)
      /\ requests'.change_state = requests.change_state
    BY <1>1, <1>2, <1>5, Appended
<1>7. /\ Current' = Current /\ Target' = Target
      /\ (RollingBack' <=> RollingBack) /\ Mine' = Mine
    BY <1>1, NextTarget DEF Current, Mine
<1>8. /\ ~Waiting("change_state") /\ ~Waiting("set_parameters")
      /\ ~Waiting("change_state")' /\ Waiting("set_parameters")'
    BY <1>1, <1>3 DEF Waiting
<1>9. \/ requests'.set_parameters = <<Mine>>
      \/ /\ RollingBack
         /\ \E a \in Configs : requests'.set_parameters = <<Left(a), Mine>>
    BY <1>2, <1>6, <1>8, KeptAppended DEF Placed, QueuesKept
<1>10. Kept(requests.set_parameters, "set_parameters", Configs)'
    BY <1>7, <1>8, <1>9 DEF Kept
<1>11. Kept(requests.change_state, "change_state", Transitions)'
    BY <1>2, <1>6, <1>7, <1>8 DEF Placed, QueuesKept, Kept
<1>12. Typed'
    BY <1>1, <1>2, <1>6
       DEF Typed, GatewayTyped, ClientTyped, Services, Configs
<1>13. Grounded' /\ Armed'
    BY <1>1, <1>2, <1>6 DEF Grounded, Armed, VerifiedWaits
<1>14. Ended'
    BY <1>1, <1>2, <1>6 DEF Ended, Working
<1>15. Disciplined'
    BY <1>1, <1>2, <1>3, <1>7 DEF Placed, Disciplined
<1>16. Blank => Blank'
    BY <1>1, <1>6 DEF Blank, Stale
<1>17. BlankUntilConfigured'
    BY <1>2, <1>4, <1>16 DEF Placed, BlankUntilConfigured
<1>18. QED
    BY <1>1, <1>3, <1>4, <1>10, <1>11, <1>12, <1>13, <1>14, <1>15, <1>17
       DEF ReconfigurationInv, Placed, QueuesKept, SilentUntilConfigured,
           ParametersAreTarget, TargetLoaded, BeforeActivation,
           AfterActivation, BeforeTransaction, Setting, Configuring,
           Verifying, Activating

LEMMA SendKeeps ==
    ASSUME ReconfigurationInv, Send
    PROVE  ReconfigurationInv'
<1>1. Current.op \in Services
    BY DEF Send
<1>2. QED
    BY <1>1, SendingReads, SendingChanges, SendingParameters DEF Services

-----------------------------------------------------------------------------
\* What the gateway does, with the command where it was.
Remains ==
    UNCHANGED <<awaiting, attempts, plan, step, call, outcome, lastKnownGood,
                manifest, stage>>

LEMMA SamePlace ==
    ASSUME Remains
    PROVE  /\ Current' = Current /\ Mine' = Mine /\ Target' = Target
           /\ RollingBack' <=> RollingBack
           /\ Setting' <=> Setting
           /\ Configuring' <=> Configuring
           /\ Verifying' <=> Verifying
           /\ Activating' <=> Activating
           /\ Working' <=> Working
<1>1. UNCHANGED <<awaiting, step, call, stage>>
    BY DEF Remains
<1>2. Current' = Current /\ Mine' = Mine
    BY <1>1 DEF Current, Mine
<1>3. Target' = Target /\ (RollingBack' <=> RollingBack)
    BY <1>1, NextTarget
<1>4. /\ Setting' <=> Setting
      /\ Configuring' <=> Configuring
      /\ Verifying' <=> Verifying
      /\ Activating' <=> Activating
      /\ Working' <=> Working
    BY <1>1 DEF Setting, Configuring, Verifying, Activating, Working
<1>5. QED  BY <1>2, <1>3, <1>4

\* The queues stay what they are when no answer takes a request of one away.
LEMMA SameQueues ==
    ASSUME Remains, QueuesKept, UNCHANGED requests,
           Waiting("change_state")' <=> Waiting("change_state"),
           Waiting("set_parameters")' <=> Waiting("set_parameters")
    PROVE  QueuesKept'
<1>1. Mine' = Mine /\ (RollingBack' <=> RollingBack)
    BY SamePlace
<1>2. Kept(requests.change_state, "change_state", Transitions)'
    BY <1>1 DEF QueuesKept, Kept
<1>3. Kept(requests.set_parameters, "set_parameters", Configs)'
    BY <1>1 DEF QueuesKept, Kept
<1>4. QED  BY <1>2, <1>3 DEF QueuesKept

LEMMA ReceiveKeeps ==
    ASSUME ReconfigurationInv, Receive
    PROVE  ReconfigurationInv'
<1>1. /\ Working /\ wire # NoDiagnostics /\ Remains
      /\ latest' = wire /\ fresh' = TRUE /\ wire' = NoDiagnostics
      /\ verified' = IF wire.healthy THEN wire.hash ELSE verified
      /\ UNCHANGED <<lifecycle, parameters, bundle, requests, reply,
                     installed, lost, quiesced>>
    BY DEF Receive, client, files, Remains
<1>2. Typed /\ Grounded /\ Ended /\ Armed /\ Placed
    BY <1>1 DEF ReconfigurationInv
<1>3. /\ wire.hash \in Configs /\ wire.healthy \in BOOLEAN
      /\ NoDiagnostics.hash = "none" /\ NoDiagnostics \in Diagnostics
    BY <1>1, <1>2
       DEF Typed, GatewayTyped, Diagnostics, NoDiagnostics, Grounded
<1>4. verified' \in Configs \cup {"none"}
    BY <1>1, <1>2, <1>3 DEF Typed, GatewayTyped
<1>5. GatewayTyped'
    BY <1>1, <1>2, <1>3, <1>4 DEF Typed, GatewayTyped
<1>6. ClientTyped'
    BY <1>1, <1>2 DEF Typed, GatewayTyped, ClientTyped, Remains
<1>7. Grounded'
    BY <1>1, <1>2, <1>3 DEF Grounded
<1>8. Ended'
    BY <1>1, <1>2 DEF Ended, Remains, Working
<1>9. VerifiedWaits => VerifiedWaits'
  <2>1. "none" \notin Configs
      BY DEF Configs
  <2>2. SUFFICES ASSUME VerifiedWaits PROVE VerifiedWaits'
      OBVIOUS
  <2>3. wire.hash = bundle /\ verified = bundle /\ lifecycle = "inactive"
      BY <1>3, <2>1, <2>2 DEF VerifiedWaits
  <2>4. verified' = bundle /\ wire'.hash = "none"
      BY <1>1, <1>3, <2>3
  <2>5. QED  BY <1>1, <2>3, <2>4 DEF VerifiedWaits
<1>10. Armed'
    BY <1>1, <1>2, <1>9 DEF Armed
<1>11. /\ Current' = Current /\ Target' = Target
       /\ Setting' <=> Setting
       /\ Configuring' <=> Configuring
       /\ Verifying' <=> Verifying
       /\ Activating' <=> Activating
    BY <1>1, SamePlace
<1>12. QueuesKept'
  <2>1. awaiting' = awaiting /\ reply' = reply
      BY <1>1 DEF Remains
  <2>2. /\ Waiting("change_state")' <=> Waiting("change_state")
        /\ Waiting("set_parameters")' <=> Waiting("set_parameters")
      BY <2>1 DEF Waiting
  <2>3. QED  BY <1>1, <1>2, <2>2, SameQueues DEF Placed
<1>13. Disciplined' /\ BlankUntilConfigured'
  <2>1. Blank' = Blank
      BY <1>1 DEF Blank, Stale
  <2>2. Disciplined'
      BY <1>1, <1>2, <1>11 DEF Placed, Disciplined, Remains
  <2>3. BlankUntilConfigured'
      BY <1>1, <1>2, <1>11, <2>1 DEF Placed, BlankUntilConfigured, Remains
  <2>4. QED  BY <2>2, <2>3
<1>14. SilentUntilConfigured' /\ ParametersAreTarget'
    BY <1>1, <1>2, <1>11
       DEF Placed, SilentUntilConfigured, ParametersAreTarget, Remains
<1>15. TargetLoaded'
  <2>1. Verifying /\ call = 2
          => wire.hash = Target /\ verified' = Target
    <3>1. SUFFICES ASSUME Verifying, call = 2
                   PROVE  wire.hash = Target /\ verified' = Target
        OBVIOUS
    <3>2. verified = Target /\ wire.hash \in {"none", Target}
        BY <1>2, <3>1 DEF Placed, TargetLoaded
    <3>3. wire.hash = Target
        BY <1>3, <3>2 DEF Configs
    <3>4. QED  BY <1>1, <3>2, <3>3
  <2>2. QED
      BY <1>1, <1>2, <1>3, <1>11, <2>1 DEF Placed, TargetLoaded, Remains
<1>16. BeforeActivation'
  <2>1. Stale(requests.change_state)' <=> Stale(requests.change_state)
      BY <1>1 DEF Stale
  <2>2. QED
      BY <1>1, <1>2, <1>9, <1>11, <2>1 DEF Placed, BeforeActivation, Remains
<1>17. AfterActivation' /\ BeforeTransaction'
    BY <1>1, <1>2, <1>11
       DEF Placed, AfterActivation, BeforeTransaction, Switch!Up, Remains
<1>18. QED
    BY <1>5, <1>6, <1>7, <1>8, <1>10, <1>12, <1>13, <1>14, <1>15, <1>16,
       <1>17
       DEF ReconfigurationInv, Typed, Placed

\* An unconfigured gateway has nothing loaded and no activation on its way.
LEMMA UnconfiguredBlank ==
    ASSUME Typed, Armed, lifecycle = "unconfigured"
    PROVE  Blank
<1>1. SUFFICES ASSUME Stale(requests.change_state)
               PROVE  Head(requests.change_state).arg # "activate"
    BY DEF Blank
<1>2. /\ 1 \in DOMAIN requests.change_state
      /\ Head(requests.change_state) = requests.change_state[1]
  <2>1. requests.change_state # <<>>
      BY <1>1 DEF Stale
  <2>2. QED  BY <2>1, QueuesTyped
<1>3. QED  BY <1>2 DEF Armed, VerifiedWaits

LEMMA AnswerStateKeeps ==
    ASSUME ReconfigurationInv, AnswerState
    PROVE  ReconfigurationInv'
<1>1. /\ Working /\ awaiting = "get_state" /\ reply = "none" /\ Remains
      /\ reply' = lifecycle
      /\ UNCHANGED <<lifecycle, parameters, bundle, wire, requests, latest,
                     fresh, installed, lost, quiesced, verified>>
    BY DEF AnswerState, gateway, diagnostics, files, history, Remains
<1>2. Typed /\ Grounded /\ Ended /\ Armed /\ Placed
    BY <1>1 DEF ReconfigurationInv
<1>3. lifecycle \in {"unconfigured", "inactive", "active",
                     "errorprocessing"}
    BY <1>2 DEF Typed, GatewayTyped
<1>4. Typed'
  <2>1. GatewayTyped'
      BY <1>1, <1>2 DEF Typed, GatewayTyped
  <2>2. ClientTyped'
      BY <1>1, <1>2, <1>3 DEF Typed, ClientTyped, Remains
  <2>3. QED  BY <2>1, <2>2 DEF Typed
<1>5. Grounded' /\ Ended' /\ Armed'
    BY <1>1, <1>2
       DEF Grounded, Ended, Armed, VerifiedWaits, Remains, Working
<1>6. /\ Current' = Current /\ Target' = Target
      /\ Setting' <=> Setting
      /\ Configuring' <=> Configuring
      /\ Verifying' <=> Verifying
      /\ Activating' <=> Activating
    BY <1>1, SamePlace
<1>7. awaiting' = "get_state" /\ reply' # "none" /\ reply' # "accepted"
    BY <1>1, <1>3 DEF Remains
<1>8. QueuesKept'
  <2>1. /\ Waiting("change_state")' <=> Waiting("change_state")
        /\ Waiting("set_parameters")' <=> Waiting("set_parameters")
      BY <1>1, <1>7 DEF Waiting
  <2>2. QED  BY <1>1, <1>2, <2>1, SameQueues DEF Placed
<1>9. Disciplined'
    BY <1>1, <1>2, <1>3, <1>6, <1>7 DEF Placed, Disciplined, Remains
<1>10. BlankUntilConfigured'
  <2>1. Blank' <=> Blank
      BY <1>1 DEF Blank, Stale
  <2>2. lifecycle = "unconfigured" => Blank
      BY <1>2, UnconfiguredBlank
  <2>3. Setting => Blank
      BY <1>2 DEF Placed, BlankUntilConfigured
  <2>4. QED
      BY <1>1, <1>6, <1>7, <2>1, <2>2, <2>3 DEF BlankUntilConfigured
<1>11. SilentUntilConfigured'
    BY <1>7 DEF SilentUntilConfigured, Waiting
<1>12. ParametersAreTarget' /\ TargetLoaded'
    BY <1>1, <1>2, <1>6, <1>7
       DEF Placed, ParametersAreTarget, TargetLoaded, Remains
<1>13. BeforeActivation'
  <2>1. /\ VerifiedWaits' <=> VerifiedWaits
        /\ Stale(requests.change_state)' <=> Stale(requests.change_state)
      BY <1>1 DEF VerifiedWaits, Stale
  <2>2. QED
      BY <1>1, <1>2, <1>6, <1>7, <2>1 DEF Placed, BeforeActivation, Remains
<1>14. AfterActivation' /\ BeforeTransaction'
    BY <1>1, <1>2, <1>6, <1>7
       DEF Placed, AfterActivation, BeforeTransaction, Switch!Up, Remains
<1>15. QED
    BY <1>4, <1>5, <1>8, <1>9, <1>10, <1>11, <1>12, <1>13, <1>14
       DEF ReconfigurationInv, Placed

LEMMA PublishKeeps ==
    ASSUME ReconfigurationInv, PublishDiagnostics
    PROVE  ReconfigurationInv'
<1>1. /\ Working /\ lifecycle \in {"inactive", "active"} /\ Remains
      /\ UNCHANGED <<lifecycle, parameters, bundle, requests, reply, latest,
                     fresh, installed, lost, quiesced, verified>>
    BY DEF PublishDiagnostics, client, diagnostics, files, history, Remains
<1>2. Typed /\ Grounded /\ Ended /\ Armed /\ Placed
    BY <1>1 DEF ReconfigurationInv
<1>3. bundle \in Configs
    BY <1>1, <1>2 DEF Grounded
<1>4. wire' \in Diagnostics /\ wire'.hash = bundle
    BY <1>3 DEF PublishDiagnostics, Diagnostics
<1>5. Typed'
  <2>1. GatewayTyped'
      BY <1>1, <1>2, <1>4 DEF Typed, GatewayTyped
  <2>2. ClientTyped'
      BY <1>1, <1>2 DEF Typed, ClientTyped, Remains
  <2>3. QED  BY <2>1, <2>2 DEF Typed
<1>6. Grounded'
    BY <1>1, <1>2, <1>3, <1>4 DEF Grounded, Configs
<1>7. VerifiedWaits => VerifiedWaits'
    BY <1>1, <1>4 DEF VerifiedWaits
<1>8. Ended' /\ Armed'
    BY <1>1, <1>2, <1>7 DEF Ended, Armed, Remains, Working
<1>9. /\ Current' = Current /\ Target' = Target
      /\ Setting' <=> Setting
      /\ Configuring' <=> Configuring
      /\ Verifying' <=> Verifying
      /\ Activating' <=> Activating
    BY <1>1, SamePlace
<1>10. QueuesKept'
  <2>1. /\ Waiting("change_state")' <=> Waiting("change_state")
        /\ Waiting("set_parameters")' <=> Waiting("set_parameters")
      BY <1>1 DEF Waiting, Remains
  <2>2. QED  BY <1>1, <1>2, <2>1, SameQueues DEF Placed
<1>11. Disciplined' /\ BlankUntilConfigured'
  <2>1. Blank' <=> Blank
      BY <1>1 DEF Blank, Stale
  <2>2. Disciplined'
      BY <1>1, <1>2, <1>9 DEF Placed, Disciplined, Remains
  <2>3. BlankUntilConfigured'
      BY <1>1, <1>2, <1>9, <2>1 DEF Placed, BlankUntilConfigured, Remains
  <2>4. QED  BY <2>2, <2>3
<1>12. SilentUntilConfigured' /\ ParametersAreTarget' /\ TargetLoaded'
    BY <1>1, <1>2, <1>4, <1>9
       DEF Placed, SilentUntilConfigured, ParametersAreTarget, TargetLoaded,
           Remains
<1>13. BeforeActivation'
  <2>1. Stale(requests.change_state)' <=> Stale(requests.change_state)
      BY <1>1 DEF Stale
  <2>2. QED
      BY <1>1, <1>2, <1>7, <1>9, <2>1 DEF Placed, BeforeActivation, Remains
<1>14. AfterActivation' /\ BeforeTransaction'
    BY <1>1, <1>2, <1>9
       DEF Placed, AfterActivation, BeforeTransaction, Switch!Up, Remains
<1>15. QED
    BY <1>5, <1>6, <1>8, <1>10, <1>11, <1>12, <1>13, <1>14
       DEF ReconfigurationInv, Placed

LEMMA GatewayFailsKeeps ==
    ASSUME ReconfigurationInv, GatewayFails
    PROVE  ReconfigurationInv'
<1>1. /\ Remains
      /\ UNCHANGED <<parameters, wire, requests, reply, latest, fresh,
                     installed, quiesced, verified>>
    BY DEF GatewayFails, client, diagnostics, files, history, Remains
<1>2. Typed /\ Grounded /\ Ended /\ Armed
    BY DEF ReconfigurationInv
<1>3. /\ lifecycle \in {"active", "errorprocessing"}
      /\ lifecycle' \in {"errorprocessing", "unconfigured"}
      /\ bundle' \in {bundle, "none"}
      /\ lost' \in BOOLEAN /\ (quiesced \/ lost')
      /\ lost => lost'
      /\ lifecycle = "active" => lifecycle' = "errorprocessing" /\ lost'
  <2>1. CASE Transition("active", "errorprocessing") /\ lost' = TRUE
             /\ bundle' = bundle
      BY <2>1 DEF Transition
  <2>2. CASE Transition("errorprocessing", "unconfigured") /\ bundle' = "none"
             /\ UNCHANGED <<lost, quiesced>>
    <3>1. lost \in BOOLEAN /\ (quiesced \/ lost)
        BY <1>2, <2>2 DEF Grounded, Transition, Typed, GatewayTyped
    <3>2. QED  BY <2>2, <3>1 DEF Transition
  <2>3. QED  BY <2>1, <2>2 DEF GatewayFails, history
<1>4. Typed'
  <2>1. GatewayTyped'
      BY <1>1, <1>2, <1>3 DEF Typed, GatewayTyped
  <2>2. ClientTyped'
      BY <1>1, <1>2 DEF Typed, ClientTyped, Remains
  <2>3. QED  BY <2>1, <2>2 DEF Typed
<1>5. Grounded'
    BY <1>1, <1>2, <1>3 DEF Grounded
<1>6. Ended'
    BY <1>1, <1>2 DEF Ended, Remains, Working
<1>7. ~VerifiedWaits
    BY <1>3 DEF VerifiedWaits
<1>8. Armed'
    BY <1>1, <1>2, <1>7 DEF Armed
<1>9. /\ Current' = Current /\ Target' = Target
      /\ Setting' <=> Setting
      /\ Configuring' <=> Configuring
      /\ Verifying' <=> Verifying
      /\ Activating' <=> Activating
      /\ Working' <=> Working
    BY <1>1, SamePlace
<1>10. ASSUME Working PROVE Placed'
  <2>1. Placed
      BY <1>10 DEF ReconfigurationInv
  <2>2. QueuesKept'
    <3>1. /\ Waiting("change_state")' <=> Waiting("change_state")
          /\ Waiting("set_parameters")' <=> Waiting("set_parameters")
        BY <1>1 DEF Waiting, Remains
    <3>2. QED  BY <1>1, <2>1, <3>1, SameQueues DEF Placed
  <2>3. ~Blank
      BY <1>3 DEF Blank
  <2>4. Disciplined' /\ BlankUntilConfigured'
    <3>1. Disciplined'
        BY <1>1, <1>9, <2>1 DEF Placed, Disciplined, Remains
    <3>2. BlankUntilConfigured'
        BY <1>1, <1>9, <2>1, <2>3 DEF Placed, BlankUntilConfigured, Remains
    <3>3. QED  BY <3>1, <3>2
  <2>5. SilentUntilConfigured'
    <3>1. Configuring /\ Waiting("change_state") => call = 1 /\ reply = "none"
      <4>1. SUFFICES ASSUME Configuring, awaiting = "change_state"
                     PROVE  call = 1
          BY DEF Waiting
      <4>2. Current.op = "change_state"
          BY <2>1, <4>1 DEF Placed, Disciplined
      <4>3. /\ call \in 1 .. 2
            /\ call = 2 => Current = State("inactive")
          BY <1>2, <1>10, <4>1, Script
      <4>4. QED  BY <4>2, <4>3, Operations
    <3>2. ~(Configuring /\ Waiting("change_state"))
        BY <2>1, <2>3, <3>1 DEF Placed, BlankUntilConfigured
    <3>3. Waiting("change_state")' <=> Waiting("change_state")
        BY <1>1 DEF Waiting, Remains
    <3>4. QED  BY <1>9, <3>2, <3>3 DEF SilentUntilConfigured
  <2>6. ParametersAreTarget' /\ TargetLoaded'
    BY <1>1, <1>3, <1>9, <2>1
       DEF Placed, ParametersAreTarget, TargetLoaded, Remains
  <2>7. BeforeActivation'
    BY <1>1, <1>3, <1>9, <2>1 DEF Placed, BeforeActivation, Remains
  <2>8. AfterActivation'
    <3>1. Switch!Up(Target) => Switch!Up(Target)'
        BY <1>1, <1>3, <1>9 DEF Switch!Up
    <3>2. QED
        BY <1>1, <1>9, <2>1, <3>1 DEF Placed, AfterActivation, Remains
  <2>9. BeforeTransaction'
    BY <1>1, <2>1 DEF Placed, BeforeTransaction, Remains
  <2>10. QED
    BY <2>2, <2>4, <2>5, <2>6, <2>7, <2>8, <2>9 DEF Placed
<1>11. QED
    BY <1>4, <1>5, <1>6, <1>8, <1>9, <1>10 DEF ReconfigurationInv

-----------------------------------------------------------------------------
\* The request that is carried out next and those that stay.
LEMMA Taken ==
    ASSUME NEW args, NEW queue \in Seq(Requests(args)), queue # <<>>
    PROVE  /\ Head(queue) \in Requests(args)
           /\ Head(queue).arg \in args /\ Head(queue).live \in BOOLEAN
           /\ Tail(queue) \in Seq(Requests(args))
           /\ \A i \in DOMAIN Tail(queue) :
                 /\ i + 1 \in DOMAIN queue /\ i + 1 # 1
                 /\ Tail(queue)[i] = queue[i + 1]
<1>1. Head(queue) \in Requests(args) /\ Tail(queue) \in Seq(Requests(args))
    OBVIOUS
<1>2. Head(queue).arg \in args /\ Head(queue).live \in BOOLEAN
    BY <1>1 DEF Requests
<1>3. Len(queue) \in Nat /\ Len(queue) >= 1
      /\ DOMAIN queue = 1 .. Len(queue)
    OBVIOUS
<1>4. /\ DOMAIN Tail(queue) = 1 .. (Len(queue) - 1)
      /\ \A i \in 1 .. (Len(queue) - 1) : Tail(queue)[i] = queue[i + 1]
    OBVIOUS
<1>5. QED  BY <1>1, <1>2, <1>3, <1>4

\* The queue that is left of a kept one, and its first request.
LEMMA KeptTaken ==
    ASSUME NEW queue, NEW op, NEW args, Kept(queue, op, args), queue # <<>>
    PROVE  \/ /\ Waiting(op) /\ queue = <<Mine>>
              /\ Head(queue) = Mine /\ Tail(queue) = <<>>
              /\ ~Stale(queue)
           \/ /\ Waiting(op) /\ RollingBack /\ Tail(queue) = <<Mine>>
              /\ \E a \in args : Head(queue) = Left(a)
              /\ Stale(queue)
           \/ /\ ~Waiting(op) /\ RollingBack /\ Tail(queue) = <<>>
              /\ \E a \in args : Head(queue) = Left(a)
              /\ Stale(queue)
<1>1. Mine.live = TRUE /\ \A a : Left(a).live = FALSE
    BY DEF Mine, Left
<1>2. CASE Waiting(op) /\ queue = <<Mine>>
  <2>1. Head(queue) = Mine /\ Tail(queue) = <<>>
      BY <1>2, Short
  <2>2. QED  BY <1>1, <1>2, <2>1 DEF Stale
<1>3. CASE Waiting(op) /\ RollingBack
           /\ \E a \in args : queue = <<Left(a), Mine>>
  <2>1. PICK a \in args : queue = <<Left(a), Mine>>
      BY <1>3
  <2>2. Head(queue) = Left(a) /\ Tail(queue) = <<Mine>>
      BY <2>1, Short
  <2>3. QED  BY <1>1, <1>3, <2>2 DEF Stale
<1>4. CASE ~Waiting(op) /\ RollingBack /\ \E a \in args : queue = <<Left(a)>>
  <2>1. PICK a \in args : queue = <<Left(a)>>
      BY <1>4
  <2>2. Head(queue) = Left(a) /\ Tail(queue) = <<>>
      BY <2>1, Short
  <2>3. QED  BY <1>1, <1>4, <2>2 DEF Stale
<1>5. QED  BY <1>2, <1>3, <1>4 DEF Kept

\* The requests when the first one of a service has been taken.
LEMMA TakenRequests ==
    ASSUME Typed
    PROVE  /\ \A queue \in Seq(Requests(Transitions)) :
                requests' = [requests EXCEPT !.change_state = queue]
                  => /\ requests'.change_state = queue
                     /\ requests'.set_parameters = requests.set_parameters
                     /\ requests' \in
                          [change_state :
                             Seq([arg : Transitions, live : BOOLEAN]),
                           set_parameters :
                             Seq([arg : Configs, live : BOOLEAN])]
           /\ \A queue \in Seq(Requests(Configs)) :
                requests' = [requests EXCEPT !.set_parameters = queue]
                  => /\ requests'.set_parameters = queue
                     /\ requests'.change_state = requests.change_state
                     /\ requests' \in
                          [change_state :
                             Seq([arg : Transitions, live : BOOLEAN]),
                           set_parameters :
                             Seq([arg : Configs, live : BOOLEAN])]
<1>1. requests = [change_state |-> requests.change_state,
                  set_parameters |-> requests.set_parameters]
    BY DEF Typed, GatewayTyped
<1>2. /\ requests.change_state \in Seq(Requests(Transitions))
      /\ requests.set_parameters \in Seq(Requests(Configs))
    BY QueuesTyped
<1>3. ASSUME NEW queue \in Seq(Requests(Transitions)),
             requests' = [requests EXCEPT !.change_state = queue]
      PROVE  /\ requests'.change_state = queue
             /\ requests'.set_parameters = requests.set_parameters
             /\ requests' \in
                  [change_state : Seq([arg : Transitions, live : BOOLEAN]),
                   set_parameters : Seq([arg : Configs, live : BOOLEAN])]
  <2>1. requests' = [change_state |-> queue,
                     set_parameters |-> requests.set_parameters]
      BY <1>1, <1>3
  <2>2. QED  BY <1>2, <1>3, <2>1 DEF Requests
<1>4. ASSUME NEW queue \in Seq(Requests(Configs)),
             requests' = [requests EXCEPT !.set_parameters = queue]
      PROVE  /\ requests'.set_parameters = queue
             /\ requests'.change_state = requests.change_state
             /\ requests' \in
                  [change_state : Seq([arg : Transitions, live : BOOLEAN]),
                   set_parameters : Seq([arg : Configs, live : BOOLEAN])]
  <2>1. requests' = [change_state |-> requests.change_state,
                     set_parameters |-> queue]
      BY <1>1, <1>4
  <2>2. QED  BY <1>2, <1>4, <2>1 DEF Requests
<1>5. QED  BY <1>3, <1>4

LEMMA AnswerParametersKeeps ==
    ASSUME ReconfigurationInv, AnswerParameters
    PROVE  ReconfigurationInv'
<1> DEFINE queue == requests.set_parameters
<1>1. /\ queue # <<>> /\ Remains
      /\ requests' = [requests EXCEPT !.set_parameters = Tail(queue)]
      /\ \/ parameters' = Head(queue).arg
            /\ reply' = IF Head(queue).live THEN "accepted" ELSE reply
         \/ parameters' = parameters
            /\ reply' = IF Head(queue).live THEN "refused" ELSE reply
      /\ UNCHANGED <<lifecycle, bundle, wire, latest, fresh, installed, lost,
                     quiesced, verified>>
    BY DEF AnswerParameters, Respond, diagnostics, files, history, Remains
<1>2. Typed /\ Grounded /\ Ended /\ Armed
    BY DEF ReconfigurationInv
<1>3. queue \in Seq(Requests(Configs))
    BY <1>2, QueuesTyped
<1> HIDE DEF queue
<1>4. /\ Head(queue).arg \in Configs /\ Head(queue).live \in BOOLEAN
      /\ Tail(queue) \in Seq(Requests(Configs))
    BY <1>1, <1>3, Taken
<1>5. /\ requests'.set_parameters = Tail(queue)
      /\ requests'.change_state = requests.change_state
      /\ requests' \in
           [change_state : Seq([arg : Transitions, live : BOOLEAN]),
            set_parameters : Seq([arg : Configs, live : BOOLEAN])]
    BY <1>1, <1>2, <1>4, TakenRequests
<1>6. Typed'
  <2>1. parameters' \in Configs
      BY <1>1, <1>2, <1>4 DEF Typed, GatewayTyped
  <2>2. reply' \in {"none", "accepted", "refused", "unconfigured",
                    "inactive", "active", "errorprocessing"}
      BY <1>1, <1>2 DEF Typed, ClientTyped
  <2>3. GatewayTyped'
      BY <1>1, <1>2, <1>5, <2>1 DEF Typed, GatewayTyped
  <2>4. ClientTyped'
      BY <1>1, <1>2, <2>2 DEF Typed, ClientTyped, Remains
  <2>5. QED  BY <2>3, <2>4 DEF Typed
<1>7. Grounded' /\ Armed'
    BY <1>1, <1>2, <1>5 DEF Grounded, Armed, VerifiedWaits
<1>8. Ended'
    BY <1>1, <1>2, <1>5 DEF Ended, Remains, Working
<1>9. /\ Current' = Current /\ Target' = Target /\ Mine' = Mine
      /\ RollingBack' <=> RollingBack
      /\ Setting' <=> Setting
      /\ Configuring' <=> Configuring
      /\ Verifying' <=> Verifying
      /\ Activating' <=> Activating
      /\ Working' <=> Working
    BY <1>1, SamePlace
<1>10. ASSUME Working PROVE Placed'
  <2>1. Placed
      BY <1>10 DEF ReconfigurationInv
  <2>2. /\ ~Configuring /\ ~Verifying /\ ~Activating
        /\ Setting => reply # "accepted"
      BY <1>1, <2>1 DEF Placed, ParametersAreTarget, queue
  <2>3. Kept(queue, "set_parameters", Configs)
      BY <2>1 DEF Placed, QueuesKept, queue
  <2>4. Waiting("set_parameters") => /\ Setting /\ Mine.arg = Target
                                     /\ Mine.live = TRUE
    <3>1. SUFFICES ASSUME awaiting = "set_parameters"
                   PROVE  Setting /\ Current.arg = Target
        BY DEF Waiting, Mine
    <3>2. Current.op = "set_parameters"
        BY <2>1, <3>1 DEF Placed, Disciplined
    <3>3. QED  BY <1>2, <1>10, <3>2, OtherCalls
  <2>5. \/ /\ Waiting("set_parameters") /\ ~Waiting("set_parameters")'
           /\ reply' \in {"accepted", "refused"}
           /\ reply' = "accepted" => parameters' = Target
           /\ requests'.set_parameters = <<>>
        \/ /\ Waiting("set_parameters") /\ Waiting("set_parameters")'
           /\ reply' = reply /\ RollingBack
           /\ requests'.set_parameters = <<Mine>>
        \/ /\ ~Waiting("set_parameters") /\ ~Waiting("set_parameters")'
           /\ reply' = reply /\ RollingBack
           /\ requests'.set_parameters = <<>>
    <3>1. \A a : Left(a).live = FALSE
        BY DEF Left
    <3>2. awaiting' = awaiting
        BY <1>1 DEF Remains
    <3>3. CASE /\ Waiting("set_parameters") /\ Head(queue) = Mine
               /\ Tail(queue) = <<>>
      <4>1. /\ reply' \in {"accepted", "refused"}
            /\ reply' = "accepted" => parameters' = Target
          BY <1>1, <2>4, <3>3
      <4>2. QED  BY <1>5, <3>3, <4>1 DEF Waiting
    <3>4. CASE /\ RollingBack /\ \E a \in Configs : Head(queue) = Left(a)
      <4>1. Head(queue).live = FALSE
          BY <3>1, <3>4
      <4>2. reply' = reply
          BY <1>1, <4>1
      <4>3. Waiting("set_parameters")' <=> Waiting("set_parameters")
          BY <3>2, <4>2 DEF Waiting
      <4>4. \/ Waiting("set_parameters") /\ Tail(queue) = <<Mine>>
            \/ ~Waiting("set_parameters") /\ Tail(queue) = <<>>
        <5>1. Head(queue) # Mine
            BY <4>1 DEF Mine
        <5>2. QED  BY <1>1, <2>3, <5>1, KeptTaken
      <4>5. QED  BY <1>5, <3>4, <4>2, <4>3, <4>4
    <3>5. QED  BY <1>1, <2>3, <3>3, <3>4, KeptTaken
  <2>6. Kept(requests.set_parameters, "set_parameters", Configs)'
      BY <1>9, <2>5 DEF Kept
  <2>7. Waiting("set_parameters") => awaiting = "set_parameters"
                                     /\ reply = "none"
      BY DEF Waiting
  <2>8. awaiting' = awaiting /\ (awaiting # "set_parameters" => reply' = reply)
      BY <1>1, <2>5, <2>7 DEF Remains
  <2>9. Kept(requests.change_state, "change_state", Transitions)'
    <3>1. Waiting("change_state")' <=> Waiting("change_state")
        BY <2>8 DEF Waiting
    <3>2. QED  BY <1>5, <1>9, <2>1, <3>1 DEF Placed, QueuesKept, Kept
  <2>10. Disciplined'
      BY <1>1, <1>9, <2>1, <2>5, <2>7, <2>8 DEF Placed, Disciplined, Remains
  <2>11. BlankUntilConfigured'
    <3>1. Blank' <=> Blank
        BY <1>1, <1>5 DEF Blank, Stale
    <3>2. QED
        BY <1>9, <2>1, <2>2, <2>8, <3>1 DEF Placed, BlankUntilConfigured
  <2>12. ParametersAreTarget'
      BY <1>9, <2>2, <2>5 DEF ParametersAreTarget
  <2>13. SilentUntilConfigured' /\ TargetLoaded' /\ BeforeActivation'
      BY <1>9, <2>2
         DEF SilentUntilConfigured, TargetLoaded, BeforeActivation
  <2>14. AfterActivation' /\ BeforeTransaction'
      BY <1>1, <1>5, <1>9, <2>1, <2>2
         DEF Placed, AfterActivation, BeforeTransaction, Switch!Up, Remains
  <2>15. QED
      BY <2>6, <2>9, <2>10, <2>11, <2>12, <2>13, <2>14
         DEF Placed, QueuesKept
<1>11. QED
    BY <1>6, <1>7, <1>8, <1>9, <1>10 DEF ReconfigurationInv

\* What a transition that is carried out does to the gateway.
LEMMA Carried ==
    ASSUME Typed, Grounded, NEW t \in Transitions, Accepted(t) \/ Refused(t)
    PROVE
      /\ lifecycle' \in {"unconfigured", "inactive", "active",
                         "errorprocessing"}
      /\ bundle' \in {bundle, parameters, "none"}
      /\ installed' \in Configs /\ lost' \in BOOLEAN /\ quiesced' \in BOOLEAN
      /\ lifecycle' \in {"inactive", "active"} => bundle' \in Configs
      /\ lifecycle' # "active" => quiesced' \/ lost'
      /\ lifecycle = "unconfigured"
           => lifecycle' \in {"unconfigured", "inactive"}
<1>1. /\ lifecycle \in {"unconfigured", "inactive", "active",
                        "errorprocessing"}
      /\ parameters \in Configs /\ bundle \in Configs \cup {"none"}
      /\ installed \in Configs /\ lost \in BOOLEAN /\ quiesced \in BOOLEAN
      /\ lifecycle \in {"inactive", "active"} => bundle \in Configs
      /\ lifecycle # "active" => quiesced \/ lost
    BY DEF Typed, GatewayTyped, Grounded
<1>2. CASE t = "configure" /\ Accepted(t)
    BY <1>1, <1>2 DEF Accepted, Transition
<1>3. CASE t = "activate" /\ Accepted(t)
  <2>1. /\ lifecycle = "inactive" /\ lifecycle' = "active"
        /\ installed' = bundle /\ lost' = FALSE
        /\ bundle' = bundle /\ quiesced' = quiesced
      BY <1>3 DEF Accepted, Transition
  <2>2. bundle \in Configs
      BY <1>1, <2>1
  <2>3. QED  BY <1>1, <2>1, <2>2
<1>4. CASE t = "deactivate" /\ Accepted(t)
    BY <1>1, <1>4 DEF Accepted, Transition
<1>5. CASE t = "cleanup" /\ Accepted(t)
    BY <1>1, <1>5 DEF Accepted, Transition
<1>6. CASE Refused(t)
    BY <1>1, <1>6 DEF Refused, Transition
<1>7. QED  BY <1>2, <1>3, <1>4, <1>5, <1>6 DEF Transitions

\* Nothing that is demanded of a blank gateway moves on a request left behind.
LEMMA LeftKeepsBlank ==
    ASSUME Typed, Blank, Stale(requests.change_state),
           NEW t \in Transitions, Head(requests.change_state).arg = t,
           Accepted(t) \/ Refused(t)
    PROVE  /\ lifecycle = "unconfigured"
           /\ lifecycle' \in {"unconfigured", "inactive"}
<1>1. lifecycle = "unconfigured" /\ t # "activate"
    BY DEF Blank
<1>2. CASE Accepted(t)
    BY <1>1, <1>2 DEF Accepted, Transition
<1>3. CASE Refused(t)
    BY <1>1, <1>3 DEF Refused, Transition
<1>4. QED  BY <1>1, <1>2, <1>3

LEMMA AnswerChangeKeeps ==
    ASSUME ReconfigurationInv, AnswerChange
    PROVE  ReconfigurationInv'
<1> DEFINE queue == requests.change_state
           t == Head(queue).arg
<1>1. /\ queue # <<>> /\ Remains
      /\ requests' = [requests EXCEPT !.change_state = Tail(queue)]
      /\ \/ Accepted(t)
            /\ reply' = IF Head(queue).live THEN "accepted" ELSE reply
         \/ Refused(t)
            /\ reply' = IF Head(queue).live THEN "refused" ELSE reply
      /\ UNCHANGED <<parameters, wire, latest, fresh, verified>>
    BY DEF AnswerChange, Respond, diagnostics, files, Remains
<1>2. Typed /\ Grounded /\ Ended /\ Armed
    BY DEF ReconfigurationInv
<1>3. queue \in Seq(Requests(Transitions))
    BY <1>2, QueuesTyped
<1>4. Stale(queue) <=> ~Head(queue).live
    BY <1>1 DEF Stale
<1>5. \A i \in DOMAIN queue : i # 1 => queue[i].arg # "activate"
    BY <1>2 DEF Armed
<1> HIDE DEF queue
<1>6. /\ t \in Transitions /\ Head(queue).live \in BOOLEAN
      /\ Tail(queue) \in Seq(Requests(Transitions))
      /\ \A i \in DOMAIN Tail(queue) : Tail(queue)[i].arg # "activate"
    BY <1>1, <1>3, <1>5, Taken
<1>7. /\ requests'.change_state = Tail(queue)
      /\ requests'.set_parameters = requests.set_parameters
      /\ requests' \in
           [change_state : Seq([arg : Transitions, live : BOOLEAN]),
            set_parameters : Seq([arg : Configs, live : BOOLEAN])]
    BY <1>1, <1>2, <1>6, TakenRequests
<1> HIDE DEF t
<1>8. /\ lifecycle' \in {"unconfigured", "inactive", "active",
                         "errorprocessing"}
      /\ bundle' \in {bundle, parameters, "none"}
      /\ installed' \in Configs /\ lost' \in BOOLEAN /\ quiesced' \in BOOLEAN
      /\ lifecycle' \in {"inactive", "active"} => bundle' \in Configs
      /\ lifecycle' # "active" => quiesced' \/ lost'
      /\ lifecycle = "unconfigured"
           => lifecycle' \in {"unconfigured", "inactive"}
    BY <1>1, <1>2, <1>6, Carried
<1>9. Typed'
  <2>1. reply' \in {"none", "accepted", "refused", "unconfigured",
                    "inactive", "active", "errorprocessing"}
      BY <1>1, <1>2 DEF Typed, ClientTyped
  <2>2. GatewayTyped'
      BY <1>1, <1>2, <1>7, <1>8 DEF Typed, GatewayTyped
  <2>3. ClientTyped'
      BY <1>1, <1>2, <2>1 DEF Typed, ClientTyped, Remains
  <2>4. QED  BY <2>2, <2>3 DEF Typed
<1>10. Grounded'
    BY <1>1, <1>2, <1>8 DEF Grounded
<1>11. Armed'
    BY <1>6, <1>7 DEF Armed
<1>12. Ended'
  <2>1. outcome \notin Settled
      BY <1>1, <1>2 DEF Ended, queue
  <2>2. QED  BY <1>1, <1>2, <2>1 DEF Ended, Remains, Working
<1>13. /\ Current' = Current /\ Target' = Target /\ Mine' = Mine
       /\ RollingBack' <=> RollingBack
       /\ Setting' <=> Setting
       /\ Configuring' <=> Configuring
       /\ Verifying' <=> Verifying
       /\ Activating' <=> Activating
       /\ Working' <=> Working
    BY <1>1, SamePlace
<1>14. UNCHANGED <<awaiting, step, call, outcome>>
    BY <1>1 DEF Remains
<1>15. ASSUME Working PROVE Placed'
  <2>1. Placed
      BY <1>15 DEF ReconfigurationInv
  <2>2. Kept(queue, "change_state", Transitions)
      BY <2>1 DEF Placed, QueuesKept, queue
  <2>3. ASSUME awaiting = "change_state" PROVE Current.op = "change_state"
      BY <2>1, <2>3 DEF Placed, Disciplined
  <2>4. awaiting = "change_state"
          => /\ t = Current.arg \/ Head(queue) # Mine
             /\ \/ step = "DEACTIVATE_CURRENT" /\ Current.arg = "deactivate"
                \/ step = "CLEANUP_CURRENT" /\ Current.arg = "cleanup"
                \/ Configuring /\ call = 1 /\ Current.arg = "configure"
                \/ step = "CLEANUP_CANDIDATE"
                   /\ Current.arg \in {"deactivate", "cleanup"}
                \/ Activating /\ call = 2 /\ Current.arg = "activate"
    <3>1. Mine.arg = Current.arg
        BY DEF Mine
    <3>2. QED  BY <1>2, <1>15, <2>3, <3>1, ChangeCalls DEF t
  <2>5. \/ /\ Waiting("change_state") /\ ~Waiting("change_state")'
           /\ t = Current.arg
           /\ \/ reply' = "accepted" /\ Accepted(t)
              \/ reply' = "refused" /\ Refused(t)
           /\ requests'.change_state = <<>>
        \/ /\ Waiting("change_state") /\ Waiting("change_state")'
           /\ reply' = reply /\ RollingBack /\ Stale(queue)
           /\ requests'.change_state = <<Mine>>
        \/ /\ ~Waiting("change_state") /\ ~Waiting("change_state")'
           /\ reply' = reply /\ RollingBack /\ Stale(queue)
           /\ requests'.change_state = <<>>
    <3>1. CASE /\ Waiting("change_state") /\ Head(queue) = Mine
               /\ Tail(queue) = <<>>
      <4>1. Mine.live = TRUE /\ Mine.arg = Current.arg
          BY DEF Mine
      <4>2. /\ \/ reply' = "accepted" /\ Accepted(t)
               \/ reply' = "refused" /\ Refused(t)
            /\ t = Current.arg
          BY <1>1, <3>1, <4>1 DEF t
      <4>3. ~Waiting("change_state")'
          BY <4>2 DEF Waiting
      <4>4. QED  BY <1>7, <3>1, <4>2, <4>3
    <3>2. CASE RollingBack /\ Stale(queue)
      <4>1. Head(queue).live = FALSE
          BY <1>4, <1>6, <3>2
      <4>2. reply' = reply
          BY <1>1, <4>1
      <4>3. Waiting("change_state")' <=> Waiting("change_state")
          BY <1>14, <4>2 DEF Waiting
      <4>4. \/ Waiting("change_state") /\ Tail(queue) = <<Mine>>
            \/ ~Waiting("change_state") /\ Tail(queue) = <<>>
          BY <1>1, <2>2, <3>2, KeptTaken
      <4>5. QED  BY <1>7, <3>2, <4>2, <4>3, <4>4
    <3>3. QED  BY <1>1, <2>2, <3>1, <3>2, KeptTaken
  <2>6. Kept(requests.change_state, "change_state", Transitions)'
      BY <1>13, <2>5 DEF Kept
  <2>7. Waiting("change_state") => awaiting = "change_state"
                                   /\ reply = "none"
      BY DEF Waiting
  <2>8. awaiting # "change_state" => reply' = reply
      BY <2>5, <2>7
  <2>9. Kept(requests.set_parameters, "set_parameters", Configs)'
    <3>1. Waiting("set_parameters")' <=> Waiting("set_parameters")
        BY <1>14, <2>8 DEF Waiting
    <3>2. QED  BY <1>7, <1>13, <2>1, <3>1 DEF Placed, QueuesKept, Kept
  <2>10. Disciplined'
    <3>1. awaiting = "change_state" => reply' \in {"none", "accepted",
                                                   "refused"}
        BY <2>1, <2>5 DEF Placed, Disciplined
    <3>2. QED
        BY <1>13, <1>14, <2>1, <2>8, <3>1 DEF Placed, Disciplined
  <2>11. ParametersAreTarget'
    <3>1. Setting => awaiting # "change_state"
        BY <2>4 DEF Setting, Configuring, Activating
    <3>2. QED
        BY <1>1, <1>7, <1>13, <2>1, <2>8, <3>1
           DEF Placed, ParametersAreTarget
  <2>12. BeforeTransaction'
    <3>1. step \in {"PRECONDITION", "PRECHECK"}
            => ~RollingBack /\ awaiting # "change_state"
        BY <2>4, Directions DEF Configuring, Activating
    <3>2. step \notin {"PRECONDITION", "PRECHECK"}
        BY <2>5, <2>7, <3>1
    <3>3. QED  BY <1>14, <3>2 DEF BeforeTransaction
  <2>13. CASE /\ Waiting("change_state") /\ t = Current.arg
              /\ \/ reply' = "accepted" /\ Accepted(t)
                 \/ reply' = "refused" /\ Refused(t)
              /\ requests'.change_state = <<>>
    <3>1. ~Waiting("change_state")' /\ ~Stale(<<>>)
        BY <2>13 DEF Waiting, Stale
    <3>2. SilentUntilConfigured' /\ BlankUntilConfigured'
      <4>1. ~Setting
          BY <2>4, <2>7, <2>13 DEF Setting, Configuring, Activating
      <4>2. QED
          BY <1>13, <1>14, <2>7, <2>13, <3>1, <4>1
             DEF SilentUntilConfigured, BlankUntilConfigured
    <3>3. CASE step \in {"DEACTIVATE_CURRENT", "CLEANUP_CURRENT",
                         "CLEANUP_CANDIDATE"}
      <4>1. TargetLoaded' /\ BeforeActivation' /\ AfterActivation'
          BY <1>14, <3>3
             DEF TargetLoaded, BeforeActivation, AfterActivation,
                 Configuring, Verifying, Activating
      <4>2. QED
          BY <2>6, <2>9, <2>10, <2>11, <2>12, <3>2, <4>1
             DEF Placed, QueuesKept
    <3>4. CASE Configuring /\ call = 1 /\ Current.arg = "configure"
      <4>1. BeforeActivation' /\ AfterActivation'
          BY <1>14, <3>4
             DEF BeforeActivation, AfterActivation, Configuring, Activating
      <4>2. parameters = Target
          BY <2>1, <3>4 DEF Placed, ParametersAreTarget
      <4>3. lifecycle = "unconfigured" /\ fresh => wire = NoDiagnostics
          BY <2>1, <2>13, <3>4 DEF Placed, SilentUntilConfigured
      <4>4. Accepted(t) => /\ lifecycle = "unconfigured"
                           /\ lifecycle' = "inactive"
                           /\ bundle' = parameters
          BY <2>13, <3>4 DEF Accepted, Transition
      <4>5. TargetLoaded'
          BY <1>1, <1>13, <1>14, <2>13, <3>4, <4>2, <4>3, <4>4
             DEF TargetLoaded, NoDiagnostics, Configuring, Verifying
      <4>6. QED
          BY <2>6, <2>9, <2>10, <2>11, <2>12, <3>2, <4>1, <4>5
             DEF Placed, QueuesKept
    <3>5. CASE Activating /\ call = 2 /\ Current.arg = "activate"
      <4>1. TargetLoaded'
          BY <1>14, <3>5
             DEF TargetLoaded, Configuring, Verifying, Activating
      <4>2. lifecycle = "inactive" /\ bundle = Target /\ VerifiedWaits
          BY <2>1, <2>7, <2>13, <3>5 DEF Placed, BeforeActivation
      <4>3. Accepted(t) => /\ lifecycle' = "active" /\ installed' = Target
          BY <2>13, <3>5, <4>2 DEF Accepted, Transition
      <4>4. Refused(t) => /\ lifecycle' \in {"inactive", "unconfigured"}
                          /\ lifecycle' = "inactive" => bundle' = bundle
          BY <2>13, <3>5, <4>2 DEF Refused, Transition
      <4>5. AfterActivation'
          BY <1>13, <1>14, <2>13, <3>5, <4>3
             DEF AfterActivation, Activating, Switch!Up
      <4>6. BeforeActivation'
        <5>1. Refused(t) /\ lifecycle' = "inactive" => VerifiedWaits'
            BY <1>1, <4>2, <4>4 DEF VerifiedWaits
        <5>2. QED
            BY <1>13, <1>14, <2>13, <3>1, <3>5, <4>2, <4>4, <5>1
               DEF BeforeActivation
      <4>7. QED
          BY <2>6, <2>9, <2>10, <2>11, <2>12, <3>2, <4>1, <4>5, <4>6
             DEF Placed, QueuesKept
    <3>6. QED  BY <2>4, <2>7, <2>13, <3>3, <3>4, <3>5
  <2>14. CASE /\ reply' = reply /\ Stale(queue)
              /\ \/ Waiting("change_state")
                    /\ requests'.change_state = <<Mine>>
                 \/ ~Waiting("change_state")
                    /\ requests'.change_state = <<>>
    <3>1. ~Stale(requests'.change_state)
      <4>1. ~Stale(<<>>)
          BY DEF Stale
      <4>2. ~Stale(<<Mine>>)
          BY Short DEF Stale, Mine
      <4>3. QED  BY <2>14, <4>1, <4>2
    <3>2. Blank => /\ lifecycle = "unconfigured"
                   /\ lifecycle' \in {"unconfigured", "inactive"}
        BY <1>1, <1>2, <1>6, <2>14, LeftKeepsBlank DEF queue, t
    <3>3. Blank => Blank'
        BY <3>1, <3>2 DEF Blank
    <3>4. BlankUntilConfigured'
        BY <1>13, <1>14, <2>1, <2>14, <3>3 DEF Placed, BlankUntilConfigured
    <3>5. SilentUntilConfigured'
      <4>1. SUFFICES ASSUME Configuring, Waiting("change_state")', fresh
                     PROVE  wire = NoDiagnostics
          BY <1>1, <1>13 DEF SilentUntilConfigured
      <4>2. Waiting("change_state")
          BY <1>14, <2>14, <4>1 DEF Waiting
      <4>3. call = 1
          BY <2>4, <2>7, <4>1, <4>2 DEF Configuring, Activating
      <4>4. Blank
          BY <2>1, <2>7, <4>1, <4>2, <4>3 DEF Placed, BlankUntilConfigured
      <4>5. QED
          BY <2>1, <3>2, <4>1, <4>2, <4>4
             DEF Placed, SilentUntilConfigured
    <3>6. TargetLoaded'
      <4>1. ~(Verifying \/ (Configuring /\ (call = 2 \/ reply = "accepted")))
          BY <1>1, <2>1 DEF Placed, TargetLoaded, queue
      <4>2. QED  BY <1>13, <1>14, <2>14, <4>1 DEF TargetLoaded
    <3>7. BeforeActivation'
      <4>1. ~(Activating /\ (call = 1 \/ (call = 2 /\ reply # "accepted")))
          BY <2>1, <2>14 DEF Placed, BeforeActivation, queue
      <4>2. QED  BY <1>13, <1>14, <2>14, <4>1 DEF BeforeActivation
    <3>8. AfterActivation'
      <4>1. ~(\/ Activating
                 /\ (call \in {3, 4} \/ (call = 2 /\ reply = "accepted"))
              \/ step = "COMMIT_CANDIDATE")
          BY <1>1, <2>1 DEF Placed, AfterActivation, queue
      <4>2. QED  BY <1>13, <1>14, <2>14, <4>1 DEF AfterActivation
    <3>9. QED
        BY <2>6, <2>9, <2>10, <2>11, <2>12, <3>4, <3>5, <3>6, <3>7, <3>8
           DEF Placed, QueuesKept
  <2>15. QED  BY <2>5, <2>13, <2>14
<1>16. QED
    BY <1>9, <1>10, <1>11, <1>12, <1>13, <1>15 DEF ReconfigurationInv

-----------------------------------------------------------------------------
LEMMA InitKeeps == Init => ReconfigurationInv
<1> SUFFICES ASSUME Init PROVE ReconfigurationInv
    OBVIOUS
<1>1. GatewayTyped
  <2>1. \A S : <<>> \in Seq(S)
      OBVIOUS
  <2>2. requests \in
          [change_state : Seq([arg : Transitions, live : BOOLEAN]),
           set_parameters : Seq([arg : Configs, live : BOOLEAN])]
      BY <2>1 DEF Init
  <2>3. QED
      BY <2>2 DEF Init, GatewayTyped, Configs, Diagnostics, NoDiagnostics
<1>2. ClientTyped
  <2>1. 0 \in 0 .. MaxAttempts
      BY ReconfigurationAssumption
  <2>2. "PRECONDITION" \in DOMAIN Calls /\ 1 \in DOMAIN Calls["PRECONDITION"]
      BY DEF Calls
  <2>3. latest \in Diagnostics
      BY DEF Init, Diagnostics, Configs
  <2>4. QED
      BY <2>1, <2>2, <2>3 DEF Init, ClientTyped, Configs, Services
<1>3. Grounded
    BY DEF Init, Grounded, Configs, NoDiagnostics
<1>4. Ended
    BY DEF Init, Ended, Settled, Working
<1>5. Armed
  <2>1. DOMAIN requests.change_state = {}
      BY DEF Init
  <2>2. QED  BY <2>1 DEF Armed
<1>6. Placed
  <2>1. Disciplined
      BY DEF Init, Disciplined
  <2>2. QueuesKept
      BY DEF Init, QueuesKept, Kept, Waiting
  <2>3. QED
      BY <2>1, <2>2
         DEF Init, Placed, BlankUntilConfigured, SilentUntilConfigured,
             ParametersAreTarget, TargetLoaded, BeforeActivation,
             AfterActivation, BeforeTransaction, Setting, Configuring,
             Verifying, Activating
<1>7. QED
    BY <1>1, <1>2, <1>3, <1>4, <1>5, <1>6 DEF ReconfigurationInv, Typed

LEMMA StutterKeeps ==
    ASSUME ReconfigurationInv, UNCHANGED vars
    PROVE  ReconfigurationInv'
<1>1. /\ UNCHANGED <<lifecycle, parameters, bundle, wire, requests, awaiting,
                     reply, attempts, latest, fresh>>
      /\ UNCHANGED <<plan, step, call, outcome, lastKnownGood, manifest,
                     stage, installed, lost, quiesced, verified>>
    BY DEF vars, gateway, client, diagnostics, files, history
<1>2. Typed' /\ Grounded' /\ Ended' /\ Armed'
    BY <1>1
       DEF ReconfigurationInv, Typed, GatewayTyped, ClientTyped, Grounded,
           Ended, Armed, VerifiedWaits, Working
<1>3. Placed => Placed'
  <2>1. SUFFICES ASSUME Placed PROVE Placed'
      OBVIOUS
  <2>2. Remains
      BY <1>1 DEF Remains
  <2>3. /\ Current' = Current /\ Target' = Target
        /\ Setting' <=> Setting
        /\ Configuring' <=> Configuring
        /\ Verifying' <=> Verifying
        /\ Activating' <=> Activating
      BY <2>2, SamePlace
  <2>4. /\ Waiting("change_state")' <=> Waiting("change_state")
        /\ Waiting("set_parameters")' <=> Waiting("set_parameters")
      BY <1>1 DEF Waiting
  <2>5. QueuesKept'
      BY <1>1, <2>1, <2>2, <2>4, SameQueues DEF Placed
  <2>6. /\ Blank' <=> Blank
        /\ Stale(requests.change_state)' <=> Stale(requests.change_state)
        /\ VerifiedWaits' <=> VerifiedWaits
      BY <1>1 DEF Blank, Stale, VerifiedWaits
  <2>7. Disciplined' /\ BlankUntilConfigured'
    <3>1. Disciplined'
        BY <1>1, <2>1, <2>3 DEF Placed, Disciplined
    <3>2. BlankUntilConfigured'
        BY <1>1, <2>1, <2>3, <2>6 DEF Placed, BlankUntilConfigured
    <3>3. QED  BY <3>1, <3>2
  <2>8. SilentUntilConfigured' /\ ParametersAreTarget' /\ TargetLoaded'
      BY <1>1, <2>1, <2>3, <2>4
         DEF Placed, SilentUntilConfigured, ParametersAreTarget, TargetLoaded
  <2>9. BeforeActivation'
      BY <1>1, <2>1, <2>3, <2>6 DEF Placed, BeforeActivation
  <2>10. AfterActivation' /\ BeforeTransaction'
      BY <1>1, <2>1, <2>3
         DEF Placed, AfterActivation, BeforeTransaction, Switch!Up
  <2>11. QED  BY <2>5, <2>7, <2>8, <2>9, <2>10 DEF Placed
<1>4. Working' <=> Working
    BY <1>1 DEF Working
<1>5. QED  BY <1>2, <1>3, <1>4 DEF ReconfigurationInv

LEMMA NextKeeps ==
    ASSUME ReconfigurationInv, [Next]_vars
    PROVE  ReconfigurationInv'
<1>1. CASE Send
    BY <1>1, SendKeeps
<1>2. CASE TimeOut
    BY <1>2, TimeOutKeeps
<1>3. CASE ReadState
    BY <1>3, ReadStateKeeps
<1>4. CASE ChangeState
    BY <1>4, ChangeStateKeeps
<1>5. CASE ParametersSet
    BY <1>5, ParametersSetKeeps
<1>6. CASE Verify
    BY <1>6, VerifyKeeps
<1>7. CASE RequireIdentity
    BY <1>7, RequireIdentityKeeps
<1>8. CASE CommitCandidate
    BY <1>8, CommitCandidateKeeps
<1>9. CASE WriteResult \/ WriteRejection
    BY <1>9, WritesKeep
<1>10. CASE Receive
    BY <1>10, ReceiveKeeps
<1>11. CASE Crash
    BY <1>11, CrashKeeps
<1>12. CASE AnswerState
    BY <1>12, AnswerStateKeeps
<1>13. CASE AnswerParameters
    BY <1>13, AnswerParametersKeeps
<1>14. CASE AnswerChange
    BY <1>14, AnswerChangeKeeps
<1>15. CASE PublishDiagnostics
    BY <1>15, PublishKeeps
<1>16. CASE GatewayFails
    BY <1>16, GatewayFailsKeeps
<1>17. CASE UNCHANGED vars
    BY <1>17, StutterKeeps
<1>18. QED
    BY <1>1, <1>2, <1>3, <1>4, <1>5, <1>6, <1>7, <1>8, <1>9, <1>10, <1>11,
       <1>12, <1>13, <1>14, <1>15, <1>16, <1>17
       DEF Next, ClientStep, GatewayStep

\* At every moment of the command, whatever it has left behind in the
\* gateway's queues, the gateway is where the step it has come to needs it.
THEOREM ReconfigurationInvInvariant == Spec => []ReconfigurationInv
<1>1. Init => ReconfigurationInv
    BY InitKeeps
<1>2. ReconfigurationInv /\ [Next]_vars => ReconfigurationInv'
    BY NextKeeps
<1>3. QED  BY <1>1, <1>2, PTL DEF Spec

-----------------------------------------------------------------------------
\* No configuration becomes active unverified: the request that activates,
\* live or left behind, is of a gateway that waits with what was verified.
THEOREM ActivatesVerifiedHolds == Spec => ActivatesVerified
<1>1. ASSUME ReconfigurationInv, [Next]_vars,
             lifecycle' = "active", lifecycle # "active"
      PROVE  verified = bundle
  <2>1. AnswerChange
    <3>1. lifecycle' # lifecycle
        BY <1>1
    <3>2. QED
        BY <1>1, <3>1
           DEF Next, ClientStep, GatewayStep, Send, TimeOut, ReadState,
               ChangeState, ParametersSet, Verify, RequireIdentity,
               CommitCandidate, WriteResult, WriteRejection, Receive, Crash,
               AnswerState, AnswerParameters, PublishDiagnostics,
               GatewayFails, Transition, gateway, vars
  <2> DEFINE queue == requests.change_state
             t == Head(queue).arg
  <2>2. queue # <<>> /\ (Accepted(t) \/ Refused(t))
      BY <2>1 DEF AnswerChange
  <2>3. t = "activate"
    <3>1. ~Refused(t)
        BY <1>1 DEF Refused, Transition
    <3>2. Accepted(t)
        BY <2>2, <3>1
    <3> HIDE DEF t
    <3>3. QED  BY <1>1, <3>2 DEF Accepted, Transition
  <2>4. queue \in Seq(Requests(Transitions))
      BY <1>1, QueuesTyped DEF ReconfigurationInv
  <2>5. 1 \in DOMAIN queue /\ Head(queue) = queue[1]
    <3> HIDE DEF queue
    <3>1. QED  BY <2>2, <2>4
  <2>6. VerifiedWaits
      BY <1>1, <2>3, <2>5 DEF ReconfigurationInv, Armed
  <2>7. QED  BY <2>6 DEF VerifiedWaits
<1>2. ReconfigurationInv /\ [Next]_vars
        => [lifecycle' = "active" /\ lifecycle # "active"
              => verified = bundle]_vars
    BY <1>1
<1>3. QED
    BY <1>2, ReconfigurationInvInvariant, PTL DEF Spec, ActivatesVerified

\* The descriptor is only written to name the configuration that is up.
THEOREM LastKnownGoodActiveHolds == Spec => LastKnownGoodActive
<1>1. ASSUME ReconfigurationInv, [Next]_vars, lastKnownGood' # lastKnownGood
      PROVE  Switch!Up(lastKnownGood')
  <2>1. CommitCandidate
      BY <1>1
         DEF Next, ClientStep, GatewayStep, Send, TimeOut, ReadState,
             ChangeState, ParametersSet, Verify, RequireIdentity,
             WriteResult, WriteRejection, Receive, Crash,
             AnswerState, AnswerParameters, AnswerChange, PublishDiagnostics,
             GatewayFails, files, vars
  <2>2. Working /\ Current.op = "write" /\ lastKnownGood' = "new"
      BY <1>1, <2>1 DEF CommitCandidate
  <2>3. Typed /\ Placed
      BY <1>1, <2>2 DEF ReconfigurationInv
  <2>4. step = "COMMIT_CANDIDATE"
      BY <2>2, <2>3, OtherCalls
  <2>5. Switch!Up(Target) /\ Target = "new"
    <3>1. ~RollingBack
        BY <2>4, Directions
    <3>2. QED  BY <2>3, <2>4, <3>1 DEF Placed, AfterActivation, Target
  <2>6. QED  BY <2>2, <2>5
<1>2. ReconfigurationInv /\ [Next]_vars
        => [lastKnownGood' # lastKnownGood
              => Switch!Up(lastKnownGood')]_vars
    BY <1>1
<1>3. QED
    BY <1>2, ReconfigurationInvInvariant, PTL DEF Spec, LastKnownGoodActive

-----------------------------------------------------------------------------
\* When the command reports, it reports what the gateway runs.
LEMMA SuccessReports ==
    ASSUME ReconfigurationInv, Working, Succeeds, outcome' # outcome,
           Activating => call = 4
    PROVE  /\ outcome' \in {"REJECTED", "NO_OP", "COMMITTED", "ROLLED_BACK"}
           /\ outcome' \in {"REJECTED", "NO_OP"} => Switch!Up("old")
                                                    /\ ~quiesced
           /\ outcome' = "COMMITTED" => Switch!Up("new")
           /\ outcome' = "ROLLED_BACK" => Switch!Up("old")
<1>1. Typed /\ Grounded /\ Placed
    BY DEF ReconfigurationInv
<1>2. \/ step = "PRECHECK" /\ outcome' \in {"REJECTED", "NO_OP"}
      \/ step = "COMMIT_CANDIDATE" /\ outcome' = "COMMITTED"
      \/ step = "ACTIVATE_PREVIOUS" /\ outcome' = "ROLLED_BACK"
  <2>1. step \in {"PRECONDITION", "PRECHECK", "DEACTIVATE_CURRENT",
                  "CLEANUP_CURRENT", "COMMIT_CANDIDATE",
                  "CLEANUP_CANDIDATE", "SET_CANDIDATE_CONFIG",
                  "RESTORE_PREVIOUS_CONFIG", "CONFIGURE_CANDIDATE",
                  "CONFIGURE_PREVIOUS", "VERIFY_CANDIDATE",
                  "VERIFY_PREVIOUS", "ACTIVATE_CANDIDATE",
                  "ACTIVATE_PREVIOUS"}
      BY <1>1, Script DEF Setting, Configuring, Verifying, Activating
  <2>2. QED  BY <2>1, Successors
<1>3. CASE step = "PRECHECK"
  <2>1. installed = "old" /\ ~quiesced
      BY <1>1, <1>3 DEF Placed, BeforeTransaction
  <2>2. lifecycle = "active" \/ lost
      BY <1>1, <2>1 DEF Grounded
  <2>3. QED  BY <1>2, <1>3, <2>1, <2>2 DEF Switch!Up
<1>4. CASE step \in {"COMMIT_CANDIDATE", "ACTIVATE_PREVIOUS"}
  <2>1. Switch!Up(Target)
      BY <1>1, <1>4 DEF Placed, AfterActivation, Activating
  <2>2. Target = IF step = "ACTIVATE_PREVIOUS" THEN "old" ELSE "new"
      BY <1>4, Directions DEF Target
  <2>3. QED  BY <1>2, <1>4, <2>1, <2>2
<1>5. QED  BY <1>2, <1>3, <1>4

LEMMA FailureReports ==
    ASSUME ReconfigurationInv, Working, Fails, outcome' # outcome
    PROVE  /\ outcome' \in {"REJECTED", "ROLLBACK_FAILED"}
           /\ outcome' = "REJECTED" => Switch!Up("old") /\ ~quiesced
<1>1. Typed /\ Grounded /\ Placed
    BY DEF ReconfigurationInv
<1>2. \/ step \in {"PRECONDITION", "PRECHECK"} /\ outcome' = "REJECTED"
      \/ outcome' = "ROLLBACK_FAILED"
    BY Failures
<1>3. CASE step \in {"PRECONDITION", "PRECHECK"}
  <2>1. installed = "old" /\ ~quiesced
      BY <1>1, <1>3 DEF Placed, BeforeTransaction
  <2>2. lifecycle = "active" \/ lost
      BY <1>1, <2>1 DEF Grounded
  <2>3. QED  BY <1>2, <2>1, <2>2 DEF Switch!Up
<1>4. QED  BY <1>2, <1>3

LEMMA LastCall ==
    ASSUME Typed, Working, Activating, NEW i \in {1, 2, 4, 5, call + 1},
           step = "CLEANUP_CANDIDATE" \/ i \in {1, call + 1},
           Proceed(i), outcome' # outcome
    PROVE  Succeeds /\ call = 4
<1>1. i > Len(Calls[step]) /\ Succeeds
    BY DEF Proceed
<1>2. call \in 1 .. 4 /\ Len(Calls[step]) = 4
    BY Script
<1>3. i \in {1, call + 1}
    BY DEF Activating
<1>4. QED  BY <1>1, <1>2, <1>3

\* The steps of the command that end it.
LEMMA Reports ==
    ASSUME ReconfigurationInv, ClientStep \/ Crash, outcome' # outcome
    PROVE  /\ outcome = "RUNNING"
           /\ \/ outcome' = "CRASHED"
              \/ Working /\ Fails
              \/ Working /\ Succeeds /\ (Activating => call = 4)
<1>1. Typed /\ Ended
    BY DEF ReconfigurationInv
<1>2. CASE Crash
    BY <1>2 DEF Crash
<1>3. CASE TimeOut
    BY <1>1, <1>3 DEF TimeOut, Ended
<1>4. CASE ReadState
  <2>1. Working
      BY <1>4 DEF ReadState, Answered
  <2>2. \/ Fails
        \/ Succeeds /\ step = "CLEANUP_CANDIDATE"
        \/ \E i \in {2, 4, 5} : step = "CLEANUP_CANDIDATE" /\ Proceed(i)
        \/ Proceed(call + 1)
      BY <1>4 DEF ReadState
  <2>3. step = "CLEANUP_CANDIDATE" => ~Activating
      BY DEF Activating
  <2>4. \A i : Proceed(i) => Succeeds
      BY DEF Proceed
  <2>5. Activating /\ Proceed(call + 1) => call = 4
      BY <1>1, <2>1, LastCall
  <2>6. QED  BY <1>1, <2>1, <2>2, <2>3, <2>4, <2>5 DEF Ended
<1>5. CASE ChangeState \/ ParametersSet \/ Verify \/ RequireIdentity
  <2>1. Working
      BY <1>5
         DEF ChangeState, ParametersSet, Verify, RequireIdentity, Answered
  <2>2. Fails \/ Proceed(1) \/ Proceed(call + 1)
      BY <1>5 DEF ChangeState, ParametersSet, Verify, RequireIdentity
  <2>3. \A i : Proceed(i) => Succeeds
      BY DEF Proceed
  <2>4. Activating /\ (Proceed(1) \/ Proceed(call + 1)) => call = 4
      BY <1>1, <2>1, LastCall
  <2>5. QED  BY <1>1, <2>1, <2>2, <2>3, <2>4 DEF Ended
<1>6. CASE CommitCandidate
  <2>1. Working /\ Current.op = "write" /\ (Succeeds \/ Fails)
      BY <1>6 DEF CommitCandidate
  <2>2. ~Activating
      BY <1>1, <2>1, OtherCalls DEF Activating
  <2>3. QED  BY <1>1, <2>1, <2>2 DEF Ended
<1>7. ~Send /\ ~WriteResult /\ ~WriteRejection
    BY DEF Send, WriteResult, WriteRejection
<1>8. QED  BY <1>2, <1>3, <1>4, <1>5, <1>6, <1>7 DEF ClientStep

\* The command's own steps, and a message that arrives, move no gateway.
LEMMA ClientMoves ==
    ASSUME ClientStep \/ Receive \/ Crash
    PROVE  UNCHANGED <<lifecycle, installed, lost, quiesced>>
    BY DEF ClientStep, Send, TimeOut, ReadState, ChangeState, ParametersSet,
           Verify, RequireIdentity, CommitCandidate, WriteResult,
           WriteRejection, Receive, Crash, gateway, history

\* Every step of the command and of the gateway is a step of ConfigSwitch.
LEMMA StepRefines ==
    ASSUME ReconfigurationInv, ReportTyped, [Next]_vars
    PROVE  [Switch!Next]_(Switch!switch)
<1>1. Typed /\ Grounded /\ Ended
    BY DEF ReconfigurationInv
<1>2. CASE /\ ClientStep \/ Receive \/ Crash
           /\ outcome' # outcome
  <2>1. UNCHANGED <<lifecycle, installed, lost, quiesced>>
      BY <1>2, ClientMoves
  <2>2. ClientStep \/ Crash
      BY <1>2 DEF Receive
  <2>3. outcome = "RUNNING"
      BY <1>2, <2>2, Reports
  <2>4. /\ outcome' \in Switch!Outcomes \ {"RUNNING"}
        /\ outcome' \in {"NO_OP", "REJECTED"}
             => Switch!Up("old") /\ ~quiesced
        /\ outcome' = "COMMITTED" => Switch!Up("new")
        /\ outcome' = "ROLLED_BACK" => Switch!Up("old")
    <3>1. CASE outcome' = "CRASHED"
        BY <3>1 DEF Switch!Outcomes
    <3>2. CASE Working /\ Fails
        BY <1>2, <3>2, FailureReports DEF Switch!Outcomes
    <3>3. CASE Working /\ Succeeds /\ (Activating => call = 4)
        BY <1>2, <3>3, SuccessReports DEF Switch!Outcomes
    <3>4. QED  BY <1>2, <2>2, <3>1, <3>2, <3>3, Reports
  <2>5. Switch!Report(outcome')
      BY <2>1, <2>3, <2>4 DEF Switch!Report
  <2>6. QED  BY <2>4, <2>5 DEF Switch!Next
<1>3. CASE /\ ClientStep \/ Receive \/ Crash
           /\ outcome' = outcome
    BY <1>3, ClientMoves DEF Switch!switch
<1>4. CASE AnswerState \/ AnswerParameters \/ PublishDiagnostics
    BY <1>4
       DEF AnswerState, AnswerParameters, PublishDiagnostics, gateway,
           history, Switch!switch
<1>5. CASE AnswerChange
  <2> DEFINE t == Head(requests.change_state).arg
  <2>1. /\ requests.change_state # <<>> /\ outcome' = outcome
        /\ Accepted(t) \/ Refused(t)
      BY <1>5 DEF AnswerChange
  <2> HIDE DEF t
  <2>2. outcome \in Switch!Unsettled
    <3>1. outcome \notin Settled
        BY <1>1, <2>1 DEF Ended
    <3>2. QED
        BY <3>1 DEF ReportTyped, Settled, Switch!Outcomes, Switch!Unsettled
  <2>3. CASE t = "activate" /\ Accepted(t)
    <3>1. /\ lifecycle = "inactive" /\ lifecycle' = "active"
          /\ installed' = bundle /\ lost' = FALSE
          /\ quiesced' = quiesced
        BY <2>3 DEF Accepted, Transition
    <3>2. bundle \in {"old", "new"} /\ (quiesced \/ lost)
        BY <1>1, <3>1 DEF Grounded, Configs
    <3>3. Switch!Install(bundle)
        BY <2>1, <2>2, <3>1, <3>2 DEF Switch!Install
    <3>4. QED  BY <3>2, <3>3 DEF Switch!Next
  <2>4. CASE \/ lifecycle = "active" /\ lifecycle' = "inactive"
                /\ quiesced' = TRUE /\ UNCHANGED <<installed, lost>>
             \/ lifecycle = "active" /\ lifecycle' = "unconfigured"
                /\ quiesced' = TRUE /\ UNCHANGED <<installed, lost>>
    <3>1. Switch!Quiesce
        BY <2>1, <2>2, <2>4 DEF Switch!Quiesce
    <3>2. QED  BY <3>1 DEF Switch!Next
  <2>5. CASE /\ lifecycle # "active" /\ lifecycle' # "active"
             /\ UNCHANGED <<installed, lost, quiesced>>
      BY <2>1, <2>5 DEF Switch!switch
  <2>6. CASE UNCHANGED <<lifecycle, installed, lost, quiesced>>
      BY <2>1, <2>6 DEF Switch!switch
  <2>7. CASE Accepted(t)
    <3>1. CASE t \in {"configure", "cleanup"}
        BY <2>5, <2>7, <3>1 DEF Accepted, Transition
    <3>2. CASE t = "deactivate"
        BY <2>4, <2>7, <3>2 DEF Accepted, Transition
    <3>3. QED  BY <2>3, <2>7, <3>1, <3>2 DEF Accepted
  <2>8. CASE Refused(t)
      BY <2>4, <2>5, <2>6, <2>8 DEF Refused, Transition
  <2>9. QED  BY <2>1, <2>7, <2>8
<1>6. CASE GatewayFails
  <2>1. CASE lifecycle = "active"
    <3>1. /\ lifecycle' = "errorprocessing" /\ lost' = TRUE
          /\ UNCHANGED <<installed, quiesced, outcome>>
        BY <1>6, <2>1 DEF GatewayFails, Transition
    <3>2. Switch!Lose
        BY <2>1, <3>1 DEF Switch!Lose
    <3>3. QED  BY <3>2 DEF Switch!Next
  <2>2. CASE lifecycle # "active"
      BY <1>6, <2>2 DEF GatewayFails, Transition, history, Switch!switch
  <2>3. QED  BY <2>1, <2>2
<1>7. CASE UNCHANGED vars
    BY <1>7 DEF vars, gateway, history, Switch!switch
<1>8. QED
    BY <1>2, <1>3, <1>4, <1>5, <1>6, <1>7 DEF Next, GatewayStep

LEMMA ReportKeeps ==
    ASSUME ReconfigurationInv, ReportTyped, [Next]_vars
    PROVE  ReportTyped'
<1>1. outcome' \in Switch!Outcomes
  <2>1. CASE outcome' # outcome
    <3>1. ClientStep \/ Crash
        BY <2>1
           DEF Next, GatewayStep, Receive, AnswerState, AnswerParameters,
               AnswerChange, PublishDiagnostics, GatewayFails, vars
    <3>2. QED
        BY <2>1, <3>1, Reports, SuccessReports, FailureReports
           DEF Switch!Outcomes
  <2>2. QED  BY <2>1 DEF ReportTyped
<1>2. manifest' \in {manifest, outcome, "REJECTED"}
    BY DEF Next, ClientStep, GatewayStep, Send, TimeOut, ReadState,
           ChangeState, ParametersSet, Verify, RequireIdentity,
           CommitCandidate, WriteResult, WriteRejection, Receive, Crash,
           AnswerState, AnswerParameters, AnswerChange, PublishDiagnostics,
           GatewayFails, files, vars
<1>3. QED  BY <1>1, <1>2 DEF ReportTyped, Switch!Outcomes

LEMMA ReportInvariant == Spec => []ReportTyped
<1>1. Init => ReportTyped
    BY DEF Init, ReportTyped, Switch!Outcomes
<1>2. ReconfigurationInv /\ ReportTyped /\ [Next]_vars => ReportTyped'
    BY ReportKeeps
<1>3. QED  BY <1>1, <1>2, ReconfigurationInvInvariant, PTL DEF Spec

\* The variables of the command, the gateway and the files keep their types,
\* and the call that a step has come to is one of that step.
THEOREM ReconfigurationTypeOK == Spec => []TypeOK
<1>1. ReconfigurationInv /\ ReportTyped => TypeOK
    BY DEF ReconfigurationInv, TypeOK
<1>2. QED  BY <1>1, ReconfigurationInvInvariant, ReportInvariant, PTL

\* The reconfiguration command, with its calls that time out and are carried
\* out late, implements the transactional switch of configurations.
THEOREM SwitchedHolds == Spec => Switched
<1>1. Init => Switch!Init
    BY DEF Init, Switch!Init
<1>2. ReconfigurationInv /\ ReportTyped /\ [Next]_vars
        => [Switch!Next]_(Switch!switch)
    BY StepRefines
<1>3. QED
    BY <1>1, <1>2, ReconfigurationInvInvariant, ReportInvariant, PTL
       DEF Spec, Switched, Switch!Spec
=============================================================================
