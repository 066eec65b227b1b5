----------------------------- MODULE ConfigChain -----------------------------
(***************************************************************************)
(* One configuration in several processes.  Adapter, ingress and simulator *)
(* load it when they are launched and keep it, the gateway loads it from   *)
(* the same files again whenever it is configured, the reconfiguration     *)
(* command loads it a third time to decide what may be changed under the   *)
(* others - and the files may be rewritten at any time.  The calls of the  *)
(* transaction and their timeouts are Reconfiguration's; here a step is    *)
(* carried out, or fails, carried out or not.                              *)
(***************************************************************************)
EXTENDS ConfigIdentity

CONSTANTS
    Documents,   \* names of the bundles that may be on disk
    Content,     \* the bundle of each
    Paths,       \* where a bundle may be
    None

ASSUME ConfigChainAssumption == None \notin Documents

VARIABLES
    disk,        \* the bundle at each path
    launched,    \* the one that adapter, ingress and simulator loaded
    environment, \* the FastDDS profile that the processes were started with
    parameter,   \* the gateway's profile_path
    phase,       \* its lifecycle state
    bundle,      \* the one it has loaded, None if it is not configured
    asked,       \* an activation is requested and not carried out yet
    step,        \* of the bring-up ("boot") or of the reconfiguration
    plan,        \* its paths, and its bundles as it loaded them
    \* history
    intact,      \* nobody rewrote the files while the system came up
    deployed     \* the bundle brought up or committed last

gateway == <<phase, bundle, asked>>
processes == <<launched, environment>>
history == <<intact, deployed>>
vars == <<disk, processes, parameter, gateway, step, plan, history>>

\* Computed once.
Loadable == {d \in Documents : Loads(Content[d])}

ClassOf == [pair \in Loadable \X Loadable |->
              ChangeClass(Content[pair[1]], Content[pair[2]])]

HashOf == [d \in Loadable |-> DecisionHash(Content[d])]
FastDdsOf == [d \in Loadable |-> FastDdsHash(Content[d])]

\* The diagnostics show two hashes: they are all that is compared.
Alike(c, d) == HashOf[c] = HashOf[d] /\ FastDdsOf[c] = FastDdsOf[d]

NoPlan == [from |-> None, to |-> None, current |-> None, candidate |-> None]

Init ==
    /\ disk \in [Paths -> Documents]
    /\ launched = None /\ environment = None /\ parameter \in Paths
    /\ phase = "unconfigured" /\ bundle = None /\ asked = FALSE
    /\ step = "launch" /\ plan = NoPlan
    /\ intact = TRUE /\ deployed = None

-----------------------------------------------------------------------------
(***************************************************************************)
(* The endpoints that the gateway with bundle g meets when the others      *)
(* have loaded a.                                                          *)
(***************************************************************************)
CanonicalType == "ControlCommand"
VehicleStateType == "VehicleState"

VehicleTopic(b) ==
    IF b.profile.kind = "adas" THEN b.profile.adapter.output
    ELSE b.contract.states["vehicle_state"].topic

VehicleQos(b) ==
    b.contract.qos[CHOOSE n \in b.contract.states["vehicle_state"].qos : TRUE]

OutputQos(b) == b.contract.qos[b.contract.output.qos]
InputQos(b) == b.contract.qos[b.contract.input.qos]

\* The constructors of adapter and codec.
AdapterStarts(b) ==
    /\ b.contract.states["vehicle_state"].qos # {}
    /\ b.profile.kind = "robot" =>
          b.profile.adapter.commandType = "TwistStamped"
    /\ b.profile.kind = "adas" => CodecConstructs(b.can)

\* on_configure, once the bundle is loaded.
GatewayStarts(b) ==
    /\ b.fastdds.path = environment
    /\ \A s \in StateTopics \ {"diagnostics"} : b.contract.states[s].qos # {}
    /\ b.contract.states["diagnostics"].type = "DiagnosticArray"

EndpointsIdentified(g, a) ==
    /\ a.profile.adapter.input = g.contract.output.topic
    /\ g.contract.output.type = CanonicalType
    /\ VehicleTopic(a) = g.contract.states["vehicle_state"].topic
    /\ g.contract.states["vehicle_state"].type = VehicleStateType

EndpointsCompatible(g, a) ==
    /\ QosHealthy("subscription", MakeQos(OutputQos(g)),
                  Discovered(MakeQos(OutputQos(a))), OutputQos(g), TRUE)
    /\ QosHealthy("publisher", MakeQos(VehicleQos(g)),
                  Discovered(MakeQos(VehicleQos(a))), VehicleQos(g), TRUE)

SourceUsable(g, a, id) ==
    /\ id \in DOMAIN a.profile.ingress
    /\ a.profile.ingress[id].output = SourceOf(g.policy, id).topic
    /\ SourceOf(g.policy, id).type = CanonicalType
    /\ QosHealthy("publisher", MakeQos(InputQos(g)),
                  Discovered(MakeQos(InputQos(a))), InputQos(g), TRUE)

SourcesReady(g, a) ==
    \A id \in Entries(g.profile.sources) :
        SourceOf(g.policy, id).required => SourceUsable(g, a, id)

Healthy(g, a) == EndpointsIdentified(g, a) /\ EndpointsCompatible(g, a)

GateOpens ==
    /\ Healthy(Content[bundle], Content[launched])
    /\ SourcesReady(Content[bundle], Content[launched])

-----------------------------------------------------------------------------
(***************************************************************************)
(* What goes on around the gateway.                                        *)
(***************************************************************************)
Rewrite(path, d) ==
    /\ disk[path] # d /\ disk' = [disk EXCEPT ![path] = d]
    /\ intact' = (intact /\ ~(step = "boot" /\ bundle = None
                                /\ path = parameter))
    /\ UNCHANGED <<processes, parameter, gateway, step, plan, deployed>>

\* The launch file takes environment and parameter from the same profile.
Launch ==
    /\ step = "launch" /\ step' = "boot"
    /\ disk[parameter] \in Loadable
    /\ AdapterStarts(Content[disk[parameter]])
    /\ launched' = disk[parameter]
    /\ environment' = Content[disk[parameter]].fastdds.path
    /\ UNCHANGED <<disk, parameter, gateway, plan, history>>

-----------------------------------------------------------------------------
(***************************************************************************)
(* The gateway's transitions.  Configuring reads the files again.          *)
(***************************************************************************)
OnConfigure ==
    /\ phase = "unconfigured"
    /\ \/ /\ disk[parameter] \in Loadable
          /\ GatewayStarts(Content[disk[parameter]])
          /\ phase' = "inactive" /\ bundle' = disk[parameter]
       \/ /\ \/ disk[parameter] \notin Loadable
             \/ ~GatewayStarts(Content[disk[parameter]])
          /\ UNCHANGED <<phase, bundle>>
    /\ UNCHANGED <<disk, processes, parameter, asked, plan, history>>

OnCleanup ==
    /\ phase = "inactive" /\ phase' = "unconfigured" /\ bundle' = None
    /\ UNCHANGED <<disk, processes, parameter, asked, plan, history>>

OnDeactivate ==
    /\ phase = "active" /\ phase' = "inactive"
    /\ UNCHANGED <<disk, processes, parameter, bundle, asked, plan, history>>

\* The request is served in its turn, whether or not anybody still waits.
OnActivate ==
    /\ asked /\ asked' = FALSE
    /\ \/ phase = "inactive" /\ GateOpens /\ phase' = "active"
       \/ (phase = "inactive" => ~GateOpens) /\ UNCHANGED phase
    /\ UNCHANGED <<disk, processes, parameter, bundle, step, plan, history>>

SetParameter(path) ==
    /\ parameter' = path
    /\ UNCHANGED <<disk, processes, gateway, plan, history>>

\* The activator of the bring-up tries until the gateway is active.
Boot ==
    /\ step = "boot"
    /\ \/ OnConfigure /\ UNCHANGED step
       \/ /\ phase = "inactive" /\ ~asked /\ asked' = TRUE
          /\ UNCHANGED <<disk, processes, parameter, phase, bundle, step,
                         plan, history>>
       \/ /\ phase = "active" /\ step' = "idle" /\ deployed' = bundle
          /\ UNCHANGED <<disk, processes, parameter, gateway, plan, intact>>

-----------------------------------------------------------------------------
(***************************************************************************)
(* The reconfiguration.  A step that fails on the way forward is followed  *)
(* by the rollback, a failed rollback ends the command, and so does its    *)
(* death.                                                                  *)
(***************************************************************************)
Forward == {"deactivate", "cleanup", "set", "configure", "verify", "ask",
            "activate", "commit"}
Backward == {"undo", "restore", "reconfigure", "reverify", "reask",
             "reactivate"}

\* A transition that is carried out, noticed or not.
Goes(from, to) ==
    /\ step = from
    /\ step' \in {to} \cup (IF from \in Forward THEN {"undo"} ELSE {"idle"})

Fails ==
    /\ step \in Forward \cup Backward
    /\ \/ step \in Forward /\ step' = "undo"
       \/ step' = "idle"
    /\ UNCHANGED <<disk, processes, parameter, gateway, plan, history>>

\* main: current and candidate as they are on disk, the current one as the
\* gateway's diagnostics show it.
Prepare(path) ==
    /\ step = "idle" /\ phase = "active"
    /\ LET current == disk[parameter]  candidate == disk[path] IN
         /\ {current, candidate} \subseteq Loadable
         /\ Alike(current, bundle)
         /\ ClassOf[<<current, candidate>>] = "ENDPOINT_REBUILD_REQUIRED"
         /\ plan' = [from |-> parameter, to |-> path,
                     current |-> current, candidate |-> candidate]
    /\ step' = "deactivate"
    /\ UNCHANGED <<disk, processes, parameter, gateway, history>>

\* wait_for_configuration and require_hash.
\* Mutant of Verified: that the gateway is healthy is thought enough.
VerifiedHealthy(d) ==
    phase = "inactive" /\ Healthy(Content[bundle], Content[launched])

Verified(d) ==
    /\ phase = "inactive" /\ Alike(bundle, d)
    /\ Healthy(Content[bundle], Content[launched])

Verify(from, to, d) ==
    /\ step = from /\ Verified(d) /\ step' = to
    /\ UNCHANGED <<disk, processes, parameter, gateway, plan, history>>

\* activate_with_retry: a request that was refused is made again.
Ask(from, to) ==
    /\ step \in {from, to} /\ step' = to
    /\ phase = "inactive" /\ ~asked /\ asked' = TRUE
    /\ UNCHANGED <<disk, processes, parameter, phase, bundle, plan, history>>

Activated(from, to) ==
    /\ step = from /\ phase = "active" /\ step' = to
    /\ UNCHANGED <<disk, processes, parameter, gateway, plan, history>>

\* The descriptor names the candidate as it was when the plan was made.
Commit ==
    /\ step = "commit" /\ step' = "idle" /\ deployed' = plan.candidate
    /\ UNCHANGED <<disk, processes, parameter, gateway, plan, intact>>

\* The next transition waits for an activation that is still to come.
Reconfigure ==
    \/ ~asked /\ Goes("deactivate", "cleanup") /\ OnDeactivate
    \/ Goes("cleanup", "set") /\ OnCleanup
    \/ Goes("set", "configure") /\ SetParameter(plan.to)
    \/ Goes("configure", "verify") /\ OnConfigure
    \/ Verify("verify", "ask", plan.candidate)
    \/ Ask("ask", "activate")
    \/ Activated("activate", "commit")
    \/ Commit

Rollback ==
    \/ /\ step = "undo" /\ ~asked /\ OnDeactivate /\ UNCHANGED step
    \/ ~asked /\ Goes("undo", "restore") /\ OnCleanup
    \/ /\ step = "undo" /\ ~asked /\ phase = "unconfigured"
       /\ step' = "restore"
       /\ UNCHANGED <<disk, processes, parameter, gateway, plan, history>>
    \/ Goes("restore", "reconfigure") /\ SetParameter(plan.from)
    \/ Goes("reconfigure", "reverify") /\ OnConfigure
    \/ Verify("reverify", "reask", plan.current)
    \/ Ask("reask", "reactivate")
    \/ Activated("reactivate", "idle")

-----------------------------------------------------------------------------
Next ==
    \/ \E path \in Paths, d \in Documents : Rewrite(path, d)
    \/ Launch \/ OnActivate \/ Boot
    \/ \E path \in Paths : Prepare(path)
    \/ Reconfigure \/ Rollback \/ Fails

Spec == Init /\ [][Next]_vars

TypeOK ==
    /\ disk \in [Paths -> Documents]
    /\ launched \in Loadable \cup {None} /\ parameter \in Paths
    /\ phase \in {"unconfigured", "inactive", "active"}
    /\ bundle \in Loadable \cup {None}
    /\ (bundle = None) <=> (phase = "unconfigured")
    /\ asked \in BOOLEAN /\ intact \in BOOLEAN
    /\ step \in {"launch", "boot", "idle"} \cup Forward \cup Backward
    /\ plan.current \in Loadable \cup {None}
    /\ plan.candidate \in Loadable \cup {None}
    /\ deployed \in Loadable \cup {None}

-----------------------------------------------------------------------------
(***************************************************************************)
(* What the other processes took from the files stays what the gateway     *)
(* works with: no sequence of reconfigurations, rollbacks and rewritten    *)
(* files activates a gateway whose adapter, ingress, simulator or DDS      *)
(* participants are set up otherwise (PROFILE_RESTART_REQUIRED).  Except   *)
(* for files that are rewritten while the system comes up: nobody compares *)
(* what the gateway is first configured with to what the others loaded.    *)
(***************************************************************************)
Owned(b) ==
    [kind |-> b.profile.kind, adapter |-> b.profile.adapter,
     ingress |-> b.profile.ingress, clock |-> b.profile.useSimTime,
     period |-> StatePeriod(b.profile), can |-> SignalMapBehavior(b),
     fastdds |-> FastDdsHash(b)]

ProfileStays ==
    phase = "active" /\ intact =>
        Owned(Content[bundle]) = Owned(Content[launched])

(***************************************************************************)
(* An active gateway is heard and hears: although the adapter's contract   *)
(* is the one of its launch, DDS delivers commands and VehicleState        *)
(* between them, the adapter's watchdog outlasts the gateway's output      *)
(* period and its reports come within the gateway's timeout.               *)
(***************************************************************************)
Delivers(from, to) ==
    DdsCompatible(Discovered(MakeQos(from)), Discovered(MakeQos(to)))

Works(g, a) ==
    /\ EndpointsIdentified(g, a)
    /\ Delivers(OutputQos(g), OutputQos(a))
    /\ Delivers(VehicleQos(a), VehicleQos(g))
    /\ a.profile.adapter.watchdog * g.contract.gateway.rate > 1000
    /\ StatePeriod(a.profile) < g.contract.gateway.vehicleTimeout

ChainWorks ==
    phase = "active" /\ intact => Works(Content[bundle], Content[launched])

Compared == {deployed, plan.current, plan.candidate} \ {None}

(***************************************************************************)
(* Only what was compared is run: an active gateway works with what was    *)
(* brought up or committed last, or with a bundle of the last plan as it   *)
(* was when it was made, whatever the files have become before they were   *)
(* configured, on the way forward or back.                                 *)
(***************************************************************************)
OnlyPlanned ==
    phase = "active" /\ deployed # None =>
        \E d \in Compared : Alike(bundle, d)

-----------------------------------------------------------------------------
(***************************************************************************)
(* The inductive strengthening that the proofs rest on.                    *)
(***************************************************************************)
Starting == step \in {"launch", "boot"}

\* How the system comes up.
ComesUp ==
    /\ step = "launch" => launched = None /\ bundle = None /\ ~asked
    /\ step # "launch" => launched # None
    /\ Starting => deployed = None /\ plan = NoPlan
    /\ ~Starting => deployed # None
    /\ step = "boot" /\ intact =>
          IF bundle = None THEN disk[parameter] = launched
                           ELSE bundle = launched

\* The plan that a command works by.
Planned ==
    step \in Forward \cup Backward =>
        /\ plan.from \in Paths /\ plan.to \in Paths
        /\ plan.current # None /\ plan.candidate # None

\* A request outlives the command that made it, but no transition of the
\* gateway overtakes it.
Pending ==
    asked =>
        /\ phase = "inactive"
        /\ step \in {"boot", "activate", "undo", "idle", "reactivate"}

\* What is asked for, or may be, has been compared.
AskedCompared ==
    /\ step \in {"ask", "activate", "commit"} =>
          bundle # None /\ Alike(bundle, plan.candidate)
    /\ step \in {"reask", "reactivate"} =>
          bundle # None /\ Alike(bundle, plan.current)
    /\ ~Starting /\ (phase = "active" \/ asked) =>
          \E d \in Compared : Alike(bundle, d)

\* Whatever is compared to is set up like the other processes.
SetUpAlike ==
    ~Starting /\ intact =>
        \A d \in Compared : Owned(Content[d]) = Owned(Content[launched])

\* Whoever runs has found a QoS profile for the vehicle state.
VehicleStated ==
    \A d \in {launched, bundle} \ {None} :
        Content[d].contract.states["vehicle_state"].qos # {}

\* Activation looks at the endpoints, and they stay while it lasts.
ActiveHealthy ==
    phase = "active" => Healthy(Content[bundle], Content[launched])

ChainInv ==
    /\ TypeOK /\ ComesUp /\ Planned /\ Pending
    /\ AskedCompared /\ SetUpAlike /\ VehicleStated /\ ActiveHealthy
=============================================================================
