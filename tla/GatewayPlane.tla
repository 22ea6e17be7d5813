---------------------------- MODULE GatewayPlane ----------------------------
(***************************************************************************)
(* Establishing a gateway as a saga                                        *)
(* (packages/resilience-runtime/src/gateway/gateway-registry-plane.ts):    *)
(* reserve capacity, connect a tunnel, install a route through it, reach   *)
(* the destination, switch the connectivity source - and undo all of it.   *)
(* It is composed with the parts that keep the state it mutates: the fleet *)
(* manager's reservations, the tunnel control plane and its manager, the   *)
(* WireGuard provider's interface, the routing engine's transitions and    *)
(* the connectivity manager's active source.                               *)
(*                                                                         *)
(* An operation is one invocation of apply() or rollback().  An action is  *)
(* the code between two awaits.  The tunnel and the route plan an          *)
(* operation creates have fresh ids, so they are named after it.  All      *)
(* plans are for the one configured destination through the provider's one *)
(* interface, so there is one route, and it goes with the interface.       *)
(***************************************************************************)
EXTENDS Naturals, Sequences, FiniteSets

CONSTANTS
    Gateways,   \* registered gateways, which are connectivity sources too
    Ops,        \* bound: invocations of apply() and rollback()
    Home,       \* the connectivity source that is active at first
    None,
    MaxTunnels, \* limits.maxTunnels of the tunnel manager
    Serial      \* one operation at a time, as cycle() makes them

ASSUME GatewaySets ==
    /\ Home \notin Gateways
    /\ None \notin Gateways \cup {Home} \cup Ops
ASSUME GatewayBounds ==
    /\ MaxTunnels \in Nat
    /\ Serial \in BOOLEAN

VARIABLES
    pc,       \* where each operation is suspended
    call,     \* what it was asked to do
    prev,     \* previousSourceId of its establishment
    plan,     \* routePlan of its establishment
    undoing,  \* which undo it runs: compensate() or _rollback()
    tear,     \* the tunnel its teardown disconnects
    errs,     \* its undo has met an error
    result,   \* how it ended
    lock,     \* this.operationLocks: the operations of a gateway, in order
    apps,     \* this.applications
    reserved, \* capacity.reserved of the fleet records
    stranded, \* history: units of it an apply() reserved and then threw outside its try
    tunnels,  \* TunnelManager.tunnels
    managed,  \* TunnelRegistryControlPlane.managedTunnelId
    runtime,  \* WireGuardProvider.runtime
    iface,    \* the tunnel whose connect created the interface, if it exists
    transition, \* RoutingEngine.transitions: the plan being committed
    journal,  \* plans the route executor can roll back
    before,   \* whether the route was there when a plan was applied
    routed,   \* the route through the interface is in the kernel
    source    \* ConnectivityManager.active

local == <<call, prev, plan, undoing, tear, errs, result>>
tunnelVars == <<tunnels, managed, runtime, iface>>
routeVars == <<transition, journal, before, routed>>
vars == <<pc, local, lock, apps, reserved, stranded, tunnelVars, routeVars, source>>

-----------------------------------------------------------------------------
Sources == Gateways \cup {Home}
Call == [kind: {"apply", "rollback"}, gateway: Gateways]
Application == [tunnel: Ops, plan: Ops, prev: Sources]
ASSUME NoneIsNoRecord == None \notin Call \cup Application

Cleaning == {"restoring", "unrouting", "tearing", "disconnecting"}
\* Control points of an establishment that holds a reservation.
Establishing == {"configuring", "connecting", "verifying", "routing",
                 "reaching", "switching", "failing"}
Points == Establishing \cup Cleaning \cup
          {"idle", "queued", "reverifying", "rereaching", "establishing", "done"}

gw(o) == call[o].gateway
Working(o) == pc[o] \notin {"idle", "queued", "done"}

Init ==
    /\ pc = [o \in Ops |-> "idle"]
    /\ call = [o \in Ops |-> None]
    /\ prev = [o \in Ops |-> None]
    /\ plan = [o \in Ops |-> None]
    /\ undoing = [o \in Ops |-> "none"]
    /\ tear = [o \in Ops |-> None]
    /\ errs = [o \in Ops |-> FALSE]
    /\ result = [o \in Ops |-> "none"]
    /\ lock = [g \in Gateways |-> <<>>]
    /\ apps = [g \in Gateways |-> None]
    /\ reserved = [g \in Gateways |-> 0]
    /\ stranded = [g \in Gateways |-> 0]
    /\ tunnels = {}
    /\ managed = None
    /\ runtime = {}
    /\ iface = None
    /\ transition = None
    /\ journal = {}
    /\ before = [o \in Ops |-> FALSE]
    /\ routed = FALSE
    /\ source = Home

-----------------------------------------------------------------------------
(* withLock. *)

Enqueue(o, g) == lock' = [lock EXCEPT ![g] = Append(@, o)]

\* Mutant: the previous operation is not awaited.
AdmittedAnyway(o) == TRUE

\* `await prev` has resolved.
Admitted(o) == Head(lock[gw(o)]) = o

\* Mutant: an operation that fails keeps the lock.
DequeueSuccess(o) ==
    lock' = [lock EXCEPT ![gw(o)] = IF result'[o] = "failed" THEN @ ELSE Tail(@)]

\* The finally of withLock.
Dequeue(o) == lock' = [lock EXCEPT ![gw(o)] = Tail(@)]

Goto(o, p) == pc' = [pc EXCEPT ![o] = p]

Finish(o, r) ==
    /\ Goto(o, "done")
    /\ result' = [result EXCEPT ![o] = r]
    /\ Dequeue(o)

Invoke(o, c) ==
    /\ pc[o] = "idle"
    /\ Serial => \A x \in Ops : pc[x] \in {"idle", "done"}
    /\ Goto(o, "queued")
    /\ call' = [call EXCEPT ![o] = c]
    /\ Enqueue(o, c.gateway)
    /\ UNCHANGED <<prev, plan, undoing, tear, errs, result, apps, reserved,
                   tunnelVars, routeVars, source, stranded>>

-----------------------------------------------------------------------------
(* The fleet manager. *)

\* releaseCapacity(g, 1); it throws when nothing is reserved.
Release(g) == reserved' = [reserved EXCEPT ![g] = IF @ > 0 THEN @ - 1 ELSE @]
ReleaseThrows(g) == reserved[g] = 0

-----------------------------------------------------------------------------
(* apply(): what happens before the first mutation. *)

\* One of the preconditions of apply() does not hold: lifecycle, trust, source,
\* tunnel declaration, destination or a missing collaborator.
Refuse(o) ==
    /\ pc[o] = "queued" /\ Admitted(o) /\ call[o].kind = "apply"
    /\ Finish(o, "refused")
    /\ UNCHANGED <<call, prev, plan, undoing, tear, errs, apps, reserved,
                   tunnelVars, routeVars, source, stranded>>

ApplyStart(o) ==
    /\ pc[o] = "queued" /\ Admitted(o) /\ call[o].kind = "apply"
    /\ Goto(o, IF apps[gw(o)] # None THEN "reverifying" ELSE "establishing")
    /\ UNCHANGED <<local, lock, apps, reserved, tunnelVars, routeVars, source,
                   stranded>>

\* Mutant: the id of the tunnel is not compared and its runtime not looked up.
MayBeHealthyAnyway(t) == TRUE

\* TunnelRegistryControlPlane.verify: only the managed tunnel can be healthy.
MayBeHealthy(t) == t = managed /\ t \in runtime /\ iface # None

\* Mutant: the application is replaced without being rolled back.
ForgetsExisting(o) ==
    /\ Goto(o, "establishing")
    /\ UNCHANGED <<undoing, errs, reserved>>

\* The first, synchronous, steps of _rollback: release, then the source.
RollbackExisting(o) ==
    /\ undoing' = [undoing EXCEPT ![o] = "rollback"]
    /\ errs' = [errs EXCEPT ![o] = ReleaseThrows(gw(o))]
    /\ Release(gw(o))
    /\ Goto(o, IF apps[gw(o)].prev # gw(o) THEN "restoring" ELSE "unrouting")

\* The tunnel of the existing application is verified again.
Reverified(o, healthy) ==
    /\ pc[o] = "reverifying"
    /\ healthy => MayBeHealthy(apps[gw(o)].tunnel)
    /\ IF healthy
         THEN Goto(o, "rereaching") /\ UNCHANGED <<undoing, errs, reserved>>
         ELSE RollbackExisting(o)
    /\ UNCHANGED <<call, prev, plan, tear, result, lock, apps, tunnelVars,
                   routeVars, source, stranded>>

\* The destination is verified again; a verifier that throws ends apply().
Rereached(o, outcome) ==
    /\ pc[o] = "rereaching"
    /\ CASE outcome = "reachable" ->
              Finish(o, "reused") /\ UNCHANGED <<undoing, errs, reserved>>
         [] outcome = "threw" ->
              Finish(o, "refused") /\ UNCHANGED <<undoing, errs, reserved>>
         [] OTHER ->
              RollbackExisting(o) /\ UNCHANGED <<result, lock>>
    /\ UNCHANGED <<call, prev, plan, tear, apps, tunnelVars, routeVars, source,
                   stranded>>

-----------------------------------------------------------------------------
(* The establishment. *)

\* What connect() and configure() throw on before their first await.
ConnectRefused == managed # None \/ Cardinality(tunnels) >= MaxTunnels

\* Capacity is reserved unless the gateway is full, the active source remembered
\* and connect() called.  A declared protocol the tunnels do not know, which the
\* registry admits, throws in between: the unit stays reserved and apply() ends.
\* The limit and the allocated part are set elsewhere.
EstablishStart(o, exit) ==
    /\ pc[o] = "establishing"
    /\ IF exit = "full" THEN UNCHANGED reserved
                        ELSE reserved' = [reserved EXCEPT ![gw(o)] = @ + 1]
    /\ CASE exit = "full" -> Finish(o, "refused") /\ UNCHANGED <<prev, stranded>>
         [] exit = "unsupported" ->
              /\ Finish(o, "stranded")
              /\ stranded' = [stranded EXCEPT ![gw(o)] = @ + 1]
              /\ UNCHANGED prev
         [] exit = "begun" ->
              /\ prev' = [prev EXCEPT ![o] = source]
              /\ Goto(o, IF ConnectRefused THEN "failing" ELSE "configuring")
              /\ UNCHANGED <<result, lock, stranded>>
    /\ UNCHANGED <<call, plan, undoing, tear, errs, apps, tunnelVars, routeVars,
                   source>>

\* provider.create answers: the tunnel is known to the manager and managed.
Configured(o, ok) ==
    /\ pc[o] = "configuring"
    /\ IF ok
         THEN /\ tunnels' = tunnels \cup {o}
              /\ managed' = o
              /\ Goto(o, "connecting")
         ELSE Goto(o, "failing") /\ UNCHANGED <<tunnels, managed>>
    /\ UNCHANGED <<local, lock, apps, reserved, runtime, iface, routeVars,
                   source, stranded>>

\* provider.connect answers.  An interface that exists makes it fail; a failed
\* connect removes the interface it created, unless that fails too (left).
Connected(o, ok, left) ==
    /\ pc[o] = "connecting"
    /\ ok => iface = None
    /\ IF ok
         THEN runtime' = runtime \cup {o} /\ iface' = o /\ Goto(o, "verifying")
         ELSE /\ UNCHANGED runtime
              /\ iface' = IF left /\ iface = None THEN o ELSE iface
              /\ Goto(o, "failing")
    /\ UNCHANGED <<local, lock, apps, reserved, tunnels, managed, routeVars,
                   source, stranded>>

\* The new tunnel passes its health check and applyPlan is called, which hands
\* out the running transition when there is one for the destination.
Verified(o, healthy) ==
    /\ pc[o] = "verifying"
    /\ healthy => MayBeHealthy(o)
    /\ IF healthy
         THEN LET owner == IF transition = None THEN o ELSE transition IN
              /\ Goto(o, "routing")
              /\ plan' = [plan EXCEPT ![o] = owner]
              /\ transition' = owner
         ELSE Goto(o, "failing") /\ UNCHANGED <<plan, transition>>
    /\ UNCHANGED <<call, prev, undoing, tear, errs, result, lock, apps, reserved,
                   tunnelVars, journal, before, routed, source, stranded>>

\* commit() ends for its owner and for those that were handed its promise.  It
\* never throws: a plan that failed was undone, unless the undo failed (left).
Routed(o, ok, left) ==
    /\ pc[o] = "routing" /\ transition = o
    /\ ok \/ left => iface # None
    /\ transition' = None
    /\ pc' = [x \in Ops |-> IF pc[x] = "routing"
                              THEN IF ok THEN "reaching" ELSE "failing"
                              ELSE pc[x]]
    /\ IF ok \/ left
         THEN /\ journal' = journal \cup {o}
              /\ before' = [before EXCEPT ![o] = routed]
              /\ routed' = TRUE
         ELSE UNCHANGED <<journal, before, routed>>
    /\ UNCHANGED <<local, lock, apps, reserved, tunnelVars, source, stranded>>

\* The application is recorded and confirmPlan, which never throws, is called.
Establish(o) ==
    /\ apps' = [apps EXCEPT ![gw(o)] =
                   [tunnel |-> o, plan |-> plan[o], prev |-> prev[o]]]
    /\ Finish(o, "established")

\* verifyDestination answers; the source is switched unless it is active.
Reached(o, reachable) ==
    /\ pc[o] = "reaching"
    /\ CASE ~reachable -> Goto(o, "failing") /\ UNCHANGED <<result, lock, apps>>
         [] reachable /\ prev[o] # gw(o) ->
              Goto(o, "switching") /\ UNCHANGED <<result, lock, apps>>
         [] OTHER -> Establish(o)
    /\ UNCHANGED <<call, prev, plan, undoing, tear, errs, reserved, tunnelVars,
                   routeVars, source, stranded>>

\* switchSource answers.  It may throw after the source became active, when the
\* provider of the previous one fails to deactivate it (late).
Switched(o, how) ==
    /\ pc[o] = "switching"
    /\ source' = IF how = "rejected" THEN source ELSE gw(o)
    /\ IF how = "switched"
         THEN Establish(o)
         ELSE Goto(o, "failing") /\ UNCHANGED <<result, lock, apps>>
    /\ UNCHANGED <<call, prev, plan, undoing, tear, errs, reserved, tunnelVars,
                   routeVars, stranded>>

-----------------------------------------------------------------------------
(* compensate() and _rollback(). *)

\* compensate() up to its first await.  No failure follows a source switch that
\* was recorded, so there is no source to restore.
CompensateStart(o) ==
    /\ pc[o] = "failing"
    /\ undoing' = [undoing EXCEPT ![o] = "compensate"]
    /\ errs' = [errs EXCEPT ![o] = ReleaseThrows(gw(o))]
    /\ Release(gw(o))
    /\ Goto(o, IF plan[o] # None THEN "unrouting" ELSE "tearing")
    /\ UNCHANGED <<call, prev, plan, tear, result, lock, apps, tunnelVars,
                   routeVars, source, stranded>>

\* rollback(), which has nothing to do without an application.
RollbackStart(o) ==
    /\ pc[o] = "queued" /\ Admitted(o) /\ call[o].kind = "rollback"
    /\ IF apps[gw(o)] = None
         THEN Finish(o, "rolledback") /\ UNCHANGED <<undoing, errs, reserved>>
         ELSE RollbackExisting(o) /\ UNCHANGED <<result, lock>>
    /\ UNCHANGED <<call, prev, plan, tear, apps, tunnelVars, routeVars, source,
                   stranded>>

\* The source is switched back, with the failures of any switch.
Restored(o, how) ==
    /\ pc[o] = "restoring"
    /\ source' = IF how = "rejected" THEN source ELSE apps[gw(o)].prev
    /\ errs' = [errs EXCEPT ![o] = @ \/ how # "switched"]
    /\ Goto(o, "unrouting")
    /\ UNCHANGED <<call, prev, plan, undoing, tear, result, lock, apps, reserved,
                   tunnelVars, routeVars, stranded>>

\* The plan an undo rolls back.
PlanOf(o) == IF undoing[o] = "rollback" THEN apps[gw(o)].plan ELSE plan[o]

\* rollbackPlan answers: the route is restored or deleted.  It fails without a
\* snapshot, without the interface, and for a route that is gone.
Unrouted(o, ok) ==
    /\ pc[o] = "unrouting"
    /\ LET p == PlanOf(o) IN
       /\ ok => p \in journal /\ iface # None /\ (before[p] \/ routed)
       /\ errs' = [errs EXCEPT ![o] = @ \/ ~ok]
       /\ journal' = IF ok THEN journal \ {p} ELSE journal
       /\ routed' = IF ok THEN before[p] ELSE routed
    /\ Goto(o, "tearing")
    /\ UNCHANGED <<call, prev, plan, undoing, tear, result, lock, apps, reserved,
                   tunnelVars, transition, before, source, stranded>>

\* The end of an undo.  compensate() keeps whatever application there was; a
\* rollback that met no error drops it, and apply() goes on in either case.
EndUndo(o, failed) ==
    /\ errs' = [errs EXCEPT ![o] = @ \/ failed]
    /\ apps' = IF undoing[o] = "rollback" /\ ~errs'[o]
                 THEN [apps EXCEPT ![gw(o)] = None] ELSE apps
    /\ IF undoing[o] = "rollback" /\ call[o].kind = "apply"
         THEN Goto(o, "establishing") /\ UNCHANGED <<result, lock>>
         ELSE Finish(o, IF undoing[o] = "compensate" THEN "failed"
                        ELSE IF errs'[o] THEN "incomplete" ELSE "rolledback")

\* TunnelManager.locks.
TunnelLocked(t) ==
    pc[t] = "connecting" \/ \E x \in Ops : pc[x] = "disconnecting" /\ tear[x] = t

\* TunnelRegistryControlPlane.rollback, whatever tunnel it manages.
TeardownStart(o) ==
    /\ pc[o] = "tearing"
    /\ IF managed # None /\ ~TunnelLocked(managed)
         THEN /\ tear' = [tear EXCEPT ![o] = managed]
              /\ Goto(o, "disconnecting")
              /\ UNCHANGED <<errs, apps, result, lock>>
         ELSE EndUndo(o, managed # None) /\ UNCHANGED tear
    /\ UNCHANGED <<call, prev, plan, undoing, reserved, tunnelVars, routeVars,
                   source, stranded>>

\* disconnectTunnel ends.  The provider forgets the tunnel before it knows that
\* `ip link del` worked; it does nothing for a tunnel it does not know.
TeardownDone(o, deleted) ==
    /\ pc[o] = "disconnecting"
    /\ LET known == tear[o] \in runtime IN
       /\ deleted => known
       /\ runtime' = runtime \ {tear[o]}
       /\ iface' = IF deleted THEN None ELSE iface
       /\ routed' = (routed /\ ~deleted)
       /\ managed' = IF deleted \/ ~known THEN None ELSE managed
       /\ EndUndo(o, known /\ ~deleted)
    /\ UNCHANGED <<call, prev, plan, undoing, tear, reserved, tunnels,
                   transition, journal, before, source, stranded>>

-----------------------------------------------------------------------------
OpStep(o) ==
    \/ Refuse(o) \/ ApplyStart(o) \/ CompensateStart(o)
    \/ RollbackStart(o) \/ TeardownStart(o)
    \/ \E b \in BOOLEAN :
          \/ Reverified(o, b) \/ Configured(o, b) \/ Verified(o, b)
          \/ Reached(o, b) \/ Unrouted(o, b) \/ TeardownDone(o, b)
    \/ \E exit \in {"full", "unsupported", "begun"} : EstablishStart(o, exit)
    \/ \E ok, left \in BOOLEAN : Connected(o, ok, left) \/ Routed(o, ok, left)
    \/ \E outcome \in {"reachable", "unreachable", "threw"} : Rereached(o, outcome)
    \/ \E how \in {"switched", "rejected", "late"} :
          Switched(o, how) \/ Restored(o, how)

Next == \E o \in Ops : OpStep(o) \/ \E c \in Call : Invoke(o, c)

Spec == Init /\ [][Next]_vars

\* Collaborators answer and the event loop runs every continuation.
FairSpec == Spec /\ \A o \in Ops : WF_vars(OpStep(o))

-----------------------------------------------------------------------------
(* Properties. *)

\* The type invariant.  releaseCapacity never makes a reservation negative, and
\* the control plane and the provider know only tunnels of the manager.
TypeOK ==
    /\ pc \in [Ops -> Points]
    /\ call \in [Ops -> Call \cup {None}]
    /\ \A o \in Ops : pc[o] = "idle" <=> call[o] = None
    /\ prev \in [Ops -> Sources \cup {None}]
    /\ plan \in [Ops -> Ops \cup {None}]
    /\ undoing \in [Ops -> {"none", "rollback", "compensate"}]
    /\ tear \in [Ops -> Ops \cup {None}]
    /\ errs \in [Ops -> BOOLEAN]
    /\ result \in [Ops -> {"none", "refused", "reused", "established", "failed",
                           "stranded", "rolledback", "incomplete"}]
    /\ lock \in [Gateways -> Seq(Ops)]
    /\ apps \in [Gateways -> Application \cup {None}]
    /\ reserved \in [Gateways -> Nat]
    /\ stranded \in [Gateways -> Nat]
    /\ tunnels \subseteq Ops /\ runtime \subseteq tunnels
    /\ managed \in tunnels \cup {None}
    /\ iface \in tunnels \cup {None}
    /\ transition \in Ops \cup {None}
    /\ journal \subseteq Ops
    /\ before \in [Ops -> BOOLEAN]
    /\ routed \in BOOLEAN
    /\ source \in Sources

\* What a unit of capacity is held for.
Backed(g) == apps[g] # None \/ \E o \in Ops : pc[o] \in Establishing /\ gw(o) = g

\* Capacity leaks in one place only.  But for the units of establishments that
\* threw between the reservation and the compensating try, a gateway never has
\* more than one unit reserved, and has one only for an establishment under way
\* or a recorded application, whatever failed and however operations of other
\* gateways interleave.
CapacityIsBacked ==
    \A g \in Gateways :
       /\ reserved[g] <= stranded[g] + 1
       /\ ~Backed(g) => reserved[g] <= stranded[g]

\* Every operation ends, also those that wait for the lock of their gateway.
EveryOperationEnds == \A o \in Ops : pc[o] = "queued" ~> pc[o] = "done"

\* A receipt is true when it is given, in spite of every rollback that failed
\* half way before: the managed tunnel is up and the route goes through it.
ReceiptIsTrue ==
    [][\A o \in Ops :
          pc[o] # "done" /\ pc'[o] = "done" /\ result'[o] \in {"established", "reused"}
          => LET a == apps'[gw(o)] IN
             /\ a # None
             /\ managed' = a.tunnel /\ a.tunnel \in runtime' /\ iface' = a.tunnel
             /\ routed']_vars

\* The tunnel control plane never loses a live tunnel.
LiveTunnelIsManaged == \A t \in runtime : managed = t

\* Over every establishment, failed compensation, reuse and rollback the plane
\* loses track of nothing else: no other unit of capacity without an application
\* or an establishment under way, and no live tunnel the control plane forgot.
NothingLeaks == TypeOK /\ CapacityIsBacked /\ LiveTunnelIsManaged

-----------------------------------------------------------------------------
(* Claims of the source that the code does not keep. *)

\* "A failed establishment never leaves a switched source, an installed route or
\* a live tunnel behind", when its compensation met no error.
FailureLeavesNothing ==
    [][\A o \in Ops :
          pc[o] # "done" /\ pc'[o] = "done" /\ result'[o] = "failed" /\ ~errs'[o]
          => /\ prev[o] # gw(o) => source' # gw(o)
             /\ o \notin runtime']_vars

\* "route rollback failure followed by successful retry": an application that is
\* kept for a retry still has the reservation the retry gives back.
RetryCanSucceed ==
    \A g \in Gateways :
       apps[g] # None /\ lock[g] = <<>> => reserved[g] > 0

\* "concurrent operations for different gateways proceed independently": no
\* operation takes down the tunnel of another gateway's application.
GatewaysAreIndependent ==
    [][\A g \in Gateways :
          apps[g] # None /\ apps[g].tunnel \in runtime /\ apps[g].tunnel \notin runtime'
          => \E o \in Ops : Working(o) /\ gw(o) = g]_vars
=============================================================================
