# Verification of the Internet Resilience Platform

TLA+ models of the part of the platform that decides about network changes, makes them and undoes
them: the privileged mutation boundary and the closed-loop cycle above it, the daemon process that
hosts them, the Linux route executor with its crash journal, the gateway saga, and the engines of
the packages around them: connectivity, failover, tunnel lifecycle with its kill switch, secure DNS
transport, and the kernel's message bus. TLC checks them on small instances; TLAPS proves
their safety properties for every instance.

Paths below are relative to the repository root. `RR` stands for `packages/resilience-runtime/src`.

## 1. Inventory

The platform is a TypeScript monorepo: libraries under `packages/`, programs under `apps/`. It is
single-threaded per process: "concurrency" is the interleaving of async functions at `await`.
What is hard in it is therefore (a) state read before an `await` and used after it, (b) multi-step
changes to the operating system that fail half way, and (c) a crash between two such steps.

| Component | State it keeps | Operations | Hard behaviour | What makes it correct |
|---|---|---|---|---|
| Privileged mutation boundary (`RR/transactions/privileged-boundary.ts`) | held resources, in-flight promises and completed outcomes per idempotency key, epoch | `mutate`, `advanceEpoch` | concurrent calls on one resource or key, halts at any phase, throwing ports, compensation that fails | exclusion, no leaked hold, one run per key, outcomes that tell the truth about the data plane |
| Resilience runtime (`RR/runtime.ts`, `RR/state/state-machine.ts`, `RR/validation/validation.ts`) | state machine, in-flight cycle, operation locks, idempotency map, counters | `cycle`, `runIntent(s)`, `whenIdle` | every stage may reject; the state machine must be legal after every outcome | single flight, quiet when idle, no unearned success, every cycle ends |
| Safety kernel and recovery provider (`RR/safety`, `RR/recovery`) | checkpoints | `assess`, `checkpoint`, `rollback`, `recover` | recovery by failover rather than by undo | a reported recovery is one |
| Linux route executor and journal (`packages/linux-client`) | journal on disk, snapshots in memory, kernel table | apply, confirm, rollback, `recoverInterrupted` | crash between journal and kernel, inside a rollback, inside recovery | the journal always suffices to get back |
| Routing engine (`packages/routing`) | transitions, active paths, history | `applyPlan`, `rollbackPlan`, `confirmPlan`, `plan` | callers joined to one transition | plan status equals what happened |
| Canonical network adapter (`RR/canonical-network-adapter.ts`) | last plans and receipts | `execute`, `verify`, `rollback`, `verifyRollback` | rollback of what another action did | the boundary's ports are truthful |
| Gateway plane and fleet (`RR/gateway`, `packages/gateway-registry`) | applications, per-gateway lock, capacity records | `apply`, `rollback`, fleet maintenance | saga over five managers, compensation that fails, queueing | no leaked capacity, true receipts |
| Tunnel lifecycle (`RR/tunnel`, `packages/tunnel`) | tunnels, connections, locks, the managed tunnel, the interface, the kill-switch table | establish, connect, disconnect, reconnect, rotate, kill switch | timeouts that abandon work, rollback outside the lock, a firewall changed command by command | the live tunnel is the managed one, the host fails closed, no connection is lost |
| Connectivity manager (`packages/connectivity`) | resources, cached health, active source, transition lock | discovery, `switchSource`, failover, failback, recover, deactivate | a switch that fails after it happened, calls beside the lock | one transition at a time, the active source is up, nothing stays up unnoticed |
| Daemon (`apps/daemon`) | process lifecycle, control socket, DNS journal | start-up recovery, operator cycles, device connections, shutdown | shutdown during a cycle, a second signal, crashes around DNS changes | recovery before serving, originals on record, shutdown ends |
| Scheduler, closed-loop controller | timers, cooldown, run state | start, stop, tick | ticks overlapping a cycle | no overlap, stop is final |
| Intent, policy, governance; planning, decision | policies, intents, scores | evaluate, arbitrate, plan | conflicting intents | deterministic arbitration |
| Observation, incidents, learning, knowledge | evidence, incidents, confidence | record, correlate, decay | out-of-order evidence | evidence is not lost or double-counted |
| Persistence and stores | degradable store's retry buffer | append, flush | buffer limit, retry duplicates | nothing is dropped silently |
| Failover engine (`packages/failover`) | recovery state, locks, circuits, signals | detect, recover, simulate, override | one state shared by all recoveries, retries, rollback | bounded retries, released locks, honest outcomes |
| DNS engine and restore journal (`packages/dns`) | pooled sockets, circuits, resolver health, cache; journal | resolve, cancel, shutdown; capture, restore | late answers on reused sockets, cancellation, shutdown in flight | an answer is its own, sockets have one user, queries end |
| Kernel bus (`packages/kernel`) | handlers, signals, retries | publish, command, execute, workflows, stop | retry count shared by handlers, answers before the work is over | nothing runs for an answered caller or after a stop |
| Security, plugins, events and telemetry, platform clients, API/CLI/web, analysis packages | see `PROJECT.json` | | | |

How they interact: a scheduler tick, an operator or the closed loop calls `cycle()`. The cycle
observes, correlates, arbitrates, plans and validates, takes the validator's operation lock and
calls `mutate()`. The boundary drives its nine phases through ports made by a factory: the safety
kernel for checkpoints and recovery, the network adapter for `execute`, `verify` and the two
rollbacks. The adapter applies routes through the routing engine, whose kernel handlers call the
Linux route executor (an `ip` process per command, journal first), or applies a gateway, which is
a saga over fleet manager, tunnel control plane, routing engine, destination verifier and
connectivity manager. At start-up the daemon calls `recoverInterrupted` before it serves.

Everything hard to test in this code is listed, line by line, under `hazards` in `PROJECT.json`.

## 2. Modules

| Module | Models | Composes |
|---|---|---|
| `MutationService` | abstract: what a privileged mutation promises | - |
| `PrivilegedMutationBoundary` | `mutate()`, its phase machine, failure path, replay cache, epochs | implements `MutationService` |
| `ResilienceRuntime` | `cycle()`, `executeCycle()`, `recordBlocked()`, state machine, validator lock | extends the boundary: its `mutate()` calls are the cycle's |
| `DaemonHost` | daemon process, scheduler, closed loop, shutdown, DNS restore journal | cycles are abstract in it; `ResilienceRuntime` has them |
| `LinuxRouteExecutor` | route executor, journal, iproute2, crash and restart | - |
| `GatewayPlane` | gateway saga with fleet, tunnel, routing and connectivity state | - |
| `ConnectivityManager` | connectivity manager and the daemon's device connections | - |
| `FailoverEngine` | failover and recovery engine | - |
| `TunnelLifecycle` | automated tunnel lifecycle and nftables kill switch | - |
| `SecureDnsTransport` | encrypted DNS transports, pool, circuits, retries | - |
| `KernelRuntime` | message bus, `execute()`, workflow engine, start and stop | - |
| `*Proofs` | theorems about the module of that name (section 5) | extends it; the runtime's hold the boundary's too |
| `DnsProofs` | theorems about `SecureDnsTransport` and `DaemonHost` | extends both |
| `MC*` | instances for TLC | |

In all of them an action is the code between two awaits: it takes the answer of the awaited call
as an input (`\E`), and runs to the next await. Every answer a collaborator can give, rejection
included, is an input. Definitions named "Mutant" are plausible bugs used to show that a property
can fail; no specification uses them.

### 2.1 PrivilegedMutationBoundary

`pc[c]` is where an invocation is suspended. `held`, `inFlight`, `completed` and `epoch` are the
fields of the same names. `MutateBound`, `MutateJoin` and `MutateStart` are the three ways
`mutate()` can go before its first await; `SnapshotDone`, `PolicyDone`, `SafetyDone`,
`ExecuteDone`, `VerifyDone` are the forward phases; `CompensateDone`, `VerifyRollbackDone` and
`RecoverDone` the failure path. Three facts of JavaScript are modelled exactly:

* `return this.failurePath(...)` inside `try/finally` does not await, so `Fail` drops the resource
  before the rollback runs (the control points `Holding` and `Recovering` differ for this reason);
* the `finally` of the promise empties `inFlight` (`Settle`) some microtasks before the owner binds
  the key (`Publish`); calls that arrive in between find the key bound nowhere;
* `Map.set` keeps the place of an existing key (`Bind`), and eviction takes the oldest (`Evict`).

`effect[c]` is history: what the run has left in the data plane. `execution` is what the run was
told. The properties compare the two. Three constants say what the deployed ports can know, and no
property assumes that they know more:

* `CheckpointRollback`: with it any returned execution counts as compensation;
* `Proven`: the actions whose adapter's `verifyRollback` reads the data plane. For any other the
  boundary, or the network adapter itself (`RR/canonical-network-adapter.ts:515`), re-runs
  `verify`, whose answer says nothing of the undo;
* `Delegated`: the actions that `FailoverRecoveryProvider` (`RR/recovery/recovery.ts:63-74`) hands to
  a failover plan. Such a plan may put another path in the place of the mutated one or only probe
  again; either is a `success` when all its steps succeeded.

`Evidence(c)` are the phases passed that do show something; "recovered" without evidence is possible
in the code and is said so (`VerdictOf`: "claimed").

### 2.2 ResilienceRuntime

A caller of `cycle()` is the boundary's caller of the same name. `state` is the state machine with
its transition table, `at[c]` the stage of `executeCycle`. The boundary's own steps interleave with
the cycle's. Calls answered from the idempotency map or refused because a cycle runs change nothing
and are no actions. "live" stands for every mode but simulation.

### 2.3 LinuxRouteExecutor

`kernel[t]` maps metrics to next hops; `Exec` is what `ip route replace|del` does, including that
metric 0 is left out of the arguments, so that a delete matches any metric. `journal[p]` is the
entry on disk; the executor's maps always equal it. The kernel's change (`ReplaceRuns`) and the
exit code (`ReplaceSucceeds`, `ReplaceFails`) are two steps, so a crash can fall between them.
`Crash` loses all but kernel and journal. `Restart` lists the journal in any order: file names say
nothing about the order of application. A command killed at its timeout may have run (`ReplaceFails`
after `ReplaceRuns`, `RollbackFails`, `ReconcileEnd`). `goal[t]` is history: the tables acceptable
after a crash (the last confirmed one; during a late rollback also the one it leads to). `tainted` is
history too: the targets for which the code's journal may not lead back, each for one of four causes.
A replace was killed after it ran and its entry forgotten; a plan was started, or a confirmed one
rolled back, over an unconfirmed plan of the target (`Stacked`); a confirmed plan is rolled back by
two commands, between which a crash leaves a verified entry; or a plan of metric 0, whose delete
names no metric, met a route of another metric through its next hop (`Ambiguous`), or such a delete
took one (`Strays`). A confirmation, or a late rollback that ends, is a new start for the target
(`Heals`).

### 2.4 GatewayPlane

An operation is one call of `apply()` or `rollback()`; its tunnel and its route plan have fresh ids
and are named after it. `lock[g]` is the promise chain of `withLock`. `Refuse`, `ApplyStart`,
`Reverified`, `Rereached` are the part before any mutation and the reuse of an application;
`EstablishStart`, `Configured`, `Connected`, `Verified`, `Routed`, `Reached`, `Switched` the
establishment; `CompensateStart`, `RollbackStart`, `Restored`, `Unrouted`, `TeardownStart`,
`TeardownDone` the two undos, which share their steps. `MaxTunnels` is the limit of the tunnel
manager, whose tunnels are never removed. `Serial` makes operations one at a time; section 4 says
why that is the deployed case. `stranded[g]` is history: the units an `apply()` reserved and then
threw outside the `try` that compensates, because `buildTunnelConfiguration` does not know the
declared protocol. The registry takes any string as a protocol and can be updated between two
operations, so any establishment may end there (`EstablishStart`, exit "unsupported").

### 2.5 MutationService and the refinement

The service knows calls, resources and one verdict per call: a call is admitted to a free resource,
mutates it while it owns it, gives it up decided or to undo what it did, and its verdict is
`Truthful` about what is still in force. The boundary implements it (`ImplementsService`): a run is
`working` while it holds its resource, `undoing` after the `finally` dropped it, `decided` once its
outcome stands (`StageOf`, `VerdictOf`), and `effect` is what is in force. Joined and replayed
callers, phases, keys, epochs and the cache are invisible to it.

### 2.6 DaemonHost

`life` is the lifecycle of the process, `timer` and `ticking` the scheduler, `loop` and `aborted`
the bounded closed loop, `stop[s]` one run of the signal handler. `cycle` is the runtime's cycle in
flight: only scheduled ones may be live and change DNS (`ApplyDnsProvider`, `Captured`, `Changed`).
`resolvers` is what systemd-resolved uses, `journal` the file `dns-original.json`. The restore is
two steps (`Restore`, `Remove`; `StartupRestore`, `Started`), so a crash can fall between them.
`LoopRefused` and `LoopFails` are the `process.exit(1)` of the entry point.

### 2.7 KernelRuntime

A call is a published message; `inv[h]` is the retry loop of its handler `h`, `attempts` the
counter all of them share. A signal is in `linked` while its listener and timer are installed.
`WatcherFires` is the watcher of `WorkflowEngine.run`, which answers while the loop goes on.

### 2.8 FailoverEngine

`run[r]` is one pending `recover()` with its plan. `state` is shared by all of them, as in the
code; `disturbed` is history: another call moved it while this one was executing. `recover()` is
given a signal, which it detects itself, a failure that an earlier `detect()` returned, or one that is
confirmed. The second is refused by `confirm()` unless the engine is still in `detecting`
(`ConfirmThrows`), which is what `RefusedUnconfirmed` names; `Confirm` is `confirm()` called by
itself. The one use of the engine in the platform, `FailoverRecoveryProvider`, makes an engine per
recovery and gives it a confirmed failure; the model is about the engine as the package exports it.

### 2.9 ConnectivityManager

`call[c]` is a public call; those that switch hold `lock` between their first and last await, the
others run beside it. `up` is the host: the sources that are activated. `excused` is history: the
sources whose deactivation was refused, failed, impossible or never asked for.

### 2.10 TunnelLifecycle

`op[o]` is a call of the lifecycle on one full tunnel. Each nft command of the kill switch is a
step (`sw` names the next one) on `table`, which is absent, open or dropping. `withTimeout` ends
the waiting only: `strays` and `ending` are the commands, connects and disconnects that go on.
`links` is the provider's record of connections, numbered as they are made, so that the one
`getConnection` returns, the oldest, is the least. `guard` and `orphans` are history: whether the
kill switch is due, and the connections nobody records. `shutdown()` is a `disconnect` of each connected tunnel.

### 2.11 SecureDnsTransport

`query[q]` is a call of `resolve()` with its place in the fallback order and its attempt. A socket
knows the answers it still owes (`owed`), the data listeners on it (`heard`), whose abort signal
destroys it (`by`). "dead" sockets count as open for the pool, as in the code. A listener that
throws stops the model (`uncaught`), as it does the process. The engine awaits its event bus, whose
`publish` rejects when a handler does: every such await may fail (`Choose`, `FallsBack`,
`ConnectFails`, `Unannounced`). `lost` is history: the sockets the pool dropped unclosed, and those
whose `connection.established` was refused between `connect()` and the `try` that releases. Two
queries have different ids in the model; the code draws them at random from 16 bits
(`packages/dns/src/index.ts:1898`), so what is shown holds for ids that differ.

## 3. Runs

All runs are expected to pass.

| Run | What it shows |
|---|---|
| `boundary_safety` | three calls of two callers on two keys and two resources, a cache of one entry, recovery by plans that may only probe: exclusion, no leaked hold, one run per key, a bounded cache through evictions of keys that run, verified commits, residue that is reported |
| `boundary_live` | two calls on one key, a checkpoint rollback and no adapter that proves its undo: "recovered" is reported after no less than a verified rollback or a recovery and its evidence is right, the boundary implements `MutationService`, every caller is answered |
| `runtime_cycles` | three cycles by two callers, every stage and the decision store may reject: one run at a time, idle means quiet, a success was committed, every cycle ends |
| `daemon_host` | starts, crashes, two signals, hanging cycles, DNS changes on two links: replaced resolvers are on record, cycles begin only while running, a clean exit was drained or out of time, a shutdown ends |
| `routes_crash` | three plans of one target with equal and different metrics and next hops, started over abandoned ones too; hosts with no route, one, several or an opaque one; killed commands, late rollbacks, two crashes anywhere: but for `tainted` targets the journal leads back and a forgotten entry left nothing; recovery finishes |
| `gateway_serial` | four operations one at a time, every collaborator failing: true receipts, no lost live tunnel, capacity backed but for stranded units |
| `gateway_concurrent` | three concurrent operations: capacity backed but for stranded units, the lock is passed on to all who wait |
| `connectivity` | two calls of every kind, with registrations and overrides between their awaits: one transition at a time, the active source is up, residue is explained, every call ends |
| `failover` | two recoveries of signals, detected and confirmed failures, with detections, confirmations, simulations and overrides: locks match executions, retries are bounded, illegal transitions need a disturbance or a failure detected by an earlier call, outcomes are honest, every recovery settles |
| `tunnel_lifecycle` | two calls of every kind with failing and timed-out providers and nft commands: one operation at a time, fail closed, no lost connection, connected means up, every call ends |
| `dns_transport` | two queries over DoH and DoT with timeouts, cancellation, dying sockets, a rejecting event bus and shutdown: answers are their own, one user per socket, no socket out of reach but `lost` ones, circuits match failures, uncaught errors are explained, every query ends |
| `kernel_calls` | operations, a bootstrap and a workflow with a stop and timeouts: answers match handlers, nothing runs for an answered caller or after a stop, every workflow answers |

A run's invariant is often a conjunction of parts that are definitions of their own
(`CyclesAreSeparate`, `NothingLeaks`, `AnswersAreSound`, `RecoveryInv`, `TransitionInv`,
`SourcesAreAccounted`, `RoutesInv`, `ResolversInv`, `AnswersAreOwn`, `SocketsAreAccounted`,
`ConnectionsAreAccounted`); the other sections speak of the parts, and a `.cfg` may name one of them
instead of the conjunction to see which part a change breaks.

Several properties name exceptions (`stranded`, `tainted`, `Evidence`, `shadowed`, `overran`, `lost`,
`stale`, `late`, `orphans`, `guard = "lost"`, `excused`, `disturbed`, `RefusedUnconfirmed`). Each
exception is a behaviour of the code that a reader should know of; it is listed in section 6, and the
property shows that there is no other.

### Bounds and why they are enough

* Boundary: two concurrent callers give every pairwise interleaving, which is what all its
  invariants quantify over; two keys with one cache entry force eviction, also of a key that runs
  again, which takes three calls. `boundary_safety` keeps the epoch still; `boundary_live` has two,
  for a stale request, and a key bound twice. The first run takes callers, keys and resources for
  interchangeable (`Symmetry`) and identifies states that differ only in what nobody reads any more
  (`Living`): the locals of a run that ended and the request and outcome of a caller that was
  answered. It checks invariants only, none of which reads these. The theorems lift the invariants
  to any size and any epoch.
* Runtime: two callers collide on `inFlight`; three cycles let one cycle meet the state and the
  caches two predecessors left; one record and one entry force eviction in both maps. The epoch
  stands still here: the boundary's own runs move it.
* Routes: plans of different metrics stack two routes, so a rollback takes two commands; two of the
  three plans share a metric, two a next hop, and one has metric 0; the third plan makes recovery
  handle several entries, over abandoned ones too; two crashes let the second fall into the recovery
  of the first. Targets do not interact but through the order of recovery, so one is enough for the
  run; the theorems are about any number of them.
* Gateway: two gateways are the least for one to disturb the other; four operations give establish,
  a half-failed undo, another establishment and its undo. `MaxTunnels` is 3 in the serial run, so
  that it is not what stops the fourth operation, and 1 in the concurrent one, so that the limit
  strikes.

* Daemon: two links make the single record of the journal too small; two signals give a second
  `stop()` beside the first; two rounds let a signal fall between two cycles of the loop. Crashes
  and restarts are unbounded.
* Kernel: two handlers share a budget of three, and one of two in a workflow's step; two calls and one workflow of two steps let a step,
  an operation and a stop overlap.
* Failover: two recoveries in one or two domains share the state; two signals make a failure, so
  that one call is undetected; a circuit threshold of one is the only one at which a circuit opens
  (section 6); one detection, simulation or override from outside, and any `confirm()` the state
  allows, move the state between awaits.
* Connectivity: two calls and two sources, one of which cannot deactivate, and one registration or
  override: enough for every pair of calls to interleave, and for one of them to meet the lock.
* Tunnel: two calls (of which the first may be `establish`), two attempts, two connections, one
  piece of abandoned work at a time (`MaxStrays`): a retry, its leftovers and a second call meet.
* DNS: two queries, two sockets and a pool of one make reuse, a full pool and a late answer happen;
  two attempts let a retry meet the answer of its first attempt; a threshold of one opens circuits.

Deadlock is not checked, but in `daemon_host`: the other runs stop when their calls, plans or
operations are used up.

### Fairness

Weak fairness on the steps of a run, a cycle, a call or an operation: ports answer (the code gives
each `ip`, `wg` and probe process a timeout, and the boundary a budget) and the event loop runs
every continuation that is ready. Nothing is assumed about new calls, signals, interrupts, epochs
or abandoned work. `RecoveryFinishes` adds that the supervisor restarts a crashed process; crashes
are finite in number there (`MaxCrashes`). `ShutdownEnds` assumes no end of scheduled cycles, only
that requests of the control socket are answered and `stop()` is resumed; `EveryFlowAnswered`
assumes timers and no handler; `EveryQueryEnds` timers and no peer. `EveryCallEnds` of the tunnel
assumes that `prepare`, `establish` and `cleanup` of the adapter, which have no timeout, answer. No
strong fairness is used.

## 4. How the modules justify each other

The boundary alone does not keep rollbacks exclusive (`RollbackIsExclusive`, section 6). In the
runtime this cannot happen: `OneRunAtATime` shows that the single flight of `cycle()` lets no
mutation reach the boundary until the previous run, rollback included, was answered (for any number
of callers: `CyclesStaySeparate`; and `RuntimeUsesTheBoundary` carries the boundary's theorems into
the runtime). The same fact justifies `Serial = TRUE` of `gateway_serial`: the adapter calls the
gateway plane from inside a run. It also justifies that `LinuxRouteExecutor` handles plans of one
target one after the other (`TargetFree`). `SuccessWasCommitted` shows that the replay of denials as
`committed` (`DenialIsNotSuccess`, section 6) never becomes a recorded success: the runtime looks at
the execution too, and after a failed or recovered mutation its state machine lets no further cycle
reach the boundary. The second half rests on what `ReadyForNextCycle` (section 6) shows to be a
defect: with `observing -> observing` allowed (the mutant `LegalReobserving`) `SuccessWasCommitted`
fails, so the two should be repaired together.

`DaemonHost` takes from the runtime that at most one cycle is in flight (`Begins`), which is
`OneRunAtATime`, and gives back that no cycle begins before recovery is over or after a shutdown
began (`StopIsOrderly`), which is what lets `LinuxRouteExecutor` recover with no plan in
progress.

## 5. What is proved

For every set of callers, operations, sources, links or components, and for every bound. Each
theorem is about the specification of its component (`RuntimeSpec` for the runtime's three,
`HostSpec` for the daemon's two, else `Spec`). `ResilienceRuntime` extends the boundary, so one
module holds the theorems of both, and `DnsProofs` those of the two modules about DNS.

| Module | Theorem | Statement |
|---|---|---|
| `ResilienceRuntimeProofs` (boundary) | `TypeCorrect` | `[]TypeOK` |
| | `HeldResourcesAreLive` | `[]HeldIsLive` |
| | `Exclusion` | `[]ResourceExclusion` |
| | `SingleFlight` | `[]OneRunPerKey` |
| | `BoundedCache` | `[]CacheIsBounded` |
| | `VerifiedCommit` | `[]CommitIsVerified` |
| | `TruthfulRecovery` | `[]RecoveredIsClean` |
| | `ReportedResidue` | `[]ResidueIsReported` |
| | `BoundaryIsService` | `ImplementsService` |
| `ResilienceRuntimeProofs` (runtime) | `CyclesStaySeparate` | `[]CyclesAreSeparate` |
| | `SuccessIsBacked` | `[]SuccessWasCommitted` |
| | `RuntimeUsesTheBoundary` | `RuntimeSpec => Spec` |
| `LinuxRouteExecutorProofs` | `CrashSafety` | `[]RoutesInv` |
| | `ForgettingIsSafe` | `ForgottenMeansRestored` |
| `GatewayPlaneProofs` | `CapacityNeverLeaks` | `[]CapacityIsBacked` |
| | `NothingIsLost` | `[]NothingLeaks`, given `Serial` |
| | `ReceiptsAreTrue` | `ReceiptIsTrue`, given `Serial` |
| `DnsProofs` (transports) | `AnswersReachTheirAsker` | `[]AnswersAreOwn` |
| | `SocketsStayAccounted` | `[]SocketsAreAccounted` |
| `DnsProofs` (daemon) | `ResolversAreOnRecord` | `[]ResolversInv` |
| | `OrderlyStop` | `StopIsOrderly` |
| `FailoverEngineProofs` | `BookkeepingIsKept` | `[]RecoveryInv` |
| | `AloneNeverIllegal` | `[]AloneIsLegal` |
| | `ReportsAreHonest` | `[]OutcomeIsHonest` |
| `ConnectivityManagerProofs` | `OneTransitionAtATime` | `[]TransitionInv` |
| | `NoSourceUnaccounted` | `[]SourcesAreAccounted` |
| `TunnelLifecycleProofs` | `AlwaysFailClosed` | `[]FailClosed` |
| | `ConnectionsAlwaysAccounted` | `[]ConnectionsAreAccounted` |
| `KernelRuntimeProofs` | `SoundAnswers` | `[]AnswersAreSound` |
| | `QuietOnceAnswered` | `AnsweredIsQuiet` |
| | `QuietOnceStopped` | `StoppedIsQuiet` |

### Assumptions

The modules' ASSUMEs, which TLC evaluates in every run: sizes and limits are of the type the code
gives them, `None` (`Nothing` in `DaemonHost`) is no member of the sets it stands beside
(`NoneIsNoInput`, `NoneIsNoEntry`). The two theorems about the gateway plane operated one call at a
time have a hypothesis of their own, `Serial`: its operations do not overlap. Section 4 says why the
deployed plane is operated that way; section 6 what happens otherwise.

### The arguments

Boundary, one inductive invariant per topic:

* `TypeOK /\ JoinerWaits`. `Publish` answers everybody whose `joined` is the owner; that they get
  control points and outcomes of the right type needs that only suspended callers have joined.
* `HeldInv`: `HeldIsLive` with its converse, every run in `Holding` is recorded as the holder of
  its resource. Without the converse a release could drop somebody else's hold. Exclusion follows:
  two holders of a resource are both `held[r]`.
* `KeyInv`: a registered run is `inFlight` of its key, what is in flight is a registered run of
  that key, and a joined caller's run has not been published. `OneRunPerKey` follows.
* `CacheIsBounded` is inductive with `TypeOK`, given lemmas on `Bind` (keeps keys distinct, adds at
  most one) and `Evict`.
* `TruthInv`: for each control point, the phases recorded so far, what the run may have left in the
  data plane, and what a decided outcome says of both: nothing is assumed of what the ports claim
  beyond `Proven` and `Delegated`, so a recovered outcome is clean where there is `Evidence`. The
  three truth properties follow.
* Refinement: an action of one call is that call's step of the service or invisible. `HeldInv`
  gives that a resource taken is free in the service too, `TruthInv` that a verdict is `Truthful`.

Runtime, `RuntimeInv`: the boundary's invariants, `CycleSound` (whoever is under way is `active`, a
mutation is in progress only while its cycle awaits it), `AnswerBacked`, `LockInv`, `CountInv` and
`DeadEndInv`. The last is the surprising one. The cache may bind a key to an execution that
succeeded and was not committed, which is replayed as a commit; `SuccessWasCommitted` is then safe
only because the state machine is in a state from which no cycle reaches the boundary any more. The
proof depends on the defect `ReadyForNextCycle` shows, as section 4 says of the run.

Routes, `RouteInv`: what is said of a table and of an unconfirmed entry is said of targets that are
not `tainted`; the shape of the journal and of what is pending (`EntrySound`, `PointSound`), that one
plan of a target is at work (`OneAtWork`) and how recovery stands (`RecoverySound`) hold of all, since
the journal holds them up whatever happened. On a clean target one plan is in progress or unconfirmed
(`Alone`), so a step of it moves its target under nobody. The table of an unconfirmed plan is the one
its snapshot captured or what its replace made of it, and the journaled undo leads from either to the
snapshot, and from anywhere within the undo too (`TableSound`, `DeleteTakesOwn`): that is why a crash
between the kernel's change and its exit code, or between two commands of a recovery, is harmless. A
delete without a metric takes a route by its next hop; it takes the plan's own because the snapshot
had no other through that next hop (the last part of `EntrySound`). `LateSound` says that the rollback
of a confirmed plan leads from one acceptable table to another or strays, and `Settled` that a clean
target with nothing unconfirmed has an acceptable table.

Gateway, `PlaneInv` and `SerialInv`: with any number of operations, whoever works on a gateway is
first in its queue, so the others' records of capacity and applications do not move under it
(`OwnMove`), and an undo has given its unit back before its first await, so that no more than the
stranded ones are left. With one operation at a
time `TunnelSound` says at each control point which tunnel is managed and live, and the route is
there whenever a tunnel is live and no operation is at a point of `Unroutable`, where it is being
made or undone. That a teardown never leaves a live tunnel behind rests on it: the managed tunnel is
the only live one. A receipt is given at three places, and at each the invariant is the receipt.

Daemon, `HostInv`: a shutdown past its drain runs alone or has given up waiting (`Drained`), a
cycle about to change a link finds something on record (`ChangeIsRecorded`), what is on record is an
original unless shadowed (`RecordIsOriginal`), and who removes it has put it back (`RemovalIsSafe`).

DNS transports, `TransportInv`: who holds a connection talks DoT and is connected or waiting, and
inside `execute()` it has been seen by a shutdown (`QuerySound`). A socket on which no request was
given up owes one answer to whoever waits on it, its only listener, and nothing to anybody else
(`AnswersDue`): an answer that arrives there is the right one. Where a request was given up
(`stale`) the ids decide, and if they differ the listener throws. Pooled connections and those in
use stay disjoint because `acquire()` shifts what it lends (`TailOne`) and whoever is answered,
fails, is aborted or refused by the event bus holds nothing afterwards (`Releases`): what it held is
in the pool or let go by name (`Parted`). All steps but a shutdown are one of
three: a query takes a connection (`TakesKeeps`), gives up what it has (`Releases`), or no query
takes part (`StillKeeps`).

Failover, `EngineInv`: every recovery is `Placed` in its plan (steps before the current one have
succeeded, performs are counted against retries), its outcome is earned (`Reported`), and unless
disturbed the shared state is the one it put there (`Mine`), which is why the table lets an
undisturbed one go on; `confirm()` of an older failure is asked before the recovery has put anything
there, hence the exception of `AloneIsLegal`. A step is described as `Becomes` and the other
recoveries see it only as a disturbance.

Connectivity, `ManagerInv`: besides the single transition, what the one under way knows at each
await (`WorkSound`), and that somebody will have excused each source that is up (`Explained`).

Tunnel, `TunnelInv`: connections are numbered as they are made, an enable deletes the table first
and drops again before its rules (`SwitchSound`), a stray nft command means a lost guard
(`GuardSound`), and a connected tunnel outside a rollback has a live link (`ConnectedLive`).

Kernel, `KernelInv`: an answer is the one its invocations justify (`Consistent`), a handler gives up
only when the budget is spent or its signal dead (`Exhausted`), every call that waits is linked to
the stop (`CallSound`, `FlowSound`), and a workflow's commands are accounted for (`Commanded`).

### Only model-checked

* Liveness under fairness, which is out of the prover's reach: `EveryCallAnswered`, `CycleEnds`,
  `ShutdownEnds`, `RecoveryFinishes`, `EveryOperationEnds`, `EveryCallEnds`,
  `EveryRecoverySettles`, `EveryQueryEnds`, `EveryFlowAnswered`.

Every invariant and every action property that a run checks is a theorem.

## 6. Known divergences without a run

Each is a definition of its module, under "Claims of the source that the code does not keep", or a
property with other constants:

* `DenialIsNotSuccess`: any cached outcome, a denial included, is replayed with status `committed`,
  where `privileged-boundary.ts:237-238` says that callers "cannot accidentally treat a denial as
  success". This one and the next four as INVARIANT or PROPERTY of `MCBoundary.cfg` with
  `Actions = {a1, a2}`, `Resources = {r1}`, `MaxEpoch = 2` and without its `VIEW`.
* `ApplyIsFenced`: an epoch advanced after `prepare` does not stop the apply.
* `RebindIsRefused`, `AnswerNamesTheAction`: a key in flight, or between settling and publishing,
  can be given to another action.
* `FailureIsCompensated`: a run halted after apply compensates nothing.
* `RollbackIsExclusive`: the resource is free while its previous run is still being rolled back.
* "recovered" with the mutation in force, in two ways that `RecoveredIsClean` and `ResidueIsReported`
  leave room for (`~Evidence(c)`) and show to be the only ones: a failover plan that only probed again
  succeeds (`Delegated`), and after a checkpoint rollback `verify`, run again by the boundary or by the
  network adapter for what is no route, succeeds (not `Proven`) because the mutation is still there.
* Four ways in which the route journal does not lead back, the causes of `tainted`; `RoutesInv` and
  `ForgottenMeansRestored` show that there is no other. A replace killed at its timeout may have been
  carried out, and its entry is forgotten (`linux-route-executor.ts:516` says "a failure leaves the
  prior route untouched"). A crash between the two commands of a late rollback leaves a verified
  entry, which recovery does not undo. The delete of a plan of metric 0 names no metric and can take
  another route through its next hop. A plan started or rolled back over an abandoned one has a
  snapshot, or an undo, that recovery may apply in the wrong order.
* `ServesConfirmedRoutes` (INVARIANT of `MCRoutes.cfg`): recovery undoes an abandoned
  plan on top of a newer confirmed one, where `linux-route-executor.ts:622-624` says that "a
  confirmed change survives".
* `ReadyForNextCycle` of the runtime: after a recovered mutation the next cycle is an illegal
  transition, which fails the runtime.
* `GatewaysAreIndependent` of the gateway plane: a failed establishment tears down the tunnel of
  another gateway.
* A blocked cycle whose record the store rejects is counted as blocked and as failed
  (`RecordThrows` after `TallyBlocked`, then `CycleFails`).
* A gateway whose declared protocol the tunnels do not know (`gateway-registry-plane.ts:146-151`)
  costs one unit of its capacity for every `apply()`: line 712 throws after the reservation of line
  700 and before the `try` of line 718. `CapacityIsBacked` counts these units (`stranded`) and shows
  that no other unit leaks.
* `RetryCanSucceed` (INVARIANT of `MCGateway.cfg`): a rollback that fails at the route or the
  tunnel has given the capacity back, so its retry fails at the release.
* `FailureLeavesNothing` (PROPERTY of `MCGateway.cfg`): `switchSource` can reject after the switch.
* `LiveTunnelIsManaged` and `ReceiptIsTrue` with `Serial = FALSE`: two connects pass the check of
  the managed tunnel before either has set it. Unreachable through one runtime (section 4).
* Tunnels are never removed from the tunnel manager, and its control plane allows two: the third
  establishment of a process is refused.
* `ConnectedIsActive` (PROPERTY of `MCConnectivity.cfg`): the daemon reports a device connected
  through a source that another switch replaced while its destination was verified;
  `apps/daemon/src/index.ts:750` says "never a merely requested state".
* Connectivity: a candidate that fails its verification stays activated; a failover that joins the
  lock of another returns nothing; a health refresh brings the resource of an unregistered provider
  back, after which every evaluation throws.
* `ShutdownRestoresResolvers` (INVARIANT of `MCDaemon.cfg`): the DNS journal has one record, so a
  second link's resolvers are lost; `docs/operations/running-the-daemon.md:52-53` promises them back.
* `ExitCutsNothingOff` (PROPERTY of `MCDaemon.cfg`): a closed loop that fails exits the process in
  the middle of a scheduled cycle's DNS change; `apps/daemon/src/index.ts:965-966` says why that is
  to be avoided. A drain that times out restores DNS under a cycle that may change it again.
* Failover: the re-probe that opens every plan reports success to the circuit of the failing
  component, so a threshold above one is never reached; a recovery in another domain, a detection
  or a plan resets the shared state and makes an executing recovery throw. `detect()`, `confirm()`,
  `recover(f)` with the failure that `detect()` returned is rejected, with nobody else around: the
  second confirmation finds the engine in `confirming` (`RefusedUnconfirmed`). The override
  `clear-failure-state` deletes the signals by component, while they are kept by domain and
  component, so it clears nothing.
* Tunnel: `enable()` of the kill switch begins by deleting the table and a failed one deletes it
  again, also when it was to stay on; a timed-out one goes on beside its successor. The rollback of
  `establish()` runs outside the lock. `connect()` on a connected tunnel marks it failed.
  `DisconnectedIsDown` fails with three calls: `getConnection` returns the oldest connection and
  `disconnect` takes only that one down.
* DNS transport: a `connection.established` that the event bus refuses (`packages/dns/src/index.ts:2796`)
  leaves the new socket neither pooled nor closed; a full pool and aged connections are dropped
  without being closed (all in `lost`). A read that timed out leaves its answer on a pooled socket;
  the id check of the next user then throws inside an event listener, which ends the process. A refusal by an open circuit counts as a failure
  and renews the time it opened; `halfOpenMaxAttempts` is configured and read by nobody. The abort
  listener of a connect outlives it and destroys the socket under a later query. A query inside
  `execute()` at shutdown returns its connection to a pool nobody drains.
* Kernel: with `maxAttempts` 1 the second handler of a message never runs; `OperationOptions.signal`
  is ignored by `execute`.

## 7. Abstractions and scope

* Boundary: mutation ids are the callers (the code's `mut-<time>` ids may collide within one
  millisecond, which is not modelled); phase records are a set; wording and timing are left out.
* Runtime: observation, correlation, arbitration, planning, policy and validation are inputs; the
  event sink of the runtime swallows errors, so only the decision store can reject a record.
* Routes: IPv4; nobody else changes the table; an `ip` process does not outlive the process that
  started it; no journal file is corrupt.
* Gateway: one destination and one WireGuard interface, hence one route, which vanishes with the
  interface; the registry's preconditions, probes and fleet limits are inputs; the restoration of
  the source by `compensate` is unreachable, because nothing after a recorded switch can fail
  (`confirmPlan` never throws); a teardown is two steps; other tunnel providers are not modelled.
  The daemon builds its own plane without a fleet manager, where `apply` fails closed (`Refuse`).
* Daemon: a cycle is who asked for it and its DNS changes; a command that resolvectl fails has
  changed nothing; the closed loop is configured; the control server closes when its requests end.
* Kernel: names and priorities are the places of the handlers in a message's list; payloads, the
  event history and the container, configuration, registry and resource maps are left out.
* Failover: scores, confidence and impact choose the plan and are inputs. `rollback()` relabels the
  steps and calls no adapter, so `OutcomeIsHonest` is about the report, not about the network.
  `plan()`, `execute()` and `transition()` called from outside, one by one, are not modelled.
* Connectivity: a source whose `activate` rejects is not up; scores, hysteresis, cooldown and policy decide a verdict and are an input.
* Tunnel: one tunnel that requires the kill switch; in the code all tunnels share one table. Rules
  after the chain are one command. The configuration's checks are inputs.
* DNS: the transports `select()` returns are an input; one answer per data event, well formed; DoH
  connections are tokens, because its requests use the agent's own sockets.

Scope: the map names about 4,700 source lines, of some 67,000 lines of TypeScript under `packages/`
and `apps/` (tests and generated output not counted). Everything else is unverified.

Not modelled, with the reason (see also `components` in `PROJECT.json`):

* `SmartDnsEngine` (scoring, cache, single flight): mostly arithmetic over probe results. Read and
  worth a module: its flight and cache keys leave out transport and override, and a resolver below
  the minimum score is never probed again.
* `RoutingEngine`'s path discovery and scoring, planning, decision, intent, policy, learning and
  analysis: advisory computations with no authority over mutations; they are inputs of the runtime.
* `DegradableStore` and the PostgreSQL stores: only tests construct the first with a persistence.
* API, CLI, web, telemetry: transport and presentation. Platform clients other than Linux have no
  journal. Plugins and security are candidates for modules of their own.

## 8. Plan

Done: the boundary with its theorems and the abstract service it implements, refinement proved; the
runtime cycle; the daemon host with scheduler, closed loop and DNS journal; the route executor under
crashes; the gateway saga; connectivity, failover, tunnel lifecycle, DNS transport and kernel bus;
the safety theorems of all of them.

Next, for tainted targets of `LinuxRouteExecutor`: which orders of undoing several unconfirmed
entries of one target lead back, and which do not.

Liveness and recursive data stay with TLC.
