--------------------- MODULE PrivilegedMutationBoundary ---------------------
(***************************************************************************)
(* The single place a privileged network mutation may happen               *)
(* (packages/resilience-runtime/src/transactions/privileged-boundary.ts).  *)
(*                                                                         *)
(* A caller is one pending invocation of mutate().  Every `await` of the   *)
(* phase machine is a point where other callers may run, so an action is   *)
(* the code between two awaits: it consumes the answer of the port that    *)
(* was awaited and runs up to the next one.                                *)
(***************************************************************************)
EXTENDS Naturals, Sequences, FiniteSets

CONSTANTS
    Callers,      \* concurrent mutate() invocations; also their mutation ids
    Keys,         \* idempotency keys
    Actions,      \* plan.selectedAction.id
    Resources,    \* resourceId
    None,         \* "no entry" in the maps below
    CheckpointRollback, \* SafetyKernelOptions.rollback is configured
    Proven,       \* actions whose adapter's verifyRollback reads the data plane
    Delegated,    \* actions that are recovered by a plan of the failover engine
    MaxEntries,   \* MAX_IDEMPOTENCY_ENTRIES
    MaxEpoch,     \* bound: advanceEpoch() is called fewer than MaxEpoch times
    MaxRequests   \* bound: calls of mutate() in one behaviour

Statuses == {"committed", "failed", "recovered", "blocked", "cancelled",
             "timed-out", "threw"}   \* threw: the promise is rejected
\* The status of the ActionExecution of an outcome, "none" when it has none.
Executions == {"none", "success", "skipped", "failed"}

ASSUME SetsAssumption ==
    /\ None \notin Callers
    /\ None \notin [key: Keys, action: Actions, resource: Resources,
                    epoch: 1..MaxEpoch]
    /\ None \notin [status: Statuses, action: Actions, execution: Executions]
ASSUME PortsAssumption ==
    /\ CheckpointRollback \in BOOLEAN
    /\ Proven \subseteq Actions
    /\ Delegated \subseteq Actions
ASSUME BoundsAssumption ==
    /\ MaxEntries \in Nat \ {0}
    /\ MaxEpoch \in Nat \ {0}
    /\ MaxRequests \in Nat

VARIABLES
    pc,         \* where each invocation is suspended
    req,        \* its MutationRequest
    out,        \* the TransactionOutcome it has produced or received
    phases,     \* the phases its run has recorded as passed
    halt,       \* context.cancelled / mutation budget spent, per invocation
    execution,  \* the ActionExecution the executor returned to the run
    compensated,\* compensation.compensated of the run's failure path
    effect,     \* what the run has left in the data plane
    held,       \* this.held: resource -> mutation id
    inFlight,   \* this.inFlight: key -> owner of the running promise
    joined,     \* the run whose promise an invocation awaits
    completed,  \* this.completed, a Map in insertion order
    epoch,      \* this.epoch
    issued      \* number of mutate() calls so far

vars == <<pc, req, out, phases, halt, execution, compensated, effect, held,
          inFlight, joined, completed, epoch, issued>>

\* What a step of a running phase machine leaves alone.
registry == <<req, inFlight, joined, completed, epoch, issued>>

-----------------------------------------------------------------------------
TransactionPhases == {"prepare", "snapshot", "validate", "policy", "security",
                      "safety", "apply", "verify", "commit"}
RecoveryPhases == {"rollback", "verifyRollback", "recover"}

\* The run holds its resource in exactly these control points.
Holding == {"snapshot", "policy", "safety", "executing", "verify"}
\* The failure path.  runMachine returns its promise without awaiting it, so
\* `finally` has already dropped the resource.
Recovering == {"rollback", "verifyRollback", "recover"}
\* The run's promise is registered in inFlight in exactly these.
Registered == Holding \cup Recovering \cup {"returned"}
ControlPoints == Registered \cup {"idle", "settled", "joined", "replied"}

\* epoch is the one the decision was computed against; leaving it undefined
\* passes the check like naming the current one.
Request == [key: Keys, action: Actions, resource: Resources,
            epoch: 1..MaxEpoch]
\* partialFailure holds of an outcome that is no commit and has an execution.
Outcome == [status: Statuses, action: Actions, execution: Executions]
Entry == [key: Keys, action: Actions, outcome: Outcome]

Effects == {"none", "applied", "superseded"}
Halts == {"no", "cancelled", "timed-out"}

IsBound(k) == \E i \in DOMAIN completed : completed[i].key = k
EntryOf(k) == completed[CHOOSE i \in DOMAIN completed : completed[i].key = k]

Free(c) == pc[c] \in {"idle", "replied"}

Init ==
    /\ pc = [c \in Callers |-> "idle"]
    /\ req = [c \in Callers |-> None]
    /\ out = [c \in Callers |-> None]
    /\ phases = [c \in Callers |-> {}]
    /\ halt = [c \in Callers |-> "no"]
    /\ execution = [c \in Callers |-> "none"]
    /\ compensated = [c \in Callers |-> FALSE]
    /\ effect = [c \in Callers |-> "none"]
    /\ held = [r \in Resources |-> None]
    /\ inFlight = [k \in Keys |-> None]
    /\ joined = [c \in Callers |-> None]
    /\ completed = <<>>
    /\ epoch = 1
    /\ issued = 0

-----------------------------------------------------------------------------
(* How a run moves on or ends. *)

\* The outcome records built by blocked(), gateOutcome(), cancelledOutcome(),
\* timedOutOutcome(), staleOutcome() and concurrentOutcome().
Result(q, status, exec) ==
    [status |-> status, action |-> q.action, execution |-> exec]

\* The run records `passed` phases and awaits the port of control point p.
Await(c, p, passed) ==
    /\ pc' = [pc EXCEPT ![c] = p]
    /\ phases' = [phases EXCEPT ![c] = @ \cup passed]
    /\ UNCHANGED <<out, held>>

\* Mutant: the outcome is built but not returned.
FinishNoOutcome(c, status, exec, passed) ==
    /\ pc' = [pc EXCEPT ![c] = "returned"]
    /\ phases' = [phases EXCEPT ![c] = @ \cup passed]
    /\ UNCHANGED out

\* The outcome is decided; inside runMachine `finally` drops the resource.
Finish(c, status, exec, passed) ==
    /\ pc' = [pc EXCEPT ![c] = "returned"]
    /\ out' = [out EXCEPT ![c] = Result(req[c], status, exec)]
    /\ phases' = [phases EXCEPT ![c] = @ \cup passed]

\* Mutant: no `finally`.
ReleaseForgotten(c) == UNCHANGED held

Release(c) == held' = [held EXCEPT ![req[c].resource] = None]

Return(c, status, exec, passed) ==
    /\ Finish(c, status, exec, passed)
    /\ Release(c)

\* `return this.failurePath(...)`: the failure path runs up to its first await,
\* then `finally` drops the resource while the failure path goes on.
Fail(c) ==
    /\ pc' = [pc EXCEPT ![c] = "rollback"]
    /\ Release(c)
    /\ UNCHANGED <<out, phases>>

Halted(c) == halt[c] # "no"

-----------------------------------------------------------------------------
(* mutate(): what happens before the first await. *)

Issue(c, q) ==
    /\ Free(c)
    /\ issued < MaxRequests
    /\ issued' = issued + 1
    /\ req' = [req EXCEPT ![c] = q]

\* The key is already bound: replay its outcome as committed, or refuse it
\* when it names another action.
MutateBound(c, q) ==
    /\ Issue(c, q)
    /\ IsBound(q.key)
    /\ pc' = [pc EXCEPT ![c] = "replied"]
    /\ out' = [out EXCEPT ![c] =
                  IF EntryOf(q.key).action # q.action
                    THEN Result(q, "blocked", "none")
                    ELSE [EntryOf(q.key).outcome EXCEPT !.status = "committed"]]
    /\ UNCHANGED <<phases, halt, execution, compensated, effect, held,
                   inFlight, joined, completed, epoch>>

\* The key is in flight: the caller is handed the running promise.
MutateJoin(c, q) ==
    /\ Issue(c, q)
    /\ ~IsBound(q.key)
    /\ inFlight[q.key] # None
    /\ pc' = [pc EXCEPT ![c] = "joined"]
    /\ joined' = [joined EXCEPT ![c] = inFlight[q.key]]
    /\ UNCHANGED <<out, phases, halt, execution, compensated, effect,
                   held, inFlight, completed, epoch>>

\* Stale and concurrent protection of the prepare phase.
Stale(q) == q.epoch # epoch

\* Mutant: the holder is not looked at.
ConcurrentUnchecked(c, q) == FALSE

Concurrent(c, q) == held[q.resource] \notin {None, c}

\* A new run, in a context that may already be cancelled: prepare.
Prepare(c, q, h) ==
    IF h = "no" /\ ~Stale(q) /\ ~Concurrent(c, q)
      THEN /\ pc' = [pc EXCEPT ![c] = "snapshot"]
           /\ phases' = [phases EXCEPT ![c] = {"prepare"}]
           /\ held' = [held EXCEPT ![q.resource] = c]
           /\ UNCHANGED out
      ELSE /\ pc' = [pc EXCEPT ![c] = "returned"]
           /\ phases' = [phases EXCEPT ![c] = {}]
           /\ out' = [out EXCEPT ![c] =
                         Result(q, IF h # "no" THEN h ELSE "blocked", "none")]
           /\ UNCHANGED held

\* Mutant: the running promise is not registered.
RegisterForgotten(c, q) == UNCHANGED inFlight

Register(c, q) == inFlight' = [inFlight EXCEPT ![q.key] = c]

MutateStart(c, q, h) ==
    /\ Issue(c, q)
    /\ ~IsBound(q.key)
    /\ inFlight[q.key] = None
    /\ Prepare(c, q, h)
    /\ Register(c, q)
    /\ halt' = [halt EXCEPT ![c] = h]
    /\ UNCHANGED <<execution, compensated, effect, joined, completed, epoch>>

-----------------------------------------------------------------------------
(* The phase machine, one action per awaited port. *)

\* Mutant: the policy gate is skipped.
SnapshotToSafety(c, stale, rejected) ==
    /\ pc[c] = "snapshot" /\ ~stale /\ ~rejected
    /\ Await(c, "safety", {"snapshot", "validate"})
    /\ UNCHANGED <<halt, execution, compensated, effect, registry>>

\* snapshot -> validate -> policy.  stale: the resource version moved;
\* rejected: the selected action carries rejection reasons.
SnapshotDone(c, stale, rejected) ==
    /\ pc[c] = "snapshot"
    /\ IF stale \/ (rejected /\ ~Halted(c))
         THEN Return(c, "blocked", "none", {"snapshot"})
       ELSE IF Halted(c)
         THEN Return(c, halt[c], "none", {"snapshot"})
         ELSE Await(c, "policy", {"snapshot", "validate"})
    /\ UNCHANGED <<halt, execution, compensated, effect, registry>>

\* policy -> security -> safety.
PolicyDone(c, allowed, authorized) ==
    /\ pc[c] = "policy"
    /\ IF ~allowed
         THEN Return(c, "blocked", "none", {})
       ELSE IF Halted(c)
         THEN Return(c, halt[c], "none", {"policy"})
       ELSE IF ~authorized
         THEN Return(c, "blocked", "none", {"policy"})
         ELSE Await(c, "safety", {"policy", "security"})
    /\ UNCHANGED <<halt, execution, compensated, effect, registry>>

\* Mutant: the resource is dropped before the executor is called.
SafetyDoneUnlocks(c, safe) ==
    /\ pc[c] = "safety" /\ safe /\ ~Halted(c)
    /\ pc' = [pc EXCEPT ![c] = "executing"]
    /\ phases' = [phases EXCEPT ![c] = @ \cup {"safety"}]
    /\ Release(c)
    /\ UNCHANGED <<out, halt, execution, compensated, effect, registry>>

\* safety -> apply.
SafetyDone(c, safe) ==
    /\ pc[c] = "safety"
    /\ IF ~safe
         THEN Return(c, "blocked", "none", {})
       ELSE IF Halted(c)
         THEN Return(c, halt[c], "none", {"safety"})
         ELSE Await(c, "executing", {"safety"})
    /\ UNCHANGED <<halt, execution, compensated, effect, registry>>

\* Mutant: the execution is not handed to the outcome.
HaltAfterApplySilent(c) == Return(c, halt[c], "none", {"apply"})

\* The one halt that follows a returned execution: nothing is compensated, the
\* outcome only carries the execution.
HaltAfterApply(c) == Return(c, halt[c], execution'[c], {"apply"})

\* apply -> verify, or the failure path.  A failed or throwing apply may have
\* left anything behind (eff); a skipped one is simulated and leaves nothing.
ExecuteDone(c, status, eff) ==
    /\ pc[c] = "executing"
    /\ eff = CASE status = "success" -> "applied"
               [] status = "skipped" -> "none"
               [] OTHER -> eff
    /\ execution' = [execution EXCEPT ![c] =
                        IF status = "threw" THEN "none" ELSE status]
    /\ effect' = [effect EXCEPT ![c] = eff]
    /\ IF status \notin {"success", "skipped"}
         THEN Fail(c)
       ELSE IF Halted(c)
         THEN HaltAfterApply(c)
         ELSE Await(c, "verify", {"apply"})
    /\ UNCHANGED <<halt, compensated, registry>>

\* verify -> commit, or the failure path.
VerifyDone(c, verified) ==
    /\ pc[c] = "verify"
    /\ IF verified
         THEN Return(c, "committed", execution[c], {"verify", "commit"})
         ELSE Fail(c)
    /\ UNCHANGED <<halt, execution, compensated, effect, registry>>

\* rollback.  With a checkpoint rollback any returned execution counts as
\* compensated; otherwise the adapter's own status decides, and an adapter that
\* reports success has undone the mutation.
CompensateDone(c, undone) ==
    /\ pc[c] = "rollback"
    /\ effect' = [effect EXCEPT ![c] = IF undone THEN "none" ELSE @]
    /\ compensated' = [compensated EXCEPT ![c] = CheckpointRollback \/ undone]
    /\ Await(c, "verifyRollback",
             IF CheckpointRollback \/ undone THEN {"rollback"} ELSE {})
    /\ UNCHANGED <<halt, execution, registry>>

\* verifyRollback.  Only the adapter of a proven action reads the data plane; for
\* any other, verify runs again, whose answer says nothing about the undo.
VerifyRollbackDone(c, verified) ==
    /\ pc[c] = "verifyRollback"
    /\ verified /\ req[c].action \in Proven => effect[c] = "none"
    /\ LET passed == IF verified THEN {"verifyRollback"} ELSE {} IN
       IF compensated[c] /\ verified
         THEN Finish(c, "recovered", execution[c], passed) /\ UNCHANGED held
         ELSE Await(c, "recover", passed)
    /\ UNCHANGED <<halt, execution, compensated, effect, registry>>

\* Mutant: the status of the recovery plan is ignored.
RecoverAssumed(c, recovered, how) ==
    /\ pc[c] = "recover"
    /\ effect' = [effect EXCEPT ![c] =
                     IF ~recovered \/ @ = "none" THEN @ ELSE how]
    /\ Finish(c, "recovered", execution[c], {"recover"})
    /\ UNCHANGED <<halt, execution, compensated, held, registry>>

\* recover.  A success is the adapter's rollback or, for a delegated action, a
\* plan of the failover engine, which puts another path in place of the mutated
\* one, or only probes and leaves the mutation in force.
RecoverDone(c, recovered, how) ==
    /\ pc[c] = "recover"
    /\ req[c].action \notin Delegated => how = "none"
    /\ effect' = [effect EXCEPT ![c] =
                     IF ~recovered \/ @ = "none" THEN @ ELSE how]
    /\ Finish(c, IF recovered THEN "recovered" ELSE "failed",
              execution[c], IF recovered THEN {"recover"} ELSE {})
    /\ UNCHANGED <<halt, execution, compensated, held, registry>>

\* A port other than the executor rejects: runMachine propagates the error.
\* Around apply it is the event sink, before the executor was called or after
\* it failed (eff is what the failed apply left).
PortThrows(c, eff) ==
    /\ \/ pc[c] \in Holding /\ Release(c)
       \/ pc[c] \in Recovering /\ UNCHANGED held
    /\ effect' = [effect EXCEPT ![c] = IF pc[c] = "executing" THEN eff ELSE @]
    /\ Finish(c, "threw", "none", {})
    /\ UNCHANGED <<halt, execution, compensated, registry>>

-----------------------------------------------------------------------------
(* The end of mutate(). *)

\* `finally` of the promise leaves inFlight, some microtasks before the owner
\* resumes.
Settle(c) ==
    /\ pc[c] = "returned"
    /\ pc' = [pc EXCEPT ![c] = "settled"]
    /\ inFlight' = [inFlight EXCEPT ![req[c].key] = None]
    /\ UNCHANGED <<req, out, phases, halt, execution, compensated, effect,
                   held, joined, completed, epoch, issued>>

\* Map.set keeps the place of a key that is already there.
Bind(m, e) ==
    IF \E i \in DOMAIN m : m[i].key = e.key
      THEN [i \in DOMAIN m |-> IF m[i].key = e.key THEN e ELSE m[i]]
      ELSE Append(m, e)

\* Mutant: one entry too many is kept.
EvictLate(m) == IF Len(m) > MaxEntries + 1 THEN Tail(m) ELSE m

\* The oldest entries go while there are more than MaxEntries.
Evict(m) == IF Len(m) > MaxEntries THEN Tail(m) ELSE m

\* Mutant: callers that joined are never resumed.
OwnerOnly(c) == {w \in Callers : w = c}

\* The owner and the callers that were handed its promise.
Answered(c) == {w \in Callers : w = c \/ joined[w] = c}

\* The owner resumes after `await run` and binds its key to the outcome; the
\* callers that were handed its promise resume right after it.
Publish(c) ==
    /\ pc[c] = "settled"
    /\ completed' =
          IF out[c].status = "threw" THEN completed
          ELSE Evict(Bind(completed, [key |-> req[c].key,
                                      action |-> req[c].action,
                                      outcome |-> out[c]]))
    /\ pc' = [w \in Callers |-> IF w \in Answered(c) THEN "replied" ELSE pc[w]]
    /\ out' = [w \in Callers |-> IF w \in Answered(c) THEN out[c] ELSE out[w]]
    /\ joined' = [w \in Callers |-> IF w \in Answered(c) THEN None ELSE joined[w]]
    /\ phases' = [phases EXCEPT ![c] = {}]
    /\ halt' = [halt EXCEPT ![c] = "no"]
    /\ execution' = [execution EXCEPT ![c] = "none"]
    /\ compensated' = [compensated EXCEPT ![c] = FALSE]
    /\ effect' = [effect EXCEPT ![c] = "none"]
    /\ UNCHANGED <<req, held, inFlight, epoch, issued>>

-----------------------------------------------------------------------------
(* The environment. *)

AdvanceEpoch ==
    /\ epoch < MaxEpoch
    /\ epoch' = epoch + 1
    /\ UNCHANGED <<pc, req, out, phases, halt, execution, compensated,
                   effect, held, inFlight, joined, completed, issued>>

\* The caller cancels its context, or the mutation budget runs out; cancelled()
\* is asked before timeout(), and neither is asked after the apply phase.
Interrupt(c, h) ==
    /\ pc[c] \in {"snapshot", "policy", "safety", "executing"}
    /\ \/ h = "cancelled" /\ halt[c] # "cancelled"
       \/ h = "timed-out" /\ halt[c] = "no"
    /\ halt' = [halt EXCEPT ![c] = h]
    /\ UNCHANGED <<pc, out, phases, execution, compensated, effect, held, registry>>

-----------------------------------------------------------------------------
Mutate(c) ==
    \E q \in {x \in Request : x.epoch <= epoch} :
       \/ MutateBound(c, q)
       \/ MutateJoin(c, q)
       \/ \E h \in {"no", "cancelled"} : MutateStart(c, q, h)

\* The run owned by c takes its next step.
Step(c) ==
    \/ \E stale, rejected \in BOOLEAN : SnapshotDone(c, stale, rejected)
    \/ \E allowed, authorized \in BOOLEAN : PolicyDone(c, allowed, authorized)
    \/ \E safe \in BOOLEAN : SafetyDone(c, safe)
    \/ \E status \in {"success", "skipped", "failed", "threw"},
          eff \in {"none", "applied"} : ExecuteDone(c, status, eff)
    \/ \E verified \in BOOLEAN : VerifyDone(c, verified)
    \/ \E undone \in BOOLEAN : CompensateDone(c, undone)
    \/ \E verified \in BOOLEAN : VerifyRollbackDone(c, verified)
    \/ \E recovered \in BOOLEAN, how \in Effects :
          RecoverDone(c, recovered, how)
    \/ \E eff \in {"none", "applied"} : PortThrows(c, eff)
    \/ Settle(c)
    \/ Publish(c)

Environment == AdvanceEpoch \/ \E c \in Callers, h \in Halts : Interrupt(c, h)

Next == (\E c \in Callers : Mutate(c) \/ Step(c)) \/ Environment

Spec == Init /\ [][Next]_vars

\* Every port answers and the event loop runs every continuation.
FairSpec == Spec /\ \A c \in Callers : WF_vars(Step(c))
-----------------------------------------------------------------------------
(* Properties. *)

\* The type invariant: whoever was called has a request, and whoever is done or
\* answered has an outcome, on every path through mutate().
TypeOK ==
    /\ pc \in [Callers -> ControlPoints]
    /\ req \in [Callers -> Request \cup {None}]
    /\ out \in [Callers -> Outcome \cup {None}]
    /\ \A c \in Callers : pc[c] # "idle" => req[c] \in Request
    /\ \A c \in Callers : pc[c] \in {"returned", "settled", "replied"} =>
                            out[c] \in Outcome
    /\ phases \in [Callers -> SUBSET (TransactionPhases \cup RecoveryPhases)]
    /\ halt \in [Callers -> Halts]
    /\ execution \in [Callers -> Executions]
    /\ compensated \in [Callers -> BOOLEAN]
    /\ effect \in [Callers -> Effects]
    /\ held \in [Resources -> Callers \cup {None}]
    /\ inFlight \in [Keys -> Callers \cup {None}]
    /\ joined \in [Callers -> Callers \cup {None}]
    /\ completed \in Seq(Entry)
    /\ epoch \in 1..MaxEpoch
    /\ issued \in 0..MaxRequests

\* Concurrent-mutation protection: two runs never work on the same resource at
\* the same time, whatever gate, timeout, exception or rollback they end in.
ResourceExclusion ==
    \A c, d \in Callers :
       /\ pc[c] \in Holding
       /\ pc[d] \in Holding
       /\ req[c].resource = req[d].resource
       => c = d

\* heldMutations() never leaks: a resource is held only while the run that
\* took it is still between prepare and its `finally`.
HeldIsLive ==
    \A r \in Resources : held[r] # None =>
       /\ pc[held[r]] \in Holding
       /\ req[held[r]].resource = r

\* Concurrent calls with one idempotency key collapse onto one run, and a
\* caller that joined a run waits for one that has not settled yet.
OneRunPerKey ==
    /\ \A c, d \in Callers :
          /\ pc[c] \in Registered
          /\ pc[d] \in Registered
          /\ req[c].key = req[d].key
          => c = d
    /\ \A c \in Callers : pc[c] = "joined" =>
          /\ joined[c] # None
          /\ pc[joined[c]] \in Registered \cup {"settled"}
          /\ req[joined[c]].key = req[c].key

\* The replay cache stays a bounded map: it never outgrows MaxEntries and binds
\* a key at most once, even when a key is run again after its eviction or in
\* the window between Settle and Publish.
CacheIsBounded ==
    /\ Len(completed) <= MaxEntries
    /\ \A i, j \in DOMAIN completed :
          completed[i].key = completed[j].key => i = j

\* The owner of a finished run.
Owner(c) == pc[c] \in {"returned", "settled"}

\* A run that reports a commit passed all nine phases in spite of every halt
\* and failure on the way, and rolled nothing back.
CommitIsVerified ==
    \A c \in Callers :
       Owner(c) /\ out[c].status = "committed" =>
          phases[c] = TransactionPhases

\* The phases recorded as passed that show a mutation undone or replaced: the
\* adapter's own rollback, its proof of one, or its rollback as a recovery.  A
\* checkpoint rollback, verify run again and a failover plan show nothing.
Evidence(c) ==
    \/ "rollback" \in phases[c] /\ ~CheckpointRollback
    \/ "verifyRollback" \in phases[c] /\ req[c].action \in Proven
    \/ "recover" \in phases[c] /\ req[c].action \notin Delegated

\* A run reports "recovered" after a rollback that was verified, or else after a
\* recovery that succeeded, never after less; and once any of its passed phases
\* is evidence, the mutation is no longer in force, whatever failed around it.
RecoveredIsClean ==
    \A c \in Callers :
       Owner(c) /\ out[c].status = "recovered" =>
          /\ "recover" \in phases[c]
                <=> ~({"rollback", "verifyRollback"} \subseteq phases[c])
          /\ Evidence(c) => effect[c] # "applied"

\* A mutation that is still in force when its run ends is reported as such: never
\* as a denial, as recovered only without evidence, and with its execution when
\* the run was halted.
ResidueIsReported ==
    \A c \in Callers :
       Owner(c) /\ effect[c] = "applied" =>
          \/ out[c].status \in {"committed", "failed", "threw"}
          \/ out[c].status = "recovered" /\ ~Evidence(c)
          \/ out[c].status \in {"cancelled", "timed-out"} /\ out[c].execution # "none"

\* The boundary as a service: what a run is doing, and what its outcome says.
StageOf(p) == CASE p \in Holding -> "working"
                [] p \in Recovering -> "undoing"
                [] p \in {"returned", "settled"} -> "decided"
                [] OTHER -> "outside"

\* An interruption names its execution; a recovery without evidence is a claim.
VerdictOf(o, shown) ==
    IF o.status \in {"cancelled", "timed-out"} /\ o.execution # "none"
      THEN "interrupted"
    ELSE IF o.status = "recovered" /\ ~shown THEN "claimed"
    ELSE o.status

Service == INSTANCE MutationService WITH
    Calls <- Callers,
    Nobody <- None,
    stage <- [c \in Callers |-> StageOf(pc[c])],
    force <- effect,
    verdict <- [c \in Callers |-> IF Owner(c) THEN VerdictOf(out[c], Evidence(c))
                                             ELSE "none"],
    owner <- held

\* Refinement: with every port, halt, exception and interleaving, the boundary
\* implements the service; in particular a mutation takes effect only while its
\* run holds the resource, and no undo puts it back.
ImplementsService == Service!Spec

\* Every caller is answered: owners and the callers that joined them.
EveryCallAnswered ==
    \A c \in Callers : pc[c] # "idle" ~> pc[c] = "replied"
-----------------------------------------------------------------------------
(* Claims of the source that the code does not keep. *)

\* "A blocked phase is a recorded outcome, so callers cannot accidentally treat
\* a denial as success": a commit is only ever replayed for a commit.
DenialIsNotSuccess ==
    \A c \in Callers :
       /\ pc[c] = "replied"
       /\ out[c].status = "committed"
       /\ IsBound(req[c].key)
       /\ EntryOf(req[c].key).action = req[c].action
       => EntryOf(req[c].key).outcome.status = "committed"

\* "A failure after `apply` triggers compensation": a run that gives up without
\* claiming the mutation leaves nothing of it in force.
FailureIsCompensated ==
    \A c \in Callers :
       Owner(c) /\ out[c].status \in {"cancelled", "timed-out"} =>
          effect[c] # "applied"

\* "Advances the mutation epoch, invalidating every in-flight mutation": no run
\* calls the executor for a decision of an earlier epoch.
ApplyIsFenced ==
    [][\A c \in Callers :
          pc[c] # "executing" /\ pc'[c] = "executing" => ~Stale(req[c])]_vars

\* "Bound action id per idempotency key, so a rebind can be refused": runs that
\* will bind one key are runs of one action.
RebindIsRefused ==
    \A c, d \in Callers :
       /\ pc[c] \in Registered \cup {"settled"}
       /\ pc[d] \in Registered \cup {"settled"}
       /\ req[c].key = req[d].key
       => req[c].action = req[d].action

\* "Replaying it would mutate something the caller did not name": an answer is
\* about the action the caller named.
AnswerNamesTheAction ==
    \A c \in Callers : pc[c] = "replied" => out[c].action = req[c].action

\* "A mutation already held elsewhere is rejected before any work": nobody works
\* on a resource whose previous mutation is still being rolled back.
RollbackIsExclusive ==
    \A c, d \in Callers :
       /\ c # d
       /\ pc[c] \in Recovering
       /\ pc[d] \in Holding
       => req[c].resource # req[d].resource
=============================================================================
