--------------------------- MODULE FailoverEngine ---------------------------
(***************************************************************************)
(* The failover and recovery engine (packages/failover/src/index.ts):      *)
(* detection, confirmation, planning, bounded execution, rollback and      *)
(* escalation, with one lock per failure domain, a circuit breaker per     *)
(* component and ONE recovery state that all recoveries of an engine move. *)
(*                                                                         *)
(* A recovery is one pending recover() call.  An action is the code        *)
(* between two awaits.                                                     *)
(***************************************************************************)
EXTENDS Naturals, Sequences, FiniteSets

CONSTANTS
    Recoveries,     \* recover() calls
    Domains,        \* failure domains
    Components,     \* failing components and candidates to switch to
    None,
    DetectionThreshold,   \* unhealthy signals that make a failure
    MaxRecoveryAttempts,  \* budget: steps of a plan
    MaxRetries,           \* budget: retries of a plan
    CircuitThreshold,     \* failures that open a circuit
    MaxDetections         \* bound: signals, simulations and overrides from outside

ASSUME FailoverBounds ==
    /\ DetectionThreshold \in Nat \ {0}
    /\ MaxRecoveryAttempts \in Nat
    /\ MaxRetries \in Nat
    /\ CircuitThreshold \in Nat \ {0}
    /\ MaxDetections \in Nat
    /\ None \notin Recoveries \cup Domains \cup Components

VARIABLES
    state,      \* FailoverRecoveryEngine.state
    disabled,   \* automaticDisabled
    signals,    \* domain and component -> unhealthy signals kept
    locks,      \* domains being recovered
    circuit,    \* component -> CircuitBreaker
    run,        \* recovery -> its plan and where it is suspended
    outside     \* calls from outside so far

vars == <<state, disabled, signals, locks, circuit, run, outside>>

-----------------------------------------------------------------------------
RecoveryStates == {"idle", "detecting", "confirming", "planning", "executing",
                   "validating", "recovered", "stabilizing", "rolling-back",
                   "degraded", "escalated", "cooldown"}

transitions(s) ==
    CASE s = "idle" -> {"detecting", "planning", "degraded"}
      [] s = "detecting" -> {"confirming", "idle"}
      [] s = "confirming" -> {"planning", "idle", "cooldown"}
      [] s = "planning" -> {"executing", "degraded", "escalated", "cooldown"}
      [] s = "executing" -> {"validating", "rolling-back", "degraded", "escalated"}
      [] s = "validating" -> {"recovered", "rolling-back", "degraded", "escalated"}
      [] s = "recovered" -> {"stabilizing", "idle"}
      [] s = "stabilizing" -> {"idle", "cooldown"}
      [] s = "rolling-back" -> {"degraded", "escalated", "cooldown"}
      [] s = "degraded" -> {"planning", "escalated", "cooldown"}
      [] s = "escalated" -> {"cooldown"}
      [] s = "cooldown" -> {"idle"}

Circuit == [state: {"closed", "open", "half-open"}, failures: Nat]

\* What a plan does: probe only, probe and switch to a component, or give up.
Actions == {"re-probe", "switch", "enter-degraded-mode", "escalate"}
Points == {"idle", "candidates", "step", "retry", "validating", "rollback",
           "escalating", "over"}
Outcomes == {"none", "undetected", "degraded", "conflict", "illegal", "threw",
             "success", "rolled-back", "escalated"}
StepStatus == {"pending", "succeeded", "failed", "rolled-back"}
\* What recover() is given: a signal, or a failure with or without confirmation.
Inputs == {"signal", "detected", "confirmed"}
Run == [pc: Points, input: Inputs \cup {None}, domain: Domains \cup {None}, component: Components \cup {None},
        actions: Seq(Actions), status: Seq(StepStatus), at: Nat, retries: Nat,
        performed: Nat, recorded: Outcomes, outcome: Outcomes,
        validated: BOOLEAN, disturbed: BOOLEAN]

NoRun == [pc |-> "idle", input |-> None, domain |-> None, component |-> None, actions |-> <<>>,
          status |-> <<>>, at |-> 0, retries |-> 0, performed |-> 0,
          recorded |-> "none", outcome |-> "none", validated |-> FALSE,
          disturbed |-> FALSE]

Init ==
    /\ state = "idle" /\ disabled = FALSE
    /\ signals = [dk \in Domains \X Components |-> 0]
    /\ locks = {}
    /\ circuit = [k \in Components |-> [state |-> "closed", failures |-> 0]]
    /\ run = [r \in Recoveries |-> NoRun]
    /\ outside = 0

Executing(r) == run[r].pc \in {"step", "retry", "validating"}
Pending(r) == run[r].pc \notin {"idle", "over"}

\* The others see the shared state move under them.
Disturb(rs, r) ==
    [q \in Recoveries |-> IF q # r /\ Pending(q) THEN [rs[q] EXCEPT !.disturbed = TRUE]
                          ELSE rs[q]]

Moves(r, new) == run' = Disturb([run EXCEPT ![r] = new], r)

\* The recover() promise settles; the state stays where it is.
Settles(r, how) ==
    run' = [run EXCEPT ![r] = [@ EXCEPT !.pc = "over", !.outcome = how]]

-----------------------------------------------------------------------------
(* CircuitBreaker. *)

\* CircuitBreaker.record; failures past the threshold are not told apart.
CircuitRecord(c, success) ==
    IF success THEN [state |-> "closed", failures |-> 0]
    ELSE IF c.failures + 1 >= CircuitThreshold
      THEN [state |-> "open", failures |-> CircuitThreshold]
      ELSE [c EXCEPT !.failures = @ + 1]

\* CircuitBreaker.allow after the cooldown of the circuits in `cooled`.
Allowed(k, cooled) == circuit[k].state # "open" \/ k \in cooled

HalfOpen(cooled) ==
    [k \in Components |-> IF circuit[k].state = "open" /\ k \in cooled
                          THEN [circuit[k] EXCEPT !.state = "half-open"]
                          ELSE circuit[k]]

-----------------------------------------------------------------------------
(* detect, confirm, recover, plan. *)

Threshold(n) == IF n < DetectionThreshold THEN n ELSE DetectionThreshold

\* detect() called on its own, with a healthy or an unhealthy signal; either
\* forces the state through idle.
Detect(d, k, healthy) ==
    /\ outside < MaxDetections
    /\ outside' = outside + 1
    /\ signals' = [signals EXCEPT ![<<d, k>>] = IF healthy THEN @ ELSE Threshold(@ + 1)]
    /\ state' = IF healthy \/ signals'[d, k] < DetectionThreshold
                  THEN "idle" ELSE "detecting"
    /\ run' = Disturb(run, None)
    /\ UNCHANGED <<disabled, locks, circuit>>

\* confirm() called on its own, at most once after a detection; in another state
\* it throws and changes nothing.
Confirm ==
    /\ "confirming" \in transitions(state)
    /\ state' = "confirming"
    /\ run' = Disturb(run, None)
    /\ UNCHANGED <<disabled, signals, locks, circuit, outside>>

\* simulateRecovery() plans, whatever the failure's own state, and leaves the
\* engine in planning; with a signal that makes no failure it throws.  The
\* candidates it looks at move circuits to half-open.
Simulate(d, k, bySignal, cooled) ==
    /\ outside < MaxDetections
    /\ outside' = outside + 1
    /\ signals' = [signals EXCEPT ![<<d, k>>] = IF bySignal THEN Threshold(@ + 1) ELSE @]
    /\ IF bySignal /\ signals'[d, k] < DetectionThreshold
         THEN state' = "idle" /\ UNCHANGED circuit
         ELSE state' = "planning" /\ circuit' = HalfOpen(cooled)
    /\ run' = Disturb(run, None)
    /\ UNCHANGED <<disabled, locks>>

\* manualOverride: disable, force, reset a circuit.
Override(b, k) ==
    /\ outside < MaxDetections
    /\ outside' = outside + 1
    /\ \/ disabled' = b /\ UNCHANGED circuit
       \/ /\ circuit' = [circuit EXCEPT ![k] = [state |-> "closed", failures |-> 0]]
          /\ UNCHANGED disabled
    /\ UNCHANGED <<state, signals, locks, run>>

\* Mutant: a new recovery goes on from whatever state it finds.
FromIdleUnforced(to) == IF to \in transitions(state) THEN to ELSE state

\* transitionFromIdle: the state is forced to idle first.
FromIdle(to) == to

\* degradedPlan(): a plan of one step that nobody runs.
DegradedPlan(r, new) ==
    /\ state' = "degraded"
    /\ Moves(r, [new EXCEPT !.pc = "over", !.outcome = "degraded"])

\* confirm() in recover().  A signal has just been detected; a failure that was
\* detected before is refused unless the engine is still in detecting.
ConfirmThrows(input) == input = "detected" /\ "confirming" \notin transitions(state)

\* recover() up to the plan.  A failure is the caller's object: it may be an old
\* one, or built as confirmed.
Recover(r, d, k, input, confident) ==
    LET new == [NoRun EXCEPT !.input = input, !.domain = d, !.component = k]
        kept == IF input = "signal" THEN Threshold(signals[d, k] + 1) ELSE signals[d, k]
    IN /\ run[r].pc = "idle"
       /\ signals' = [signals EXCEPT ![<<d, k>>] = kept]
       /\ IF input = "signal" /\ kept < DetectionThreshold
            THEN /\ state' = "idle"
                 /\ Moves(r, [new EXCEPT !.pc = "over", !.outcome = "undetected"])
          ELSE IF ConfirmThrows(input)
            THEN /\ run' = [run EXCEPT ![r] = [new EXCEPT !.pc = "over",
                                                            !.outcome = "illegal"]]
                 /\ UNCHANGED state
          ELSE IF disabled \/ (input # "confirmed" /\ ~confident)
            THEN DegradedPlan(r, new)
            ELSE /\ state' = FromIdle("planning")
                 /\ Moves(r, [new EXCEPT !.pc = "candidates"])
       /\ UNCHANGED <<disabled, locks, circuit, outside>>

\* decisionFrom: the best eligible candidate, by scores that are an input.  The
\* re-probe candidate has the failing component, the others their own.
Choices(r, cooled) ==
    LET open == {k \in Components : ~Allowed(k, cooled)} IN
       (IF run[r].component \in open THEN {} ELSE {<<"re-probe">>})
       \cup (IF Components \subseteq open THEN {} ELSE {<<"re-probe", "switch">>})
       \cup (IF run[r].component \in open
               THEN {<<"enter-degraded-mode", "escalate">>} ELSE {})

\* Mutant: the domain's lock is taken without looking.
ConflictUnseen(d) == FALSE

Conflict(d) == d \in locks

\* The candidates are in: plan() returns and execute() runs to its first step.
Planned(r, actions, cooled) ==
    /\ run[r].pc = "candidates"
    /\ actions \in Choices(r, cooled)
    /\ circuit' = HalfOpen(cooled)
    /\ LET new == [run[r] EXCEPT !.actions = actions,
                                 !.status = [i \in DOMAIN actions |-> "pending"]] IN
       IF Conflict(run[r].domain)
         THEN /\ run' = [run EXCEPT ![r] = [new EXCEPT !.pc = "over",
                                                        !.outcome = "conflict"]]
              /\ UNCHANGED <<state, locks>>
       ELSE IF "executing" \notin transitions(state)
         THEN /\ run' = [run EXCEPT ![r] = [new EXCEPT !.pc = "over",
                                                        !.outcome = "illegal"]]
              /\ UNCHANGED <<state, locks>>
       ELSE IF MaxRecoveryAttempts = 0
         THEN /\ state' = "escalated"
              /\ Moves(r, [new EXCEPT !.pc = "escalating"])
              /\ UNCHANGED locks
         ELSE /\ state' = "executing"
              /\ locks' = locks \cup {run[r].domain}
              /\ Moves(r, [new EXCEPT !.pc = "step", !.at = 1])
    /\ UNCHANGED <<disabled, signals, outside>>

-----------------------------------------------------------------------------
(* execute, runStep, rollback, escalate. *)

\* `finally` of execute.
Unlock(r) == locks' = locks \ {run[r].domain}

\* transition('rolling-back'), or the error it throws.  The rollback's promise
\* is returned without await, so the lock goes now.
ToRollback(r, new) ==
    /\ Unlock(r)
    /\ IF "rolling-back" \in transitions(state)
         THEN state' = "rolling-back" /\ Moves(r, [new EXCEPT !.pc = "rollback"])
         ELSE /\ run' = [run EXCEPT ![r] = [new EXCEPT !.pc = "over", !.outcome = "illegal"]]
              /\ UNCHANGED state

\* Mutant: a failed step does not end the plan.
StepFailedIgnored(r, new) ==
    /\ state' = "validating" /\ UNCHANGED locks
    /\ Moves(r, [new EXCEPT !.pc = "validating"])

StepFailed(r, new) == ToRollback(r, new)

\* The loop over the steps after a succeeded one: the next step if the budget
\* allows it, or validation.  `late`: maxTotalRecoveryDurationMs has passed.
StepSucceeded(r, new, late) ==
    IF new.at < Len(new.actions)
      THEN IF new.at + 1 <= MaxRecoveryAttempts /\ ~late
             THEN /\ run' = [run EXCEPT ![r] = [new EXCEPT !.pc = "step", !.at = @ + 1]]
                  /\ UNCHANGED <<state, locks>>
             ELSE /\ state' = "escalated"
                  /\ Moves(r, [new EXCEPT !.pc = "escalating"])
                  /\ Unlock(r)
    ELSE IF "validating" \in transitions(state)
      THEN /\ state' = "validating" /\ UNCHANGED locks
           /\ Moves(r, [new EXCEPT !.pc = "validating"])
      ELSE /\ run' = [run EXCEPT ![r] = [new EXCEPT !.pc = "over", !.outcome = "illegal"]]
           /\ Unlock(r) /\ UNCHANGED state

\* Only a switch can fail.
MayFail(r) == run[r].actions[run[r].at] = "switch"

\* budget.consume('retry').
MayRetry(r, late) == run[r].retries < MaxRetries /\ ~late

\* Plan x with the answer of perform() to its step.
Entered(x, ok) ==
    LET status == [x.status EXCEPT ![x.at] = IF ok THEN "succeeded" ELSE "failed"]
    IN  [x EXCEPT !.performed = @ + 1, !.status = status]

\* perform() answers for the first time; the circuit hears of this answer only.
Performed(r, ok, late) ==
    /\ run[r].pc = "step"
    /\ ok \/ MayFail(r)
    /\ circuit' = [circuit EXCEPT ![run[r].component] = CircuitRecord(@, ok)]
    /\ LET new == Entered(run[r], ok) IN
       IF ok THEN StepSucceeded(r, new, late)
       ELSE IF MayRetry(r, late)
         THEN /\ run' = [run EXCEPT ![r] = [new EXCEPT !.pc = "retry", !.retries = @ + 1]]
              /\ UNCHANGED <<state, locks>>
         ELSE StepFailed(r, new)
    /\ UNCHANGED <<disabled, signals, outside>>

Retried(r, ok, late) ==
    /\ run[r].pc = "retry"
    /\ LET new == Entered(run[r], ok) IN
       IF ok THEN StepSucceeded(r, new, late) ELSE StepFailed(r, new)
    /\ UNCHANGED <<disabled, signals, circuit, outside>>

\* An adapter, the validator or the event sink rejects: recover() rejects.
Throws(r) ==
    /\ Pending(r)
    /\ Settles(r, "threw")
    /\ IF Executing(r) THEN Unlock(r) ELSE UNCHANGED locks
    /\ UNCHANGED <<state, disabled, signals, circuit, outside>>

\* validating -> recovered -> stabilizing -> idle, recorded on the way.
ValidationPasses(r) ==
    /\ run[r].pc = "validating"
    /\ IF "recovered" \in transitions(state)
         THEN /\ state' = "idle"
              /\ Moves(r, [run[r] EXCEPT !.pc = "over", !.outcome = "success",
                              !.recorded = "success", !.validated = TRUE])
         ELSE Settles(r, "illegal") /\ UNCHANGED state
    /\ Unlock(r)
    /\ UNCHANGED <<disabled, signals, circuit, outside>>

ValidationFails(r) ==
    /\ run[r].pc = "validating"
    /\ ToRollback(r, run[r])
    /\ UNCHANGED <<disabled, signals, circuit, outside>>

\* plan.rollback is non-empty for plans that switch.
CanRollback(r) == \E i \in DOMAIN run[r].actions : run[r].actions[i] = "switch"

\* rollback() marks the steps and records; no adapter is called.
RolledBack(r) ==
    /\ run[r].pc = "rollback" /\ CanRollback(r)
    /\ LET new == [run[r] EXCEPT !.pc = "over", !.recorded = "rolled-back",
                      !.status = [i \in DOMAIN @ |-> IF @[i] = "succeeded"
                                                       THEN "rolled-back" ELSE @[i]]] IN
       IF "cooldown" \in transitions(state)
         THEN state' = "idle" /\ Moves(r, [new EXCEPT !.outcome = "rolled-back"])
         ELSE /\ run' = [run EXCEPT ![r] = [new EXCEPT !.outcome = "illegal"]]
              /\ UNCHANGED state
    /\ UNCHANGED <<disabled, signals, locks, circuit, outside>>

\* Mutant: a plan that cannot be rolled back is left rolling back.
RollbackUnavailableForgotten(r) ==
    /\ run[r].pc = "rollback" /\ ~CanRollback(r)
    /\ state' = "escalated"
    /\ UNCHANGED <<disabled, signals, locks, circuit, run, outside>>

\* escalate() sets the state without asking the table.
RollbackUnavailable(r) ==
    /\ run[r].pc = "rollback" /\ ~CanRollback(r)
    /\ state' = "escalated"
    /\ Moves(r, [run[r] EXCEPT !.pc = "escalating"])
    /\ UNCHANGED <<disabled, signals, locks, circuit, outside>>

Escalated(r) ==
    /\ run[r].pc = "escalating"
    /\ run' = [run EXCEPT ![r] = [@ EXCEPT !.pc = "over", !.outcome = "escalated",
                                           !.recorded = "escalated"]]
    /\ UNCHANGED <<state, disabled, signals, locks, circuit, outside>>

-----------------------------------------------------------------------------
Progress(r) ==
    \/ \E cooled \in SUBSET Components : \E actions \in Choices(r, cooled) :
          Planned(r, actions, cooled)
    \/ \E ok, late \in BOOLEAN : Performed(r, ok, late) \/ Retried(r, ok, late)
    \/ ValidationPasses(r) \/ ValidationFails(r)
    \/ RolledBack(r) \/ RollbackUnavailable(r) \/ Escalated(r)

Next ==
    \/ \E r \in Recoveries : Progress(r) \/ Throws(r)
    \/ \E r \in Recoveries, d \in Domains, k \in Components,
          input \in Inputs, confident \in BOOLEAN : Recover(r, d, k, input, confident)
    \/ \E d \in Domains, k \in Components, healthy \in BOOLEAN : Detect(d, k, healthy)
    \/ Confirm
    \/ \E d \in Domains, k \in Components, bySignal \in BOOLEAN :
          \E cooled \in SUBSET Components : Simulate(d, k, bySignal, cooled)
    \/ \E b \in BOOLEAN, k \in Components : Override(b, k)

Spec == Init /\ [][Next]_vars

\* Adapters, validators and event sinks answer.
FairSpec == Spec /\ \A r \in Recoveries : WF_vars(Progress(r))

-----------------------------------------------------------------------------
(* Properties. *)

\* The type invariant, with the circuit breakers' own: a circuit is closed
\* exactly while it has seen fewer failures than its threshold.
TypeOK ==
    /\ state \in RecoveryStates /\ disabled \in BOOLEAN
    /\ signals \in [Domains \X Components -> 0..DetectionThreshold]
    /\ locks \subseteq Domains
    /\ circuit \in [Components -> Circuit]
    /\ \A k \in Components :
          circuit[k].state = "closed" <=> circuit[k].failures < CircuitThreshold
    /\ run \in [Recoveries -> Run]
    /\ outside \in 0..MaxDetections

\* One recovery per domain executes at a time, and the lock of a domain is held
\* exactly while one does, whichever way execution ends.
LocksMatchExecutions ==
    /\ locks = {run[r].domain : r \in {q \in Recoveries : Executing(q)}}
    /\ \A r, q \in Recoveries :
          Executing(r) /\ Executing(q) /\ run[r].domain = run[q].domain => r = q

\* Repeated failures make no uncontrolled retry loop: a recovery performs each
\* step once and retries at most MaxRetries times, whatever fails.
PerformsAreBounded ==
    \A r \in Recoveries :
       run[r].performed <= Len(run[r].actions) + MaxRetries

\* The engine's bookkeeping survives interleaved recoveries: circuits agree with
\* their failures, each domain is locked exactly while one recovery executes in
\* it, and no recovery performs more steps than its plan and its retry budget.
RecoveryInv == TypeOK /\ LocksMatchExecutions /\ PerformsAreBounded

\* recover() was refused by confirm(), before it planned anything.
RefusedUnconfirmed(r) == run[r].input = "detected" /\ run[r].actions = <<>>

\* From every state an earlier recovery, a detection, a confirmation or a
\* simulation left behind, the table leads a recovery that nobody disturbs to an
\* end.  There is one exception: the confirmation of a failure that was detected
\* before.  Neither a signal nor a confirmed failure is ever refused alone.
AloneIsLegal ==
    \A r \in Recoveries :
       run[r].outcome = "illegal" => run[r].disturbed \/ RefusedUnconfirmed(r)

\* What recover() reports agrees with what happened, whatever other recoveries
\* did to the shared state: success means that every step succeeded and was
\* validated, and no step of a rolled-back plan still counts as succeeded.
OutcomeIsHonest ==
    \A r \in Recoveries :
       /\ run[r].outcome = "success" =>
             /\ run[r].validated
             /\ \A i \in DOMAIN run[r].status : run[r].status[i] = "succeeded"
       /\ run[r].recorded = "rolled-back" =>
             \A i \in DOMAIN run[r].status : run[r].status[i] # "succeeded"

\* Every recovery settles.
EveryRecoverySettles ==
    \A r \in Recoveries : Pending(r) ~> ~Pending(r)
=============================================================================
