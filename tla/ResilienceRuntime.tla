------------------------- MODULE ResilienceRuntime -------------------------
(***************************************************************************)
(* The closed-loop cycle of the resilience runtime                         *)
(* (packages/resilience-runtime/src/runtime.ts), its state machine         *)
(* (state/state-machine.ts) and the validator's operation lock             *)
(* (validation/validation.ts), composed with the privileged mutation       *)
(* boundary: every mutate() call is made by a cycle.                       *)
(*                                                                         *)
(* A caller is an invocation of cycle(); the mutate() call it makes is the *)
(* boundary's caller of the same name.  A cycle is advanced by one action  *)
(* per state-machine transition.  Calls that are answered from the         *)
(* idempotency map or refused because a cycle is active change nothing and *)
(* are not actions.                                                        *)
(***************************************************************************)
EXTENDS PrivilegedMutationBoundary

CONSTANTS
    MaxRecords,   \* MAX_IDEMPOTENCY_ENTRIES of the runtime
    MaxCycles,    \* bound: cycles started in one behaviour
    StoreFails    \* the decision store may reject a record

ASSUME ActionIdsAreKeys == Actions \subseteq Keys
ASSUME CyclesAssumption ==
    /\ MaxRecords \in Nat \ {0}
    /\ MaxCycles \in Nat
    /\ StoreFails \in BOOLEAN
    /\ None \notin Keys

VARIABLES
    state,       \* RuntimeStateMachine.state
    active,      \* this.inFlight: the invocation that runs, or None
    at,          \* where each invocation of cycle() is suspended
    cyc,         \* its input and the epoch its decision is taken at
    plan,        \* the plan it selected
    outcome,     \* its DecisionOutcome so far
    locks,       \* RuntimeActionValidator.active
    idempotency, \* this.idempotency: its keys in insertion order
    last,        \* the outcome of this.last, the latest decision record
    counters     \* this.counters

cycleVars == <<state, active, at, cyc, plan, outcome, locks, idempotency, last,
               counters>>
allVars == <<vars, cycleVars>>

-----------------------------------------------------------------------------
RuntimeStates == {"idle", "observing", "analyzing", "arbitrating", "planning",
                  "validating", "executing", "verifying", "recovering",
                  "degraded", "blocked", "stopped", "failed"}

legalTransitions(s) ==
    CASE s \in {"idle", "degraded", "blocked"} ->
                              {"observing", "stopped", "failed"}
      [] s = "observing"   -> {"analyzing", "stopped", "failed"}
      [] s = "analyzing"   -> {"arbitrating", "stopped", "failed"}
      [] s = "arbitrating" -> {"planning", "stopped", "failed"}
      [] s = "planning"    -> {"validating", "blocked", "stopped", "failed"}
      [] s = "validating"  -> {"executing", "verifying", "observing",
                               "blocked", "stopped", "failed"}
      [] s = "executing"   -> {"verifying", "recovering", "stopped", "failed"}
      [] s = "verifying"   -> {"observing", "degraded", "recovering",
                               "stopped", "failed"}
      [] s = "recovering"  -> {"verifying", "degraded", "failed"}
      [] s \in {"stopped", "failed"} -> {}

\* Mutant: observing may follow observing.
LegalReobserving(from, to) ==
    to \in legalTransitions(from) \/ {from, to} = {"observing"}

Legal(from, to) == to \in legalTransitions(from)

Outcomes == {"none", "success", "simulated", "recovered", "degraded", "blocked"}
\* "live" stands for every mode but simulation.
CycleInput == [key: Keys \cup {None}, mode: {"simulation", "live"},
               epoch: 1..MaxEpoch]
Plan == [action: Actions, resource: Resources]
CyclePoints == {"none", "starting", "observing", "analyzing", "arbitrating",
                "planning", "validating", "mutating", "verifying",
                "recovering", "recording", "blocking", "failing"}
Counters == [cycles: 0..MaxCycles, decisions: 0..MaxCycles,
             blocked: 0..MaxCycles, failed: 0..MaxCycles]

ASSUME NoneIsNoInput == None \notin CycleInput \cup Plan

RuntimeInit ==
    /\ Init
    /\ state = "idle"
    /\ active = None
    /\ at = [c \in Callers |-> "none"]
    /\ cyc = [c \in Callers |-> None]
    /\ plan = [c \in Callers |-> None]
    /\ outcome = [c \in Callers |-> "none"]
    /\ locks = {}
    /\ idempotency = <<>>
    /\ last = "none"
    /\ counters = [cycles |-> 0, decisions |-> 0, blocked |-> 0, failed |-> 0]

-----------------------------------------------------------------------------
(* Building blocks. *)

Goto(c, p) == at' = [at EXCEPT ![c] = p]

\* state.transition(to), then executeCycle goes on at p; an illegal transition
\* throws.
Transition(c, to, p) ==
    IF Legal(state, to) THEN state' = to /\ Goto(c, p)
                        ELSE UNCHANGED state /\ Goto(c, "failing")

Tally(field) == counters' = [counters EXCEPT ![field] = @ + 1]

TallyBlocked == Tally("blocked")

\* The finally of executeCycle: validator.release(lockKey).
Unlock(c) == locks' = IF plan[c] = None THEN locks
                      ELSE locks \ {plan[c].resource}

\* Mutant: the invocation stays registered as in flight.
LeaveActive(c) ==
    /\ UNCHANGED active
    /\ at' = [at EXCEPT ![c] = "none"]
    /\ cyc' = [cyc EXCEPT ![c] = None]
    /\ plan' = [plan EXCEPT ![c] = None]
    /\ outcome' = [outcome EXCEPT ![c] = "none"]

\* The finally of cycle().
Leave(c) ==
    /\ active' = None
    /\ at' = [at EXCEPT ![c] = "none"]
    /\ cyc' = [cyc EXCEPT ![c] = None]
    /\ plan' = [plan EXCEPT ![c] = None]
    /\ outcome' = [outcome EXCEPT ![c] = "none"]

\* idempotency.set and the eviction of the oldest key.
Remember(k) ==
    LET m == Append(idempotency, k) IN
    IF k = None THEN idempotency
    ELSE IF Len(m) > MaxRecords THEN Tail(m) ELSE m

-----------------------------------------------------------------------------
(* cycle() and executeCycle(). *)

\* Mutant: cycle() does not look at inFlight.
MayStartAnyway(c) == at[c] = "none"

MayStart(c) == at[c] = "none" /\ active = None

CycleStart(c, k, m) ==
    /\ MayStart(c)
    /\ counters.cycles < MaxCycles
    /\ \A i \in DOMAIN idempotency : idempotency[i] # k
    /\ active' = c
    /\ Goto(c, "starting")
    /\ cyc' = [cyc EXCEPT ![c] = [key |-> k, mode |-> m, epoch |-> epoch]]
    /\ Tally("cycles")
    /\ UNCHANGED <<vars, state, plan, outcome, locks, idempotency, last>>

Stages == {<<"starting", "observing">>, <<"observing", "analyzing">>,
           <<"analyzing", "arbitrating">>, <<"arbitrating", "planning">>}

\* Observation, incident correlation, arbitration and candidate generation.
Advance(c) ==
    /\ \E s \in Stages : at[c] = s[1] /\ Transition(c, s[2], s[2])
    /\ UNCHANGED <<vars, active, cyc, plan, outcome, locks, idempotency, last,
                   counters>>

\* The planner selects p; its policy result is the first gate.
Decide(c, p, allowed) ==
    /\ at[c] = "planning"
    /\ plan' = [plan EXCEPT ![c] = p]
    /\ IF allowed THEN Transition(c, "validating", "validating")
                  ELSE UNCHANGED state /\ Goto(c, "blocking")
    /\ UNCHANGED <<vars, active, cyc, outcome, locks, idempotency, last, counters>>

\* validate() finds a reason (its own, or an operation that is active), or the
\* intent's autonomy level forbids the action.
ValidationBlocks(c) ==
    /\ at[c] = "validating"
    /\ Goto(c, "blocking")
    /\ Unlock(c)
    /\ UNCHANGED <<vars, state, active, cyc, plan, outcome, idempotency, last,
                   counters>>

\* The plan is valid and validator.lock() succeeds.
LockTaken(c) ==
    /\ at[c] = "validating"
    /\ plan[c].resource \notin locks
    /\ locks' = locks \cup {plan[c].resource}

Simulate(c) ==
    /\ LockTaken(c)
    /\ cyc[c].mode = "simulation"
    /\ Goto(c, "recording")
    /\ outcome' = [outcome EXCEPT ![c] = "simulated"]
    /\ UNCHANGED <<vars, state, active, cyc, plan, idempotency, last, counters>>

\* The mutation request: without an idempotency key of its own the cycle uses
\* the id of the selected action.
MutationKey(c) == IF cyc[c].key = None THEN plan[c].action ELSE cyc[c].key

MutationRequest(c) ==
    [key |-> MutationKey(c), action |-> plan[c].action,
     resource |-> plan[c].resource, epoch |-> cyc[c].epoch]

\* No cycle gets here while another one's run is registered (OneRunAtATime), so
\* the promise of a run in flight is never joined.
CallBoundary(c) ==
    /\ LockTaken(c)
    /\ cyc[c].mode # "simulation"
    /\ Goto(c, "mutating")
    /\ LET q == MutationRequest(c) IN
       MutateBound(c, q) \/ \E h \in {"no", "cancelled"} : MutateStart(c, q, h)
    /\ UNCHANGED <<state, active, cyc, plan, outcome, idempotency, last, counters>>

\* The boundary answers.
MutationBlocked(c) ==
    /\ at[c] = "mutating" /\ pc[c] = "replied"
    /\ out[c].status = "blocked"
    /\ Goto(c, "blocking")
    /\ Unlock(c)
    /\ UNCHANGED <<vars, state, active, cyc, plan, outcome, idempotency, last,
                   counters>>

MutationFailed(c) ==
    /\ at[c] = "mutating" /\ pc[c] = "replied"
    /\ out[c].status \in {"failed", "timed-out", "cancelled", "threw"}
    /\ Goto(c, "failing")
    /\ UNCHANGED <<vars, state, active, cyc, plan, outcome, locks, idempotency,
                   last, counters>>

\* The boundary has compensated: learn, then re-observe.
MutationRecovered(c) ==
    /\ at[c] = "mutating" /\ pc[c] = "replied"
    /\ out[c].status = "recovered"
    /\ Transition(c, "observing", "recording")
    /\ outcome' = [outcome EXCEPT ![c] = "recovered"]
    /\ UNCHANGED <<vars, active, cyc, plan, locks, idempotency, last, counters>>

MutationCommitted(c) ==
    /\ at[c] = "mutating" /\ pc[c] = "replied"
    /\ out[c].status = "committed"
    /\ Transition(c, "verifying", "verifying")
    /\ UNCHANGED <<vars, active, cyc, plan, outcome, locks, idempotency, last,
                   counters>>

\* RuntimeActionVerifier.verify: a noop plan and a skipped execution are not
\* verified, any other than a successful execution fails, and the adapter decides
\* the rest (ok).  A successful execution may be a simulated one (sim).
VerifyCycle(c, noop, ok, sim) ==
    /\ at[c] = "verifying"
    /\ IF \/ noop
          \/ out[c].execution = "skipped"
          \/ out[c].execution = "success" /\ ok
         THEN /\ Goto(c, "recording")
              /\ outcome' = [outcome EXCEPT ![c] =
                    IF out[c].execution = "success" /\ ~sim
                      THEN "success" ELSE "simulated"]
              /\ UNCHANGED state
         ELSE /\ Transition(c, "recovering", "recovering")
              /\ UNCHANGED outcome
    /\ UNCHANGED <<vars, active, cyc, plan, locks, idempotency, last, counters>>

\* safetyKernel.recover, whatever it returns.
RecoverCycle(c) ==
    /\ at[c] = "recovering"
    /\ Transition(c, "degraded", "recording")
    /\ outcome' = [outcome EXCEPT ![c] = "degraded"]
    /\ UNCHANGED <<vars, active, cyc, plan, locks, idempotency, last, counters>>

\* The decision record is stored and returned; cycle() remembers it.
Record(c) ==
    /\ at[c] = "recording"
    /\ last' = outcome[c]
    /\ Tally("decisions")
    /\ Unlock(c)
    /\ idempotency' = Remember(cyc[c].key)
    /\ Leave(c)
    /\ UNCHANGED <<vars, state>>

\* recordBlocked, which runs after the lock was released.
RecordBlocked(c) ==
    /\ at[c] = "blocking"
    /\ IF Legal(state, "blocked")
         THEN /\ state' = "blocked"
              /\ last' = "blocked"
              /\ TallyBlocked
              /\ idempotency' = Remember(cyc[c].key)
              /\ Leave(c)
         ELSE /\ Goto(c, "failing")
              /\ UNCHANGED <<state, active, cyc, plan, outcome, idempotency,
                             last, counters>>
    /\ UNCHANGED <<vars, locks>>

-----------------------------------------------------------------------------
(* Failures. *)

\* A provider, the planner, the validator, the verifier or the recovery
\* provider rejects.
CycleThrows(c) ==
    /\ at[c] \in {"starting", "observing", "analyzing", "arbitrating",
                   "planning", "validating", "verifying", "recovering"}
    /\ Goto(c, "failing")
    /\ UNCHANGED <<vars, state, active, cyc, plan, outcome, locks, idempotency,
                   last, counters>>

\* The decision store rejects the record: of a decision before anything was
\* counted, of a blocked cycle after the transition and the tally.
RecordThrows(c) ==
    /\ StoreFails
    /\ \/ at[c] = "recording" /\ UNCHANGED <<state, counters>>
       \/ /\ at[c] = "blocking" /\ Legal(state, "blocked")
          /\ state' = "blocked"
          /\ TallyBlocked
    /\ Goto(c, "failing")
    /\ UNCHANGED <<vars, active, cyc, plan, outcome, locks, idempotency, last>>

\* The catch of cycle(): state.fail(), whose own failure is swallowed.
CycleFails(c) ==
    /\ at[c] = "failing"
    /\ state' = IF Legal(state, "failed") THEN "failed" ELSE state
    /\ Tally("failed")
    /\ Unlock(c)
    /\ Leave(c)
    /\ UNCHANGED <<vars, idempotency, last>>

-----------------------------------------------------------------------------
CycleStep(c) ==
    \/ Advance(c)
    \/ \E p \in Plan, allowed \in BOOLEAN : Decide(c, p, allowed)
    \/ ValidationBlocks(c)
    \/ Simulate(c)
    \/ CallBoundary(c)
    \/ MutationBlocked(c)
    \/ MutationFailed(c)
    \/ MutationRecovered(c)
    \/ MutationCommitted(c)
    \/ \E noop, ok, sim \in BOOLEAN : VerifyCycle(c, noop, ok, sim)
    \/ RecoverCycle(c)
    \/ Record(c)
    \/ RecordBlocked(c)
    \/ CycleThrows(c)
    \/ RecordThrows(c)
    \/ CycleFails(c)

RuntimeNext ==
    \/ \E c \in Callers, k \in Keys \cup {None}, m \in {"simulation", "live"} :
          CycleStart(c, k, m)
    \/ \E c \in Callers : CycleStep(c)
    \/ (\E c \in Callers : Step(c)) /\ UNCHANGED cycleVars
    \/ Environment /\ UNCHANGED cycleVars

RuntimeSpec == RuntimeInit /\ [][RuntimeNext]_allVars

\* Every port answers and the event loop runs every continuation.
FairRuntimeSpec ==
    /\ RuntimeSpec
    /\ \A c \in Callers : WF_allVars(CycleStep(c))
    /\ \A c \in Callers : WF_allVars(Step(c) /\ UNCHANGED cycleVars)

-----------------------------------------------------------------------------
(* Properties. *)

\* The type invariant: the idempotency map holds only keys, and no counter runs
\* past the cycles that were started.
RuntimeTypeOK ==
    /\ state \in RuntimeStates
    /\ active \in Callers \cup {None}
    /\ at \in [Callers -> CyclePoints]
    /\ cyc \in [Callers -> CycleInput \cup {None}]
    /\ plan \in [Callers -> Plan \cup {None}]
    /\ outcome \in [Callers -> Outcomes]
    /\ locks \subseteq Resources
    /\ idempotency \in Seq(Keys)
    /\ last \in Outcomes
    /\ counters \in Counters

Busy(c) == pc[c] \notin {"idle", "replied"}

\* The single flight of cycle() is what keeps the boundary's runs apart: two
\* mutations of one runtime are never in progress together, rollback included,
\* and a cycle reaches the boundary only when the previous run has been answered.
OneRunAtATime ==
    \A c, d \in Callers :
       /\ Busy(c) /\ Busy(d) => c = d
       /\ at[c] = "validating" => ~Busy(d)

\* whenIdle() lets a host exit: once no cycle is active no mutation is on its
\* way to verification or rollback, and no lock or resource is left behind.
IdleMeansQuiet ==
    active = None =>
       /\ \A c \in Callers : at[c] = "none" /\ ~Busy(c)
       /\ \A r \in Resources : held[r] = None
       /\ locks = {}

\* Cycles do not overlap: the state is well formed, no two mutations of a runtime
\* are in progress together, and between cycles nothing is held or under way,
\* whichever way cycle() returned, threw or failed to store its record.
CyclesAreSeparate == RuntimeTypeOK /\ OneRunAtATime /\ IdleMeansQuiet

\* A cycle recorded as a success is backed by a mutation that the boundary
\* committed, even when the answer was an idempotent replay.
SuccessWasCommitted ==
    \A c \in Callers :
       at[c] = "recording" /\ outcome[c] = "success" =>
          /\ IsBound(MutationKey(c))
          /\ EntryOf(MutationKey(c)).outcome.status = "committed"

\* The runtime never stays in a cycle.
CycleEnds == active # None ~> active = None

\* "Record its verified recovery result and re-observe": between cycles a
\* runtime that has not failed can observe.
ReadyForNextCycle ==
    active = None /\ state # "failed" => Legal(state, "observing")
=============================================================================
