----------------------- MODULE ResilienceRuntimeProofs -----------------------
(***************************************************************************)
(* Proofs about the privileged mutation boundary and about the runtime's   *)
(* cycle over it, for every set of callers, keys, actions and resources    *)
(* and every bound.  The first part speaks of the boundary's own           *)
(* specification; the second rests on its invariants, since the runtime    *)
(* only restricts the boundary's steps.                                    *)
(***************************************************************************)
EXTENDS ResilienceRuntime, TLAPS

-----------------------------------------------------------------------------
(* The boundary. *)

\* The next-state relation, one disjunct per operation of the boundary.
LEMMA NextCases ==
    ASSUME Next
    PROVE  \/ \E c \in Callers, q \in Request :
                \/ MutateBound(c, q)
                \/ MutateJoin(c, q)
                \/ \E h \in {"no", "cancelled"} : MutateStart(c, q, h)
           \/ \E c \in Callers : Step(c)
           \/ AdvanceEpoch
           \/ \E c \in Callers, h \in Halts : Interrupt(c, h)
BY DEF Next, Mutate, Environment

-----------------------------------------------------------------------------
(* The replay cache as a sequence. *)

\* Bind keeps a sequence of entries one, and grows it by at most one place.
LEMMA BindType ==
    ASSUME NEW m \in Seq(Entry), NEW e \in Entry
    PROVE  /\ Bind(m, e) \in Seq(Entry)
           /\ Len(Bind(m, e)) <= Len(m) + 1
<1>1. CASE \E i \in DOMAIN m : m[i].key = e.key
  <2>1. Bind(m, e) = [i \in 1..Len(m) |-> IF m[i].key = e.key THEN e ELSE m[i]]
    <3>1. DOMAIN m = 1..Len(m)
      OBVIOUS
    <3>2. Bind(m, e) = [i \in DOMAIN m |-> IF m[i].key = e.key THEN e ELSE m[i]]
      BY <1>1, Zenon DEF Bind
    <3> QED  BY <3>1, <3>2, Zenon
  <2>2. \A i \in 1..Len(m) : (IF m[i].key = e.key THEN e ELSE m[i]) \in Entry
    OBVIOUS
  <2>3. Len(m) \in Nat
    OBVIOUS
  <2> QED  BY <2>1, <2>2, <2>3
<1>2. CASE ~ \E i \in DOMAIN m : m[i].key = e.key
  BY <1>2 DEF Bind
<1> QED  BY <1>1, <1>2

\* Evict drops at most the oldest entry.
LEMMA EvictType ==
    ASSUME NEW m \in Seq(Entry)
    PROVE  Evict(m) \in Seq(Entry)
<1>1. CASE Len(m) > MaxEntries
  <2>1. m # << >>
    BY <1>1, BoundsAssumption
  <2> QED  BY <1>1, <2>1 DEF Evict
<1>2. CASE ~(Len(m) > MaxEntries)
  BY <1>2 DEF Evict
<1> QED  BY <1>1, <1>2

\* A bound key has an entry.
LEMMA EntryOfType ==
    ASSUME completed \in Seq(Entry), NEW k, IsBound(k)
    PROVE  EntryOf(k) \in Entry
<1>1. PICK i \in DOMAIN completed : completed[i].key = k
  BY DEF IsBound
<1>2. (CHOOSE j \in DOMAIN completed : completed[j].key = k) \in DOMAIN completed
  BY <1>1
<1> QED  BY <1>2 DEF EntryOf

-----------------------------------------------------------------------------
(* Type correctness. *)

LEMMA TypeInit == Init => TypeOK
<1> SUFFICES ASSUME Init PROVE TypeOK
  OBVIOUS
<1>1. completed \in Seq(Entry)
  BY DEF Init
<1>2. epoch \in 1..MaxEpoch /\ issued \in 0..MaxRequests
  BY BoundsAssumption DEF Init
<1> QED
  BY <1>1, <1>2 DEF Init, TypeOK, ControlPoints, Registered, Holding,
     Recovering, Halts, Executions, Effects

\* Calls of mutate() that find their key bound, in flight or new.
LEMMA TypeMutate ==
    ASSUME TypeOK, NEW c \in Callers, NEW q \in Request,
           \/ MutateBound(c, q)
           \/ MutateJoin(c, q)
           \/ \E h \in {"no", "cancelled"} : MutateStart(c, q, h)
    PROVE  TypeOK'
<1> USE DEF TypeOK, ControlPoints, Registered, Holding, Recovering
<1>0. issued < MaxRequests => issued + 1 \in 0..MaxRequests
  BY BoundsAssumption
<1>1. CASE MutateBound(c, q)
  <2>1. EntryOf(q.key) \in Entry
    BY <1>1, EntryOfType DEF MutateBound
  <2>2. /\ Result(q, "blocked", "none") \in Outcome
        /\ [EntryOf(q.key).outcome EXCEPT !.status = "committed"] \in Outcome
    BY <2>1 DEF Result, Outcome, Entry, Request, Statuses, Executions
  <2> QED  BY <1>0, <1>1, <2>2 DEF MutateBound, Issue
<1>2. CASE MutateJoin(c, q)
  <2>1. inFlight[q.key] \in Callers
    BY <1>2 DEF MutateJoin, Request
  <2> QED  BY <1>0, <1>2, <2>1 DEF MutateJoin, Issue
<1>3. ASSUME NEW h \in {"no", "cancelled"}, MutateStart(c, q, h)
      PROVE  TypeOK'
  <2>1. q.key \in Keys /\ q.resource \in Resources
    BY DEF Request
  <2>2. Result(q, IF h # "no" THEN h ELSE "blocked", "none") \in Outcome
    BY DEF Result, Outcome, Request, Statuses, Executions
  <2>3. h \in Halts
    BY DEF Halts
  <2>4. /\ issued' \in 0..MaxRequests
        /\ req' = [req EXCEPT ![c] = q]
        /\ inFlight' = [inFlight EXCEPT ![q.key] = c]
        /\ halt' = [halt EXCEPT ![c] = h]
        /\ UNCHANGED <<execution, compensated, effect, joined, completed, epoch>>
    BY <1>0, <1>3 DEF MutateStart, Issue, Register
  <2>5. CASE h = "no" /\ ~Stale(q) /\ ~Concurrent(c, q)
    <3>1. /\ pc' = [pc EXCEPT ![c] = "snapshot"]
          /\ phases' = [phases EXCEPT ![c] = {"prepare"}]
          /\ held' = [held EXCEPT ![q.resource] = c]
          /\ UNCHANGED out
      BY <1>3, <2>5 DEF MutateStart, Prepare
    <3> QED  BY <2>1, <2>3, <2>4, <3>1 DEF TransactionPhases
  <2>6. CASE ~(h = "no" /\ ~Stale(q) /\ ~Concurrent(c, q))
    <3>1. /\ pc' = [pc EXCEPT ![c] = "returned"]
          /\ phases' = [phases EXCEPT ![c] = {}]
          /\ out' = [out EXCEPT ![c] =
                        Result(q, IF h # "no" THEN h ELSE "blocked", "none")]
          /\ UNCHANGED held
      BY <1>3, <2>6 DEF MutateStart, Prepare
    <3> QED  BY <2>1, <2>2, <2>3, <2>4, <3>1
  <2> QED  BY <2>5, <2>6
<1> QED  BY <1>1, <1>2, <1>3

-----------------------------------------------------------------------------
(* What all answers of the ports have in common. *)

\* The answers of the ports: the steps of a phase machine that is under way.
PortAnswers(c) ==
    \/ \E stale, rejected \in BOOLEAN : SnapshotDone(c, stale, rejected)
    \/ \E allowed, authorized \in BOOLEAN : PolicyDone(c, allowed, authorized)
    \/ \E safe \in BOOLEAN : SafetyDone(c, safe)
    \/ \E status \in {"success", "skipped", "failed", "threw"},
          eff \in {"none", "applied"} : ExecuteDone(c, status, eff)
    \/ \E verified \in BOOLEAN : VerifyDone(c, verified)
    \/ \E undone \in BOOLEAN : CompensateDone(c, undone)
    \/ \E verified \in BOOLEAN : VerifyRollbackDone(c, verified)
    \/ \E recovered \in BOOLEAN, how \in Effects :
          RecoverDone(c, recovered, how)
    \/ \E eff \in {"none", "applied"} : PortThrows(c, eff)

LEMMA StepCases ==
    ASSUME NEW c \in Callers, Step(c)
    PROVE  PortAnswers(c) \/ Settle(c) \/ Publish(c)
BY DEF Step, PortAnswers

\* The run of c stays registered; it keeps its resource exactly as long as it
\* stays in the forward phases, and it has an outcome once it returns.
RunStep(c) ==
    /\ pc[c] \in Holding \cup Recovering
    /\ \E p \in Registered :
         /\ pc' = [pc EXCEPT ![c] = p]
         /\ p \in Holding => pc[c] \in Holding
         /\ IF p = "returned" THEN \E o \in Outcome : out' = [out EXCEPT ![c] = o]
                              ELSE out' = out
         /\ held' = IF pc[c] \in Holding /\ p \notin Holding
                      THEN [held EXCEPT ![req[c].resource] = None] ELSE held
    /\ UNCHANGED registry

RunData ==
    /\ phases \in [Callers -> SUBSET (TransactionPhases \cup RecoveryPhases)]
    /\ halt \in [Callers -> Halts]
    /\ execution \in [Callers -> Executions]
    /\ compensated \in [Callers -> BOOLEAN]
    /\ effect \in [Callers -> Effects]

LEMMA ResultType ==
    ASSUME TypeOK, NEW c \in Callers, pc[c] # "idle",
           NEW status \in Statuses, NEW exec \in Executions
    PROVE  Result(req[c], status, exec) \in Outcome
BY DEF TypeOK, Result, Outcome, Request

\* Moving on, ending, and entering the failure path are all RunSteps.
LEMMA AwaitIsRunStep ==
    ASSUME TypeOK, NEW c \in Callers, NEW p \in Registered \ {"returned"},
           NEW passed, Await(c, p, passed), UNCHANGED registry,
           \/ pc[c] \in Holding /\ p \in Holding
           \/ pc[c] \in Recovering /\ p \in Recovering
    PROVE  RunStep(c)
BY DEF Await, RunStep, Holding, Recovering, Registered

LEMMA ReturnIsRunStep ==
    ASSUME TypeOK, NEW c \in Callers, pc[c] \in Holding,
           NEW status \in Statuses, NEW exec \in Executions, NEW passed,
           Return(c, status, exec, passed), UNCHANGED registry
    PROVE  RunStep(c)
<1>1. Result(req[c], status, exec) \in Outcome
  BY ResultType DEF Holding
<1>2. /\ "returned" \in Registered
      /\ "returned" \notin Holding
  BY DEF Registered, Holding, Recovering
<1> QED  BY <1>1, <1>2 DEF Return, Finish, Release, RunStep

LEMMA FinishIsRunStep ==
    ASSUME TypeOK, NEW c \in Callers, pc[c] \in Recovering,
           NEW status \in Statuses, NEW exec \in Executions, NEW passed,
           Finish(c, status, exec, passed), UNCHANGED <<held, registry>>
    PROVE  RunStep(c)
<1>1. Result(req[c], status, exec) \in Outcome
  BY ResultType DEF Recovering
<1>2. /\ "returned" \in Registered
      /\ "returned" \notin Holding
      /\ pc[c] \notin Holding
  BY DEF Registered, Holding, Recovering
<1> QED  BY <1>1, <1>2 DEF Finish, RunStep

LEMMA FailIsRunStep ==
    ASSUME TypeOK, NEW c \in Callers, pc[c] \in Holding, Fail(c),
           UNCHANGED registry
    PROVE  RunStep(c)
<1>1. /\ "rollback" \in Registered
      /\ "rollback" \notin Holding
  BY DEF Registered, Holding, Recovering
<1> QED  BY <1>1 DEF Fail, Release, RunStep

\* Recording phases as passed keeps the record well typed.
LEMMA PhasesType ==
    ASSUME TypeOK, NEW c \in Callers,
           NEW passed \in SUBSET {"prepare", "snapshot", "validate", "policy",
              "security", "safety", "apply", "verify", "commit", "rollback",
              "verifyRollback", "recover"},
           phases' = [phases EXCEPT ![c] = @ \cup passed]
    PROVE  phases' \in [Callers -> SUBSET (TransactionPhases \cup RecoveryPhases)]
BY DEF TypeOK, TransactionPhases, RecoveryPhases

\* Every answer of a port is a RunStep and keeps the run's own data well typed.
LEMMA PortAnswersShape ==
    ASSUME TypeOK, NEW c \in Callers, PortAnswers(c)
    PROVE  RunStep(c) /\ RunData'
<1>0. /\ RunData
      /\ halt[c] \in Halts /\ execution[c] \in Executions
      /\ Halts \ {"no"} \subseteq Statuses
  BY DEF TypeOK, RunData, Halts, Statuses
<1> USE DEF TypeOK, Holding, Recovering, Registered, Statuses, Executions
<1>1. ASSUME NEW stale \in BOOLEAN, NEW rejected \in BOOLEAN,
             SnapshotDone(c, stale, rejected)
      PROVE  RunStep(c) /\ RunData'
  <2>1. RunStep(c)
    BY <1>0, <1>1, AwaitIsRunStep, ReturnIsRunStep
    DEF SnapshotDone, Halted
  <2>2. RunData'
    BY <1>0, <1>1, PhasesType DEF SnapshotDone, Return, Finish, Await, RunData
  <2> QED  BY <2>1, <2>2
<1>2. ASSUME NEW allowed \in BOOLEAN, NEW authorized \in BOOLEAN,
             PolicyDone(c, allowed, authorized)
      PROVE  RunStep(c) /\ RunData'
  <2>1. RunStep(c)
    BY <1>0, <1>2, AwaitIsRunStep, ReturnIsRunStep
    DEF PolicyDone, Halted
  <2>2. RunData'
    BY <1>0, <1>2, PhasesType DEF PolicyDone, Return, Finish, Await, RunData
  <2> QED  BY <2>1, <2>2
<1>3. ASSUME NEW safe \in BOOLEAN, SafetyDone(c, safe)
      PROVE  RunStep(c) /\ RunData'
  <2>1. RunStep(c)
    BY <1>0, <1>3, AwaitIsRunStep, ReturnIsRunStep
    DEF SafetyDone, Halted
  <2>2. RunData'
    BY <1>0, <1>3, PhasesType DEF SafetyDone, Return, Finish, Await, RunData
  <2> QED  BY <2>1, <2>2
<1>4. ASSUME NEW status \in {"success", "skipped", "failed", "threw"},
             NEW eff \in {"none", "applied"}, ExecuteDone(c, status, eff)
      PROVE  RunStep(c) /\ RunData'
  <2>1. execution' \in [Callers -> Executions] /\ execution'[c] \in Executions
    BY <1>4 DEF ExecuteDone
  <2>2. RunStep(c)
    <3>1. /\ pc[c] \in Holding /\ UNCHANGED registry
          /\ \/ Fail(c)
             \/ halt[c] # "no" /\ Return(c, halt[c], execution'[c], {"apply"})
             \/ Await(c, "verify", {"apply"})
      BY <1>4 DEF ExecuteDone, HaltAfterApply, Halted
    <3>2. CASE Fail(c)
      BY <3>1, <3>2, FailIsRunStep
    <3>3. CASE halt[c] # "no" /\ Return(c, halt[c], execution'[c], {"apply"})
      BY <1>0, <2>1, <3>1, <3>3, ReturnIsRunStep
    <3>4. CASE Await(c, "verify", {"apply"})
      <4>1. "verify" \in Holding /\ "verify" \in Registered \ {"returned"}
        OBVIOUS
      <4> HIDE DEF Holding, Recovering, Registered
      <4> QED  BY <3>1, <3>4, <4>1, AwaitIsRunStep
    <3> QED  BY <3>1, <3>2, <3>3, <3>4
  <2>3. RunData'
    <3>1. /\ effect' \in [Callers -> Effects]
          /\ UNCHANGED <<halt, compensated>>
      BY <1>0, <1>4 DEF ExecuteDone, RunData, Effects
    <3>2. phases' = phases \/ phases' = [phases EXCEPT ![c] = @ \cup {"apply"}]
      BY <1>4 DEF ExecuteDone, HaltAfterApply, Return, Finish, Fail, Await
    <3>3. phases' \in [Callers -> SUBSET (TransactionPhases \cup RecoveryPhases)]
      BY <1>0, <3>2 DEF RunData, TransactionPhases
    <3> QED  BY <1>0, <2>1, <3>1, <3>3 DEF RunData
  <2> QED  BY <2>2, <2>3
<1>5. ASSUME NEW verified \in BOOLEAN, VerifyDone(c, verified)
      PROVE  RunStep(c) /\ RunData'
  <2>1. RunStep(c)
    BY <1>0, <1>5, ReturnIsRunStep, FailIsRunStep
    DEF VerifyDone
  <2>2. RunData'
    BY <1>0, <1>5 DEF VerifyDone, Return, Finish, Fail, RunData,
       TransactionPhases
  <2> QED  BY <2>1, <2>2
<1>6. ASSUME NEW undone \in BOOLEAN, CompensateDone(c, undone)
      PROVE  RunStep(c) /\ RunData'
  <2>1. RunStep(c)
    BY <1>0, <1>6, AwaitIsRunStep
    DEF CompensateDone
  <2>2. RunData'
    BY <1>0, <1>6, PortsAssumption DEF CompensateDone, Await, RunData,
       RecoveryPhases, Effects
  <2> QED  BY <2>1, <2>2
<1>7. ASSUME NEW verified \in BOOLEAN, VerifyRollbackDone(c, verified)
      PROVE  RunStep(c) /\ RunData'
  <2>1. RunStep(c)
    BY <1>0, <1>7, AwaitIsRunStep, FinishIsRunStep
    DEF VerifyRollbackDone
  <2>2. RunData'
    BY <1>0, <1>7, PhasesType DEF VerifyRollbackDone, Await, Finish, RunData
  <2> QED  BY <2>1, <2>2
<1>8. ASSUME NEW recovered \in BOOLEAN, NEW how \in Effects,
             RecoverDone(c, recovered, how)
      PROVE  RunStep(c) /\ RunData'
  <2>1. RunStep(c)
    BY <1>0, <1>8, FinishIsRunStep
    DEF RecoverDone
  <2>2. RunData'
    BY <1>0, <1>8 DEF RecoverDone, Finish, RunData, RecoveryPhases, Effects
  <2> QED  BY <2>1, <2>2
<1>9. ASSUME NEW eff \in {"none", "applied"}, PortThrows(c, eff)
      PROVE  RunStep(c) /\ RunData'
  <2>1. RunStep(c)
    BY <1>0, <1>9, ReturnIsRunStep, FinishIsRunStep
    DEF PortThrows, Return
  <2>2. RunData'
    BY <1>0, <1>9 DEF PortThrows, Finish, RunData, Effects
  <2> QED  BY <2>1, <2>2
<1> QED
  BY <1>1, <1>2, <1>3, <1>4, <1>5, <1>6, <1>7, <1>8, <1>9 DEF PortAnswers

\* Only a caller that is suspended on another run's promise has a joined run.
\* Publish resumes the callers that joined, so type correctness needs it.
JoinerWaits == \A c \in Callers : joined[c] # None => pc[c] = "joined"

LEMMA TypeStep ==
    ASSUME TypeOK, JoinerWaits, NEW c \in Callers, Step(c)
    PROVE  TypeOK'
<1>1. CASE PortAnswers(c)
  <2>1. RunStep(c) /\ RunData'
    BY <1>1, PortAnswersShape
  <2>2. PICK p \in Registered :
          /\ pc' = [pc EXCEPT ![c] = p]
          /\ IF p = "returned" THEN \E o \in Outcome : out' = [out EXCEPT ![c] = o]
                               ELSE out' = out
          /\ held' = IF pc[c] \in Holding /\ p \notin Holding
                       THEN [held EXCEPT ![req[c].resource] = None] ELSE held
    BY <2>1 DEF RunStep
  <2>3. out' \in [Callers -> Outcome \cup {None}]
        /\ p = "returned" => out'[c] \in Outcome
        /\ \A d \in Callers \ {c} : out'[d] = out[d]
    BY <2>2 DEF TypeOK
  <2>4. held' \in [Resources -> Callers \cup {None}]
    BY <2>2 DEF TypeOK
  <2>5. /\ pc' \in [Callers -> ControlPoints]
        /\ pc[c] # "idle" /\ pc'[c] = p
        /\ p \notin {"settled", "replied"}
    BY <2>1, <2>2 DEF TypeOK, RunStep, Registered, Holding, Recovering,
       ControlPoints
  <2>6. UNCHANGED registry
    BY <2>1 DEF RunStep
  <2> QED
    BY <2>1, <2>2, <2>3, <2>4, <2>5, <2>6 DEF TypeOK, RunData, registry
<1>2. CASE Settle(c)
  BY <1>2 DEF Settle, TypeOK, ControlPoints, Registered
<1>3. CASE Publish(c)
  <2> USE <1>3 DEF Publish, TypeOK
  <2>1. out[c] \in Outcome /\ req[c] \in Request
    OBVIOUS
  <2>2. completed' \in Seq(Entry)
    <3> DEFINE e == [key |-> req[c].key, action |-> req[c].action, outcome |-> out[c]]
    <3>1. e \in Entry
      BY <2>1 DEF Entry, Request
    <3>2. Evict(Bind(completed, e)) \in Seq(Entry)
      BY <3>1, BindType, EvictType
    <3> QED  BY <3>2
  <2>3. /\ pc' \in [Callers -> ControlPoints]
        /\ joined' \in [Callers -> Callers \cup {None}]
        /\ out' \in [Callers -> Outcome \cup {None}]
    BY <2>1 DEF ControlPoints
  <2>4. /\ phases' \in [Callers -> SUBSET (TransactionPhases \cup RecoveryPhases)]
        /\ halt' \in [Callers -> Halts]
        /\ execution' \in [Callers -> Executions]
        /\ compensated' \in [Callers -> BOOLEAN]
        /\ effect' \in [Callers -> Effects]
    BY DEF Halts, Executions, Effects
  <2>5. \A d \in Callers : pc'[d] # "idle" => req'[d] \in Request
    <3> SUFFICES ASSUME NEW d \in Callers, pc'[d] # "idle"
                 PROVE  req[d] \in Request
      OBVIOUS
    <3>1. CASE pc[d] # "idle"
      BY <3>1
    <3>2. CASE pc[d] = "idle"
      <4>1. d # c /\ joined[d] # c
        BY <3>2, SetsAssumption DEF JoinerWaits
      <4> QED  BY <3>2, <4>1 DEF Answered
    <3> QED  BY <3>1, <3>2
  <2>6. \A d \in Callers : pc'[d] \in {"returned", "settled", "replied"} =>
                              out'[d] \in Outcome
    BY <2>1
  <2> QED  BY <2>2, <2>3, <2>4, <2>5, <2>6
<1> QED  BY <1>1, <1>2, <1>3, StepCases

LEMMA JoinerStep ==
    ASSUME TypeOK, JoinerWaits, [Next]_vars
    PROVE  JoinerWaits'
<1> USE DEF JoinerWaits, TypeOK
<1>1. ASSUME NEW c \in Callers, NEW q \in Request, MutateBound(c, q)
      PROVE  JoinerWaits'
  BY <1>1 DEF MutateBound, Issue, Free
<1>2. ASSUME NEW c \in Callers, NEW q \in Request, MutateJoin(c, q)
      PROVE  JoinerWaits'
  BY <1>2 DEF MutateJoin, Issue, Free
<1>3. ASSUME NEW c \in Callers, NEW q \in Request,
             NEW h \in {"no", "cancelled"}, MutateStart(c, q, h)
      PROVE  JoinerWaits'
  BY <1>3 DEF MutateStart, Issue, Free, Prepare
<1>4. ASSUME NEW c \in Callers, Step(c)
      PROVE  JoinerWaits'
  <2>1. CASE PortAnswers(c)
    <3>1. RunStep(c)
      BY <2>1, PortAnswersShape
    <3> QED
      BY <3>1 DEF RunStep, registry, Holding, Recovering
  <2>2. CASE Settle(c)
    BY <2>2 DEF Settle
  <2>3. CASE Publish(c)
    BY <2>3 DEF Publish
  <2> QED  BY <1>4, <2>1, <2>2, <2>3, StepCases
<1>5. CASE AdvanceEpoch
  BY <1>5 DEF AdvanceEpoch
<1>6. ASSUME NEW c \in Callers, NEW h \in Halts, Interrupt(c, h)
      PROVE  JoinerWaits'
  BY <1>6 DEF Interrupt, registry
<1>7. CASE UNCHANGED vars
  BY <1>7 DEF vars
<1> QED  BY <1>1, <1>2, <1>3, <1>4, <1>5, <1>6, <1>7, NextCases

LEMMA TypeNext ==
    ASSUME TypeOK, JoinerWaits, [Next]_vars
    PROVE  TypeOK'
<1>1. CASE AdvanceEpoch
  <2>1. epoch' \in 1..MaxEpoch
    BY <1>1, BoundsAssumption DEF AdvanceEpoch, TypeOK
  <2> QED  BY <1>1, <2>1 DEF AdvanceEpoch, TypeOK
<1>2. ASSUME NEW c \in Callers, NEW h \in Halts, Interrupt(c, h)
      PROVE  TypeOK'
  BY <1>2 DEF Interrupt, registry, TypeOK
<1>3. CASE UNCHANGED vars
  BY <1>3 DEF vars, TypeOK
<1> QED  BY <1>1, <1>2, <1>3, NextCases, TypeMutate, TypeStep

LEMMA TypeInductive == Spec => [](TypeOK /\ JoinerWaits)
<1>1. Init => JoinerWaits
  BY DEF Init, JoinerWaits
<1>2. TypeOK /\ JoinerWaits /\ [Next]_vars => TypeOK' /\ JoinerWaits'
  BY TypeNext, JoinerStep
<1> QED  BY <1>1, <1>2, TypeInit, PTL DEF Spec

\* Every variable of the boundary keeps its type, for every instance: a run
\* past mutate()'s first line has a request, and one that returned an outcome.
THEOREM TypeCorrect == Spec => []TypeOK
BY TypeInductive, PTL

-----------------------------------------------------------------------------
(* Concurrent-mutation protection. *)

\* A run in a forward phase holds its resource: with it, exclusion is a matter
\* of `held` being a function.
HolderIsRecorded ==
    \A c \in Callers : pc[c] \in Holding => held[req[c].resource] = c

HeldInv == HolderIsRecorded /\ HeldIsLive

LEMMA HeldStep ==
    ASSUME TypeOK, TypeOK', JoinerWaits, HeldInv, [Next]_vars
    PROVE  HeldInv'
<1> USE SetsAssumption DEF HeldInv, HolderIsRecorded, HeldIsLive
<1>1. ASSUME NEW c \in Callers, NEW q \in Request,
             MutateBound(c, q) \/ MutateJoin(c, q)
      PROVE  HeldInv'
  <2>1. /\ pc[c] \notin Holding /\ pc'[c] \notin Holding
        /\ \A d \in Callers \ {c} : pc'[d] = pc[d] /\ req'[d] = req[d]
        /\ UNCHANGED held
    BY <1>1 DEF MutateBound, MutateJoin, Issue, Free, Holding, TypeOK
  <2>2. HolderIsRecorded'
    BY <2>1
  <2>3. HeldIsLive'
    BY <2>1 DEF TypeOK
  <2> QED  BY <2>2, <2>3
<1>2. ASSUME NEW c \in Callers, NEW q \in Request,
             NEW h \in {"no", "cancelled"}, MutateStart(c, q, h)
      PROVE  HeldInv'
  <2>1. q.resource \in Resources
    BY DEF Request
  <2>2. /\ pc[c] \notin Holding
        /\ req' = [req EXCEPT ![c] = q]
    BY <1>2 DEF MutateStart, Issue, Free, Holding
  <2>3. CASE h = "no" /\ ~Stale(q) /\ ~Concurrent(c, q)
    <3>1. /\ pc' = [pc EXCEPT ![c] = "snapshot"]
          /\ held' = [held EXCEPT ![q.resource] = c]
      BY <1>2, <2>3 DEF MutateStart, Prepare
    <3>2. held[q.resource] = None
      BY <2>1, <2>2, <2>3 DEF Concurrent, TypeOK
    <3>3. "snapshot" \in Holding
      BY DEF Holding
    <3>4. HolderIsRecorded'
      <4> SUFFICES ASSUME NEW d \in Callers, pc'[d] \in Holding
                   PROVE  held'[req'[d].resource] = d
        OBVIOUS
      <4>1. CASE d = c
        BY <2>1, <2>2, <3>1, <4>1 DEF TypeOK
      <4>2. CASE d # c
        <5>1. pc[d] \in Holding /\ req'[d] = req[d]
          BY <2>2, <3>1, <4>2 DEF TypeOK
        <5>2. held[req[d].resource] = d /\ req[d].resource # q.resource
          BY <3>2, <5>1
        <5> QED  BY <3>1, <5>1, <5>2 DEF TypeOK
      <4> QED  BY <4>1, <4>2
    <3>5. HeldIsLive'
      BY <2>1, <2>2, <3>1, <3>2, <3>3 DEF TypeOK
    <3> QED  BY <3>4, <3>5
  <2>4. CASE ~(h = "no" /\ ~Stale(q) /\ ~Concurrent(c, q))
    <3>1. pc' = [pc EXCEPT ![c] = "returned"] /\ UNCHANGED held
      BY <1>2, <2>4 DEF MutateStart, Prepare
    <3> QED  BY <2>2, <3>1 DEF Holding, TypeOK
  <2> QED  BY <2>3, <2>4
<1>3. ASSUME NEW c \in Callers, PortAnswers(c)
      PROVE  HeldInv'
  <2>1. RunStep(c)
    BY <1>3, PortAnswersShape
  <2>2. PICK p \in Registered :
          /\ pc' = [pc EXCEPT ![c] = p]
          /\ p \in Holding => pc[c] \in Holding
          /\ held' = IF pc[c] \in Holding /\ p \notin Holding
                       THEN [held EXCEPT ![req[c].resource] = None] ELSE held
    BY <2>1 DEF RunStep
  <2>3. req' = req
    BY <2>1 DEF RunStep, registry
  <2>4. CASE pc[c] \in Holding /\ p \notin Holding
    <3>1. req[c].resource \in Resources /\ held[req[c].resource] = c
      BY <2>4 DEF TypeOK, Holding, Request
    <3>2. held' = [held EXCEPT ![req[c].resource] = None]
      BY <2>2, <2>4
    <3>3. HolderIsRecorded'
      BY <2>2, <2>3, <2>4, <3>1, <3>2 DEF TypeOK
    <3>4. HeldIsLive'
      BY <2>2, <2>3, <2>4, <3>1, <3>2 DEF TypeOK
    <3> QED  BY <3>3, <3>4
  <2>5. CASE ~(pc[c] \in Holding /\ p \notin Holding)
    BY <2>2, <2>3, <2>5 DEF TypeOK
  <2> QED  BY <2>4, <2>5
<1>4. ASSUME NEW c \in Callers, Settle(c)
      PROVE  HeldInv'
  BY <1>4 DEF Settle, Holding, TypeOK
<1>5. ASSUME NEW c \in Callers, Publish(c)
      PROVE  HeldInv'
  <2>1. \A w \in Callers : w \in Answered(c) => pc[w] \notin Holding
    BY <1>5 DEF Publish, Answered, JoinerWaits, Holding
  <2>2. \A w \in Callers : pc'[w] \in Holding <=> pc[w] \in Holding
    BY <1>5, <2>1 DEF Publish, Holding, TypeOK
  <2>3. UNCHANGED <<req, held>>
    BY <1>5 DEF Publish
  <2> QED  BY <2>2, <2>3 DEF TypeOK
<1>6. ASSUME AdvanceEpoch \/ \E c \in Callers, h \in Halts : Interrupt(c, h)
      PROVE  HeldInv'
  BY <1>6 DEF AdvanceEpoch, Interrupt, registry
<1>7. CASE UNCHANGED vars
  BY <1>7 DEF vars
<1> QED
  BY <1>1, <1>2, <1>3, <1>4, <1>5, <1>6, <1>7, NextCases, StepCases

LEMMA HeldInductive == Spec => []HeldInv
<1>1. Init => HeldInv
  BY DEF Init, HeldInv, HolderIsRecorded, HeldIsLive, Holding
<1>2. /\ TypeOK /\ JoinerWaits /\ (TypeOK /\ JoinerWaits)'
      /\ HeldInv /\ [Next]_vars
      => HeldInv'
  BY HeldStep
<1> QED  BY <1>1, <1>2, TypeInductive, PTL DEF Spec

\* heldMutations() never leaks: whatever gate, halt, exception or failure ends
\* a run, `finally` has dropped its resource.
THEOREM HeldResourcesAreLive == Spec => []HeldIsLive
<1>1. HeldInv => HeldIsLive
  BY DEF HeldInv
<1> QED  BY <1>1, HeldInductive, PTL

\* For any number of callers, two runs are never in the forward phases on one
\* resource together.
THEOREM Exclusion == Spec => []ResourceExclusion
<1>1. HeldInv => ResourceExclusion
  BY DEF HeldInv, HolderIsRecorded, ResourceExclusion
<1> QED  BY <1>1, HeldInductive, PTL

-----------------------------------------------------------------------------
(* Idempotency keys. *)

RunIsRegistered ==
    \A c \in Callers : pc[c] \in Registered => inFlight[req[c].key] = c

FlightIsLive ==
    \A k \in Keys : inFlight[k] # None =>
       /\ pc[inFlight[k]] \in Registered
       /\ req[inFlight[k]].key = k

\* The run a caller has joined has still to answer.
JoinedRunIsLive ==
    \A c \in Callers : pc[c] = "joined" =>
       /\ joined[c] # None
       /\ pc[joined[c]] \in Registered \cup {"settled"}
       /\ req[joined[c]].key = req[c].key

KeyInv == RunIsRegistered /\ FlightIsLive /\ JoinedRunIsLive

\* A call of mutate() changes only its own control point and request, and no
\* run is disturbed by it.
LEMMA KeyMutate ==
    ASSUME TypeOK, TypeOK', KeyInv, NEW c \in Callers, NEW q \in Request,
           \/ MutateBound(c, q)
           \/ MutateJoin(c, q)
           \/ \E h \in {"no", "cancelled"} : MutateStart(c, q, h)
    PROVE  KeyInv'
<1> USE SetsAssumption DEF KeyInv, RunIsRegistered, FlightIsLive, JoinedRunIsLive
<1>0. /\ q.key \in Keys
      /\ \A d \in Callers : pc[d] \in Registered => req[d].key \in Keys
  BY DEF Request, TypeOK, Registered, Holding, Recovering
<1>1. /\ pc[c] \notin Registered \cup {"settled", "joined"}
      /\ req'[c] = q
      /\ \A d \in Callers \ {c} : pc'[d] = pc[d] /\ req'[d] = req[d]
  BY DEF MutateBound, MutateJoin, MutateStart, Prepare, Issue, Free, Registered,
     Holding, Recovering, TypeOK
<1>2. CASE MutateBound(c, q)
  <2>1. /\ pc'[c] \notin Registered \cup {"joined"}
        /\ UNCHANGED <<inFlight, joined>>
    BY <1>2 DEF MutateBound, Registered, Holding, Recovering, TypeOK
  <2>2. RunIsRegistered'
    BY <1>1, <2>1
  <2>3. FlightIsLive'
    BY <1>1, <2>1 DEF TypeOK
  <2>4. JoinedRunIsLive'
    BY <1>1, <2>1 DEF TypeOK
  <2> QED  BY <2>2, <2>3, <2>4
<1>3. CASE MutateJoin(c, q)
  <2>1. /\ pc'[c] = "joined" /\ "joined" \notin Registered
        /\ inFlight' = inFlight /\ inFlight[q.key] \in Callers
        /\ joined' = [joined EXCEPT ![c] = inFlight[q.key]]
    BY <1>0, <1>3 DEF MutateJoin, Registered, Holding, Recovering, TypeOK
  <2>2. RunIsRegistered'
    BY <1>1, <2>1
  <2>3. FlightIsLive'
    BY <1>1, <2>1 DEF TypeOK
  <2>4. JoinedRunIsLive'
    <3> SUFFICES ASSUME NEW d \in Callers, pc'[d] = "joined"
                 PROVE  /\ joined'[d] # None
                        /\ pc'[joined'[d]] \in Registered \cup {"settled"}
                        /\ req'[joined'[d]].key = req'[d].key
      OBVIOUS
    <3>1. CASE d = c
      <4>1. PICK o \in Callers : o = inFlight[q.key]
        BY <2>1
      <4>2. pc[o] \in Registered /\ req[o].key = q.key
        BY <1>0, <4>1
      <4>3. o # c /\ joined'[c] = o
        BY <1>1, <2>1, <4>1, <4>2 DEF TypeOK
      <4> QED  BY <1>1, <3>1, <4>2, <4>3
    <3>2. CASE d # c
      <4>1. pc[d] = "joined" /\ joined'[d] = joined[d]
        BY <1>1, <2>1, <3>2 DEF TypeOK
      <4>2. joined[d] \in Callers /\ joined[d] # c
        BY <1>1, <4>1 DEF TypeOK
      <4> QED  BY <1>1, <3>2, <4>1, <4>2
    <3> QED  BY <3>1, <3>2
  <2> QED  BY <2>2, <2>3, <2>4
<1>4. CASE \E h \in {"no", "cancelled"} : MutateStart(c, q, h)
  <2>1. /\ pc'[c] \in Registered /\ pc'[c] # "joined"
        /\ inFlight[q.key] = None
        /\ inFlight' = [inFlight EXCEPT ![q.key] = c]
        /\ joined' = joined
    BY <1>4 DEF MutateStart, Prepare, Register, Registered, Holding, Recovering,
       TypeOK
  <2>2. RunIsRegistered'
    <3> SUFFICES ASSUME NEW d \in Callers, pc'[d] \in Registered
                 PROVE  inFlight'[req'[d].key] = d
      OBVIOUS
    <3>1. CASE d = c
      BY <1>0, <1>1, <2>1, <3>1 DEF TypeOK
    <3>2. CASE d # c
      <4>1. pc[d] \in Registered /\ req'[d] = req[d]
        BY <1>1, <3>2
      <4>2. /\ inFlight[req[d].key] = d /\ req[d].key \in Keys
            /\ req[d].key # q.key
        BY <1>0, <2>1, <4>1
      <4> QED  BY <2>1, <4>1, <4>2 DEF TypeOK
    <3> QED  BY <3>1, <3>2
  <2>3. FlightIsLive'
    <3> SUFFICES ASSUME NEW k \in Keys, inFlight'[k] # None
                 PROVE  /\ pc'[inFlight'[k]] \in Registered
                        /\ req'[inFlight'[k]].key = k
      OBVIOUS
    <3>1. CASE k = q.key
      BY <1>0, <1>1, <2>1, <3>1 DEF TypeOK
    <3>2. CASE k # q.key
      <4>1. inFlight'[k] = inFlight[k] /\ inFlight[k] \in Callers
        BY <2>1, <3>2 DEF TypeOK
      <4>2. inFlight[k] # c
        BY <1>1, <4>1
      <4> QED  BY <1>1, <4>1, <4>2
    <3> QED  BY <3>1, <3>2
  <2>4. JoinedRunIsLive'
    <3> SUFFICES ASSUME NEW d \in Callers, pc'[d] = "joined"
                 PROVE  /\ joined'[d] # None
                        /\ pc'[joined'[d]] \in Registered \cup {"settled"}
                        /\ req'[joined'[d]].key = req'[d].key
      OBVIOUS
    <3>1. d # c /\ pc[d] = "joined" /\ joined'[d] = joined[d]
      BY <1>1, <2>1
    <3>2. joined[d] \in Callers /\ joined[d] # c
      BY <1>1, <3>1 DEF TypeOK
    <3> QED  BY <1>1, <3>1, <3>2
  <2> QED  BY <2>2, <2>3, <2>4
<1> QED  BY <1>2, <1>3, <1>4

LEMMA KeyStep ==
    ASSUME TypeOK, TypeOK', JoinerWaits, KeyInv, [Next]_vars
    PROVE  KeyInv'
<1> USE SetsAssumption DEF KeyInv, RunIsRegistered, FlightIsLive, JoinedRunIsLive
<1>1. ASSUME NEW c \in Callers, PortAnswers(c)
      PROVE  KeyInv'
  <2>1. RunStep(c)
    BY <1>1, PortAnswersShape
  <2>2. /\ pc[c] \in Registered /\ pc'[c] \in Registered
        /\ \A d \in Callers \ {c} : pc'[d] = pc[d]
        /\ "joined" \notin Registered
        /\ UNCHANGED <<req, inFlight, joined>>
    BY <2>1 DEF RunStep, registry, Registered, Holding, Recovering, TypeOK
  <2>3. \A d \in Callers : pc'[d] \in Registered <=> pc[d] \in Registered
    BY <2>2
  <2>4. RunIsRegistered'
    BY <2>2, <2>3
  <2>5. FlightIsLive'
    <3> SUFFICES ASSUME NEW k \in Keys, inFlight'[k] # None
                 PROVE  /\ pc'[inFlight'[k]] \in Registered
                        /\ req'[inFlight'[k]].key = k
      OBVIOUS
    <3>1. inFlight'[k] = inFlight[k] /\ inFlight[k] \in Callers
      BY <2>2 DEF TypeOK
    <3> QED  BY <2>2, <2>3, <3>1
  <2>6. JoinedRunIsLive'
    <3> SUFFICES ASSUME NEW d \in Callers, pc'[d] = "joined"
                 PROVE  /\ joined'[d] # None
                        /\ pc'[joined'[d]] \in Registered \cup {"settled"}
                        /\ req'[joined'[d]].key = req'[d].key
      OBVIOUS
    <3>1. pc[d] = "joined" /\ joined'[d] = joined[d] /\ joined[d] # None
      BY <2>2
    <3>2. /\ joined[d] \in Callers
          /\ pc[joined[d]] \in Registered \cup {"settled"}
          /\ req[joined[d]].key = req[d].key
      BY <3>1 DEF TypeOK
    <3>3. pc'[joined[d]] \in Registered \cup {"settled"}
      BY <2>2, <2>3, <3>2
    <3> QED  BY <2>2, <3>1, <3>2, <3>3
  <2> QED  BY <2>4, <2>5, <2>6
<1>2. ASSUME NEW c \in Callers, Settle(c)
      PROVE  KeyInv'
  <2>1. /\ pc[c] \in Registered /\ pc'[c] = "settled"
        /\ "settled" \notin Registered
        /\ \A d \in Callers \ {c} : pc'[d] = pc[d]
        /\ req[c].key \in Keys
        /\ inFlight' = [inFlight EXCEPT ![req[c].key] = None]
        /\ UNCHANGED <<req, joined>>
    BY <1>2 DEF Settle, Registered, Holding, Recovering, TypeOK, Request
  <2>2. \A d \in Callers : pc[d] \in Registered => req[d].key \in Keys
    BY DEF Request, TypeOK, Registered, Holding, Recovering
  <2>3. RunIsRegistered'
    <3> SUFFICES ASSUME NEW d \in Callers, pc'[d] \in Registered
                 PROVE  inFlight'[req'[d].key] = d
      OBVIOUS
    <3>1. d # c /\ pc[d] \in Registered /\ req'[d] = req[d]
      BY <2>1
    <3>2. inFlight[req[d].key] = d /\ req[d].key \in Keys
      BY <2>2, <3>1
    <3>3. req[d].key # req[c].key
      BY <2>1, <3>1, <3>2
    <3> QED  BY <2>1, <3>1, <3>2, <3>3 DEF TypeOK
  <2>4. FlightIsLive'
    <3> SUFFICES ASSUME NEW k \in Keys, inFlight'[k] # None
                 PROVE  /\ pc'[inFlight'[k]] \in Registered
                        /\ req'[inFlight'[k]].key = k
      OBVIOUS
    <3>1. /\ inFlight'[k] = inFlight[k] /\ inFlight[k] \in Callers
          /\ k # req[c].key
      BY <2>1 DEF TypeOK
    <3>2. pc[inFlight[k]] \in Registered /\ req[inFlight[k]].key = k
      BY <3>1
    <3>3. inFlight[k] # c
      BY <3>1, <3>2
    <3> QED  BY <2>1, <3>1, <3>2, <3>3
  <2>5. JoinedRunIsLive'
    BY <2>1 DEF TypeOK
  <2> QED  BY <2>3, <2>4, <2>5
<1>3. ASSUME NEW c \in Callers, Publish(c)
      PROVE  KeyInv'
  <2>1. \A w \in Callers :
          /\ pc'[w] = IF w = c \/ joined[w] = c THEN "replied" ELSE pc[w]
          /\ joined'[w] = IF w = c \/ joined[w] = c THEN None ELSE joined[w]
    BY <1>3 DEF Publish, Answered, TypeOK
  <2>2. /\ pc[c] = "settled" /\ UNCHANGED <<req, inFlight>>
    BY <1>3 DEF Publish
  <2>3. /\ {"replied", "settled", "joined"} \cap Registered = {}
        /\ "replied" # "joined"
    BY DEF Registered, Holding, Recovering
  <2>4. RunIsRegistered'
    BY <2>1, <2>2, <2>3
  <2>5. \A w \in Callers : pc[w] \in Registered => pc'[w] = pc[w]
    BY <2>1, <2>2, <2>3 DEF JoinerWaits
  <2>6. FlightIsLive'
    BY <2>2, <2>5 DEF TypeOK
  <2>7. JoinedRunIsLive'
    <3> SUFFICES ASSUME NEW w \in Callers, pc'[w] = "joined"
                 PROVE  /\ joined'[w] # None
                        /\ pc'[joined'[w]] \in Registered \cup {"settled"}
                        /\ req'[joined'[w]].key = req'[w].key
      OBVIOUS
    <3>1. /\ w # c /\ joined[w] # c /\ pc[w] = "joined" /\ joined'[w] = joined[w]
      BY <2>1, <2>3
    <3>2. /\ joined[w] \in Callers
          /\ pc[joined[w]] \in Registered \cup {"settled"}
      BY <3>1 DEF TypeOK
    <3>3. joined[joined[w]] # c
      BY <3>2, <2>3 DEF JoinerWaits
    <3>4. pc'[joined[w]] = pc[joined[w]]
      BY <2>1, <3>1, <3>2, <3>3
    <3> QED  BY <2>2, <3>1, <3>2, <3>4
  <2> QED  BY <2>4, <2>6, <2>7
<1>4. ASSUME AdvanceEpoch \/ \E c \in Callers, h \in Halts : Interrupt(c, h)
      PROVE  KeyInv'
  BY <1>4 DEF AdvanceEpoch, Interrupt, registry
<1>5. CASE UNCHANGED vars
  BY <1>5 DEF vars
<1> QED
  BY <1>1, <1>2, <1>3, <1>4, <1>5, NextCases, StepCases, KeyMutate

\* Concurrent calls with one idempotency key share one run, from its prepare
\* phase to the end of its recovery, and whoever joined it is still owed an
\* answer by a run that has one to give.
THEOREM SingleFlight == Spec => []OneRunPerKey
<1>1. Init => KeyInv
  BY DEF Init, KeyInv, RunIsRegistered, FlightIsLive, JoinedRunIsLive,
     Registered, Holding, Recovering
<1>2. /\ TypeOK /\ JoinerWaits /\ (TypeOK /\ JoinerWaits)'
      /\ KeyInv /\ [Next]_vars
      => KeyInv'
  BY KeyStep
<1>3. KeyInv => OneRunPerKey
  BY DEF KeyInv, RunIsRegistered, JoinedRunIsLive, OneRunPerKey
<1> QED  BY <1>1, <1>2, <1>3, TypeInductive, PTL DEF Spec

-----------------------------------------------------------------------------
(* The replay cache is a bounded map. *)

DistinctKeys(m) == \A i, j \in DOMAIN m : m[i].key = m[j].key => i = j

\* Map.set never gives a key a second place.
LEMMA BindDistinct ==
    ASSUME NEW m \in Seq(Entry), NEW e \in Entry, DistinctKeys(m)
    PROVE  DistinctKeys(Bind(m, e))
<1>1. CASE \E i \in DOMAIN m : m[i].key = e.key
  <2>1. Bind(m, e) = [i \in DOMAIN m |-> IF m[i].key = e.key THEN e ELSE m[i]]
    BY <1>1 DEF Bind
  <2>2. /\ DOMAIN Bind(m, e) = DOMAIN m
        /\ \A i \in DOMAIN m : Bind(m, e)[i].key = m[i].key
    BY <2>1
  <2> QED  BY <2>2 DEF DistinctKeys
<1>2. CASE ~ \E i \in DOMAIN m : m[i].key = e.key
  <2>1. Bind(m, e) = Append(m, e)
    BY <1>2 DEF Bind
  <2>2. /\ DOMAIN Append(m, e) = 1..(Len(m) + 1)
        /\ DOMAIN m = 1..Len(m) /\ Len(m) \in Nat
        /\ \A i \in 1..Len(m) : Append(m, e)[i] = m[i]
        /\ Append(m, e)[Len(m) + 1] = e
    OBVIOUS
  <2>3. \A i \in 1..(Len(m) + 1) : i \in 1..Len(m) \/ i = Len(m) + 1
    BY <2>2
  <2> QED  BY <1>2, <2>1, <2>2, <2>3 DEF DistinctKeys
<1> QED  BY <1>1, <1>2

\* The eviction keeps the places of the survivors apart, and one eviction
\* suffices after one insertion.
LEMMA EvictBounds ==
    ASSUME NEW m \in Seq(Entry), DistinctKeys(m), Len(m) <= MaxEntries + 1
    PROVE  DistinctKeys(Evict(m)) /\ Len(Evict(m)) <= MaxEntries
<1>0. Len(m) \in Nat /\ MaxEntries \in Nat
  BY BoundsAssumption
<1>1. CASE Len(m) > MaxEntries
  <2>1. Evict(m) = Tail(m) /\ m # << >>
    BY <1>0, <1>1 DEF Evict
  <2>2. /\ Len(Tail(m)) = Len(m) - 1
        /\ DOMAIN Tail(m) = 1..(Len(m) - 1)
        /\ \A i \in 1..(Len(m) - 1) : Tail(m)[i] = m[i + 1]
    BY <1>0, <2>1
  <2>3. ASSUME NEW i \in 1..(Len(m) - 1), NEW j \in 1..(Len(m) - 1),
               Tail(m)[i].key = Tail(m)[j].key
        PROVE  i = j
    <3>1. i + 1 \in DOMAIN m /\ j + 1 \in DOMAIN m
      BY <1>0
    <3>2. m[i + 1].key = m[j + 1].key
      BY <2>2, <2>3
    <3>3. i + 1 = j + 1
      BY <3>1, <3>2 DEF DistinctKeys
    <3> QED  BY <3>3
  <2> QED  BY <1>0, <2>1, <2>2, <2>3 DEF DistinctKeys
<1>2. CASE ~(Len(m) > MaxEntries)
  BY <1>0, <1>2 DEF Evict
<1> QED  BY <1>1, <1>2

LEMMA CacheStep ==
    ASSUME TypeOK, CacheIsBounded, [Next]_vars
    PROVE  CacheIsBounded'
<1>1. ASSUME NEW c \in Callers, Publish(c)
      PROVE  CacheIsBounded'
  <2> DEFINE e == [key |-> req[c].key, action |-> req[c].action,
                   outcome |-> out[c]]
  <2>1. e \in Entry /\ completed \in Seq(Entry)
    BY <1>1 DEF Publish, TypeOK, Entry, Request
  <2>2. /\ DistinctKeys(Bind(completed, e))
        /\ Bind(completed, e) \in Seq(Entry)
        /\ Len(Bind(completed, e)) <= Len(completed) + 1
    BY <2>1, BindDistinct, BindType DEF CacheIsBounded, DistinctKeys
  <2>3. Len(Bind(completed, e)) <= MaxEntries + 1
    BY <2>1, <2>2, BoundsAssumption DEF CacheIsBounded
  <2>4. /\ DistinctKeys(Evict(Bind(completed, e)))
        /\ Len(Evict(Bind(completed, e))) <= MaxEntries
    BY <2>2, <2>3, EvictBounds
  <2>5. completed' = completed \/ completed' = Evict(Bind(completed, e))
    BY <1>1 DEF Publish
  <2> QED  BY <2>4, <2>5 DEF CacheIsBounded, DistinctKeys
<1>2. ASSUME ~(\E c \in Callers : Publish(c))
      PROVE  completed' = completed
  <2>1. ASSUME NEW c \in Callers, PortAnswers(c)
        PROVE  completed' = completed
    BY <2>1, PortAnswersShape DEF RunStep, registry
  <2> QED
    BY <1>2, <2>1, NextCases, StepCases DEF MutateBound, MutateJoin,
       MutateStart, Settle, AdvanceEpoch, Interrupt, registry, vars
<1> QED  BY <1>1, <1>2 DEF CacheIsBounded

\* The replay cache never outgrows MAX_IDEMPOTENCY_ENTRIES and never binds a
\* key twice, for any number of calls that rerun, evict and republish keys.
THEOREM BoundedCache == Spec => []CacheIsBounded
<1>1. Init => CacheIsBounded
  BY BoundsAssumption DEF Init, CacheIsBounded
<1>2. TypeOK /\ CacheIsBounded /\ [Next]_vars => CacheIsBounded'
  BY CacheStep
<1> QED  BY <1>1, <1>2, TypeCorrect, PTL DEF Spec

-----------------------------------------------------------------------------
(* Outcomes tell the truth about the data plane. *)

\* Before the executor is called, and between two runs, nothing of the run is in
\* force: what an outcome has to account for comes from this run's own apply, and
\* only the end of a recovery puts something else in its place.
NothingApplied(c) ==
    /\ pc[c] \in {"idle", "joined", "replied", "snapshot", "policy", "safety",
                  "executing"} => effect[c] = "none"
    /\ pc[c] \notin {"returned", "settled"} => effect[c] # "superseded"

\* The phases a run has passed when it awaits a port.
PhasesSoFar(c) ==
    /\ pc[c] = "snapshot" => phases[c] = {"prepare"}
    /\ pc[c] = "policy" => phases[c] = {"prepare", "snapshot", "validate"}
    /\ pc[c] = "safety" => phases[c] = {"prepare", "snapshot", "validate",
                                        "policy", "security"}
    /\ pc[c] = "executing" => phases[c] = {"prepare", "snapshot", "validate",
                                           "policy", "security", "safety"}
    /\ pc[c] = "verify" => phases[c] = {"prepare", "snapshot", "validate",
                                  "policy", "security", "safety", "apply"}

\* The record of the failure path so far: what has passed, and that evidence among
\* it is true.
RecoverySoFar(c) ==
    /\ pc[c] = "rollback" => phases[c] \cap RecoveryPhases = {}
    /\ pc[c] = "verifyRollback" =>
          /\ "rollback" \in phases[c] <=> compensated[c]
          /\ phases[c] \cap {"verifyRollback", "recover"} = {}
    /\ pc[c] = "recover" =>
          /\ "recover" \notin phases[c]
          /\ ~({"rollback", "verifyRollback"} \subseteq phases[c])
    /\ pc[c] \in Recovering /\ Evidence(c) => effect[c] = "none"

\* What the outcome of a finished run says.
OutcomeIsTrue(c) ==
    Owner(c) =>
       /\ out[c].status = "committed" => phases[c] = TransactionPhases
       /\ out[c].status = "recovered" =>
             /\ "recover" \in phases[c]
                   <=> ~({"rollback", "verifyRollback"} \subseteq phases[c])
             /\ Evidence(c) => effect[c] # "applied"
       /\ effect[c] = "applied" =>
            \/ out[c].status \in {"committed", "failed", "threw", "recovered"}
            \/ /\ out[c].status \in {"cancelled", "timed-out"}
               /\ out[c].execution # "none"

RunIsTrue(c) ==
    NothingApplied(c) /\ PhasesSoFar(c) /\ RecoverySoFar(c) /\ OutcomeIsTrue(c)

TruthInv == \A c \in Callers : RunIsTrue(c)

\* The state of one run that its truth depends on.
RunUnchanged(c) ==
    /\ pc'[c] = pc[c] /\ out'[c] = out[c] /\ phases'[c] = phases[c]
    /\ execution'[c] = execution[c] /\ compensated'[c] = compensated[c]
    /\ effect'[c] = effect[c] /\ req'[c].action = req[c].action

LEMMA TruthFrame ==
    ASSUME NEW c \in Callers, RunIsTrue(c), RunUnchanged(c)
    PROVE  RunIsTrue(c)'
BY DEF RunIsTrue, RunUnchanged, NothingApplied, PhasesSoFar, RecoverySoFar,
   OutcomeIsTrue, Owner, Evidence

\* A run that is denied or halted before apply has left nothing behind.
LEMMA DenialIsTrue ==
    ASSUME TypeOK, NEW c \in Callers, effect[c] = "none", effect' = effect,
           NEW status \in Statuses \ {"committed", "recovered"}, NEW exec, NEW passed,
           Finish(c, status, exec, passed)
    PROVE  RunIsTrue(c)'
<1>1. /\ pc'[c] = "returned" /\ effect'[c] = "none"
      /\ out'[c].status = status
  BY DEF Finish, Result, TypeOK
<1> QED
  BY <1>1 DEF RunIsTrue, NothingApplied, PhasesSoFar, RecoverySoFar,
     OutcomeIsTrue, Owner, Recovering

\* A port answers: the run that consumed the answer stays true.
LEMMA TruthAnswer ==
    ASSUME TypeOK, NEW c \in Callers, RunIsTrue(c), PortAnswers(c)
    PROVE  RunIsTrue(c)'
<1> USE DEF RunIsTrue, TypeOK
<1>0. halt[c] # "no" => halt[c] \in Statuses \ {"committed", "recovered"}
  BY DEF Halts, Statuses
<1>1. ASSUME NEW stale \in BOOLEAN, NEW rejected \in BOOLEAN,
             SnapshotDone(c, stale, rejected)
      PROVE  RunIsTrue(c)'
  <2>1. effect[c] = "none" /\ effect' = effect /\ phases[c] = {"prepare"}
    BY <1>1 DEF SnapshotDone, NothingApplied, PhasesSoFar
  <2>2. CASE Await(c, "policy", {"snapshot", "validate"})
    <3>1. /\ pc'[c] = "policy" /\ effect'[c] = "none"
          /\ phases'[c] = {"prepare"} \cup {"snapshot", "validate"}
      BY <2>1, <2>2 DEF Await
    <3> QED
      BY <3>1 DEF NothingApplied, PhasesSoFar, RecoverySoFar,
         OutcomeIsTrue, Owner, Recovering
  <2>3. CASE ~Await(c, "policy", {"snapshot", "validate"})
    BY <1>0, <1>1, <2>1, <2>3, DenialIsTrue DEF SnapshotDone, Return, Halted,
       Statuses
  <2> QED  BY <2>2, <2>3
<1>2. ASSUME NEW allowed \in BOOLEAN, NEW authorized \in BOOLEAN,
             PolicyDone(c, allowed, authorized)
      PROVE  RunIsTrue(c)'
  <2>1. /\ effect[c] = "none" /\ effect' = effect
        /\ phases[c] = {"prepare", "snapshot", "validate"}
    BY <1>2 DEF PolicyDone, NothingApplied, PhasesSoFar
  <2>2. CASE Await(c, "safety", {"policy", "security"})
    <3>1. /\ pc'[c] = "safety" /\ effect'[c] = "none"
          /\ phases'[c] = {"prepare", "snapshot", "validate"}
                          \cup {"policy", "security"}
      BY <2>1, <2>2 DEF Await
    <3> QED
      BY <3>1 DEF NothingApplied, PhasesSoFar, RecoverySoFar,
         OutcomeIsTrue, Owner, Recovering
  <2>3. CASE ~Await(c, "safety", {"policy", "security"})
    BY <1>0, <1>2, <2>1, <2>3, DenialIsTrue DEF PolicyDone, Return, Halted,
       Statuses
  <2> QED  BY <2>2, <2>3
<1>3. ASSUME NEW safe \in BOOLEAN, SafetyDone(c, safe)
      PROVE  RunIsTrue(c)'
  <2>1. /\ effect[c] = "none" /\ effect' = effect
        /\ phases[c] = {"prepare", "snapshot", "validate", "policy", "security"}
    BY <1>3 DEF SafetyDone, NothingApplied, PhasesSoFar
  <2>2. CASE Await(c, "executing", {"safety"})
    <3>1. /\ pc'[c] = "executing" /\ effect'[c] = "none"
          /\ phases'[c] = {"prepare", "snapshot", "validate", "policy",
                           "security"} \cup {"safety"}
      BY <2>1, <2>2 DEF Await
    <3> QED
      BY <3>1 DEF NothingApplied, PhasesSoFar, RecoverySoFar,
         OutcomeIsTrue, Owner, Recovering
  <2>3. CASE ~Await(c, "executing", {"safety"})
    BY <1>0, <1>3, <2>1, <2>3, DenialIsTrue DEF SafetyDone, Return, Halted,
       Statuses
  <2> QED  BY <2>2, <2>3
<1>4. ASSUME NEW status \in {"success", "skipped", "failed", "threw"},
             NEW eff \in {"none", "applied"}, ExecuteDone(c, status, eff)
      PROVE  RunIsTrue(c)'
  <2>1. /\ phases[c] = {"prepare", "snapshot", "validate", "policy",
                        "security", "safety"}
        /\ effect'[c] # "superseded"
        /\ execution'[c] = (IF status = "threw" THEN "none" ELSE status)
    BY <1>4 DEF ExecuteDone, PhasesSoFar
  <2>2. CASE Fail(c)
    <3>1. pc'[c] = "rollback" /\ phases'[c] = phases[c]
      BY <2>2 DEF Fail
    <3>2. /\ phases'[c] \cap RecoveryPhases = {} /\ ~Evidence(c)'
      BY <2>1, <3>1 DEF RecoveryPhases, Evidence
    <3> QED
      BY <2>1, <3>1, <3>2 DEF NothingApplied, PhasesSoFar, RecoverySoFar,
         OutcomeIsTrue, Owner, Recovering
  <2>3. CASE status \in {"success", "skipped"} /\ Halted(c)
    <3>1. /\ pc'[c] = "returned"
          /\ out'[c].status = halt[c]
          /\ out'[c].execution = execution'[c]
      BY <1>4, <2>3 DEF ExecuteDone, HaltAfterApply, Return, Finish, Result
    <3>2. halt[c] \in {"cancelled", "timed-out"} /\ execution'[c] # "none"
      BY <2>1, <2>3 DEF Halted, Halts
    <3> QED
      BY <3>1, <3>2 DEF NothingApplied, PhasesSoFar, RecoverySoFar,
         OutcomeIsTrue, Owner, Recovering
  <2>4. CASE status \in {"success", "skipped"} /\ ~Halted(c)
    <3>1. /\ pc'[c] = "verify"
          /\ phases'[c] = {"prepare", "snapshot", "validate", "policy",
                           "security", "safety"} \cup {"apply"}
      BY <1>4, <2>1, <2>4 DEF ExecuteDone, Await
    <3> QED
      BY <2>1, <3>1 DEF NothingApplied, PhasesSoFar, RecoverySoFar,
         OutcomeIsTrue, Owner, Recovering
  <2> QED  BY <1>4, <2>2, <2>3, <2>4 DEF ExecuteDone
<1>5. ASSUME NEW verified \in BOOLEAN, VerifyDone(c, verified)
      PROVE  RunIsTrue(c)'
  <2>1. CASE verified
    <3>1. /\ pc'[c] = "returned" /\ out'[c].status = "committed"
          /\ phases'[c] = {"prepare", "snapshot", "validate", "policy",
               "security", "safety", "apply"} \cup {"verify", "commit"}
      BY <1>5, <2>1 DEF VerifyDone, Return, Finish, Result, PhasesSoFar
    <3>2. phases'[c] = TransactionPhases
      BY <3>1 DEF TransactionPhases
    <3> QED
      BY <3>1, <3>2 DEF NothingApplied, PhasesSoFar, RecoverySoFar,
         OutcomeIsTrue, Owner, Recovering
  <2>2. CASE ~verified
    <3>1. /\ pc'[c] = "rollback" /\ phases'[c] = phases[c] /\ effect' = effect
          /\ phases[c] = {"prepare", "snapshot", "validate", "policy",
                           "security", "safety", "apply"}
          /\ effect[c] # "superseded"
      BY <1>5, <2>2 DEF VerifyDone, Fail, PhasesSoFar, NothingApplied
    <3>2. /\ phases'[c] \cap RecoveryPhases = {} /\ ~Evidence(c)'
      BY <3>1 DEF RecoveryPhases, Evidence
    <3> QED
      BY <3>1, <3>2 DEF NothingApplied, PhasesSoFar, RecoverySoFar,
         OutcomeIsTrue, Owner, Recovering
  <2> QED  BY <2>1, <2>2
<1>6. ASSUME NEW undone \in BOOLEAN, CompensateDone(c, undone)
      PROVE  RunIsTrue(c)'
  <2>1. /\ pc[c] = "rollback" /\ pc'[c] = "verifyRollback"
        /\ compensated'[c] = (CheckpointRollback \/ undone)
        /\ effect'[c] = IF undone THEN "none" ELSE effect[c]
        /\ phases'[c] = phases[c] \cup
              (IF CheckpointRollback \/ undone THEN {"rollback"} ELSE {})
    BY <1>6 DEF CompensateDone, Await
  <2>2. phases[c] \cap RecoveryPhases = {} /\ effect[c] # "superseded"
    BY <2>1 DEF RecoverySoFar, NothingApplied
  <2>3. /\ "rollback" \in phases'[c] <=> compensated'[c]
        /\ "verifyRollback" \notin phases'[c] /\ "recover" \notin phases'[c]
    BY <2>1, <2>2 DEF RecoveryPhases
  <2>4. Evidence(c)' => effect'[c] = "none"
    BY <2>1, <2>3 DEF Evidence
  <2>5. NothingApplied(c)'
    BY <2>1, <2>2 DEF NothingApplied
  <2>6. RecoverySoFar(c)'
    BY <2>1, <2>3, <2>4 DEF RecoverySoFar
  <2> QED
    BY <2>1, <2>5, <2>6 DEF PhasesSoFar, OutcomeIsTrue, Owner, Recovering
<1>7. ASSUME NEW verified \in BOOLEAN, VerifyRollbackDone(c, verified)
      PROVE  RunIsTrue(c)'
  <2>1. /\ effect' = effect /\ pc[c] = "verifyRollback" /\ req' = req
        /\ verified /\ req[c].action \in Proven => effect[c] = "none"
        /\ phases'[c] = phases[c] \cup (IF verified THEN {"verifyRollback"} ELSE {})
        /\ IF compensated[c] /\ verified
             THEN pc'[c] = "returned" /\ out'[c].status = "recovered"
             ELSE pc'[c] = "recover"
    BY <1>7 DEF VerifyRollbackDone, Finish, Await, Result, registry
  <2>2. /\ "rollback" \in phases[c] <=> compensated[c]
        /\ "verifyRollback" \notin phases[c] /\ "recover" \notin phases[c]
        /\ Evidence(c) => effect[c] = "none"
        /\ effect[c] # "superseded"
    BY <2>1 DEF RecoverySoFar, NothingApplied, Recovering
  <2>3. /\ "verifyRollback" \in phases'[c] <=> verified
        /\ "rollback" \in phases'[c] <=> compensated[c]
        /\ "recover" \notin phases'[c]
    BY <2>1, <2>2
  <2>4. Evidence(c)' => effect'[c] = "none"
    BY <2>1, <2>2, <2>3 DEF Evidence
  <2>5. NothingApplied(c)'
    BY <2>1, <2>2 DEF NothingApplied
  <2>6. RecoverySoFar(c)'
    BY <2>1, <2>3, <2>4 DEF RecoverySoFar, Recovering
  <2>7. OutcomeIsTrue(c)'
    BY <2>1, <2>3, <2>4 DEF OutcomeIsTrue, Owner, Recovering
  <2> QED  BY <2>1, <2>5, <2>6, <2>7 DEF PhasesSoFar
<1>8. ASSUME NEW recovered \in BOOLEAN, NEW how \in Effects,
             RecoverDone(c, recovered, how)
      PROVE  RunIsTrue(c)'
  <2>1. /\ pc[c] = "recover" /\ pc'[c] = "returned" /\ req' = req
        /\ out'[c].status = (IF recovered THEN "recovered" ELSE "failed")
        /\ req[c].action \notin Delegated => how = "none"
        /\ effect'[c] = IF ~recovered \/ effect[c] = "none" THEN effect[c] ELSE how
        /\ phases'[c] = phases[c] \cup (IF recovered THEN {"recover"} ELSE {})
    BY <1>8 DEF RecoverDone, Finish, Result, registry
  <2>2. /\ "recover" \notin phases[c]
        /\ ~({"rollback", "verifyRollback"} \subseteq phases[c])
        /\ Evidence(c) => effect[c] = "none"
    BY <2>1 DEF RecoverySoFar, Recovering
  <2>3. /\ "recover" \in phases'[c] <=> recovered
        /\ "rollback" \in phases'[c] <=> "rollback" \in phases[c]
        /\ "verifyRollback" \in phases'[c] <=> "verifyRollback" \in phases[c]
    BY <2>1, <2>2
  <2>4. recovered /\ Evidence(c)' => effect'[c] = "none"
    BY <2>1, <2>2, <2>3 DEF Evidence
  <2>5. OutcomeIsTrue(c)'
    BY <2>1, <2>2, <2>3, <2>4 DEF OutcomeIsTrue, Owner, Recovering
  <2> QED
    BY <2>1, <2>5 DEF NothingApplied, PhasesSoFar, RecoverySoFar, Recovering
<1>9. ASSUME NEW eff \in {"none", "applied"}, PortThrows(c, eff)
      PROVE  RunIsTrue(c)'
  <2>1. pc'[c] = "returned" /\ out'[c].status = "threw"
    BY <1>9 DEF PortThrows, Finish, Result
  <2> QED
    BY <2>1 DEF NothingApplied, PhasesSoFar, RecoverySoFar,
       OutcomeIsTrue, Owner, Recovering
<1> QED
  BY <1>1, <1>2, <1>3, <1>4, <1>5, <1>6, <1>7, <1>8, <1>9 DEF PortAnswers

LEMMA TruthStep ==
    ASSUME TypeOK, JoinerWaits, TruthInv, [Next]_vars
    PROVE  TruthInv'
<1> SUFFICES ASSUME NEW d \in Callers
             PROVE  RunIsTrue(d)'
  BY DEF TruthInv
<1>0. RunIsTrue(d)
  BY DEF TruthInv
<1>1. ASSUME NEW c \in Callers, NEW q \in Request,
             MutateBound(c, q) \/ MutateJoin(c, q)
      PROVE  RunIsTrue(d)'
  <2>1. CASE d = c
    <3>1. /\ pc[c] \in {"idle", "replied"} /\ pc'[c] \in {"replied", "joined"}
          /\ effect'[c] = effect[c]
      BY <1>1 DEF MutateBound, MutateJoin, Issue, Free, TypeOK
    <3>2. pc'[d] \in {"replied", "joined"} /\ effect'[d] = "none"
      BY <1>0, <2>1, <3>1 DEF RunIsTrue, NothingApplied
    <3>3. NothingApplied(d)' /\ PhasesSoFar(d)'
      BY <3>2 DEF NothingApplied, PhasesSoFar
    <3>4. RecoverySoFar(d)' /\ OutcomeIsTrue(d)'
      BY <3>2 DEF RecoverySoFar, OutcomeIsTrue, Owner, Recovering
    <3> QED  BY <3>3, <3>4 DEF RunIsTrue
  <2>2. CASE d # c
    <3>1. RunUnchanged(d)
      BY <1>1, <2>2 DEF MutateBound, MutateJoin, Issue, RunUnchanged, TypeOK
    <3> QED  BY <1>0, <3>1, TruthFrame
  <2> QED  BY <2>1, <2>2
<1>2. ASSUME NEW c \in Callers, NEW q \in Request,
             NEW h \in {"no", "cancelled"}, MutateStart(c, q, h)
      PROVE  RunIsTrue(d)'
  <2>1. CASE d = c
    <3>1. /\ pc[c] \in {"idle", "replied"}
          /\ effect'[c] = effect[c]
          /\ \/ pc'[c] = "snapshot" /\ phases'[c] = {"prepare"}
             \/ pc'[c] = "returned" /\ out'[c].status \in {"cancelled", "blocked"}
      BY <1>2 DEF MutateStart, Prepare, Issue, Free, Result, TypeOK
    <3>2. effect'[c] = "none"
      BY <1>0, <2>1, <3>1 DEF RunIsTrue, NothingApplied
    <3>3. NothingApplied(d)' /\ PhasesSoFar(d)'
      BY <2>1, <3>1, <3>2 DEF NothingApplied, PhasesSoFar
    <3>4. RecoverySoFar(d)' /\ OutcomeIsTrue(d)'
      BY <2>1, <3>1, <3>2 DEF RecoverySoFar, OutcomeIsTrue, Owner, Recovering
    <3> QED  BY <3>3, <3>4 DEF RunIsTrue
  <2>2. CASE d # c
    <3>1. RunUnchanged(d)
      BY <1>2, <2>2 DEF MutateStart, Prepare, Issue, RunUnchanged, TypeOK
    <3> QED  BY <1>0, <3>1, TruthFrame
  <2> QED  BY <2>1, <2>2
<1>3. ASSUME NEW c \in Callers, PortAnswers(c)
      PROVE  RunIsTrue(d)'
  <2>1. CASE d = c
    BY <1>0, <1>3, <2>1, TruthAnswer
  <2>2. CASE d # c
    <3>1. /\ pc'[d] = pc[d] /\ out'[d] = out[d]
      BY <1>3, <2>2, PortAnswersShape DEF RunStep, TypeOK
    <3>2. /\ phases'[d] = phases[d] /\ execution'[d] = execution[d]
          /\ compensated'[d] = compensated[d] /\ effect'[d] = effect[d]
          /\ req'[d] = req[d]
      BY <1>3, <2>2 DEF registry, PortAnswers, SnapshotDone, PolicyDone, SafetyDone,
         ExecuteDone, VerifyDone, CompensateDone, VerifyRollbackDone, RecoverDone,
         PortThrows, HaltAfterApply, Return, Finish, Fail, Await, TypeOK
    <3> QED  BY <1>0, <3>1, <3>2, TruthFrame DEF RunUnchanged
  <2> QED  BY <2>1, <2>2
<1>4. ASSUME NEW c \in Callers, Settle(c)
      PROVE  RunIsTrue(d)'
  <2>1. /\ out'[d] = out[d] /\ phases'[d] = phases[d] /\ effect'[d] = effect[d]
        /\ req'[d] = req[d]
        /\ \/ pc'[d] = pc[d] /\ compensated'[d] = compensated[d]
           \/ pc[d] = "returned" /\ pc'[d] = "settled"
    BY <1>4 DEF Settle, TypeOK
  <2> QED
    BY <1>0, <2>1 DEF RunIsTrue, NothingApplied, PhasesSoFar,
       RecoverySoFar, OutcomeIsTrue, Owner, Recovering, Evidence
<1>5. ASSUME NEW c \in Callers, Publish(c)
      PROVE  RunIsTrue(d)'
  <2>1. CASE d \in Answered(c)
    <3>1. pc'[d] = "replied"
      BY <1>5, <2>1 DEF Publish
    <3>2. effect'[d] = "none"
      <4>1. CASE d = c
        BY <1>5, <4>1 DEF Publish, TypeOK
      <4>2. CASE d # c
        <5>1. pc[d] = "joined" /\ effect'[d] = effect[d]
          BY <1>5, <2>1, <4>2, SetsAssumption DEF Answered, JoinerWaits,
             Publish, TypeOK
        <5> QED  BY <1>0, <5>1 DEF RunIsTrue, NothingApplied
      <4> QED  BY <4>1, <4>2
    <3> QED
      BY <3>1, <3>2 DEF RunIsTrue, NothingApplied, PhasesSoFar,
         RecoverySoFar, OutcomeIsTrue, Owner, Recovering
  <2>2. CASE d \notin Answered(c)
    <3>1. RunUnchanged(d)
      BY <1>5, <2>2 DEF Publish, Answered, RunUnchanged, TypeOK
    <3> QED  BY <1>0, <3>1, TruthFrame
  <2> QED  BY <2>1, <2>2
<1>6. ASSUME \/ AdvanceEpoch
             \/ \E c \in Callers, h \in Halts : Interrupt(c, h)
             \/ UNCHANGED vars
      PROVE  RunIsTrue(d)'
  <2>1. RunUnchanged(d)
    BY <1>6 DEF AdvanceEpoch, Interrupt, registry, vars, RunUnchanged
  <2> QED  BY <1>0, <2>1, TruthFrame
<1> QED
  BY <1>1, <1>2, <1>3, <1>4, <1>5, <1>6, NextCases, StepCases

LEMMA TruthInductive == Spec => []TruthInv
<1>1. Init => TruthInv
  BY DEF Init, TruthInv, RunIsTrue, NothingApplied, PhasesSoFar,
     RecoverySoFar, OutcomeIsTrue, Owner
<1>2. TypeOK /\ JoinerWaits /\ TruthInv /\ [Next]_vars => TruthInv'
  BY TruthStep
<1> QED  BY <1>1, <1>2, TypeInductive, PTL DEF Spec

\* A run reports a commit only after all nine phases, whatever halts and
\* failures it met on the way.
THEOREM VerifiedCommit == Spec => []CommitIsVerified
<1>1. TruthInv => CommitIsVerified
  BY DEF TruthInv, RunIsTrue, OutcomeIsTrue, CommitIsVerified
<1> QED  BY <1>1, TruthInductive, PTL

\* "recovered" follows a verified rollback or a recovery that succeeded, and is
\* true as soon as one phase that passed is evidence of the undo, whatever halts,
\* rejections and failures came between.
THEOREM TruthfulRecovery == Spec => []RecoveredIsClean
<1>1. TruthInv => RecoveredIsClean
  BY DEF TruthInv, RunIsTrue, OutcomeIsTrue, RecoveredIsClean
<1> QED  BY <1>1, TruthInductive, PTL

\* A mutation that is still in force when its run ends is never reported as a
\* denial, as recovered only without evidence, and with its execution when halted.
THEOREM ReportedResidue == Spec => []ResidueIsReported
<1>1. TruthInv => ResidueIsReported
  BY DEF TruthInv, RunIsTrue, OutcomeIsTrue, ResidueIsReported
<1> QED  BY <1>1, TruthInductive, PTL

-----------------------------------------------------------------------------
(* The boundary implements MutationService. *)

LEMMA StageValues ==
    /\ \A p \in Holding : StageOf(p) = "working"
    /\ \A p \in Recovering : StageOf(p) = "undoing"
    /\ \A p \in {"returned", "settled"} : StageOf(p) = "decided"
    /\ \A p \in {"idle", "joined", "replied"} : StageOf(p) = "outside"
BY DEF StageOf, Holding, Recovering

\* What the service sees of a call besides its effect.
Verdict(c) == IF Owner(c) THEN VerdictOf(out[c], Evidence(c)) ELSE "none"

Unseen(c) == StageOf(pc'[c]) = StageOf(pc[c]) /\ Verdict(c)' = Verdict(c)

LEMMA VerdictValues ==
    ASSUME NEW o \in Outcome, NEW shown
    PROVE  VerdictOf(o, shown) \in Service!Verdicts
BY DEF VerdictOf, Outcome, Statuses, Service!Verdicts

\* A step that one call is seen to take.
LEMMA SeenMove ==
    ASSUME TypeOK, NEW c \in Callers, NEW to, NEW f, NEW v,
           StageOf(pc'[c]) = to, Verdict(c)' = v, effect' = [effect EXCEPT ![c] = f],
           \A d \in Callers \ {c} : Unseen(d)
    PROVE  Service!Move(c, to, f, v)
<1>1. [d \in Callers |-> StageOf(pc'[d])] =
         [[d \in Callers |-> StageOf(pc[d])] EXCEPT ![c] = to]
  BY DEF Unseen
<1>2. [d \in Callers |-> Verdict(d)'] = [[d \in Callers |-> Verdict(d)] EXCEPT ![c] = v]
  BY DEF Unseen
<1> QED  BY <1>1, <1>2 DEF Service!Move, Verdict

\* A step that nobody sees.
LEMMA UnseenStep ==
    ASSUME effect' = effect, held' = held, \A d \in Callers : Unseen(d)
    PROVE  UNCHANGED Service!vars
BY DEF Unseen, Service!vars, Verdict

\* The run that consumes an answer is the only one that changes.
LEMMA OthersUnseen ==
    ASSUME TypeOK, NEW c \in Callers, PortAnswers(c)
    PROVE  /\ \A d \in Callers \ {c} : Unseen(d)
           /\ effect' = [effect EXCEPT ![c] = effect'[c]]
<1>1. /\ \A d \in Callers \ {c} : pc'[d] = pc[d] /\ out'[d] = out[d]
      /\ req' = req
  <2>1. req' = req
    BY DEF PortAnswers, SnapshotDone, PolicyDone, SafetyDone, ExecuteDone,
       VerifyDone, CompensateDone, VerifyRollbackDone, RecoverDone, PortThrows,
       registry
  <2> QED  BY <2>1, PortAnswersShape DEF RunStep, TypeOK
<1>2. /\ effect' \in [Callers -> Effects]
      /\ \A d \in Callers \ {c} : effect'[d] = effect[d]
  BY PortAnswersShape DEF PortAnswers, SnapshotDone, PolicyDone, SafetyDone,
     ExecuteDone, VerifyDone, CompensateDone, VerifyRollbackDone, RecoverDone,
     PortThrows, RunData, TypeOK
<1>3. effect \in [Callers -> Effects]
  BY DEF TypeOK
<1>4. \A d \in Callers \ {c} : phases'[d] = phases[d]
  BY DEF PortAnswers, SnapshotDone, PolicyDone, SafetyDone, ExecuteDone,
     VerifyDone, CompensateDone, VerifyRollbackDone, RecoverDone, PortThrows,
     HaltAfterApply, Return, Finish, Fail, Await, TypeOK
<1>5. \A d \in Callers \ {c} : Unseen(d)
  BY <1>1, <1>4 DEF Unseen, Verdict, Owner, Evidence
<1> QED  BY <1>2, <1>3, <1>5

\* The failure path takes the mutation back or leaves it, and only a recovery
\* that replaces it puts something else in its place.
LEMMA UndoNeverApplies ==
    ASSUME NEW c \in Callers, TypeOK, NothingApplied(c), PortAnswers(c),
           pc[c] \in Recovering
    PROVE  /\ pc'[c] \in Recovering => effect'[c] \in {effect[c], "none"}
           /\ effect'[c] = "applied" => effect[c] = "applied"
<1>1. \/ \E undone \in BOOLEAN : CompensateDone(c, undone)
      \/ \E verified \in BOOLEAN : VerifyRollbackDone(c, verified)
      \/ \E recovered \in BOOLEAN, how \in Effects : RecoverDone(c, recovered, how)
      \/ \E eff \in {"none", "applied"} : PortThrows(c, eff)
  BY DEF PortAnswers, Recovering, SnapshotDone, PolicyDone, SafetyDone, ExecuteDone,
     VerifyDone
<1>2. ASSUME NEW undone \in BOOLEAN, CompensateDone(c, undone)
      PROVE  effect'[c] \in {effect[c], "none"}
  BY <1>2 DEF CompensateDone, TypeOK
<1>3. ASSUME NEW verified \in BOOLEAN, VerifyRollbackDone(c, verified)
      PROVE  effect'[c] = effect[c]
  BY <1>3 DEF VerifyRollbackDone
<1>4. ASSUME NEW recovered \in BOOLEAN, NEW how \in Effects, RecoverDone(c, recovered, how)
      PROVE  pc'[c] = "returned" /\ (effect'[c] = "applied" => effect[c] = "applied")
  BY <1>4 DEF RecoverDone, Finish, NothingApplied, Effects, TypeOK
<1>5. ASSUME NEW eff \in {"none", "applied"}, PortThrows(c, eff)
      PROVE  effect'[c] = effect[c]
  BY <1>5 DEF PortThrows, Recovering, TypeOK
<1> QED  BY <1>1, <1>2, <1>3, <1>4, <1>5 DEF Recovering

\* An owner's verdict says whether its mutation is in force.
LEMMA TruthfulVerdict ==
    ASSUME NEW c \in Callers, Owner(c), OutcomeIsTrue(c)
    PROVE  Service!Truthful(VerdictOf(out[c], Evidence(c)), effect[c])
BY DEF OutcomeIsTrue, Service!Truthful, VerdictOf

LEMMA AnswerIsServed ==
    ASSUME TypeOK, TypeOK', HeldInv, TruthInv, TruthInv', NEW c \in Callers,
           PortAnswers(c)
    PROVE  Service!Next
<1>1. PICK p \in Registered :
         /\ pc[c] \in Holding \cup Recovering
         /\ pc' = [pc EXCEPT ![c] = p]
         /\ p \in Holding => pc[c] \in Holding
         /\ held' = IF pc[c] \in Holding /\ p \notin Holding
                      THEN [held EXCEPT ![req[c].resource] = None] ELSE held
  BY PortAnswersShape DEF RunStep
<1>2. /\ \A d \in Callers \ {c} : Unseen(d)
      /\ effect' = [effect EXCEPT ![c] = effect'[c]]
      /\ pc'[c] = p /\ effect'[c] \in Service!Forces
  BY <1>1, OthersUnseen DEF TypeOK, Effects, Service!Forces
<1>3. /\ p \in Holding \cup Recovering => Verdict(c)' = "none"
      /\ p = "returned" => /\ Verdict(c)' = VerdictOf(out[c], Evidence(c))'
                           /\ VerdictOf(out[c], Evidence(c))' \in Service!Verdicts
                           /\ Service!Truthful(VerdictOf(out[c], Evidence(c)), effect[c])'
  <2>1. p \in Holding \cup Recovering => Verdict(c)' = "none"
    BY <1>2 DEF Verdict, Owner, Holding, Recovering
  <2>2. ASSUME p = "returned"
        PROVE  /\ Owner(c)' /\ out'[c] \in Outcome /\ OutcomeIsTrue(c)'
    BY <1>2, <2>2 DEF Owner, TypeOK, TruthInv, RunIsTrue
  <2>3. ASSUME p = "returned"
        PROVE  Service!Truthful(VerdictOf(out[c], Evidence(c)), effect[c])'
    BY <2>2, <2>3 DEF OutcomeIsTrue, Service!Truthful, VerdictOf
  <2> QED  BY <2>1, <2>2, <2>3, VerdictValues DEF Verdict
<1>4. CASE pc[c] \in Holding /\ p \in Holding
  <2>1. Service!Move(c, "working", effect'[c], "none")
    BY <1>2, <1>3, <1>4, SeenMove, StageValues
  <2>2. Service!Work(c)
    BY <1>1, <1>2, <1>4, <2>1, StageValues DEF Service!Work
  <2> QED  BY <2>2 DEF Service!Next
<1>5. CASE pc[c] \in Holding /\ p \notin Holding
  <2>1. Service!Releases(c)
    <3>1. req[c].resource \in Resources /\ held[req[c].resource] = c
      BY <1>5 DEF HeldInv, HolderIsRecorded, TypeOK, Holding, Request
    <3> QED  BY <1>1, <1>5, <3>1 DEF Service!Releases
  <2>2. CASE p \in Recovering
    <3>1. Service!Move(c, "undoing", effect'[c], "none")
      BY <1>2, <1>3, <2>2, SeenMove, StageValues
    <3>2. Service!BackOut(c)
      BY <1>2, <1>5, <2>1, <3>1, StageValues DEF Service!BackOut
    <3> QED  BY <3>2 DEF Service!Next
  <2>3. CASE p = "returned"
    <3>1. Service!Move(c, "decided", effect'[c], VerdictOf(out[c], Evidence(c))')
      BY <1>2, <1>3, <2>3, SeenMove, StageValues
    <3>2. Service!Conclude(c)
      BY <1>2, <1>3, <1>5, <2>1, <2>3, <3>1, StageValues DEF Service!Conclude
    <3> QED  BY <3>2 DEF Service!Next
  <2> QED  BY <1>5, <2>2, <2>3 DEF Registered
<1>6. CASE pc[c] \in Recovering
  <2>1. /\ held' = held /\ p \notin Holding
        /\ pc'[c] \in Recovering => effect'[c] \in {effect[c], "none"}
        /\ effect'[c] = "applied" => effect[c] = "applied"
    <3>1. NothingApplied(c)
      BY DEF TruthInv, RunIsTrue
    <3> QED  BY <1>1, <1>6, <3>1, UndoNeverApplies DEF Holding, Recovering
  <2>2. CASE p \in Recovering
    <3>1. Service!Move(c, "undoing", effect'[c], "none")
      BY <1>2, <1>3, <2>2, SeenMove, StageValues
    <3>2. Service!Undo(c)
      BY <1>2, <1>6, <2>1, <2>2, <3>1, StageValues DEF Service!Undo
    <3> QED  BY <3>2 DEF Service!Next
  <2>3. CASE p = "returned"
    <3>1. Service!Move(c, "decided", effect'[c], VerdictOf(out[c], Evidence(c))')
      BY <1>2, <1>3, <2>3, SeenMove, StageValues
    <3>2. Service!Give(c)
      BY <1>2, <1>3, <1>6, <2>1, <2>3, <3>1, StageValues DEF Service!Give
    <3> QED  BY <3>2 DEF Service!Next
  <2> QED  BY <2>1, <2>2, <2>3 DEF Registered
<1> QED  BY <1>1, <1>4, <1>5, <1>6

LEMMA StartIsServed ==
    ASSUME TypeOK, HeldInv, TruthInv, NEW c \in Callers, NEW q \in Request,
           NEW h \in {"no", "cancelled"}, MutateStart(c, q, h)
    PROVE  Service!Next
<1>1. /\ pc[c] \in {"idle", "joined", "replied"} /\ pc[c] \notin Holding
      /\ q.resource \in Resources /\ effect' = effect
  BY DEF MutateStart, Issue, Free, Holding, Request
<1>2. /\ effect[c] = "none" /\ effect' = [effect EXCEPT ![c] = "none"]
  BY <1>1 DEF TruthInv, RunIsTrue, NothingApplied, TypeOK
<1>3. \A d \in Callers \ {c} : Unseen(d)
  <2>1. \A d \in Callers \ {c} : /\ pc'[d] = pc[d] /\ out'[d] = out[d]
                                /\ phases'[d] = phases[d] /\ req'[d] = req[d]
    BY DEF MutateStart, Prepare, Issue, TypeOK
  <2> QED  BY <2>1 DEF Unseen, Verdict, Owner, Evidence
<1>4. CASE h = "no" /\ ~Stale(q) /\ ~Concurrent(c, q)
  <2>1. /\ pc'[c] = "snapshot" /\ held' = [held EXCEPT ![q.resource] = c]
    BY <1>4 DEF MutateStart, Prepare, TypeOK
  <2>2. held[q.resource] = None
    BY <1>1, <1>4, SetsAssumption DEF HeldInv, HeldIsLive, Concurrent
  <2>3. StageOf(pc'[c]) = "working" /\ Verdict(c)' = "none"
    BY <2>1, StageValues DEF Holding, Verdict, Owner
  <2>4. Service!Move(c, "working", "none", "none")
    BY <1>2, <1>3, <2>3, SeenMove
  <2>5. Service!Admit(c)
    BY <1>1, <2>1, <2>2, <2>4, StageValues DEF Service!Admit
  <2> QED  BY <2>5 DEF Service!Next
<1>5. CASE ~(h = "no" /\ ~Stale(q) /\ ~Concurrent(c, q))
  <2> DEFINE o == Result(q, IF h # "no" THEN h ELSE "blocked", "none")
  <2>1. pc'[c] = "returned" /\ out'[c] = o /\ held' = held
    BY <1>5 DEF MutateStart, Prepare, TypeOK
  <2>2. o \in Outcome
    BY DEF Result, Outcome, Request, Statuses, Executions
  <2> HIDE DEF o
  <2>3. StageOf(pc'[c]) = "decided" /\ Verdict(c)' = VerdictOf(o, Evidence(c)')
    BY <2>1, StageValues DEF Verdict, Owner
  <2>4. Service!Move(c, "decided", "none", VerdictOf(o, Evidence(c)'))
    BY <1>2, <1>3, <2>3, SeenMove
  <2>5. Service!Refuse(c)
    BY <1>1, <2>1, <2>2, <2>4, VerdictValues, StageValues DEF Service!Refuse
  <2> QED  BY <2>5 DEF Service!Next
<1> QED  BY <1>4, <1>5

\* Publication closes the call of the owner; the callers that joined it are
\* outside before and after.
LEMMA PublishIsServed ==
    ASSUME TypeOK, JoinerWaits, NEW c \in Callers, Publish(c)
    PROVE  Service!Next
<1>1. /\ pc[c] = "settled" /\ held' = held
      /\ effect' = [effect EXCEPT ![c] = "none"]
      /\ \A w \in Callers : pc'[w] = IF w \in Answered(c) THEN "replied" ELSE pc[w]
      /\ \A w \in Callers : out'[w] = IF w \in Answered(c) THEN out[c] ELSE out[w]
      /\ req' = req /\ \A w \in Callers \ {c} : phases'[w] = phases[w]
  BY DEF Publish, TypeOK
<1>2. ASSUME NEW d \in Callers \ {c}
      PROVE  Unseen(d)
  <2>1. CASE d \in Answered(c)
    <3>1. pc[d] = "joined" /\ pc'[d] = "replied"
      BY <1>1, <2>1, SetsAssumption DEF Answered, JoinerWaits
    <3> QED  BY <3>1, StageValues DEF Unseen, Verdict, Owner
  <2>2. CASE d \notin Answered(c)
    BY <1>1, <2>2 DEF Unseen, Verdict, Owner, Evidence
  <2> QED  BY <2>1, <2>2
<1>3. pc'[c] = "replied"
  BY <1>1 DEF Answered
<1>4. StageOf(pc'[c]) = "outside" /\ Verdict(c)' = "none"
  BY <1>3, StageValues DEF Verdict, Owner
<1>5. Service!Move(c, "outside", "none", "none")
  BY <1>1, <1>2, <1>4, SeenMove
<1>6. Service!Close(c)
  BY <1>1, <1>5, StageValues DEF Service!Close
<1> QED  BY <1>6 DEF Service!Next

\* Replays, joins, settling, epochs and interruptions stutter.
LEMMA RestIsUnseen ==
    ASSUME TypeOK,
           \/ \E c \in Callers, q \in Request : MutateBound(c, q) \/ MutateJoin(c, q)
           \/ \E c \in Callers : Settle(c)
           \/ AdvanceEpoch \/ \E c \in Callers, h \in Halts : Interrupt(c, h)
           \/ UNCHANGED vars
    PROVE  UNCHANGED Service!vars
<1>1. ASSUME NEW c \in Callers, NEW q \in Request, MutateBound(c, q) \/ MutateJoin(c, q)
      PROVE  UNCHANGED Service!vars
  <2>1. /\ effect' = effect /\ held' = held
        /\ pc[c] \in {"idle", "joined", "replied"}
        /\ pc'[c] \in {"idle", "joined", "replied"}
        /\ \A d \in Callers \ {c} : pc'[d] = pc[d] /\ out'[d] = out[d]
        /\ phases' = phases /\ \A d \in Callers \ {c} : req'[d] = req[d]
    BY <1>1 DEF MutateBound, MutateJoin, Issue, Free, TypeOK
  <2>2. \A d \in Callers : Unseen(d)
    BY <2>1, StageValues DEF Unseen, Verdict, Owner, Evidence
  <2> QED  BY <2>1, <2>2, UnseenStep
<1>2. ASSUME NEW c \in Callers, Settle(c)
      PROVE  UNCHANGED Service!vars
  <2>1. /\ effect' = effect /\ held' = held /\ out' = out
        /\ pc[c] = "returned" /\ pc'[c] = "settled"
        /\ phases' = phases /\ req' = req
        /\ \A d \in Callers \ {c} : pc'[d] = pc[d]
    BY <1>2 DEF Settle, TypeOK
  <2>2. \A d \in Callers : Unseen(d)
    BY <2>1, StageValues DEF Unseen, Verdict, Owner, Evidence
  <2> QED  BY <2>1, <2>2, UnseenStep
<1>3. ASSUME \/ AdvanceEpoch \/ \E c \in Callers, h \in Halts : Interrupt(c, h)
             \/ UNCHANGED vars
      PROVE  UNCHANGED Service!vars
  <2>1. /\ effect' = effect /\ held' = held /\ pc' = pc /\ out' = out
        /\ phases' = phases /\ req' = req
    BY <1>3 DEF AdvanceEpoch, Interrupt, vars, registry
  <2> QED  BY <2>1, UnseenStep DEF Unseen, Verdict, Owner, Evidence
<1> QED  BY <1>1, <1>2, <1>3

LEMMA StepIsServed ==
    ASSUME TypeOK, TypeOK', JoinerWaits, HeldInv, TruthInv, TruthInv', [Next]_vars
    PROVE  [Service!Next]_(Service!vars)
BY AnswerIsServed, StartIsServed, PublishIsServed, RestIsUnseen, NextCases, StepCases

\* The boundary implements the service, for every number of callers, keys and
\* resources: a mutation takes effect only while its call owns the resource, no
\* undo puts it back, and the verdict tells whether it is in force, or that its
\* recovery is only claimed.
THEOREM BoundaryIsService == Spec => ImplementsService
<1>1. Init => Service!Init
  BY StageValues DEF Init, Service!Init, Owner
<1>2. /\ TypeOK /\ JoinerWaits /\ HeldInv /\ TruthInv
      /\ (TypeOK /\ JoinerWaits /\ HeldInv /\ TruthInv)' /\ [Next]_vars
      => [Service!Next]_(Service!vars)
  BY StepIsServed
<1>3. Spec => Service!Spec
  BY <1>1, <1>2, TypeInductive, HeldInductive, TruthInductive, PTL DEF Spec, Service!Spec
<1> QED  BY <1>3 DEF ImplementsService

-----------------------------------------------------------------------------
(* The runtime's cycle: the inductive invariant. *)

\* A denial never carries an execution.
DenialInv ==
    \A c \in Callers :
       Owner(c) /\ out[c].status = "blocked" => out[c].execution = "none"

BoundaryInv == TypeOK /\ JoinerWaits /\ HeldInv /\ CacheIsBounded /\ DenialInv

\* The mutation of c's cycle is bound to a commit.
Backed(c) ==
    /\ IsBound(MutationKey(c))
    /\ EntryOf(MutationKey(c)).outcome.status = "committed"

\* An invocation that is under way is the active one, and its mutation is in
\* progress only while it awaits the boundary.
CycleSound(c) ==
    /\ at[c] # "none" =>
          active = c /\ cyc[c] \in CycleInput /\ cyc[c].epoch <= epoch
    /\ at[c] \in {"validating", "mutating", "verifying", "recovering", "recording"} =>
          plan[c] \in Plan
    /\ Busy(c) => at[c] = "mutating"
    /\ at[c] = "mutating" => req[c].key = MutationKey(c)

\* Its answer, as far as it is believed, is backed by a commit.
AnswerBacked(c) ==
    /\ at[c] = "mutating" /\ pc[c] = "replied" /\ out[c].status = "committed"
          /\ out[c].execution = "success" => Backed(c)
    /\ at[c] = "verifying" /\ out[c].execution = "success" => Backed(c)
    /\ at[c] = "recording" /\ outcome[c] = "success" => Backed(c)

\* The validator's lock is that of the cycle that is past its validation.
LockInv ==
    locks # {} =>
       \E c \in Callers :
          /\ at[c] \in {"mutating", "verifying", "recovering", "recording", "failing"}
          /\ plan[c] \in Plan /\ locks = {plan[c].resource}

\* A cycle is counted once under each heading.
CountInv ==
    /\ counters.decisions <= counters.cycles
    /\ counters.blocked <= counters.cycles
    /\ counters.failed <= counters.cycles
    /\ \A c \in Callers : at[c] # "none" =>
          /\ counters.decisions < counters.cycles
          /\ counters.failed < counters.cycles
          /\ at[c] # "failing" => counters.blocked < counters.cycles

\* An execution that was not committed is bound to a key: it would be replayed
\* as a commit.
Misleading ==
    \E i \in DOMAIN completed :
       /\ completed[i].outcome.execution = "success"
       /\ completed[i].outcome.status # "committed"

\* The states from which no cycle can begin to observe.
DeadEnds == {"observing", "failed", "stopped"}

\* From then on no cycle gets as far as the boundary.
DeadEndInv ==
    Misleading =>
       /\ (\A c \in Callers : at[c] = "none") => state \in DeadEnds
       /\ \A c \in Callers :
             /\ at[c] \in {"none", "starting", "mutating", "recording", "failing"}
             /\ at[c] \in {"starting", "recording"} => state \in DeadEnds
             /\ at[c] = "mutating" =>
                   /\ pc[c] = "replied"
                   /\ out[c].status \in {"recovered", "failed", "timed-out", "cancelled"}

RuntimeInv ==
    /\ BoundaryInv /\ RuntimeTypeOK
    /\ \A c \in Callers : CycleSound(c) /\ AnswerBacked(c)
    /\ LockInv /\ CountInv /\ DeadEndInv
-----------------------------------------------------------------------------
(* What the boundary does, as far as a cycle sees it. *)

LEMMA DenialAnswer ==
    ASSUME TypeOK, NEW c \in Callers, PortAnswers(c),
           pc'[c] = "returned", out'[c].status = "blocked"
    PROVE  out'[c].execution = "none"
<1> USE DEF TypeOK
<1>0. halt[c] # "blocked"
  BY DEF Halts
<1>1. ASSUME NEW status, NEW exec, NEW passed, Finish(c, status, exec, passed)
      PROVE  out'[c].status = status /\ out'[c].execution = exec
  BY <1>1 DEF Finish, Result
<1>2. ASSUME NEW stale \in BOOLEAN, NEW rejected \in BOOLEAN,
             SnapshotDone(c, stale, rejected)
      PROVE  out'[c].execution = "none"
  BY <1>1, <1>2 DEF SnapshotDone, Return, Await
<1>3. ASSUME NEW allowed \in BOOLEAN, NEW authorized \in BOOLEAN,
             PolicyDone(c, allowed, authorized)
      PROVE  out'[c].execution = "none"
  BY <1>1, <1>3 DEF PolicyDone, Return, Await
<1>4. ASSUME NEW safe \in BOOLEAN, SafetyDone(c, safe)
      PROVE  out'[c].execution = "none"
  BY <1>1, <1>4 DEF SafetyDone, Return, Await
<1>5. ASSUME NEW status \in {"success", "skipped", "failed", "threw"},
             NEW eff \in {"none", "applied"}, ExecuteDone(c, status, eff)
      PROVE  FALSE
  BY <1>0, <1>1, <1>5 DEF ExecuteDone, Fail, HaltAfterApply, Return, Await
<1>6. ASSUME NEW verified \in BOOLEAN, VerifyDone(c, verified)
      PROVE  FALSE
  BY <1>1, <1>6 DEF VerifyDone, Return, Fail
<1>7. ASSUME NEW undone \in BOOLEAN, CompensateDone(c, undone)
      PROVE  FALSE
  BY <1>7 DEF CompensateDone, Await
<1>8. ASSUME NEW verified \in BOOLEAN, VerifyRollbackDone(c, verified)
      PROVE  FALSE
  BY <1>1, <1>8 DEF VerifyRollbackDone, Await
<1>9. ASSUME NEW recovered \in BOOLEAN, NEW how \in Effects,
             RecoverDone(c, recovered, how)
      PROVE  FALSE
  BY <1>1, <1>9 DEF RecoverDone
<1>10. ASSUME NEW eff \in {"none", "applied"}, PortThrows(c, eff)
       PROVE  FALSE
  BY <1>1, <1>10 DEF PortThrows
<1> QED
  BY <1>2, <1>3, <1>4, <1>5, <1>6, <1>7, <1>8, <1>9, <1>10 DEF PortAnswers

\* A run that was published has its key bound to its outcome, also when the
\* cache was full, and every other entry is an old one.
LEMMA PublishBinds ==
    ASSUME TypeOK, CacheIsBounded, CacheIsBounded', NEW c \in Callers, Publish(c),
           out[c].status # "threw"
    PROVE  /\ IsBound(req[c].key)' /\ EntryOf(req[c].key)'.outcome = out[c]
           /\ \A i \in DOMAIN completed' :
                 \/ completed'[i].outcome = out[c]
                 \/ \E j \in DOMAIN completed : completed'[i] = completed[j]
<1> DEFINE e == [key |-> req[c].key, action |-> req[c].action, outcome |-> out[c]]
<1> DEFINE m == Bind(completed, e)
<1>1. e \in Entry /\ completed \in Seq(Entry) /\ Len(completed) \in Nat
      /\ e.key = req[c].key /\ e.outcome = out[c]
  BY DEF Publish, TypeOK, Entry, Request
<1>2. completed' = Evict(m)
  BY DEF Publish
<1> HIDE DEF e
<1>3. /\ m \in Seq(Entry) /\ Len(m) \in Nat
      /\ \A i \in DOMAIN m : m[i] = e \/ \E j \in DOMAIN completed : m[i] = completed[j]
      /\ \/ Len(m) = Len(completed) /\ \E i \in DOMAIN m : m[i] = e
         \/ Len(m) = Len(completed) + 1 /\ m[Len(m)] = e
  <2>1. CASE \E i \in DOMAIN completed : completed[i].key = e.key
    <3>1. m = [i \in DOMAIN completed |->
                  IF completed[i].key = e.key THEN e ELSE completed[i]]
      BY <2>1 DEF Bind
    <3>2. DOMAIN m = DOMAIN completed
      BY <3>1
    <3>3. m \in Seq(Entry)
      BY <1>1, BindType
    <3>4. Len(m) = Len(completed)
      BY <1>1, <3>2, <3>3
    <3> HIDE DEF m
    <3> QED  BY <1>1, <2>1, <3>1, <3>2, <3>3, <3>4
  <2>2. CASE ~(\E i \in DOMAIN completed : completed[i].key = e.key)
    <3>1. m = Append(completed, e)
      BY <2>2 DEF Bind
    <3> HIDE DEF m
    <3> QED  BY <1>1, <3>1
  <2> QED  BY <2>1, <2>2
<1> HIDE DEF m
<1>4. /\ \E i \in DOMAIN completed' : completed'[i] = e
      /\ \A i \in DOMAIN completed' : completed'[i] = e
            \/ \E j \in DOMAIN completed : completed'[i] = completed[j]
  <2>1. CASE Len(m) > MaxEntries
    <3>1. completed' = Tail(m) /\ m # << >>
      BY <1>2, <1>3, <2>1, BoundsAssumption DEF Evict
    <3>2. Len(m) = Len(completed) + 1 /\ m[Len(m)] = e /\ Len(m) > 1
      BY <1>1, <1>3, <2>1, BoundsAssumption DEF CacheIsBounded
    <3>3. /\ Len(completed') = Len(m) - 1 /\ DOMAIN completed' = 1..(Len(m) - 1)
          /\ \A i \in 1..(Len(m) - 1) : completed'[i] = m[i + 1] /\ i + 1 \in DOMAIN m
      BY <1>3, <3>1
    <3>4. Len(m) - 1 \in DOMAIN completed' /\ completed'[Len(m) - 1] = m[Len(m)]
      BY <1>3, <3>2, <3>3
    <3> QED  BY <1>3, <3>2, <3>3, <3>4
  <2>2. CASE ~(Len(m) > MaxEntries)
    <3>1. completed' = m
      BY <1>2, <2>2 DEF Evict
    <3>2. \E i \in DOMAIN m : m[i] = e
      BY <1>1, <1>3
    <3> QED  BY <1>3, <3>1, <3>2
  <2> QED  BY <2>1, <2>2
<1>5. PICK i \in DOMAIN completed' : completed'[i] = e
  BY <1>4
<1>6. \A j \in DOMAIN completed' : completed'[j].key = req[c].key => j = i
  BY <1>1, <1>5 DEF CacheIsBounded
<1>7. EntryOf(req[c].key)' =
         completed'[CHOOSE j \in DOMAIN completed' : completed'[j].key = req[c].key]
  <2>1. req'[c] = req[c]
    BY DEF Publish
  <2> QED  BY <2>1 DEF EntryOf
<1>8. (CHOOSE j \in DOMAIN completed' : completed'[j].key = req[c].key) = i
  BY <1>1, <1>5, <1>6
<1> QED  BY <1>1, <1>4, <1>5, <1>7, <1>8 DEF IsBound, Publish

\* The boundary's invariants, together.
LEMMA BoundaryStep ==
    ASSUME BoundaryInv, [Next]_vars
    PROVE  BoundaryInv'
<1> USE DEF BoundaryInv
<1>1. TypeOK' /\ JoinerWaits' /\ HeldInv' /\ CacheIsBounded'
  BY TypeNext, JoinerStep, HeldStep, CacheStep
<1>2. ASSUME NEW d \in Callers, Owner(d)', out'[d].status = "blocked"
      PROVE  out'[d].execution = "none"
  <2>1. CASE pc'[d] = pc[d] /\ out'[d] = out[d]
    BY <1>2, <2>1 DEF DenialInv, Owner
  <2>2. ASSUME NEW c \in Callers, PortAnswers(c)
        PROVE  out'[d].execution = "none"
    <3>1. CASE c = d
      <4>1. pc'[d] = "returned"
        BY <2>2, <3>1, <1>2, PortAnswersShape
           DEF RunStep, Owner, Registered, Holding, Recovering, TypeOK
      <4> QED  BY <1>2, <2>2, <3>1, <4>1, DenialAnswer
    <3>2. CASE c # d
      BY <2>1, <2>2, <3>2, PortAnswersShape DEF RunStep, TypeOK
    <3> QED  BY <3>1, <3>2
  <2>3. ASSUME NEW c \in Callers, Settle(c)
        PROVE  out'[d].execution = "none"
    BY <1>2, <2>3 DEF Settle, DenialInv, Owner, TypeOK
  <2>4. ASSUME NEW c \in Callers, Publish(c)
        PROVE  out'[d].execution = "none"
    BY <1>2, <2>4 DEF Publish, DenialInv, Owner, TypeOK
  <2>5. ASSUME NEW c \in Callers, NEW q \in Request,
               \/ MutateBound(c, q) \/ MutateJoin(c, q)
               \/ \E h \in {"no", "cancelled"} : MutateStart(c, q, h)
        PROVE  out'[d].execution = "none"
    BY <1>2, <2>1, <2>5 DEF MutateBound, MutateJoin, MutateStart, Prepare, Owner, TypeOK,
       Result
  <2>6. CASE \/ AdvanceEpoch \/ UNCHANGED vars
             \/ \E c \in Callers, h \in Halts : Interrupt(c, h)
    BY <2>1, <2>6 DEF AdvanceEpoch, Interrupt, vars
  <2> QED  BY <2>2, <2>3, <2>4, <2>5, <2>6, NextCases, StepCases
<1> QED  BY <1>1, <1>2 DEF DenialInv

-----------------------------------------------------------------------------
(* One cycle at a time: the invariant as the active invocation c sees it. *)

OneLocked(c) ==
    \/ locks = {}
    \/ /\ at[c] \in {"mutating", "verifying", "recovering", "recording", "failing"}
       /\ plan[c] \in Plan /\ locks = {plan[c].resource}

OneCounted(c) ==
    /\ counters.decisions <= counters.cycles
    /\ counters.blocked <= counters.cycles
    /\ counters.failed <= counters.cycles
    /\ at[c] # "none" =>
          /\ counters.decisions < counters.cycles
          /\ counters.failed < counters.cycles
          /\ at[c] # "failing" => counters.blocked < counters.cycles

OneDeadEnd(c) ==
    Misleading =>
       /\ at[c] \in {"none", "starting", "mutating", "recording", "failing"}
       /\ at[c] \in {"none", "starting", "recording"} => state \in DeadEnds
       /\ at[c] = "mutating" =>
             /\ pc[c] = "replied"
             /\ out[c].status \in {"recovered", "failed", "timed-out", "cancelled"}

OneInv(c) ==
    CycleSound(c) /\ AnswerBacked(c) /\ OneLocked(c) /\ OneCounted(c) /\ OneDeadEnd(c)

LEMMA ActiveAlone ==
    ASSUME RuntimeInv, NEW c \in Callers, at[c] # "none"
    PROVE  /\ OneInv(c) /\ active = c
           /\ \A d \in Callers \ {c} : at[d] = "none" /\ ~Busy(d)
<1>1. active = c /\ \A d \in Callers \ {c} : at[d] = "none" /\ ~Busy(d)
  BY DEF RuntimeInv, CycleSound
<1>2. OneLocked(c)
  BY <1>1 DEF RuntimeInv, LockInv, OneLocked
<1>3. OneCounted(c)
  BY DEF RuntimeInv, CountInv, OneCounted
<1>4. OneDeadEnd(c)
  BY DEF RuntimeInv, DeadEndInv, OneDeadEnd
<1> QED  BY <1>1, <1>2, <1>3, <1>4 DEF RuntimeInv, OneInv

\* After a step it is enough to look at c, as long as the others stay out of it.
LEMMA AloneSuffices ==
    ASSUME BoundaryInv', RuntimeTypeOK', NEW c \in Callers, OneInv(c)',
           \A d \in Callers \ {c} : at'[d] = "none" /\ ~Busy(d)'
    PROVE  RuntimeInv'
<1>0. /\ CycleSound(c)' /\ AnswerBacked(c)' /\ OneLocked(c)'
      /\ OneCounted(c)' /\ OneDeadEnd(c)'
  BY DEF OneInv
<1>1. \A d \in Callers : CycleSound(d)' /\ AnswerBacked(d)'
  BY <1>0 DEF CycleSound, AnswerBacked
<1>2. LockInv'
  BY <1>0 DEF OneLocked, LockInv
<1>3. CountInv'
  BY <1>0 DEF OneCounted, CountInv
<1>4. DeadEndInv'
  BY <1>0 DEF OneDeadEnd, DeadEndInv
<1> QED  BY <1>1, <1>2, <1>3, <1>4 DEF RuntimeInv

-----------------------------------------------------------------------------
(* Steps of the boundary while the cycle awaits it. *)

LEMMA RunMoves ==
    ASSUME RuntimeInv, NEW c \in Callers, Step(c), UNCHANGED cycleVars
    PROVE  RuntimeInv'
<1>0. BoundaryInv /\ RuntimeTypeOK /\ TypeOK /\ JoinerWaits /\ CacheIsBounded
  BY DEF RuntimeInv, BoundaryInv
<1>1. Next
  BY DEF Next
<1>2. BoundaryInv' /\ RuntimeTypeOK' /\ CacheIsBounded'
  BY <1>0, <1>1, BoundaryStep DEF BoundaryInv, cycleVars, RuntimeTypeOK
<1>3. PortAnswers(c) \/ Settle(c) \/ Publish(c)
  BY StepCases
<1>4. /\ pc[c] \notin {"idle", "replied"} /\ req' = req /\ epoch' = epoch
      /\ \A d \in Callers \ {c} : pc'[d] = pc[d] \/ pc'[d] = "replied"
  <2>1. CASE PortAnswers(c)
    BY <1>0, <2>1, PortAnswersShape DEF RunStep, registry, TypeOK, Holding, Recovering
  <2>2. CASE Settle(c)
    BY <1>0, <2>2 DEF Settle, TypeOK
  <2>3. CASE Publish(c)
    BY <1>0, <2>3 DEF Publish, TypeOK
  <2> QED  BY <1>3, <2>1, <2>2, <2>3
<1>5. at[c] = "mutating" /\ ~Misleading
  BY <1>4 DEF RuntimeInv, CycleSound, Busy, DeadEndInv
<1>6. /\ OneInv(c) /\ active = c
      /\ \A d \in Callers \ {c} : at[d] = "none" /\ ~Busy(d)
  BY <1>5, ActiveAlone
<1>7. \A d \in Callers \ {c} : at'[d] = "none" /\ ~Busy(d)'
  BY <1>4, <1>6 DEF cycleVars, Busy
<1>8. CycleSound(c)'
  BY <1>4, <1>5, <1>6 DEF OneInv, CycleSound, cycleVars, MutationKey
<1>9. /\ at'[c] = "mutating" /\ OneLocked(c)' /\ OneCounted(c)'
  BY <1>5, <1>6 DEF OneInv, OneLocked, OneCounted, cycleVars
<1>10. CASE ~Publish(c)
  <2>1. completed' = completed /\ pc'[c] # "replied"
    <3>1. CASE PortAnswers(c)
      BY <1>0, <3>1, PortAnswersShape
         DEF RunStep, registry, TypeOK, Registered, Holding, Recovering
    <3>2. CASE Settle(c)
      BY <1>0, <3>2 DEF Settle, TypeOK
    <3> QED  BY <1>3, <1>10, <3>1, <3>2
  <2>2. AnswerBacked(c)' /\ OneDeadEnd(c)'
    BY <1>5, <1>9, <2>1 DEF AnswerBacked, OneDeadEnd, Misleading
  <2> QED  BY <1>2, <1>7, <1>8, <1>9, <2>2, AloneSuffices DEF OneInv
<1>11. CASE Publish(c)
  <2>1. /\ pc[c] = "settled" /\ pc'[c] = "replied" /\ out'[c] = out[c]
        /\ out[c] \in Outcome
    BY <1>0, <1>11 DEF Publish, Answered, TypeOK
  <2>2. CASE out[c].status = "threw"
    <3>1. completed' = completed
      BY <1>11, <2>2 DEF Publish
    <3> QED
      BY <1>2, <1>5, <1>7, <1>8, <1>9, <2>1, <2>2, <3>1, AloneSuffices
         DEF OneInv, AnswerBacked, OneDeadEnd, Misleading
  <2>3. CASE out[c].status # "threw"
    <3>1. /\ IsBound(req[c].key)' /\ EntryOf(req[c].key)'.outcome = out[c]
          /\ \A i \in DOMAIN completed' :
                \/ completed'[i].outcome = out[c]
                \/ \E j \in DOMAIN completed : completed'[i] = completed[j]
      BY <1>0, <1>2, <1>11, <2>3, PublishBinds
    <3>2. (req[c].key)' = MutationKey(c)'
      BY <1>8, <1>9 DEF CycleSound
    <3>3. AnswerBacked(c)'
      BY <1>9, <2>1, <3>1, <3>2 DEF AnswerBacked, Backed
    <3>4. ASSUME Misleading'
          PROVE  out[c].status \in {"recovered", "failed", "timed-out", "cancelled"}
      <4>1. out[c].execution = "success" /\ out[c].status # "committed"
        BY <1>5, <3>1, <3>4 DEF Misleading
      <4>2. out[c].status # "blocked"
        BY <1>0, <2>1, <4>1 DEF BoundaryInv, DenialInv, Owner
      <4> QED  BY <2>1, <2>3, <4>1, <4>2 DEF Outcome, Statuses
    <3>5. OneDeadEnd(c)'
      BY <1>9, <2>1, <3>4 DEF OneDeadEnd
    <3> QED
      BY <1>2, <1>7, <1>8, <1>9, <3>3, <3>5, AloneSuffices DEF OneInv
  <2> QED  BY <2>2, <2>3
<1> QED  BY <1>10, <1>11

LEMMA EnvironmentMoves ==
    ASSUME RuntimeInv, Environment, UNCHANGED cycleVars
    PROVE  RuntimeInv'
<1>0. BoundaryInv /\ RuntimeTypeOK /\ epoch \in Nat
  BY DEF RuntimeInv, BoundaryInv, TypeOK
<1>1. BoundaryInv' /\ RuntimeTypeOK'
  BY <1>0, BoundaryStep DEF Next, cycleVars, RuntimeTypeOK
<1>2. pc' = pc /\ out' = out /\ req' = req /\ completed' = completed
      /\ (epoch' = epoch \/ epoch' = epoch + 1)
  BY DEF Environment, AdvanceEpoch, Interrupt, registry
<1>3. LockInv' /\ CountInv' /\ DeadEndInv'
  BY <1>2 DEF RuntimeInv, cycleVars, LockInv, CountInv, DeadEndInv, Misleading
<1>4. ASSUME NEW d \in Callers
      PROVE  CycleSound(d)' /\ AnswerBacked(d)'
  <2>1. CycleSound(d) /\ AnswerBacked(d)
    BY DEF RuntimeInv
  <2>2. cyc[d] \in CycleInput => cyc[d].epoch \in Nat
    BY BoundsAssumption DEF CycleInput
  <2> QED
    BY <1>0, <1>2, <2>1, <2>2 DEF CycleSound, AnswerBacked, Backed, cycleVars, Busy, IsBound,
       EntryOf, MutationKey
<1> QED  BY <1>1, <1>3, <1>4 DEF RuntimeInv

-----------------------------------------------------------------------------
(* Steps of the cycle itself. *)

LEMMA OwnStepSuffices ==
    ASSUME RuntimeInv, NEW c \in Callers, at[c] # "none", UNCHANGED vars,
           NEW p \in CyclePoints, Goto(c, p), RuntimeTypeOK', OneInv(c)'
    PROVE  RuntimeInv'
<1>1. \A d \in Callers \ {c} : at[d] = "none" /\ ~Busy(d)
  BY ActiveAlone
<1>2. BoundaryInv'
  BY BoundaryStep DEF RuntimeInv
<1>3. \A d \in Callers \ {c} : at'[d] = "none" /\ ~Busy(d)'
  BY <1>1 DEF RuntimeInv, RuntimeTypeOK, Goto, Busy, vars
<1> QED  BY <1>2, <1>3, AloneSuffices

LEMMA TransitionType ==
    ASSUME RuntimeTypeOK, NEW c \in Callers, NEW to \in RuntimeStates,
           NEW p \in CyclePoints, Transition(c, to, p)
    PROVE  /\ state' \in RuntimeStates /\ at' \in [Callers -> CyclePoints]
           /\ \/ state' = to /\ Goto(c, p) /\ Legal(state, to)
              \/ state' = state /\ Goto(c, "failing") /\ ~Legal(state, to)
BY DEF RuntimeTypeOK, Transition, Goto, CyclePoints

\* A runtime that re-observed, failed or stopped does not observe again, and
\* one that cannot fail any more has failed or stopped.
LEMMA DeadEndsStay ==
    /\ \A s \in DeadEnds : ~Legal(s, "observing")
    /\ \A s \in RuntimeStates : ~Legal(s, "failed") => s \in DeadEnds
BY DEF DeadEnds, Legal, legalTransitions, RuntimeStates

LEMMA TallyType ==
    ASSUME RuntimeTypeOK, NEW f \in {"decisions", "blocked", "failed"}, Tally(f),
           counters[f] < counters.cycles
    PROVE  /\ counters' \in Counters /\ counters'.cycles = counters.cycles
           /\ counters'[f] = counters[f] + 1
           /\ \A g \in {"decisions", "blocked", "failed"} \ {f} : counters'[g] = counters[g]
<1>1. /\ counters \in Counters /\ counters' = [counters EXCEPT ![f] = @ + 1]
      /\ MaxCycles \in Nat
  BY CyclesAssumption DEF RuntimeTypeOK, Tally
<1> QED  BY <1>1 DEF Counters

LEMMA RememberType ==
    ASSUME RuntimeTypeOK, NEW k \in Keys \cup {None}
    PROVE  Remember(k) \in Seq(Keys)
<1>1. CASE k = None
  BY <1>1 DEF Remember, RuntimeTypeOK
<1>2. CASE k # None
  <2> DEFINE m == Append(idempotency, k)
  <2>1. m \in Seq(Keys) /\ m # << >> /\ Tail(m) \in Seq(Keys)
    <3>1. m \in Seq(Keys) /\ m # << >>
      BY <1>2 DEF RuntimeTypeOK
    <3> HIDE DEF m
    <3> QED  BY <3>1
  <2>2. Remember(k) = IF Len(m) > MaxRecords THEN Tail(m) ELSE m
    BY <1>2 DEF Remember
  <2> HIDE DEF m
  <2> QED  BY <2>1, <2>2
<1> QED  BY <1>1, <1>2

LEMMA Still ==
    ASSUME UNCHANGED vars, NEW c \in Callers
    PROVE  /\ Misleading' = Misleading /\ Busy(c)' = Busy(c) /\ pc' = pc
           /\ out' = out /\ req' = req /\ epoch' = epoch
           /\ UNCHANGED <<cyc, plan>> =>
                 Backed(c)' = Backed(c) /\ MutationKey(c)' = MutationKey(c)
BY DEF vars, Misleading, Busy, Backed, MutationKey, IsBound, EntryOf

\* Observing, analyzing, arbitrating, deciding and validating.
LEMMA EarlyMoves ==
    ASSUME RuntimeInv, NEW c \in Callers,
           \/ Advance(c) \/ ValidationBlocks(c) \/ CycleThrows(c)
           \/ \E p \in Plan, allowed \in BOOLEAN : Decide(c, p, allowed)
    PROVE  RuntimeInv'
<1> USE DEF OneInv, CycleSound, AnswerBacked, OneLocked, OneCounted, OneDeadEnd, Goto
<1>0. RuntimeTypeOK /\ at \in [Callers -> CyclePoints]
  BY DEF RuntimeInv, RuntimeTypeOK
<1>1. CASE Advance(c)
  <2>1. PICK s \in Stages : at[c] = s[1] /\ Transition(c, s[2], s[2])
    BY <1>1 DEF Advance
  <2>2. /\ s[2] \in RuntimeStates /\ s[2] \in CyclePoints
        /\ s[2] \in {"observing", "analyzing", "arbitrating", "planning"}
        /\ s[1] \in {"starting", "observing", "analyzing", "arbitrating"}
        /\ s[1] = "starting" => s[2] = "observing"
    BY DEF Stages, RuntimeStates, CyclePoints
  <2>3. at[c] # "none" /\ UNCHANGED <<vars, cyc, plan, outcome, locks, counters>>
    BY <1>1, <2>1, <2>2 DEF Advance
  <2>4. /\ OneInv(c) /\ active = c
    BY <2>3, ActiveAlone
  <2>5. PICK p \in {s[2], "failing"} :
           /\ Goto(c, p) /\ at'[c] = p
           /\ p = "failing" \/ Legal(state, s[2])
           /\ state' \in RuntimeStates /\ at' \in [Callers -> CyclePoints]
    BY <1>0, <2>1, <2>2, TransitionType
  <2>6. RuntimeTypeOK' /\ active' = active
    BY <1>0, <1>1, <2>3, <2>5 DEF Advance, RuntimeTypeOK
  <2>7. OneInv(c)'
    BY <1>0, <2>1, <2>2, <2>3, <2>4, <2>5, <2>6, Still, DeadEndsStay
  <2>8. p \in CyclePoints
    BY <2>2 DEF CyclePoints
  <2> QED  BY <2>3, <2>5, <2>6, <2>7, <2>8, OwnStepSuffices
<1>2. ASSUME NEW p \in Plan, NEW allowed \in BOOLEAN, Decide(c, p, allowed)
      PROVE  RuntimeInv'
  <2>1. /\ at[c] = "planning" /\ UNCHANGED <<vars, active, cyc, outcome, locks, counters>>
        /\ plan' = [plan EXCEPT ![c] = p]
    BY <1>2 DEF Decide
  <2>2. OneInv(c) /\ active = c
    BY <2>1, ActiveAlone
  <2>3. PICK w \in {"validating", "blocking", "failing"} :
           Goto(c, w) /\ state' \in RuntimeStates
    BY <1>0, <1>2 DEF Decide, Transition, RuntimeTypeOK, RuntimeStates
  <2>4. w \in CyclePoints /\ at'[c] = w /\ plan'[c] = p
    BY <1>0, <2>1, <2>3 DEF CyclePoints, RuntimeTypeOK
  <2>5. RuntimeTypeOK'
    BY <1>0, <1>2, <2>1, <2>3, <2>4 DEF Decide, RuntimeTypeOK
  <2>6. OneInv(c)'
    BY <2>1, <2>2, <2>3, <2>4, Still
  <2> QED  BY <2>1, <2>3, <2>4, <2>5, <2>6, OwnStepSuffices
<1>3. CASE ValidationBlocks(c)
  <2>1. /\ at[c] = "validating" /\ Goto(c, "blocking")
        /\ UNCHANGED <<vars, state, active, cyc, plan, outcome, counters>>
        /\ locks' \subseteq locks
    BY <1>3 DEF ValidationBlocks, Unlock
  <2>2. OneInv(c) /\ active = c
    BY <2>1, ActiveAlone
  <2>3. "blocking" \in CyclePoints /\ at'[c] = "blocking"
    BY <1>0, <2>1 DEF CyclePoints
  <2>4. RuntimeTypeOK'
    BY <1>0, <1>3, <2>1, <2>3 DEF ValidationBlocks, RuntimeTypeOK
  <2>5. OneInv(c)'
    BY <2>1, <2>2, <2>3, Still
  <2> QED  BY <2>1, <2>3, <2>4, <2>5, OwnStepSuffices
<1>4. CASE CycleThrows(c)
  <2>1. /\ at[c] \notin {"none", "mutating", "recording", "blocking", "failing"}
        /\ Goto(c, "failing")
        /\ UNCHANGED <<vars, state, active, cyc, plan, outcome, locks, counters>>
    BY <1>4 DEF CycleThrows
  <2>2. OneInv(c) /\ active = c
    BY <2>1, ActiveAlone
  <2>3. "failing" \in CyclePoints /\ at'[c] = "failing"
    BY <1>0, <2>1 DEF CyclePoints
  <2>4. RuntimeTypeOK'
    BY <1>0, <1>4, <2>1, <2>3 DEF CycleThrows, RuntimeTypeOK
  <2>5. OneInv(c)'
    BY <2>1, <2>2, <2>3, Still
  <2> QED  BY <2>1, <2>3, <2>4, <2>5, OwnStepSuffices
<1> QED  BY <1>1, <1>2, <1>3, <1>4

LEMMA StartMoves ==
    ASSUME RuntimeInv, NEW c \in Callers, NEW k \in Keys \cup {None},
           NEW m \in {"simulation", "live"}, CycleStart(c, k, m)
    PROVE  RuntimeInv'
<1>0. /\ RuntimeTypeOK /\ TypeOK /\ \A d \in Callers : at[d] = "none" /\ ~Busy(d)
      /\ locks = {} /\ UNCHANGED vars
  BY SetsAssumption
     DEF CycleStart, MayStart, RuntimeInv, BoundaryInv, CycleSound, LockInv
<1>1. /\ at' = [at EXCEPT ![c] = "starting"] /\ at'[c] = "starting"
      /\ \A d \in Callers \ {c} : at'[d] = "none" /\ ~Busy(d)'
  BY <1>0, Still DEF CycleStart, Goto, RuntimeTypeOK
<1>2. cyc'[c] = [key |-> k, mode |-> m, epoch |-> epoch] /\ cyc'[c] \in CycleInput
      /\ cyc'[c].epoch = epoch /\ epoch \in Nat
  BY <1>0, BoundsAssumption DEF CycleStart, RuntimeTypeOK, TypeOK, CycleInput
<1>3. /\ counters' \in Counters /\ counters'.cycles = counters.cycles + 1
      /\ \A f \in {"decisions", "blocked", "failed"} :
            counters'[f] = counters[f] /\ counters[f] \in Nat
      /\ counters.cycles \in Nat
  <2>1. /\ counters \in Counters /\ counters' = [counters EXCEPT !.cycles = @ + 1]
        /\ MaxCycles \in Nat /\ counters.cycles < MaxCycles
    BY <1>0, CyclesAssumption DEF CycleStart, Tally, RuntimeTypeOK
  <2> QED  BY <2>1 DEF Counters
<1>4. RuntimeTypeOK'
  <2>1. cyc' = [cyc EXCEPT ![c] = cyc'[c]] /\ at' \in [Callers -> CyclePoints]
    BY <1>0, <1>1, <1>2 DEF CycleStart, RuntimeTypeOK, CyclePoints
  <2> QED  BY <1>0, <1>2, <1>3, <2>1 DEF CycleStart, RuntimeTypeOK
<1>5. CycleSound(c)' /\ AnswerBacked(c)' /\ OneLocked(c)'
  BY <1>0, <1>1, <1>2, Still DEF CycleStart, CycleSound, AnswerBacked, OneLocked
<1>6. OneCounted(c)'
  BY <1>1, <1>3 DEF RuntimeInv, CountInv, OneCounted
<1>7. OneDeadEnd(c)'
  BY <1>0, <1>1, Still DEF CycleStart, RuntimeInv, DeadEndInv, OneDeadEnd
<1>8. BoundaryInv'
  BY <1>0, BoundaryStep DEF RuntimeInv
<1> QED  BY <1>1, <1>4, <1>5, <1>6, <1>7, <1>8, AloneSuffices DEF OneInv

LEMMA SimulateMoves ==
    ASSUME RuntimeInv, NEW c \in Callers, Simulate(c)
    PROVE  RuntimeInv'
<1> USE DEF OneInv, CycleSound, AnswerBacked, OneLocked, OneCounted, OneDeadEnd, Goto
<1>0. RuntimeTypeOK /\ at \in [Callers -> CyclePoints]
  BY DEF RuntimeInv, RuntimeTypeOK
<1>1. /\ at[c] = "validating" /\ locks' = locks \cup {plan[c].resource}
      /\ Goto(c, "recording") /\ outcome' = [outcome EXCEPT ![c] = "simulated"]
      /\ UNCHANGED <<vars, state, active, cyc, plan, idempotency, last, counters>>
  BY DEF Simulate, LockTaken
<1>2. OneInv(c) /\ active = c
  BY <1>1, ActiveAlone
<1>3. "recording" \in CyclePoints /\ at'[c] = "recording" /\ outcome'[c] = "simulated"
  BY <1>0, <1>1 DEF CyclePoints, RuntimeTypeOK
<1>4. plan[c].resource \in Resources /\ locks = {}
  BY <1>1, <1>2 DEF Plan
<1>5. RuntimeTypeOK'
  BY <1>0, <1>1, <1>3, <1>4 DEF RuntimeTypeOK, Outcomes
<1>6. OneInv(c)'
  BY <1>1, <1>2, <1>3, <1>4, Still
<1> QED  BY <1>1, <1>3, <1>5, <1>6, OwnStepSuffices

\* The request of a cycle is one the boundary takes.
LEMMA CallIsMutate ==
    ASSUME RuntimeInv, NEW c \in Callers, CallBoundary(c)
    PROVE  /\ MutationRequest(c) \in Request /\ Mutate(c)
           /\ at[c] = "validating" /\ plan[c] \in Plan
<1>1. at[c] = "validating"
  BY DEF CallBoundary, LockTaken
<1>2. cyc[c] \in CycleInput /\ cyc[c].epoch <= epoch /\ plan[c] \in Plan
  BY <1>1 DEF RuntimeInv, CycleSound
<1>3. MutationKey(c) \in Keys
  BY <1>2, ActionIdsAreKeys DEF MutationKey, CycleInput, Plan
<1>4. MutationRequest(c) \in Request /\ MutationRequest(c).epoch <= epoch
  BY <1>2, <1>3 DEF MutationRequest, Request, CycleInput, Plan
<1> HIDE DEF MutationRequest
<1> QED  BY <1>1, <1>2, <1>4 DEF CallBoundary, Mutate

LEMMA CallMoves ==
    ASSUME RuntimeInv, NEW c \in Callers, CallBoundary(c)
    PROVE  RuntimeInv'
<1> DEFINE q == MutationRequest(c)
<1>0. /\ RuntimeTypeOK /\ TypeOK /\ BoundaryInv /\ CacheIsBounded
      /\ q \in Request /\ at[c] = "validating" /\ plan[c] \in Plan
      /\ q.key = MutationKey(c)
  BY CallIsMutate DEF RuntimeInv, BoundaryInv, MutationRequest
<1>1. BoundaryInv'
  BY <1>0, CallIsMutate, BoundaryStep DEF Next
<1>2. /\ at' = [at EXCEPT ![c] = "mutating"] /\ at'[c] = "mutating"
      /\ locks' = locks \cup {plan[c].resource} /\ plan[c].resource \in Resources
      /\ UNCHANGED <<state, active, cyc, plan, outcome, idempotency, last, counters>>
  BY <1>0 DEF CallBoundary, LockTaken, Goto, RuntimeTypeOK, Plan
<1>3. OneInv(c) /\ active = c /\ ~Misleading
      /\ \A d \in Callers \ {c} : at[d] = "none" /\ ~Busy(d)
  BY <1>0, ActiveAlone DEF OneInv, OneDeadEnd
<1> HIDE DEF q
<1>4. MutateBound(c, q) \/ \E h \in {"no", "cancelled"} : MutateStart(c, q, h)
  BY DEF CallBoundary, q
<1>5. /\ req'[c] = q /\ completed' = completed /\ epoch' = epoch
      /\ \A d \in Callers \ {c} : pc'[d] = pc[d]
  BY <1>0, <1>4 DEF MutateBound, MutateStart, Prepare, Issue, TypeOK
<1>6. RuntimeTypeOK'
  BY <1>0, <1>2 DEF RuntimeTypeOK, CyclePoints
<1>7. CycleSound(c)'
  BY <1>0, <1>2, <1>3, <1>5 DEF OneInv, CycleSound, MutationKey
<1>8. OneLocked(c)' /\ OneCounted(c)' /\ OneDeadEnd(c)'
  BY <1>0, <1>2, <1>3, <1>5 DEF OneInv, OneLocked, OneCounted, OneDeadEnd, Misleading
<1>9. AnswerBacked(c)'
  <2>1. CASE \E h \in {"no", "cancelled"} : MutateStart(c, q, h)
    <3>1. pc'[c] # "replied"
      BY <1>0, <2>1 DEF MutateStart, Prepare, TypeOK
    <3> QED  BY <1>2, <3>1 DEF AnswerBacked
  <2>2. CASE MutateBound(c, q)
    <3>1. IsBound(q.key) /\ out'[c] = IF EntryOf(q.key).action # q.action
                    THEN Result(q, "blocked", "none")
                    ELSE [EntryOf(q.key).outcome EXCEPT !.status = "committed"]
      BY <1>0, <2>2 DEF MutateBound, TypeOK
    <3>2. EntryOf(q.key) \in Entry
      BY <1>0, <3>1, EntryOfType DEF TypeOK
    <3>3. out'[c].status = "committed" =>
             out'[c].execution = EntryOf(q.key).outcome.execution
      BY <3>1, <3>2 DEF Result, Entry, Outcome
    <3>4. EntryOf(q.key).outcome.execution = "success" =>
             EntryOf(q.key).outcome.status = "committed"
      <4>1. (CHOOSE i \in DOMAIN completed : completed[i].key = q.key) \in DOMAIN completed
        BY <3>1 DEF IsBound
      <4> QED  BY <1>3, <4>1 DEF EntryOf, Misleading
    <3>5. MutationKey(c)' = q.key
      BY <1>0, <1>2 DEF MutationKey
    <3>6. IsBound(MutationKey(c))' /\ EntryOf(MutationKey(c))' = EntryOf(q.key)
      BY <1>0, <1>2, <1>5, <3>1, <3>5 DEF IsBound, EntryOf
    <3> QED  BY <1>2, <3>3, <3>4, <3>6 DEF AnswerBacked, Backed
  <2> QED  BY <1>4, <2>1, <2>2
<1>10. \A d \in Callers \ {c} : at'[d] = "none" /\ ~Busy(d)'
  BY <1>0, <1>2, <1>3, <1>5 DEF RuntimeTypeOK, Busy
<1> QED  BY <1>1, <1>6, <1>7, <1>8, <1>9, <1>10, AloneSuffices DEF OneInv

\* The boundary answers.
LEMMA AnswerMoves ==
    ASSUME RuntimeInv, NEW c \in Callers,
           \/ MutationBlocked(c) \/ MutationFailed(c)
           \/ MutationRecovered(c) \/ MutationCommitted(c)
    PROVE  RuntimeInv'
<1> USE DEF OneInv, CycleSound, AnswerBacked, OneLocked, OneCounted, OneDeadEnd, Goto
<1>0. /\ RuntimeTypeOK /\ at \in [Callers -> CyclePoints]
      /\ at[c] = "mutating" /\ pc[c] = "replied"
      /\ UNCHANGED <<vars, active, cyc, plan, counters>>
  BY DEF RuntimeInv, RuntimeTypeOK, MutationBlocked, MutationFailed, MutationRecovered,
     MutationCommitted
<1>1. OneInv(c) /\ active = c /\ ~Busy(c)
  BY <1>0, ActiveAlone DEF Busy
<1>2. {"blocking", "failing", "recording", "verifying"} \subseteq CyclePoints
  BY DEF CyclePoints
<1>3. CASE MutationBlocked(c)
  <2>1. /\ Goto(c, "blocking") /\ at'[c] = "blocking" /\ locks' = {}
        /\ ~Misleading
    BY <1>0, <1>1, <1>3, SetsAssumption, NoneIsNoInput DEF MutationBlocked, Unlock
  <2>2. RuntimeTypeOK'
    BY <1>0, <1>2, <1>3, <2>1 DEF MutationBlocked, RuntimeTypeOK
  <2>3. OneInv(c)'
    BY <1>0, <1>1, <2>1, Still
  <2> QED  BY <1>0, <1>2, <2>1, <2>2, <2>3, OwnStepSuffices
<1>4. CASE MutationFailed(c)
  <2>1. Goto(c, "failing") /\ at'[c] = "failing" /\ locks' = locks
    BY <1>0, <1>4 DEF MutationFailed
  <2>2. RuntimeTypeOK'
    BY <1>0, <1>2, <1>4, <2>1 DEF MutationFailed, RuntimeTypeOK
  <2>3. OneInv(c)'
    BY <1>0, <1>1, <2>1, Still
  <2> QED  BY <1>0, <1>2, <2>1, <2>2, <2>3, OwnStepSuffices
<1>5. CASE MutationRecovered(c)
  <2>1. /\ Transition(c, "observing", "recording") /\ locks' = locks
        /\ outcome' = [outcome EXCEPT ![c] = "recovered"] /\ outcome'[c] = "recovered"
    BY <1>0, <1>5 DEF MutationRecovered, RuntimeTypeOK
  <2>2. PICK p \in {"recording", "failing"} :
           /\ Goto(c, p) /\ at'[c] = p
           /\ p = "recording" => state' \in DeadEnds
           /\ state' \in RuntimeStates /\ at' \in [Callers -> CyclePoints]
    BY <1>0, <1>2, <2>1, TransitionType DEF RuntimeStates, DeadEnds
  <2>3. RuntimeTypeOK'
    BY <1>0, <1>5, <2>1, <2>2 DEF MutationRecovered, RuntimeTypeOK, Outcomes
  <2>4. OneInv(c)'
    BY <1>0, <1>1, <2>1, <2>2, Still
  <2> QED  BY <1>0, <1>2, <2>2, <2>3, <2>4, OwnStepSuffices
<1>6. CASE MutationCommitted(c)
  <2>1. /\ Transition(c, "verifying", "verifying") /\ locks' = locks
        /\ out[c].status = "committed"
    BY <1>0, <1>6 DEF MutationCommitted
  <2>2. PICK p \in {"verifying", "failing"} :
           /\ Goto(c, p) /\ at'[c] = p
           /\ state' \in RuntimeStates /\ at' \in [Callers -> CyclePoints]
    BY <1>0, <1>2, <2>1, TransitionType DEF RuntimeStates
  <2>3. RuntimeTypeOK'
    BY <1>0, <1>6, <2>1, <2>2 DEF MutationCommitted, RuntimeTypeOK
  <2>4. OneInv(c)'
    BY <1>0, <1>1, <2>1, <2>2, Still
  <2> QED  BY <1>0, <1>2, <2>2, <2>3, <2>4, OwnStepSuffices
<1> QED  BY <1>3, <1>4, <1>5, <1>6

\* The action's own verification, and the recovery that follows a failed one.
LEMMA VerifyMoves ==
    ASSUME RuntimeInv, NEW c \in Callers,
           \/ \E noop, ok, sim \in BOOLEAN : VerifyCycle(c, noop, ok, sim)
           \/ RecoverCycle(c)
    PROVE  RuntimeInv'
<1> USE DEF OneInv, CycleSound, AnswerBacked, OneLocked, OneCounted, OneDeadEnd, Goto
<1>0. /\ RuntimeTypeOK /\ at \in [Callers -> CyclePoints]
      /\ at[c] \in {"verifying", "recovering"}
      /\ UNCHANGED <<vars, active, cyc, plan, locks, idempotency, last, counters>>
  BY DEF RuntimeInv, RuntimeTypeOK, VerifyCycle, RecoverCycle
<1>1. OneInv(c) /\ active = c /\ ~Misleading
  BY <1>0, ActiveAlone
<1>2. {"failing", "recording", "recovering"} \subseteq CyclePoints
  BY DEF CyclePoints
<1>3. \E p \in {"recording", "recovering", "failing"}, o \in Outcomes :
         /\ Goto(c, p) /\ state' \in RuntimeStates
         /\ outcome' = [outcome EXCEPT ![c] = o]
         /\ p = "recording" /\ o = "success" =>
               at[c] = "verifying" /\ out[c].execution = "success"
  <2>1. ASSUME NEW noop \in BOOLEAN, NEW ok \in BOOLEAN, NEW sim \in BOOLEAN,
               VerifyCycle(c, noop, ok, sim), Goto(c, "recording")
        PROVE  <1>3
    <3>1. /\ at[c] = "verifying" /\ state' = state /\ at'[c] = "recording"
          /\ outcome' = [outcome EXCEPT ![c] =
                IF out[c].execution = "success" /\ ~sim THEN "success" ELSE "simulated"]
      BY <1>0, <2>1, <1>2 DEF VerifyCycle, Transition
    <3>2. {"success", "simulated"} \subseteq Outcomes
      BY DEF Outcomes
    <3> QED  BY <1>0, <2>1, <3>1, <3>2 DEF RuntimeTypeOK
  <2>2. ASSUME NEW noop \in BOOLEAN, NEW ok \in BOOLEAN, NEW sim \in BOOLEAN,
               VerifyCycle(c, noop, ok, sim), ~Goto(c, "recording")
        PROVE  <1>3
    <3>1. Transition(c, "recovering", "recovering") /\ outcome' = outcome
      BY <2>2 DEF VerifyCycle
    <3>2. PICK p \in {"recovering", "failing"} : Goto(c, p) /\ state' \in RuntimeStates
      BY <1>0, <1>2, <3>1, TransitionType DEF RuntimeStates
    <3>3. outcome[c] \in Outcomes /\ outcome' = [outcome EXCEPT ![c] = outcome[c]]
      BY <1>0, <3>1 DEF RuntimeTypeOK
    <3> QED  BY <3>2, <3>3
  <2>3. CASE RecoverCycle(c)
    <3>1. /\ Transition(c, "degraded", "recording")
          /\ outcome' = [outcome EXCEPT ![c] = "degraded"]
      BY <2>3 DEF RecoverCycle
    <3>2. PICK p \in {"recording", "failing"} : Goto(c, p) /\ state' \in RuntimeStates
      BY <1>0, <1>2, <3>1, TransitionType DEF RuntimeStates
    <3> QED  BY <3>1, <3>2 DEF Outcomes
  <2> QED  BY <2>1, <2>2, <2>3
<1>4. PICK p \in {"recording", "recovering", "failing"}, o \in Outcomes :
         /\ Goto(c, p) /\ state' \in RuntimeStates
         /\ outcome' = [outcome EXCEPT ![c] = o]
         /\ p = "recording" /\ o = "success" =>
               at[c] = "verifying" /\ out[c].execution = "success"
  BY <1>3
<1>5. p \in CyclePoints /\ at'[c] = p /\ outcome'[c] = o
  BY <1>0, <1>2, <1>4 DEF RuntimeTypeOK
<1>6. RuntimeTypeOK'
  BY <1>0, <1>4, <1>5 DEF RuntimeTypeOK
<1>7. OneInv(c)'
  BY <1>0, <1>1, <1>4, <1>5, Still
<1> QED  BY <1>0, <1>4, <1>5, <1>6, <1>7, OwnStepSuffices

\* The record is stored, or cannot be; the cycle ends.
LEMMA EndMoves ==
    ASSUME RuntimeInv, NEW c \in Callers,
           Record(c) \/ RecordBlocked(c) \/ RecordThrows(c) \/ CycleFails(c)
    PROVE  RuntimeInv'
<1> USE DEF OneInv, CycleSound, AnswerBacked, OneLocked, OneCounted, OneDeadEnd, Goto
<1>0. /\ RuntimeTypeOK /\ at \in [Callers -> CyclePoints]
      /\ at[c] \in {"recording", "blocking", "failing"} /\ UNCHANGED vars
  BY DEF RuntimeInv, RuntimeTypeOK, Record, RecordBlocked, RecordThrows, CycleFails
<1>1. /\ OneInv(c) /\ active = c /\ ~Busy(c)
      /\ counters.cycles \in Nat
      /\ \A f \in {"decisions", "blocked", "failed"} : counters[f] \in Nat
  BY <1>0, ActiveAlone, CyclesAssumption DEF RuntimeTypeOK, Counters
<1>2. {"none", "failing"} \subseteq CyclePoints
  BY DEF CyclePoints
<1>3. cyc[c].key \in Keys \cup {None}
  BY <1>0, <1>1 DEF CycleInput
<1>4. Unlock(c) => locks' = {}
  BY <1>0, <1>1, NoneIsNoInput DEF Unlock
<1>5. ASSUME Leave(c), state' \in RuntimeStates, last' \in Outcomes,
             idempotency' \in Seq(Keys), counters' \in Counters, locks' = {},
             Misleading => state' \in DeadEnds, OneCounted(c)'
      PROVE  RuntimeInv'
  <2>1. Goto(c, "none") /\ at'[c] = "none"
    BY <1>0, <1>5 DEF Leave
  <2>2. RuntimeTypeOK'
    <3>1. {"none"} \subseteq Outcomes
      BY DEF Outcomes
    <3> QED  BY <1>0, <1>2, <1>5, <2>1, <3>1 DEF Leave, RuntimeTypeOK
  <2>3. OneInv(c)'
    BY <1>0, <1>1, <1>5, <2>1, Still
  <2> QED  BY <1>0, <1>2, <2>1, <2>2, <2>3, OwnStepSuffices
<1>6. CASE Record(c)
  <2>1. /\ at[c] = "recording" /\ Tally("decisions") /\ Unlock(c) /\ Leave(c)
        /\ last' = outcome[c] /\ idempotency' = Remember(cyc[c].key) /\ state' = state
    BY <1>6 DEF Record
  <2>2. /\ counters' \in Counters /\ OneCounted(c)'
    <3>1. at'[c] = "none"
      BY <1>0, <2>1 DEF Leave
    <3> QED  BY <1>0, <1>1, <2>1, <3>1, TallyType
  <2> QED
    BY <1>0, <1>1, <1>3, <1>4, <1>5, <2>1, <2>2, RememberType DEF RuntimeTypeOK
<1>7. CASE RecordBlocked(c) /\ Legal(state, "blocked")
  <2>1. /\ at[c] = "blocking" /\ Tally("blocked") /\ Leave(c) /\ locks' = locks
        /\ last' = "blocked" /\ state' = "blocked" /\ idempotency' = Remember(cyc[c].key)
    BY <1>7 DEF RecordBlocked, TallyBlocked
  <2>2. /\ counters' \in Counters /\ OneCounted(c)'
    <3>1. at'[c] = "none"
      BY <1>0, <2>1 DEF Leave
    <3> QED  BY <1>0, <1>1, <2>1, <3>1, TallyType
  <2>3. locks' = {} /\ ~Misleading
    BY <1>1, <2>1
  <2> QED
    BY <1>0, <1>3, <1>5, <2>1, <2>2, <2>3, RememberType
       DEF RuntimeTypeOK, Outcomes, RuntimeStates
<1>8. CASE CycleFails(c)
  <2>1. /\ at[c] = "failing" /\ Tally("failed") /\ Unlock(c) /\ Leave(c)
        /\ state' = (IF Legal(state, "failed") THEN "failed" ELSE state)
        /\ UNCHANGED <<idempotency, last>>
    BY <1>8 DEF CycleFails
  <2>2. /\ counters' \in Counters /\ OneCounted(c)'
    <3>1. at'[c] = "none"
      BY <1>0, <2>1 DEF Leave
    <3> QED  BY <1>0, <1>1, <2>1, <3>1, TallyType
  <2>3. state' \in DeadEnds /\ state' \in RuntimeStates
    BY <1>0, <2>1, DeadEndsStay DEF RuntimeTypeOK, DeadEnds, RuntimeStates
  <2> QED
    BY <1>0, <1>4, <1>5, <2>1, <2>2, <2>3 DEF RuntimeTypeOK
<1>9. CASE RecordThrows(c) \/ (RecordBlocked(c) /\ ~Legal(state, "blocked"))
  <2>1. /\ at[c] \in {"recording", "blocking"} /\ Goto(c, "failing") /\ at'[c] = "failing"
        /\ UNCHANGED <<active, cyc, plan, outcome, locks, idempotency, last>>
        /\ \/ UNCHANGED <<state, counters>>
           \/ at[c] = "blocking" /\ state' = "blocked" /\ Tally("blocked")
    BY <1>0, <1>9 DEF RecordThrows, RecordBlocked, TallyBlocked
  <2>2. counters' \in Counters /\ OneCounted(c)'
    BY <1>0, <1>1, <2>1, TallyType DEF RuntimeTypeOK
  <2>3. RuntimeTypeOK'
    BY <1>0, <1>2, <2>1, <2>2 DEF RuntimeTypeOK, RuntimeStates
  <2>4. OneInv(c)'
    BY <1>0, <1>1, <2>1, <2>2, Still
  <2> QED  BY <1>0, <1>2, <2>1, <2>3, <2>4, OwnStepSuffices
<1> QED  BY <1>6, <1>7, <1>8, <1>9

-----------------------------------------------------------------------------
(* The theorems. *)

LEMMA RuntimeStarts == RuntimeInit => RuntimeInv
<1> SUFFICES ASSUME RuntimeInit PROVE RuntimeInv
  OBVIOUS
<1>1. BoundaryInv
  BY TypeInit, BoundsAssumption
     DEF RuntimeInit, Init, BoundaryInv, JoinerWaits, HeldInv, HolderIsRecorded, HeldIsLive,
         Holding, CacheIsBounded, DenialInv, Owner
<1>2. RuntimeTypeOK
  BY CyclesAssumption
     DEF RuntimeInit, RuntimeTypeOK, RuntimeStates, CyclePoints, Outcomes, Counters
<1>3. \A c \in Callers : CycleSound(c) /\ AnswerBacked(c)
  BY DEF RuntimeInit, Init, CycleSound, AnswerBacked, Busy
<1>4. LockInv /\ CountInv /\ DeadEndInv
  BY DEF RuntimeInit, Init, LockInv, CountInv, DeadEndInv, Misleading
<1> QED  BY <1>1, <1>2, <1>3, <1>4 DEF RuntimeInv

LEMMA RuntimeStep ==
    ASSUME RuntimeInv, [RuntimeNext]_allVars
    PROVE  RuntimeInv'
<1>1. ASSUME NEW c \in Callers, CycleStep(c)
      PROVE  RuntimeInv'
  BY <1>1, EarlyMoves, SimulateMoves, CallMoves, AnswerMoves, VerifyMoves, EndMoves
     DEF CycleStep
<1>2. CASE UNCHANGED allVars
  <2>1. UNCHANGED vars /\ UNCHANGED cycleVars
    BY <1>2 DEF allVars
  <2>2. BoundaryInv' /\ RuntimeTypeOK'
    BY <2>1, BoundaryStep DEF RuntimeInv, cycleVars, RuntimeTypeOK
  <2>3. \A c \in Callers : CycleSound(c)' /\ AnswerBacked(c)'
    BY <2>1, Still DEF RuntimeInv, cycleVars, CycleSound, AnswerBacked
  <2>4. LockInv' /\ CountInv' /\ DeadEndInv'
    BY <2>1 DEF RuntimeInv, cycleVars, LockInv, CountInv, DeadEndInv, Misleading, vars
  <2> QED  BY <2>2, <2>3, <2>4 DEF RuntimeInv
<1> QED  BY <1>1, <1>2, StartMoves, RunMoves, EnvironmentMoves DEF RuntimeNext

LEMMA RuntimeInductive == RuntimeSpec => []RuntimeInv
BY RuntimeStarts, RuntimeStep, PTL DEF RuntimeSpec

\* Cycles do not overlap, for any number of callers, cycles, plans and cached keys:
\* one mutation of a runtime at a time, rollback included, and whatever way
\* cycle() ends nothing is held or under way between two of them.
THEOREM CyclesStaySeparate == RuntimeSpec => []CyclesAreSeparate
<1>1. RuntimeInv => OneRunAtATime
  BY DEF RuntimeInv, CycleSound, OneRunAtATime
<1>2. RuntimeInv => IdleMeansQuiet
  <2> SUFFICES ASSUME RuntimeInv, active = None
               PROVE  /\ \A c \in Callers : at[c] = "none" /\ ~Busy(c)
                      /\ \A r \in Resources : held[r] = None
                      /\ locks = {}
    BY DEF IdleMeansQuiet
  <2>1. \A c \in Callers : at[c] = "none" /\ ~Busy(c)
    BY SetsAssumption DEF RuntimeInv, CycleSound
  <2>2. \A r \in Resources : held[r] = None
    <3>1. held \in [Resources -> Callers \cup {None}] /\ HeldIsLive
      BY DEF RuntimeInv, BoundaryInv, TypeOK, HeldInv
    <3> QED  BY <2>1, <3>1 DEF HeldIsLive, Busy, Holding
  <2>3. locks = {}
    BY <2>1 DEF RuntimeInv, LockInv
  <2> QED  BY <2>1, <2>2, <2>3
<1>3. RuntimeInv => CyclesAreSeparate
  BY <1>1, <1>2 DEF RuntimeInv, CyclesAreSeparate
<1> QED  BY <1>3, RuntimeInductive, PTL

\* A recorded success is backed by a commit of the boundary, although the boundary
\* replays any cached outcome as one: the state machine lets no cycle get that far
\* once an execution that was not committed is in the cache.
THEOREM SuccessIsBacked == RuntimeSpec => []SuccessWasCommitted
<1>1. RuntimeInv => SuccessWasCommitted
  BY DEF RuntimeInv, AnswerBacked, Backed, SuccessWasCommitted
<1> QED  BY <1>1, RuntimeInductive, PTL

\* To the boundary the runtime is one of the callers its specification allows: every
\* step of the composition is a step of the boundary or leaves it alone.  So whatever
\* is proved of the boundary holds inside the runtime.
THEOREM RuntimeUsesTheBoundary == RuntimeSpec => Spec
<1>1. RuntimeInit => Init
  BY DEF RuntimeInit
<1>2. RuntimeInv /\ [RuntimeNext]_allVars => [Next]_vars
  <2> SUFFICES ASSUME RuntimeInv, [RuntimeNext]_allVars
               PROVE  [Next]_vars
    OBVIOUS
  <2>1. ASSUME NEW c \in Callers, CycleStep(c), ~CallBoundary(c)
        PROVE  UNCHANGED vars
    BY <2>1 DEF CycleStep, Advance, Decide, ValidationBlocks, Simulate, MutationBlocked,
       MutationFailed, MutationRecovered, MutationCommitted, VerifyCycle, RecoverCycle,
       Record, RecordBlocked, CycleThrows, RecordThrows, CycleFails
  <2>2. ASSUME NEW c \in Callers, CallBoundary(c)
        PROVE  Next
    BY <2>2, CallIsMutate DEF Next
  <2>3. ASSUME NEW c \in Callers, NEW k, NEW m, CycleStart(c, k, m)
        PROVE  UNCHANGED vars
    BY <2>3 DEF CycleStart
  <2> QED
    BY <2>1, <2>2, <2>3 DEF RuntimeNext, Next, allVars
<1> QED  BY <1>1, <1>2, RuntimeInductive, PTL DEF RuntimeSpec, Spec
=============================================================================
