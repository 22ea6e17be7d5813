------------------------ MODULE FailoverEngineProofs ------------------------
(***************************************************************************)
(* Proofs about the failover engine, for every set of recoveries, failure  *)
(* domains and components and every budget.                                *)
(***************************************************************************)
EXTENDS FailoverEngine, SequenceTheorems, TLAPS

-----------------------------------------------------------------------------
(* The inductive invariant. *)

\* A recovery under way knows what it recovers.
Aimed(x) == x.pc # "idle" => x.domain \in Domains /\ x.component \in Components

\* Where a recovery stands in its plan: the steps before the current one have
\* succeeded, and every perform() was that of an earlier step or a retry.
Placed(x) ==
    /\ Len(x.status) = Len(x.actions)
    /\ x.retries <= MaxRetries
    /\ x.performed <= Len(x.actions) + x.retries
    /\ x.pc \in {"idle", "candidates"} => x.performed = 0 /\ x.retries = 0
    /\ x.pc \in {"step", "retry"} =>
          /\ x.at \in 1..Len(x.actions)
          /\ x.performed < x.at + x.retries
          /\ \A i \in 1..(x.at - 1) : x.status[i] = "succeeded"
    /\ x.pc = "validating" =>
          \A i \in 1..Len(x.status) : x.status[i] = "succeeded"

\* Only a recovery that is over has an outcome, and the outcome is earned.
Reported(x) ==
    /\ x.pc # "over" => x.outcome = "none" /\ x.recorded = "none"
    /\ x.outcome = "success" =>
          /\ x.validated
          /\ \A i \in 1..Len(x.status) : x.status[i] = "succeeded"
    /\ x.recorded = "rolled-back" =>
          \A i \in 1..Len(x.status) : x.status[i] # "succeeded"
    /\ x.outcome = "illegal" => x.disturbed \/ (x.input = "detected" /\ x.actions = <<>>)

\* The engine's state is the one an undisturbed recovery put it in.
Mine(x, s) ==
    ~x.disturbed =>
       /\ x.pc = "candidates" => s = "planning"
       /\ x.pc \in {"step", "retry"} => s = "executing"
       /\ x.pc = "validating" => s = "validating"
       /\ x.pc = "rollback" => s = "rolling-back"

Sound(x, s) == Aimed(x) /\ Placed(x) /\ Reported(x) /\ Mine(x, s)

EngineInv ==
    /\ TypeOK
    /\ LocksMatchExecutions
    /\ \A r \in Recoveries : Sound(run[r], state)

-----------------------------------------------------------------------------
(* The step of one recovery, seen from the others. *)

Active(x) == x.pc \in {"step", "retry", "validating"}

\* Recovery r becomes `new`.  Unless the state stays where it is, the others
\* are told; the lock goes with r's execution.
Becomes(r, new) ==
    /\ new \in Run
    /\ Sound(new, state')
    /\ state' \in RecoveryStates
    /\ \/ run' = [run EXCEPT ![r] = new] /\ state' = state
       \/ Moves(r, new)
    /\ \/ locks' = locks /\ ~Executing(r) /\ ~Active(new)
       \/ locks' = locks /\ Executing(r) /\ Active(new) /\ new.domain = run[r].domain
       \/ locks' = locks \ {run[r].domain} /\ Executing(r) /\ ~Active(new)
       \/ /\ locks' = locks \cup {new.domain} /\ ~Executing(r) /\ Active(new)
          /\ new.domain \notin locks

\* What another recovery sees of it: its record is as it was, or disturbed.
LEMMA OthersKept ==
    ASSUME TypeOK, NEW r \in Recoveries, NEW new, Becomes(r, new)
    PROVE  /\ run' \in [Recoveries -> Run]
           /\ run'[r] = new
           /\ \A q \in Recoveries \ {r} :
                 \/ run'[q] = run[q] /\ (Pending(q) => state' = state)
                 \/ run'[q] = [run[q] EXCEPT !.disturbed = TRUE]
<1>1. \A q \in Recoveries : [run[q] EXCEPT !.disturbed = TRUE] \in Run
  <2>1. \A q \in Recoveries : run[q] \in Run
    BY DEF TypeOK
  <2>2. \A x \in Run : [x EXCEPT !.disturbed = TRUE] \in Run
    BY DEF Run
  <2> QED  BY <2>1, <2>2, Zenon
<1>2. CASE run' = [run EXCEPT ![r] = new] /\ state' = state
  BY <1>2 DEF TypeOK, Becomes
<1>3. CASE Moves(r, new)
  <2>1. run' = [q \in Recoveries |->
                  IF q # r /\ Pending(q) THEN [run[q] EXCEPT !.disturbed = TRUE]
                  ELSE IF q = r THEN new ELSE run[q]]
    BY <1>3 DEF TypeOK, Moves, Disturb
  <2> HIDE DEF Run
  <2>2. new \in Run /\ \A q \in Recoveries : run[q] \in Run
    BY DEF TypeOK, Becomes
  <2> QED  BY <1>1, <2>1, <2>2
<1> QED  BY <1>2, <1>3 DEF Becomes

\* A disturbed recovery is as sound as it was, whatever the state is now.
LEMMA DisturbedSound ==
    ASSUME NEW x \in Run, NEW s, NEW t, Sound(x, s)
    PROVE  Sound([x EXCEPT !.disturbed = TRUE], t)
<1> DEFINE y == [x EXCEPT !.disturbed = TRUE]
<1>1. /\ y.pc = x.pc /\ y.domain = x.domain /\ y.component = x.component
      /\ y.actions = x.actions /\ y.status = x.status /\ y.at = x.at
      /\ y.retries = x.retries /\ y.performed = x.performed
      /\ y.recorded = x.recorded /\ y.outcome = x.outcome /\ y.input = x.input
      /\ y.validated = x.validated /\ y.disturbed
  BY DEF Run
<1> HIDE DEF y
<1>2. Aimed(y) /\ Placed(y)
  BY <1>1 DEF Sound, Aimed, Placed
<1>3. Reported(y) /\ Mine(y, t)
  BY <1>1 DEF Sound, Reported, Mine
<1>4. Sound(y, t)
  BY <1>2, <1>3 DEF Sound
<1> QED  BY <1>4 DEF y

\* A recovery that is not pending does not look at the state.
LEMMA SettledSound ==
    ASSUME NEW x \in Run, NEW s, NEW t, Sound(x, s), x.pc \in {"idle", "over"}
    PROVE  Sound(x, t)
BY DEF Sound, Mine

LEMMA BecomesSound ==
    ASSUME EngineInv, NEW r \in Recoveries, NEW new, Becomes(r, new)
    PROVE  \A q \in Recoveries : Sound(run[q], state)'
<1> SUFFICES ASSUME NEW q \in Recoveries PROVE Sound(run'[q], state')
  OBVIOUS
<1> HIDE DEF Run
<1>1. run[q] \in Run /\ Sound(run[q], state)
  BY DEF EngineInv, TypeOK
<1>2. CASE q = r
  BY <1>2, OthersKept DEF Becomes, EngineInv
<1>3. CASE q # r
  <2>1. CASE run'[q] = [run[q] EXCEPT !.disturbed = TRUE]
    BY <1>1, <2>1, DisturbedSound
  <2>2. CASE run'[q] = run[q] /\ (Pending(q) => state' = state)
    <3>1. CASE Pending(q)
      BY <1>1, <2>2, <3>1
    <3>2. CASE ~Pending(q)
      BY <1>1, <2>2, <3>2, SettledSound DEF Pending
    <3> QED  BY <3>1, <3>2
  <2> QED  BY <1>3, <2>1, <2>2, OthersKept DEF EngineInv
<1> QED  BY <1>2, <1>3

LEMMA BecomesLocks ==
    ASSUME EngineInv, NEW r \in Recoveries, NEW new, Becomes(r, new)
    PROVE  LocksMatchExecutions'
<1>1. /\ Executing(r)' <=> Active(new)
      /\ run'[r] = new
  BY OthersKept DEF EngineInv, Executing, Active
<1>2. \A q \in Recoveries \ {r} :
         run'[q].domain = run[q].domain /\ (Executing(q)' <=> Executing(q))
  <2> SUFFICES ASSUME NEW q \in Recoveries \ {r}
               PROVE  run'[q].domain = run[q].domain /\ run'[q].pc = run[q].pc
    BY DEF Executing
  <2>1. run'[q] = run[q] \/ run'[q] = [run[q] EXCEPT !.disturbed = TRUE]
    BY OthersKept DEF EngineInv
  <2>2. run[q] \in Run
    BY DEF EngineInv, TypeOK
  <2> QED  BY <2>1, <2>2 DEF Run
<1>3. \A q \in Recoveries : Executing(q) => run[q].domain \in locks
  BY DEF EngineInv, LocksMatchExecutions
<1>4. \A d \in locks : \E q \in Recoveries : Executing(q) /\ run[q].domain = d
  BY DEF EngineInv, LocksMatchExecutions
<1>5. \A q, p \in Recoveries :
         Executing(q) /\ Executing(p) /\ run[q].domain = run[p].domain => q = p
  BY DEF EngineInv, LocksMatchExecutions
<1>6. /\ \A d \in locks' : \E q \in Recoveries : Executing(q)' /\ run'[q].domain = d
      /\ \A q \in Recoveries : Executing(q)' => run'[q].domain \in locks'
      /\ \A q, p \in Recoveries :
            Executing(q)' /\ Executing(p)' /\ run'[q].domain = run'[p].domain => q = p
  <2> HIDE DEF Executing, Active
  <2>1. CASE locks' = locks /\ ~Executing(r) /\ ~Active(new)
    BY <1>1, <1>2, <1>3, <1>4, <1>5, <2>1
  <2>2. CASE locks' = locks /\ Executing(r) /\ Active(new) /\ new.domain = run[r].domain
    BY <1>1, <1>2, <1>3, <1>4, <1>5, <2>2
  <2>3. CASE locks' = locks \ {run[r].domain} /\ Executing(r) /\ ~Active(new)
    BY <1>1, <1>2, <1>3, <1>4, <1>5, <2>3
  <2>4. CASE /\ locks' = locks \cup {new.domain} /\ ~Executing(r) /\ Active(new)
             /\ new.domain \notin locks
    BY <1>1, <1>2, <1>3, <1>4, <1>5, <2>4
  <2> QED  BY <2>1, <2>2, <2>3, <2>4 DEF Becomes
<1>7. locks' = {run'[q].domain : q \in {p \in Recoveries : Executing(p)'}}
  BY <1>6
<1> QED  BY <1>6, <1>7 DEF LocksMatchExecutions

-----------------------------------------------------------------------------
(* The operations of one recovery. *)

\* The rows of the table that an undisturbed recovery walks along.
LEMMA Table ==
    /\ "executing" \in transitions("planning")
    /\ "validating" \in transitions("executing")
    /\ "rolling-back" \in transitions("executing")
    /\ "recovered" \in transitions("validating")
    /\ "rolling-back" \in transitions("validating")
    /\ "cooldown" \in transitions("rolling-back")
BY DEF transitions

\* The answer of perform() changes the step it is about, and no other.
LEMMA AnswerEntered ==
    ASSUME NEW x \in Run, x.pc \in {"step", "retry"}, Placed(x), NEW ok \in BOOLEAN
    PROVE  LET y == Entered(x, ok) IN
           /\ y \in Run
           /\ y.pc = x.pc /\ y.domain = x.domain /\ y.component = x.component
           /\ y.actions = x.actions /\ y.at = x.at /\ y.retries = x.retries
           /\ y.performed = x.performed + 1
           /\ y.recorded = x.recorded /\ y.outcome = x.outcome
           /\ y.validated = x.validated /\ y.disturbed = x.disturbed
           /\ Len(y.status) = Len(x.status)
           /\ ok => y.status[x.at] = "succeeded"
           /\ \A i \in 1..Len(x.status) : i # x.at => y.status[i] = x.status[i]
<1> DEFINE v == IF ok THEN "succeeded" ELSE "failed"
           t == [x.status EXCEPT ![x.at] = v]
           n == x.performed + 1
           y == [x EXCEPT !.performed = n, !.status = t]
<1>1. x.status \in Seq(StepStatus) /\ x.at \in 1..Len(x.status) /\ v \in StepStatus
  BY DEF Run, Placed, StepStatus
<1>2. ok => v = "succeeded"
  OBVIOUS
<1>3. n \in Nat
  BY DEF Run
<1>4. y = Entered(x, ok)
  BY Zenon DEF Entered
<1> HIDE DEF v
<1>5. /\ t \in Seq(StepStatus) /\ Len(t) = Len(x.status)
      /\ \A j \in 1..Len(x.status) : t[j] = IF j = x.at THEN v ELSE x.status[j]
  BY <1>1, ExceptSeq
<1> HIDE DEF t, n
<1>6. /\ y \in Run
      /\ y.pc = x.pc /\ y.domain = x.domain /\ y.component = x.component
      /\ y.actions = x.actions /\ y.at = x.at /\ y.retries = x.retries
      /\ y.performed = n /\ y.status = t
      /\ y.recorded = x.recorded /\ y.outcome = x.outcome
      /\ y.validated = x.validated /\ y.disturbed = x.disturbed
  BY <1>3, <1>5 DEF Run
<1> HIDE DEF y
<1>7. /\ Len(y.status) = Len(x.status)
      /\ ok => y.status[x.at] = "succeeded"
      /\ \A i \in 1..Len(x.status) : i # x.at => y.status[i] = x.status[i]
  BY <1>1, <1>2, <1>5, <1>6
<1>8. n = x.performed + 1
  BY DEF n
<1> QED  BY <1>4, <1>6, <1>7, <1>8

\* A recovery moves on to another control point.
LEMMA PointSet ==
    ASSUME NEW x \in Run, NEW p \in Points
    PROVE  LET y == [x EXCEPT !.pc = p] IN
           /\ y \in Run /\ y.pc = p
           /\ y.domain = x.domain /\ y.component = x.component
           /\ y.actions = x.actions /\ y.status = x.status
           /\ y.at = x.at /\ y.retries = x.retries /\ y.performed = x.performed
           /\ y.recorded = x.recorded /\ y.outcome = x.outcome
           /\ y.validated = x.validated /\ y.disturbed = x.disturbed
BY DEF Run

\* A recovery settles with an outcome.
LEMMA OutcomeSet ==
    ASSUME NEW x \in Run, NEW how \in Outcomes
    PROVE  LET y == [x EXCEPT !.pc = "over", !.outcome = how] IN
           /\ y \in Run /\ y.pc = "over" /\ y.outcome = how
           /\ y.domain = x.domain /\ y.component = x.component
           /\ y.actions = x.actions /\ y.status = x.status
           /\ y.at = x.at /\ y.retries = x.retries /\ y.performed = x.performed
           /\ y.recorded = x.recorded
           /\ y.validated = x.validated /\ y.disturbed = x.disturbed
BY DEF Run, Points

\* A plan under way, or its copy with the last answer: it is about to go on.
Underway(r, y) ==
    /\ y \in Run
    /\ y.domain \in Domains /\ y.component \in Components
    /\ y.domain = run[r].domain /\ y.disturbed = run[r].disturbed
    /\ Len(y.status) = Len(y.actions)
    /\ y.retries <= MaxRetries /\ y.performed <= Len(y.actions) + y.retries
    /\ y.outcome = "none" /\ y.recorded = "none"

\* Settling without success or illegality is always sound.
LEMMA Settled ==
    ASSUME NEW r \in Recoveries, NEW y, Underway(r, y),
           NEW how \in Outcomes \ {"success"}, how = "illegal" => y.disturbed, NEW s
    PROVE  LET z == [y EXCEPT !.pc = "over", !.outcome = how] IN
           z \in Run /\ Sound(z, s) /\ ~Active(z)
<1> DEFINE z == [y EXCEPT !.pc = "over", !.outcome = how]
<1>1. /\ z \in Run /\ z.pc = "over" /\ z.outcome = how
      /\ z.domain = y.domain /\ z.component = y.component
      /\ z.actions = y.actions /\ z.status = y.status
      /\ z.retries = y.retries /\ z.performed = y.performed
      /\ z.recorded = y.recorded /\ z.disturbed = y.disturbed
  <2>1. y \in Run /\ how \in Outcomes
    BY DEF Underway
  <2> HIDE DEF Run, Outcomes
  <2> QED  BY <2>1, OutcomeSet
<1> HIDE DEF z
<1>2. Aimed(z) /\ Placed(z)
  BY <1>1 DEF Underway, Aimed, Placed
<1>3. Reported(z) /\ Mine(z, s) /\ ~Active(z)
  BY <1>1 DEF Underway, Reported, Mine, Active
<1>4. z \in Run /\ Sound(z, s) /\ ~Active(z)
  BY <1>1, <1>2, <1>3 DEF Sound
<1> QED  BY <1>4 DEF z

\* Reaching a control point where no step is being performed.
LEMMA Parked ==
    ASSUME NEW r \in Recoveries, NEW y, Underway(r, y),
           NEW p \in {"rollback", "escalating"}, NEW s,
           p = "rollback" => s = "rolling-back"
    PROVE  LET z == [y EXCEPT !.pc = p] IN z \in Run /\ Sound(z, s) /\ ~Active(z)
<1> DEFINE z == [y EXCEPT !.pc = p]
<1>1. /\ z \in Run /\ z.pc = p /\ z.outcome = "none" /\ z.recorded = "none"
      /\ z.domain = y.domain /\ z.component = y.component
      /\ z.actions = y.actions /\ z.status = y.status
      /\ z.retries = y.retries /\ z.performed = y.performed
  <2>1. y \in Run /\ p \in Points
    BY DEF Underway, Points
  <2> QED  BY <2>1, PointSet DEF Underway
<1> HIDE DEF z
<1>2. Aimed(z) /\ Placed(z)
  BY <1>1 DEF Underway, Aimed, Placed
<1>3. Reported(z) /\ Mine(z, s) /\ ~Active(z)
  BY <1>1 DEF Underway, Reported, Mine, Active
<1>4. z \in Run /\ Sound(z, s) /\ ~Active(z)
  BY <1>1, <1>2, <1>3 DEF Sound
<1> QED  BY <1>4 DEF z

\* Every pending recovery is one under way.
LEMMA PendingUnderway ==
    ASSUME EngineInv, NEW r \in Recoveries, Pending(r)
    PROVE  /\ Underway(r, run[r]) /\ Sound(run[r], state)
           /\ run[r].pc # "idle" /\ run[r].pc # "over"
<1>1. run[r] \in Run /\ Sound(run[r], state)
  BY DEF EngineInv, TypeOK
<1>2. run[r].pc # "idle" /\ run[r].pc # "over"
  BY DEF Pending
<1> HIDE DEF Run
<1> QED  BY <1>1, <1>2 DEF Underway, Sound, Aimed, Placed, Reported

\* So is its copy with the last answer.
LEMMA AnsweredUnderway ==
    ASSUME EngineInv, NEW r \in Recoveries, run[r].pc \in {"step", "retry"},
           NEW ok \in BOOLEAN
    PROVE  LET y == Entered(run[r], ok) IN
           /\ Underway(r, y)
           /\ y.at \in 1..Len(y.actions) /\ y.performed <= y.at + y.retries
           /\ y.at = run[r].at /\ y.retries = run[r].retries /\ y.actions = run[r].actions
           /\ \A i \in 1..(y.at - 1) : y.status[i] = "succeeded"
           /\ ok => \A i \in 1..y.at : y.status[i] = "succeeded"
<1> DEFINE x == run[r]
           y == Entered(x, ok)
<1>1. Underway(r, x) /\ Placed(x) /\ x \in Run
  BY PendingUnderway DEF Pending, Sound, Underway
<1>2. /\ y \in Run
      /\ y.pc = x.pc /\ y.domain = x.domain /\ y.component = x.component
      /\ y.actions = x.actions /\ y.at = x.at /\ y.retries = x.retries
      /\ y.performed = x.performed + 1
      /\ y.recorded = x.recorded /\ y.outcome = x.outcome
      /\ y.validated = x.validated /\ y.disturbed = x.disturbed
      /\ Len(y.status) = Len(x.status)
      /\ ok => y.status[x.at] = "succeeded"
      /\ \A i \in 1..Len(x.status) : i # x.at => y.status[i] = x.status[i]
  BY <1>1, AnswerEntered
<1>3. /\ x.at \in Nat /\ x.retries \in Nat /\ x.performed \in Nat
      /\ Len(x.actions) \in Nat
  BY <1>1 DEF Run
<1>4. /\ x.at \in 1..Len(x.actions) /\ x.performed < x.at + x.retries
      /\ Len(x.status) = Len(x.actions)
      /\ \A i \in 1..(x.at - 1) : x.status[i] = "succeeded"
  BY <1>1 DEF Placed
<1> HIDE DEF x, y
<1>5. y.performed <= y.at + y.retries /\ y.performed <= Len(y.actions) + y.retries
  BY <1>2, <1>3, <1>4
<1>6. /\ \A i \in 1..(y.at - 1) : y.status[i] = "succeeded"
      /\ ok => \A i \in 1..y.at : y.status[i] = "succeeded"
  <2>1. /\ \A i \in 1..(x.at - 1) : i \in 1..Len(x.status) /\ i # x.at
        /\ \A i \in 1..x.at : i = x.at \/ i \in 1..(x.at - 1)
    BY <1>3, <1>4
  <2>2. \A i \in 1..(x.at - 1) : y.status[i] = "succeeded"
    BY <1>2, <1>4, <2>1
  <2> QED  BY <1>2, <2>1, <2>2
<1>7. Underway(r, y)
  BY <1>1, <1>2, <1>4, <1>5 DEF Underway
<1>8. y.at \in 1..Len(y.actions)
  BY <1>2, <1>4
<1> QED  BY <1>2, <1>5, <1>6, <1>7, <1>8 DEF x, y

\* recover() up to the plan.
LEMMA RecoverBecomes ==
    ASSUME EngineInv, NEW r \in Recoveries, NEW d \in Domains, NEW k \in Components,
           NEW input \in Inputs, NEW confident \in BOOLEAN,
           Recover(r, d, k, input, confident)
    PROVE  \E new : Becomes(r, new)
<1> DEFINE new == [NoRun EXCEPT !.input = input, !.domain = d, !.component = k]
           over(how) == [new EXCEPT !.pc = "over", !.outcome = how]
           planned == [new EXCEPT !.pc = "candidates"]
<1>1. NoRun \in Run
  <2>1. <<>> \in Seq(Actions) /\ <<>> \in Seq(StepStatus)
    OBVIOUS
  <2> QED  BY <2>1 DEF NoRun, Run, Points, Outcomes
<1>2. Len(<<>>) = 0 /\ 0 <= MaxRetries
  BY FailoverBounds
<1>3. \A how \in {"undetected", "degraded", "illegal"} : \A s :
         (how = "illegal" => input = "detected") =>
            over(how) \in Run /\ Sound(over(how), s) /\ ~Active(over(how))
  <2> SUFFICES ASSUME NEW how \in {"undetected", "degraded", "illegal"}, NEW s,
                      how = "illegal" => input = "detected"
               PROVE  over(how) \in Run /\ Sound(over(how), s) /\ ~Active(over(how))
    OBVIOUS
  <2>1. over(how) \in Run
    BY <1>1 DEF Run, Points, Outcomes
  <2>2. Sound(over(how), s) /\ ~Active(over(how))
    BY <1>2 DEF NoRun, Sound, Aimed, Placed, Reported, Mine, Active
  <2> QED  BY <2>1, <2>2
<1>4. planned \in Run /\ Sound(planned, "planning") /\ ~Active(planned)
  <2>1. planned \in Run
    BY <1>1 DEF Run, Points
  <2>2. Sound(planned, "planning") /\ ~Active(planned)
    BY <1>2 DEF NoRun, Sound, Aimed, Placed, Reported, Mine, Active
  <2> QED  BY <2>1, <2>2
<1>5. ~Executing(r) /\ locks' = locks /\ state \in RecoveryStates
  BY DEF Recover, Executing, EngineInv, TypeOK
<1>6. \/ state' \in {"idle", "degraded"} /\ Moves(r, over("undetected"))
      \/ state' \in {"idle", "degraded"} /\ Moves(r, over("degraded"))
      \/ state' = "planning" /\ Moves(r, planned)
      \/ /\ run' = [run EXCEPT ![r] = over("illegal")]
         /\ state' = state /\ input = "detected"
  BY DEF Recover, DegradedPlan, FromIdle, ConfirmThrows
<1> HIDE DEF over, planned
<1> QED  BY <1>3, <1>4, <1>5, <1>6 DEF Becomes, RecoveryStates

\* ToRollback, of a plan under way that was executing.
LEMMA ToRollbackBecomes ==
    ASSUME EngineInv, NEW r \in Recoveries, Executing(r), NEW y, Underway(r, y),
           ToRollback(r, y)
    PROVE  \E new : Becomes(r, new)
<1> DEFINE back == [y EXCEPT !.pc = "rollback"]
           bad == [y EXCEPT !.pc = "over", !.outcome = "illegal"]
<1>1. locks' = locks \ {run[r].domain}
  BY DEF ToRollback, Unlock
<1>2. CASE "rolling-back" \in transitions(state)
  <2>1. state' = "rolling-back" /\ Moves(r, back)
    BY <1>2 DEF ToRollback
  <2>2. back \in Run /\ Sound(back, state') /\ ~Active(back)
    BY <2>1, Parked
  <2>3. state' \in RecoveryStates
    BY <2>1 DEF RecoveryStates
  <2> HIDE DEF back
  <2> QED  BY <1>1, <2>1, <2>2, <2>3 DEF Becomes
<1>3. CASE "rolling-back" \notin transitions(state)
  <2>1. state' = state /\ run' = [run EXCEPT ![r] = bad]
    BY <1>3 DEF ToRollback
  <2>2. state # "executing" /\ state # "validating"
    BY <1>3, Table
  <2>3. Pending(r) /\ Sound(run[r], state)
    BY DEF EngineInv, Executing, Pending
  <2>4. y.disturbed
    BY <2>2, <2>3 DEF Sound, Mine, Executing, Underway
  <2>5. bad \in Run /\ Sound(bad, state') /\ ~Active(bad)
    BY <2>4, Settled DEF Outcomes
  <2>6. state' \in RecoveryStates
    BY <2>1 DEF EngineInv, TypeOK
  <2> HIDE DEF bad
  <2> QED  BY <1>1, <2>1, <2>5, <2>6 DEF Becomes
<1> QED  BY <1>2, <1>3

\* The loop after a succeeded step, of the plan with that answer in it.
LEMMA StepSucceededBecomes ==
    ASSUME EngineInv, NEW r \in Recoveries, run[r].pc \in {"step", "retry"},
           NEW y, Underway(r, y),
           y.at \in 1..Len(y.actions), y.performed <= y.at + y.retries,
           \A i \in 1..y.at : y.status[i] = "succeeded",
           NEW late \in BOOLEAN, StepSucceeded(r, y, late)
    PROVE  \E new : Becomes(r, new)
<1> DEFINE next == [y EXCEPT !.pc = "step", !.at = y.at + 1]
           stop == [y EXCEPT !.pc = "escalating"]
           check == [y EXCEPT !.pc = "validating"]
           bad == [y EXCEPT !.pc = "over", !.outcome = "illegal"]
<1>2. Executing(r) /\ Pending(r) /\ Sound(run[r], state)
  BY DEF EngineInv, Executing, Pending
<1>3. \/ y.at < Len(y.actions) /\ UNCHANGED <<state, locks>> /\ run' = [run EXCEPT ![r] = next]
      \/ state' = "escalated" /\ Moves(r, stop) /\ locks' = locks \ {run[r].domain}
      \/ /\ ~(y.at < Len(y.actions)) /\ UNCHANGED locks
         /\ state' = "validating" /\ Moves(r, check)
      \/ /\ "validating" \notin transitions(state) /\ locks' = locks \ {run[r].domain}
         /\ run' = [run EXCEPT ![r] = bad] /\ UNCHANGED state
  BY Zenon DEF StepSucceeded, Unlock
<1>4. CASE y.at < Len(y.actions) /\ UNCHANGED <<state, locks>> /\ run' = [run EXCEPT ![r] = next]
  <2>1. y.at \in Nat /\ y.at + 1 \in Nat /\ y.performed \in Nat /\ y.retries \in Nat
    BY DEF Underway, Run
  <2>2. /\ next \in Run /\ next.pc = "step" /\ next.at = y.at + 1
        /\ next.domain = y.domain /\ next.component = y.component
        /\ next.actions = y.actions /\ next.status = y.status
        /\ next.retries = y.retries /\ next.performed = y.performed
        /\ next.recorded = y.recorded /\ next.outcome = y.outcome
        /\ next.disturbed = y.disturbed
    BY <2>1 DEF Underway, Run, Points
  <2> HIDE DEF next
  <2>3. /\ next.at \in 1..Len(next.actions) /\ next.performed < next.at + next.retries
        /\ \A i \in 1..(next.at - 1) : next.status[i] = "succeeded"
    BY <1>4, <2>1, <2>2 DEF Underway
  <2>4. Aimed(next) /\ Placed(next) /\ Reported(next)
    BY <2>2, <2>3 DEF Underway, Aimed, Placed, Reported
  <2>5. Mine(next, state')
    BY <1>2, <1>4, <2>2 DEF Sound, Mine, Underway
  <2>6. state' \in RecoveryStates
    BY <1>4 DEF EngineInv, TypeOK
  <2> QED  BY <1>2, <1>4, <2>2, <2>4, <2>5, <2>6
           DEF Becomes, Sound, Active, Underway
<1>5. CASE state' = "escalated" /\ Moves(r, stop) /\ locks' = locks \ {run[r].domain}
  <2>1. stop \in Run /\ Sound(stop, state') /\ ~Active(stop)
    BY Parked
  <2> HIDE DEF stop
  <2> QED  BY <1>2, <1>5, <2>1 DEF Becomes, RecoveryStates
<1>6. CASE /\ ~(y.at < Len(y.actions)) /\ UNCHANGED locks
           /\ state' = "validating" /\ Moves(r, check)
  <2>1. /\ check \in Run /\ check.pc = "validating"
        /\ check.domain = y.domain /\ check.component = y.component
        /\ check.actions = y.actions /\ check.status = y.status
        /\ check.retries = y.retries /\ check.performed = y.performed
        /\ check.recorded = y.recorded /\ check.outcome = y.outcome
        /\ check.disturbed = y.disturbed
    <3>1. y \in Run /\ "validating" \in Points
      BY DEF Underway, Points
    <3> QED  BY <3>1, PointSet
  <2>2. y.at = Len(y.status)
    BY <1>6 DEF Underway
  <2> HIDE DEF check
  <2>3. Aimed(check) /\ Placed(check) /\ Reported(check) /\ Mine(check, state')
    BY <1>6, <2>1, <2>2 DEF Underway, Aimed, Placed, Reported, Mine
  <2> QED  BY <1>2, <1>6, <2>1, <2>3
           DEF Becomes, Sound, Active, Underway, RecoveryStates
<1>7. CASE /\ "validating" \notin transitions(state) /\ locks' = locks \ {run[r].domain}
           /\ run' = [run EXCEPT ![r] = bad] /\ UNCHANGED state
  <2>1. state # "executing"
    BY <1>7, Table
  <2>2. y.disturbed
    BY <1>2, <2>1 DEF Sound, Mine, Underway
  <2>3. bad \in Run /\ Sound(bad, state') /\ ~Active(bad)
    BY <2>2, Settled DEF Outcomes
  <2>4. state' \in RecoveryStates
    BY <1>7 DEF EngineInv, TypeOK
  <2> HIDE DEF bad
  <2> QED  BY <1>2, <1>7, <2>3, <2>4 DEF Becomes
<1> QED  BY <1>3, <1>4, <1>5, <1>6, <1>7

\* The first perform() of a step: it goes on, is retried, or ends the plan.
LEMMA PerformedBecomes ==
    ASSUME EngineInv, NEW r \in Recoveries, NEW ok \in BOOLEAN, NEW late \in BOOLEAN,
           Performed(r, ok, late)
    PROVE  \E new : Becomes(r, new)
<1> DEFINE y == Entered(run[r], ok)
           again == [y EXCEPT !.pc = "retry", !.retries = y.retries + 1]
<1>1. run[r].pc = "step"
  BY DEF Performed
<1>2. /\ Underway(r, y)
      /\ y.at \in 1..Len(y.actions) /\ y.performed <= y.at + y.retries
      /\ y.at = run[r].at /\ y.retries = run[r].retries /\ y.actions = run[r].actions
      /\ \A i \in 1..(y.at - 1) : y.status[i] = "succeeded"
      /\ ok => \A i \in 1..y.at : y.status[i] = "succeeded"
  BY <1>1, AnsweredUnderway
<1>3. Executing(r) /\ Pending(r) /\ Sound(run[r], state)
  BY <1>1 DEF EngineInv, Executing, Pending
<1>4. \/ ok /\ StepSucceeded(r, y, late)
      \/ /\ ~ok /\ run[r].retries < MaxRetries
         /\ run' = [run EXCEPT ![r] = again] /\ UNCHANGED <<state, locks>>
      \/ ~ok /\ ToRollback(r, y)
  BY Zenon DEF Performed, MayRetry, StepFailed
<1> HIDE DEF y
<1>5. CASE ok /\ StepSucceeded(r, y, late)
  BY <1>1, <1>2, <1>5, StepSucceededBecomes
<1>6. CASE /\ ~ok /\ run[r].retries < MaxRetries
           /\ run' = [run EXCEPT ![r] = again] /\ UNCHANGED <<state, locks>>
  <2>1. /\ y \in Run /\ y.at \in Nat /\ y.performed \in Nat
        /\ y.retries \in Nat /\ y.retries + 1 \in Nat
    BY <1>2 DEF Underway, Run
  <2>2. /\ again \in Run /\ again.pc = "retry" /\ again.retries = y.retries + 1
        /\ again.domain = y.domain /\ again.component = y.component
        /\ again.actions = y.actions /\ again.status = y.status
        /\ again.at = y.at /\ again.performed = y.performed
        /\ again.recorded = y.recorded /\ again.outcome = y.outcome
        /\ again.disturbed = y.disturbed
    BY <2>1 DEF Run, Points
  <2> HIDE DEF again
  <2>3. /\ again.retries <= MaxRetries /\ again.performed < again.at + again.retries
        /\ again.performed <= Len(again.actions) + again.retries
    <3>1. y.performed <= Len(y.actions) + y.retries /\ Len(y.actions) \in Nat
      BY <1>2, <2>1 DEF Underway, Run
    <3>2. y.retries < MaxRetries /\ y.performed <= y.at + y.retries
      BY <1>2, <1>6
    <3>3. y.retries + 1 <= MaxRetries /\ y.performed < y.at + (y.retries + 1)
      BY <2>1, <3>2, FailoverBounds
    <3>4. y.performed <= Len(y.actions) + (y.retries + 1)
      BY <2>1, <3>1
    <3> QED  BY <2>2, <3>3, <3>4, Zenon
  <2>4. Aimed(again) /\ Placed(again) /\ Reported(again)
    BY <1>2, <2>2, <2>3 DEF Underway, Aimed, Placed, Reported
  <2>5. Mine(again, state')
    BY <1>1, <1>2, <1>3, <1>6, <2>2 DEF Sound, Mine, Underway
  <2>6. state' \in RecoveryStates
    BY <1>6 DEF EngineInv, TypeOK
  <2> QED  BY <1>2, <1>3, <1>6, <2>2, <2>4, <2>5, <2>6
           DEF Becomes, Sound, Active, Underway
<1>7. CASE ~ok /\ ToRollback(r, y)
  BY <1>2, <1>3, <1>7, ToRollbackBecomes
<1> QED  BY <1>4, <1>5, <1>6, <1>7

LEMMA RetriedBecomes ==
    ASSUME EngineInv, NEW r \in Recoveries, NEW ok \in BOOLEAN, NEW late \in BOOLEAN,
           Retried(r, ok, late)
    PROVE  \E new : Becomes(r, new)
<1> DEFINE y == Entered(run[r], ok)
<1>1. run[r].pc = "retry"
  BY DEF Retried
<1>2. /\ Underway(r, y)
      /\ y.at \in 1..Len(y.actions) /\ y.performed <= y.at + y.retries
      /\ ok => \A i \in 1..y.at : y.status[i] = "succeeded"
  BY <1>1, AnsweredUnderway
<1>3. Executing(r)
  BY <1>1 DEF Executing
<1>4. \/ ok /\ StepSucceeded(r, y, late)
      \/ ~ok /\ ToRollback(r, y)
  BY Zenon DEF Retried, StepFailed
<1> HIDE DEF y
<1>5. CASE ok /\ StepSucceeded(r, y, late)
  BY <1>1, <1>2, <1>5, StepSucceededBecomes
<1>6. CASE ~ok /\ ToRollback(r, y)
  BY <1>2, <1>3, <1>6, ToRollbackBecomes
<1> QED  BY <1>4, <1>5, <1>6

LEMMA ThrowsBecomes ==
    ASSUME EngineInv, NEW r \in Recoveries, Throws(r)
    PROVE  \E new : Becomes(r, new)
<1> DEFINE x == run[r]
           new == [x EXCEPT !.pc = "over", !.outcome = "threw"]
<1>1. Underway(r, x)
  BY PendingUnderway DEF Throws
<1>2. new \in Run /\ Sound(new, state') /\ ~Active(new)
  BY <1>1, Settled DEF Outcomes
<1>3. run' = [run EXCEPT ![r] = new] /\ state' = state
  BY Zenon DEF Throws, Settles
<1>4. state' \in RecoveryStates
  BY <1>3 DEF EngineInv, TypeOK
<1>5. locks' = IF Executing(r) THEN locks \ {run[r].domain} ELSE locks
  BY DEF Throws, Unlock
<1> HIDE DEF new
<1> QED  BY <1>2, <1>3, <1>4, <1>5 DEF Becomes

LEMMA ValidationPassesBecomes ==
    ASSUME EngineInv, NEW r \in Recoveries, ValidationPasses(r)
    PROVE  \E new : Becomes(r, new)
<1> DEFINE x == run[r]
           won == [x EXCEPT !.pc = "over", !.outcome = "success",
                            !.recorded = "success", !.validated = TRUE]
           bad == [x EXCEPT !.pc = "over", !.outcome = "illegal"]
<1>1. x.pc = "validating" /\ Executing(r) /\ Pending(r)
  BY DEF ValidationPasses, Executing, Pending
<1>2. Underway(r, x) /\ Sound(x, state)
  BY <1>1, PendingUnderway
<1>3. locks' = locks \ {run[r].domain}
  BY DEF ValidationPasses, Unlock
<1>4. \/ state' = "idle" /\ Moves(r, won)
      \/ "recovered" \notin transitions(state) /\ run' = [run EXCEPT ![r] = bad] /\ state' = state
  BY Zenon DEF ValidationPasses, Settles
<1> HIDE DEF x
<1>5. CASE state' = "idle" /\ Moves(r, won)
  <2>1. /\ won \in Run /\ won.pc = "over" /\ won.outcome = "success"
        /\ won.recorded = "success" /\ won.validated
        /\ won.domain = x.domain /\ won.component = x.component
        /\ won.actions = x.actions /\ won.status = x.status
        /\ won.retries = x.retries /\ won.performed = x.performed
    BY <1>2 DEF Underway, Run, Points, Outcomes
  <2> HIDE DEF won
  <2>2. Aimed(won) /\ Placed(won) /\ Reported(won) /\ Mine(won, state')
    BY <1>1, <1>2, <2>1 DEF Underway, Sound, Aimed, Placed, Reported, Mine
  <2> QED  BY <1>1, <1>3, <1>5, <2>1, <2>2 DEF Becomes, Sound, Active, RecoveryStates
<1>6. CASE "recovered" \notin transitions(state) /\ run' = [run EXCEPT ![r] = bad] /\ state' = state
  <2>1. state # "validating"
    BY <1>6, Table
  <2>2. x.disturbed
    BY <1>1, <1>2, <2>1 DEF Sound, Mine
  <2>3. bad \in Run /\ Sound(bad, state') /\ ~Active(bad)
    BY <1>2, <2>2, Settled DEF Outcomes
  <2>4. state' \in RecoveryStates
    BY <1>6 DEF EngineInv, TypeOK
  <2> HIDE DEF bad
  <2> QED  BY <1>1, <1>3, <1>6, <2>3, <2>4 DEF Becomes
<1> QED  BY <1>4, <1>5, <1>6

LEMMA ValidationFailsBecomes ==
    ASSUME EngineInv, NEW r \in Recoveries, ValidationFails(r)
    PROVE  \E new : Becomes(r, new)
<1>1. Executing(r) /\ Pending(r)
  BY DEF ValidationFails, Executing, Pending
<1>2. ToRollback(r, run[r])
  BY DEF ValidationFails
<1> QED  BY <1>1, <1>2, PendingUnderway, ToRollbackBecomes

LEMMA RollbackUnavailableBecomes ==
    ASSUME EngineInv, NEW r \in Recoveries, RollbackUnavailable(r)
    PROVE  \E new : Becomes(r, new)
<1> DEFINE x == run[r]
           new == [x EXCEPT !.pc = "escalating"]
<1>1. Pending(r) /\ ~Executing(r)
  BY DEF RollbackUnavailable, Executing, Pending
<1>2. Underway(r, x)
  BY <1>1, PendingUnderway
<1>3. new \in Run /\ Sound(new, state') /\ ~Active(new)
  BY <1>2, Parked
<1>4. state' = "escalated" /\ Moves(r, new) /\ locks' = locks
  BY DEF RollbackUnavailable
<1> HIDE DEF new
<1> QED  BY <1>1, <1>3, <1>4 DEF Becomes, RecoveryStates

LEMMA EscalatedBecomes ==
    ASSUME EngineInv, NEW r \in Recoveries, Escalated(r)
    PROVE  \E new : Becomes(r, new)
<1> DEFINE x == run[r]
           new == [x EXCEPT !.pc = "over", !.outcome = "escalated",
                            !.recorded = "escalated"]
<1>1. Pending(r) /\ ~Executing(r)
  BY DEF Escalated, Executing, Pending
<1>2. Underway(r, x)
  BY <1>1, PendingUnderway
<1>3. run' = [run EXCEPT ![r] = new] /\ state' = state /\ locks' = locks
  BY Zenon DEF Escalated
<1> HIDE DEF x
<1>4. /\ new \in Run /\ new.pc = "over" /\ new.outcome = "escalated"
      /\ new.recorded = "escalated"
      /\ new.domain = x.domain /\ new.component = x.component
      /\ new.actions = x.actions /\ new.status = x.status
      /\ new.retries = x.retries /\ new.performed = x.performed
  BY <1>2 DEF Underway, Run, Points, Outcomes
<1> HIDE DEF new
<1>5. Aimed(new) /\ Placed(new) /\ Reported(new) /\ Mine(new, state')
  BY <1>2, <1>4 DEF Underway, Aimed, Placed, Reported, Mine
<1>6. state' \in RecoveryStates
  BY <1>3 DEF EngineInv, TypeOK
<1> QED  BY <1>1, <1>3, <1>4, <1>5, <1>6 DEF Becomes, Sound, Active

\* rollback() leaves no step that counts as succeeded.
LEMMA MarkedRolledBack ==
    ASSUME NEW s \in Seq(StepStatus), NEW t,
           t = [i \in DOMAIN s |-> IF s[i] = "succeeded" THEN "rolled-back" ELSE s[i]]
    PROVE  /\ t \in Seq(StepStatus) /\ Len(t) = Len(s)
           /\ \A i \in 1..Len(t) : t[i] # "succeeded"
<1>1. DOMAIN s = 1..Len(s) /\ Len(s) \in Nat
  OBVIOUS
<1>2. \A i \in 1..Len(s) :
         (IF s[i] = "succeeded" THEN "rolled-back" ELSE s[i]) \in StepStatus \ {"succeeded"}
  BY DEF StepStatus
<1>3. t = [i \in 1..Len(s) |-> IF s[i] = "succeeded" THEN "rolled-back" ELSE s[i]]
  BY <1>1, Zenon
<1>4. \A i \in 1..Len(s) : t[i] \in StepStatus \ {"succeeded"}
  BY <1>2, <1>3, Zenon
<1>5. t \in Seq(StepStatus) /\ Len(t) = Len(s)
  BY <1>1, <1>2, <1>3
<1> QED  BY <1>4, <1>5

LEMMA RolledBackBecomes ==
    ASSUME EngineInv, NEW r \in Recoveries, RolledBack(r)
    PROVE  \E new : Becomes(r, new)
<1> DEFINE x == run[r]
           t == [i \in DOMAIN x.status |-> IF x.status[i] = "succeeded"
                                             THEN "rolled-back" ELSE x.status[i]]
           y == [x EXCEPT !.pc = "over", !.recorded = "rolled-back", !.status = t]
           back == [y EXCEPT !.outcome = "rolled-back"]
           bad == [y EXCEPT !.outcome = "illegal"]
<1>1. x.pc = "rollback" /\ Pending(r) /\ ~Executing(r)
  BY DEF RolledBack, Executing, Pending
<1>2. Underway(r, x) /\ Sound(x, state)
  BY <1>1, PendingUnderway
<1>3. \/ state' = "idle" /\ Moves(r, back)
      \/ "cooldown" \notin transitions(state) /\ run' = [run EXCEPT ![r] = bad] /\ state' = state
  BY Zenon DEF RolledBack
<1>4. locks' = locks
  BY DEF RolledBack
<1>5. x.status \in Seq(StepStatus)
  BY <1>2 DEF Underway, Run
<1>6. /\ t \in Seq(StepStatus) /\ Len(t) = Len(x.status)
      /\ \A i \in 1..Len(t) : t[i] # "succeeded"
  BY <1>5, MarkedRolledBack
<1> HIDE DEF x, t
<1>7. /\ y \in Run /\ y.pc = "over" /\ y.recorded = "rolled-back" /\ y.status = t
      /\ y.domain = x.domain /\ y.component = x.component /\ y.actions = x.actions
      /\ y.retries = x.retries /\ y.performed = x.performed
      /\ y.disturbed = x.disturbed
  BY <1>2, <1>6 DEF Underway, Run, Points, Outcomes
<1> HIDE DEF y
<1>8. ASSUME NEW how \in {"rolled-back", "illegal"}, how = "illegal" => x.disturbed, NEW s
      PROVE  LET z == [y EXCEPT !.outcome = how] IN z \in Run /\ Sound(z, s) /\ ~Active(z)
  <2> DEFINE z == [y EXCEPT !.outcome = how]
  <2>1. /\ z \in Run /\ z.pc = "over" /\ z.recorded = "rolled-back" /\ z.status = t
        /\ z.outcome = how /\ z.disturbed = x.disturbed
        /\ z.domain = x.domain /\ z.component = x.component /\ z.actions = x.actions
        /\ z.retries = x.retries /\ z.performed = x.performed
    BY <1>7 DEF Run, Outcomes
  <2> HIDE DEF z
  <2>2. Aimed(z) /\ Placed(z)
    BY <1>2, <1>6, <2>1 DEF Underway, Aimed, Placed
  <2>3. Reported(z) /\ Mine(z, s) /\ ~Active(z)
    BY <1>6, <1>8, <2>1 DEF Reported, Mine, Active
  <2>4. z \in Run /\ Sound(z, s) /\ ~Active(z)
    BY <2>1, <2>2, <2>3 DEF Sound
  <2> QED  BY <2>4 DEF z
<1>9. CASE state' = "idle" /\ Moves(r, back)
  <2>1. back \in Run /\ Sound(back, state') /\ ~Active(back)
    BY <1>8
  <2> HIDE DEF back
  <2> QED  BY <1>1, <1>4, <1>9, <2>1 DEF Becomes, RecoveryStates
<1>10. CASE "cooldown" \notin transitions(state) /\ run' = [run EXCEPT ![r] = bad] /\ state' = state
  <2>1. state # "rolling-back"
    BY <1>10, Table
  <2>2. x.disturbed
    BY <1>1, <1>2, <2>1 DEF Sound, Mine
  <2>3. bad \in Run /\ Sound(bad, state') /\ ~Active(bad)
    BY <1>8, <2>2
  <2>4. state' \in RecoveryStates
    BY <1>10 DEF EngineInv, TypeOK
  <2> HIDE DEF bad
  <2> QED  BY <1>1, <1>4, <1>10, <2>3, <2>4 DEF Becomes
<1> QED  BY <1>3, <1>9, <1>10

\* A plan has at least one step.
LEMMA PlanType ==
    ASSUME NEW r, NEW cooled, NEW actions \in Choices(r, cooled), NEW t,
           t = [i \in DOMAIN actions |-> "pending"]
    PROVE  /\ actions \in Seq(Actions) /\ Len(actions) \in Nat /\ Len(actions) >= 1
           /\ t \in Seq(StepStatus) /\ Len(t) = Len(actions)
<1>1. actions \in {<<"re-probe">>, <<"re-probe", "switch">>,
                   <<"enter-degraded-mode", "escalate">>}
  BY DEF Choices
<1>2. actions \in Seq(Actions) /\ Len(actions) \in Nat /\ Len(actions) >= 1
  <2>1. CASE actions = <<"re-probe">>
    BY <2>1 DEF Actions
  <2>2. CASE actions = <<"re-probe", "switch">>
    BY <2>2 DEF Actions
  <2>3. CASE actions = <<"enter-degraded-mode", "escalate">>
    BY <2>3 DEF Actions
  <2> QED  BY <1>1, <2>1, <2>2, <2>3
<1>3. t = [i \in 1..Len(actions) |-> "pending"]
  BY <1>2
<1>4. t \in Seq(StepStatus) /\ Len(t) = Len(actions)
  BY <1>2, <1>3 DEF StepStatus
<1> QED  BY <1>2, <1>4

LEMMA PlannedBecomes ==
    ASSUME EngineInv, NEW r \in Recoveries, NEW cooled \in SUBSET Components,
           NEW actions \in Choices(r, cooled), Planned(r, actions, cooled)
    PROVE  \E new : Becomes(r, new)
<1> DEFINE x == run[r]
           t == [i \in DOMAIN actions |-> "pending"]
           y == [x EXCEPT !.actions = actions, !.status = t]
           refused(how) == [y EXCEPT !.pc = "over", !.outcome = how]
           stop == [y EXCEPT !.pc = "escalating"]
           go == [y EXCEPT !.pc = "step", !.at = 1]
<1>1. x.pc = "candidates" /\ Pending(r) /\ ~Executing(r)
  BY DEF Planned, Executing, Pending
<1>2. Underway(r, x) /\ Sound(x, state)
  BY <1>1, PendingUnderway
<1>3. \/ run' = [run EXCEPT ![r] = refused("conflict")] /\ UNCHANGED <<state, locks>>
      \/ /\ "executing" \notin transitions(state)
         /\ run' = [run EXCEPT ![r] = refused("illegal")] /\ UNCHANGED <<state, locks>>
      \/ state' = "escalated" /\ Moves(r, stop) /\ UNCHANGED locks
      \/ /\ x.domain \notin locks /\ state' = "executing"
         /\ locks' = locks \cup {x.domain} /\ Moves(r, go)
  BY Zenon DEF Planned, Conflict
<1>4. /\ actions \in Seq(Actions) /\ Len(actions) \in Nat /\ Len(actions) >= 1
      /\ t \in Seq(StepStatus) /\ Len(t) = Len(actions)
  BY PlanType
<1> HIDE DEF x, t
<1>5. /\ y \in Run /\ y.pc = x.pc /\ y.actions = actions /\ y.status = t
      /\ y.domain = x.domain /\ y.component = x.component
      /\ y.retries = x.retries /\ y.performed = x.performed
      /\ y.outcome = x.outcome /\ y.recorded = x.recorded
      /\ y.disturbed = x.disturbed
  BY <1>2, <1>4 DEF Underway, Run
<1>6. x.performed = 0 /\ x.retries = 0
  BY <1>1, <1>2 DEF Sound, Placed
<1> HIDE DEF y
<1>7. Underway(r, y)
  BY <1>2, <1>4, <1>5, <1>6, FailoverBounds DEF Underway
<1>8. CASE run' = [run EXCEPT ![r] = refused("conflict")] /\ UNCHANGED <<state, locks>>
  <2> DEFINE new == refused("conflict")
  <2>1. new \in Run /\ Sound(new, state') /\ ~Active(new)
    BY <1>7, Settled DEF Outcomes
  <2>2. state' \in RecoveryStates
    BY <1>8 DEF EngineInv, TypeOK
  <2>3. run' = [run EXCEPT ![r] = new]
    BY <1>8
  <2> HIDE DEF new
  <2> QED  BY <1>1, <1>8, <2>1, <2>2, <2>3 DEF Becomes
<1>9. CASE /\ "executing" \notin transitions(state)
           /\ run' = [run EXCEPT ![r] = refused("illegal")] /\ UNCHANGED <<state, locks>>
  <2> DEFINE new == refused("illegal")
  <2>1. state # "planning"
    BY <1>9, Table
  <2>2. y.disturbed
    BY <1>1, <1>2, <1>5, <2>1 DEF Sound, Mine
  <2>3. new \in Run /\ Sound(new, state') /\ ~Active(new)
    BY <1>7, <2>2, Settled DEF Outcomes
  <2>4. state' \in RecoveryStates
    BY <1>9 DEF EngineInv, TypeOK
  <2>5. run' = [run EXCEPT ![r] = new]
    BY <1>9
  <2> HIDE DEF new
  <2> QED  BY <1>1, <1>9, <2>3, <2>4, <2>5 DEF Becomes
<1>10. CASE state' = "escalated" /\ Moves(r, stop) /\ UNCHANGED locks
  <2>1. stop \in Run /\ Sound(stop, state') /\ ~Active(stop)
    BY <1>7, Parked
  <2> HIDE DEF stop
  <2> QED  BY <1>1, <1>10, <2>1 DEF Becomes, RecoveryStates
<1>11. CASE /\ x.domain \notin locks /\ state' = "executing"
            /\ locks' = locks \cup {x.domain} /\ Moves(r, go)
  <2>1. /\ go \in Run /\ go.pc = "step" /\ go.at = 1
        /\ go.domain = y.domain /\ go.component = y.component
        /\ go.actions = y.actions /\ go.status = y.status
        /\ go.retries = y.retries /\ go.performed = y.performed
        /\ go.recorded = y.recorded /\ go.outcome = y.outcome
        /\ go.disturbed = y.disturbed
    BY <1>5 DEF Run, Points
  <2> HIDE DEF go
  <2>2. Aimed(go) /\ Reported(go) /\ Mine(go, state')
    BY <1>7, <1>11, <2>1 DEF Underway, Aimed, Reported, Mine
  <2>3. Placed(go)
    <3>1. 1 \in 1..Len(go.actions) /\ 1..(1 - 1) = {}
      BY <1>4, <1>5, <2>1
    <3>2. go.performed < go.at + go.retries
      BY <1>5, <1>6, <2>1
    <3> QED  BY <1>7, <2>1, <3>1, <3>2 DEF Underway, Placed
  <2>4. go \in Run /\ Sound(go, state') /\ Active(go) /\ go.domain = x.domain
    BY <1>5, <2>1, <2>2, <2>3 DEF Sound, Active
  <2> QED  BY <1>1, <1>11, <2>4 DEF Becomes, RecoveryStates
<1> QED  BY <1>3, <1>8, <1>9, <1>10, <1>11

-----------------------------------------------------------------------------
(* The invariant is inductive. *)

LEMMA EngineInit == Init => EngineInv
<1> SUFFICES ASSUME Init PROVE EngineInv
  OBVIOUS
<1>1. NoRun \in Run /\ Sound(NoRun, "idle") /\ NoRun.pc = "idle"
  <2>1. <<>> \in Seq(Actions) /\ <<>> \in Seq(StepStatus) /\ Len(<<>>) = 0
    OBVIOUS
  <2>2. NoRun \in Run
    BY <2>1 DEF NoRun, Run, Points, Outcomes
  <2> QED
    BY <2>1, <2>2, FailoverBounds DEF NoRun, Sound, Aimed, Placed, Reported, Mine
<1> HIDE DEF NoRun, Run
<1>2. \A r \in Recoveries : run[r] = NoRun
  BY DEF Init
<1>3. TypeOK
  <2>1. run \in [Recoveries -> Run]
    BY <1>1 DEF Init
  <2>2. /\ circuit \in [Components -> Circuit]
        /\ \A k \in Components :
              circuit[k].state = "closed" <=> circuit[k].failures < CircuitThreshold
    BY FailoverBounds DEF Init, Circuit
  <2>3. signals \in [Domains \X Components -> 0..DetectionThreshold]
    BY FailoverBounds DEF Init
  <2>4. outside \in 0..MaxDetections
    BY FailoverBounds DEF Init
  <2> QED  BY <2>1, <2>2, <2>3, <2>4 DEF Init, TypeOK, RecoveryStates
<1>4. \A r \in Recoveries : ~Executing(r)
  BY <1>1, <1>2 DEF Executing
<1>5. LocksMatchExecutions
  BY <1>4 DEF Init, LocksMatchExecutions
<1>6. \A r \in Recoveries : Sound(run[r], state)
  BY <1>1, <1>2 DEF Init
<1> QED  BY <1>3, <1>5, <1>6 DEF EngineInv

\* CircuitBreaker.record and the half-open probe keep a circuit's state and its
\* failures in agreement.
LEMMA CircuitKept ==
    ASSUME TypeOK
    PROVE  /\ \A k \in Components, ok \in BOOLEAN :
                 LET c == CircuitRecord(circuit[k], ok) IN
                 c \in Circuit /\ (c.state = "closed" <=> c.failures < CircuitThreshold)
           /\ \A cooled \in SUBSET Components :
                 /\ HalfOpen(cooled) \in [Components -> Circuit]
                 /\ \A k \in Components :
                       LET c == HalfOpen(cooled)[k] IN
                       c.state = "closed" <=> c.failures < CircuitThreshold
<1>1. ASSUME NEW k \in Components
      PROVE  circuit[k] \in Circuit /\ circuit[k].failures \in Nat
             /\ (circuit[k].state = "closed" <=> circuit[k].failures < CircuitThreshold)
  BY DEF TypeOK, Circuit
<1>2. ASSUME NEW k \in Components, NEW ok \in BOOLEAN
      PROVE  LET c == CircuitRecord(circuit[k], ok) IN
             c \in Circuit /\ (c.state = "closed" <=> c.failures < CircuitThreshold)
  BY <1>1, FailoverBounds DEF CircuitRecord, Circuit
<1>3. ASSUME NEW cooled \in SUBSET Components, NEW k \in Components
      PROVE  /\ HalfOpen(cooled)[k] \in Circuit
             /\ HalfOpen(cooled)[k].state = "closed" <=>
                   HalfOpen(cooled)[k].failures < CircuitThreshold
  BY <1>1 DEF HalfOpen, Circuit
<1>4. ASSUME NEW cooled \in SUBSET Components
      PROVE  HalfOpen(cooled) \in [Components -> Circuit]
  BY <1>3 DEF HalfOpen
<1> QED  BY <1>2, <1>3, <1>4

\* What no recovery's record or lock says anything about.
Rest ==
    /\ disabled \in BOOLEAN
    /\ signals \in [Domains \X Components -> 0..DetectionThreshold]
    /\ circuit \in [Components -> Circuit]
    /\ \A k \in Components :
          circuit[k].state = "closed" <=> circuit[k].failures < CircuitThreshold
    /\ outside \in 0..MaxDetections

\* A step of a recovery that leaves the rest in order keeps the invariant.
LEMMA BecomesInv ==
    ASSUME EngineInv, Rest', NEW r \in Recoveries, \E new : Becomes(r, new)
    PROVE  EngineInv'
<1>1. PICK new : Becomes(r, new)
  OBVIOUS
<1> HIDE DEF Run
<1>2. run' \in [Recoveries -> Run] /\ state' \in RecoveryStates
  BY <1>1, OthersKept DEF EngineInv, Becomes
<1>3. LocksMatchExecutions' /\ \A q \in Recoveries : Sound(run[q], state)'
  BY <1>1, BecomesLocks, BecomesSound
<1>4. \A q \in Recoveries : Executing(q)' => run'[q].domain \in Domains
  BY <1>3 DEF Sound, Aimed, Executing
<1>5. locks' \subseteq Domains
  BY <1>3, <1>4 DEF LocksMatchExecutions
<1>6. TypeOK'
  BY <1>2, <1>5 DEF Rest, TypeOK
<1> QED  BY <1>3, <1>6 DEF EngineInv

LEMMA RestOfStep ==
    ASSUME EngineInv, UNCHANGED <<disabled, signals, circuit, outside>>
    PROVE  Rest'
BY DEF EngineInv, TypeOK, Rest

\* A call from outside moves the state under every pending recovery.
LEMMA OutsideInv ==
    ASSUME EngineInv, Rest', state' \in RecoveryStates, locks' = locks,
           \/ run' = Disturb(run, None)
           \/ run' = run /\ state' = state
    PROVE  EngineInv'
<1> HIDE DEF Run
<1>1. \A q \in Recoveries : run[q] \in Run /\ Sound(run[q], state)
  BY DEF EngineInv, TypeOK
<1>2. CASE run' = Disturb(run, None)
  <2>1. \A q \in Recoveries :
           run'[q] = IF Pending(q) THEN [run[q] EXCEPT !.disturbed = TRUE] ELSE run[q]
    BY <1>2, FailoverBounds DEF Disturb
  <2>2. \A q \in Recoveries : [run[q] EXCEPT !.disturbed = TRUE] \in Run
    BY <1>1 DEF Run
  <2>3. run' \in [Recoveries -> Run]
    <3>1. run' = [q \in Recoveries |-> run'[q]]
      BY <1>2 DEF Disturb
    <3> QED  BY <1>1, <2>1, <2>2, <3>1
  <2>4. \A q \in Recoveries : Sound(run'[q], state')
    <3> SUFFICES ASSUME NEW q \in Recoveries PROVE Sound(run'[q], state')
      OBVIOUS
    <3>1. CASE Pending(q)
      <4>1. Sound([run[q] EXCEPT !.disturbed = TRUE], state')
        BY <1>1, DisturbedSound
      <4> QED  BY <2>1, <3>1, <4>1, Zenon
    <3>2. CASE ~Pending(q)
      BY <1>1, <2>1, <3>2, SettledSound DEF Pending
    <3> QED  BY <3>1, <3>2
  <2>5. \A q \in Recoveries :
           run'[q].domain = run[q].domain /\ (Executing(q)' <=> Executing(q))
    <3> SUFFICES ASSUME NEW q \in Recoveries
                 PROVE  run'[q].domain = run[q].domain /\ run'[q].pc = run[q].pc
      BY DEF Executing
    <3> QED  BY <1>1, <2>1 DEF Run
  <2>6. LocksMatchExecutions'
    <3> HIDE DEF Executing
    <3>1. locks' = {run'[q].domain : q \in {p \in Recoveries : Executing(p)'}}
      BY <2>5 DEF EngineInv, LocksMatchExecutions
    <3>2. \A q, p \in Recoveries :
             Executing(q)' /\ Executing(p)' /\ run'[q].domain = run'[p].domain => q = p
      BY <2>5 DEF EngineInv, LocksMatchExecutions
    <3> QED  BY <3>1, <3>2 DEF LocksMatchExecutions
  <2> QED  BY <2>3, <2>4, <2>6 DEF EngineInv, TypeOK, Rest
<1>3. CASE run' = run /\ state' = state
  BY <1>3 DEF EngineInv, TypeOK, Rest, LocksMatchExecutions, Executing
<1> QED  BY <1>2, <1>3

LEMMA ThresholdKept ==
    ASSUME NEW n \in 0..DetectionThreshold
    PROVE  Threshold(n + 1) \in 0..DetectionThreshold /\ n \in 0..DetectionThreshold
BY FailoverBounds DEF Threshold

LEMMA RecoverInv ==
    ASSUME EngineInv, NEW r \in Recoveries, NEW d \in Domains, NEW k \in Components,
           NEW input \in Inputs, NEW confident \in BOOLEAN,
           Recover(r, d, k, input, confident)
    PROVE  EngineInv'
<1> DEFINE kept == IF input = "signal" THEN Threshold(signals[<<d, k>>] + 1)
                                      ELSE signals[<<d, k>>]
<1>1. signals \in [Domains \X Components -> 0..DetectionThreshold]
  BY DEF EngineInv, TypeOK
<1>2. kept \in 0..DetectionThreshold
  BY <1>1, ThresholdKept
<1>3. signals' = [signals EXCEPT ![<<d, k>>] = kept]
  BY DEF Recover
<1> HIDE DEF kept
<1>4. signals' \in [Domains \X Components -> 0..DetectionThreshold]
  BY <1>1, <1>2, <1>3
<1>5. UNCHANGED <<disabled, circuit, outside>>
  BY DEF Recover
<1>6. Rest'
  BY <1>4, <1>5 DEF EngineInv, TypeOK, Rest
<1> QED  BY <1>6, RecoverBecomes, BecomesInv

LEMMA OutsideNext ==
    ASSUME EngineInv,
           \/ \E d \in Domains, k \in Components, healthy \in BOOLEAN : Detect(d, k, healthy)
           \/ Confirm
           \/ \E d \in Domains, k \in Components, bySignal \in BOOLEAN :
                 \E cooled \in SUBSET Components : Simulate(d, k, bySignal, cooled)
           \/ \E b \in BOOLEAN, k \in Components : Override(b, k)
    PROVE  EngineInv'
<1>1. outside < MaxDetections => outside + 1 \in 0..MaxDetections
  BY FailoverBounds DEF EngineInv, TypeOK
<1>2. ASSUME NEW d \in Domains, NEW k \in Components, NEW healthy \in BOOLEAN,
             Detect(d, k, healthy)
      PROVE  EngineInv'
  <2> DEFINE n == IF healthy THEN signals[<<d, k>>] ELSE Threshold(signals[<<d, k>>] + 1)
  <2>1. signals \in [Domains \X Components -> 0..DetectionThreshold]
    BY DEF EngineInv, TypeOK
  <2>2. n \in 0..DetectionThreshold
    BY <2>1, ThresholdKept
  <2>3. signals' = [signals EXCEPT ![<<d, k>>] = n]
    BY <1>2 DEF Detect
  <2> HIDE DEF n
  <2>4. signals' \in [Domains \X Components -> 0..DetectionThreshold]
    BY <2>1, <2>2, <2>3
  <2>5. Rest'
    BY <1>1, <1>2, <2>4 DEF Detect, EngineInv, TypeOK, Rest
  <2>6. /\ state' \in RecoveryStates /\ locks' = locks
        /\ run' = Disturb(run, None)
    BY <1>2 DEF Detect, RecoveryStates
  <2> QED  BY <2>5, <2>6, OutsideInv
<1>3. CASE Confirm
  <2>1. Rest'
    BY <1>3 DEF Confirm, EngineInv, TypeOK, Rest
  <2>2. /\ state' \in RecoveryStates /\ locks' = locks
        /\ run' = Disturb(run, None)
    BY <1>3 DEF Confirm, RecoveryStates
  <2> QED  BY <2>1, <2>2, OutsideInv
<1>4. ASSUME NEW b \in BOOLEAN, NEW k \in Components, Override(b, k)
      PROVE  EngineInv'
  <2>1. /\ circuit' \in [Components -> Circuit]
        /\ \A j \in Components :
              circuit'[j].state = "closed" <=> circuit'[j].failures < CircuitThreshold
    <3> DEFINE reset == [state |-> "closed", failures |-> 0]
    <3>1. reset \in Circuit /\ reset.state = "closed" /\ reset.failures < CircuitThreshold
      BY FailoverBounds DEF Circuit
    <3>2. circuit' = circuit \/ circuit' = [circuit EXCEPT ![k] = reset]
      BY <1>4 DEF Override
    <3> HIDE DEF reset, Circuit
    <3> QED  BY <3>1, <3>2 DEF EngineInv, TypeOK
  <2>2. Rest'
    BY <1>1, <1>4, <2>1 DEF Override, EngineInv, TypeOK, Rest
  <2>3. state' \in RecoveryStates /\ locks' = locks /\ run' = run /\ state' = state
    BY <1>4 DEF Override, EngineInv, TypeOK
  <2> QED  BY <2>2, <2>3, OutsideInv
<1>5. ASSUME NEW d \in Domains, NEW k \in Components, NEW bySignal \in BOOLEAN,
             NEW cooled \in SUBSET Components, Simulate(d, k, bySignal, cooled)
      PROVE  EngineInv'
  <2> DEFINE n == IF bySignal THEN Threshold(signals[<<d, k>>] + 1) ELSE signals[<<d, k>>]
  <2>1. signals \in [Domains \X Components -> 0..DetectionThreshold]
    BY DEF EngineInv, TypeOK
  <2>2. n \in 0..DetectionThreshold
    BY <2>1, ThresholdKept
  <2>3. signals' = [signals EXCEPT ![<<d, k>>] = n]
    BY <1>5 DEF Simulate
  <2> HIDE DEF n
  <2>4. signals' \in [Domains \X Components -> 0..DetectionThreshold]
    BY <2>1, <2>2, <2>3
  <2>5. circuit' = circuit \/ circuit' = HalfOpen(cooled)
    BY <1>5 DEF Simulate
  <2>6. /\ circuit' \in [Components -> Circuit]
        /\ \A j \in Components :
              circuit'[j].state = "closed" <=> circuit'[j].failures < CircuitThreshold
    BY <2>5, CircuitKept DEF EngineInv, TypeOK
  <2>7. outside < MaxDetections /\ outside' = outside + 1 /\ disabled' = disabled
    BY <1>5 DEF Simulate
  <2>8. Rest'
    BY <1>1, <2>4, <2>6, <2>7 DEF EngineInv, TypeOK, Rest
  <2>9. /\ state' \in RecoveryStates /\ locks' = locks
        /\ run' = Disturb(run, None)
    BY <1>5 DEF Simulate, RecoveryStates
  <2> QED  BY <2>8, <2>9, OutsideInv
<1> QED  BY <1>2, <1>3, <1>4, <1>5

LEMMA RecoveryNext ==
    ASSUME EngineInv, NEW r \in Recoveries, Progress(r) \/ Throws(r)
    PROVE  EngineInv'
<1>1. ASSUME NEW cooled \in SUBSET Components, NEW actions \in Choices(r, cooled),
             Planned(r, actions, cooled)
      PROVE  EngineInv'
  <2>1. Rest'
    BY <1>1, CircuitKept DEF Planned, EngineInv, TypeOK, Rest
  <2> QED  BY <1>1, <2>1, PlannedBecomes, BecomesInv
<1>2. ASSUME NEW ok \in BOOLEAN, NEW late \in BOOLEAN, Performed(r, ok, late)
      PROVE  EngineInv'
  <2> DEFINE k == run[r].component
             c == CircuitRecord(circuit[k], ok)
  <2>1. k \in Components
    BY <1>2 DEF Performed, EngineInv, Sound, Aimed
  <2>2. c \in Circuit /\ (c.state = "closed" <=> c.failures < CircuitThreshold)
    BY <2>1, CircuitKept DEF EngineInv
  <2>3. circuit' = [circuit EXCEPT ![k] = c]
    BY <1>2 DEF Performed
  <2>4. UNCHANGED <<disabled, signals, outside>>
    BY <1>2 DEF Performed
  <2> HIDE DEF c, k, Circuit
  <2>5. Rest'
    BY <2>1, <2>2, <2>3, <2>4 DEF EngineInv, TypeOK, Rest
  <2> QED  BY <1>2, <2>5, PerformedBecomes, BecomesInv
<1>3. ASSUME NEW ok \in BOOLEAN, NEW late \in BOOLEAN, Retried(r, ok, late)
      PROVE  EngineInv'
  <2>1. UNCHANGED <<disabled, signals, circuit, outside>>
    BY <1>3 DEF Retried
  <2> QED  BY <1>3, <2>1, RestOfStep, RetriedBecomes, BecomesInv
<1>4. CASE ValidationPasses(r)
  BY <1>4, RestOfStep, ValidationPassesBecomes, BecomesInv DEF ValidationPasses
<1>5. CASE ValidationFails(r)
  BY <1>5, RestOfStep, ValidationFailsBecomes, BecomesInv DEF ValidationFails
<1>6. CASE RolledBack(r)
  BY <1>6, RestOfStep, RolledBackBecomes, BecomesInv DEF RolledBack
<1>7. CASE RollbackUnavailable(r)
  BY <1>7, RestOfStep, RollbackUnavailableBecomes, BecomesInv DEF RollbackUnavailable
<1>8. CASE Escalated(r)
  BY <1>8, RestOfStep, EscalatedBecomes, BecomesInv DEF Escalated
<1>9. CASE Throws(r)
  BY <1>9, RestOfStep, ThrowsBecomes, BecomesInv DEF Throws
<1> QED  BY <1>1, <1>2, <1>3, <1>4, <1>5, <1>6, <1>7, <1>8, <1>9 DEF Progress

LEMMA EngineInductive == EngineInv /\ [Next]_vars => EngineInv'
<1> SUFFICES ASSUME EngineInv, [Next]_vars PROVE EngineInv'
  OBVIOUS
<1>1. CASE \E r \in Recoveries : Progress(r) \/ Throws(r)
  BY <1>1, RecoveryNext
<1>2. CASE \E r \in Recoveries, d \in Domains, k \in Components,
              input \in Inputs, confident \in BOOLEAN : Recover(r, d, k, input, confident)
  BY <1>2, RecoverInv
<1>3. CASE \/ \E d \in Domains, k \in Components, healthy \in BOOLEAN : Detect(d, k, healthy)
           \/ Confirm
           \/ \E d \in Domains, k \in Components, bySignal \in BOOLEAN :
                 \E cooled \in SUBSET Components : Simulate(d, k, bySignal, cooled)
           \/ \E b \in BOOLEAN, k \in Components : Override(b, k)
  BY <1>3, OutsideNext
<1>4. CASE UNCHANGED vars
  <2>1. Rest' /\ run' = run /\ state' = state /\ locks' = locks
    BY <1>4, RestOfStep DEF vars
  <2>2. state' \in RecoveryStates
    BY <2>1 DEF EngineInv, TypeOK
  <2> QED  BY <2>1, <2>2, OutsideInv
<1> QED  BY <1>1, <1>2, <1>3, <1>4 DEF Next

LEMMA EngineAlways == Spec => []EngineInv
BY EngineInit, EngineInductive, PTL DEF Spec

-----------------------------------------------------------------------------
(* The theorems. *)

\* The engine's bookkeeping survives every interleaving of recoveries: each
\* domain is locked exactly while one recovery executes in it, circuits agree
\* with their failures, and a plan performs no more than its steps and retries.
THEOREM BookkeepingIsKept == Spec => []RecoveryInv
<1>1. EngineInv => RecoveryInv
  <2> SUFFICES ASSUME EngineInv PROVE PerformsAreBounded
    BY DEF EngineInv, RecoveryInv
  <2> SUFFICES ASSUME NEW r \in Recoveries
               PROVE  run[r].performed <= Len(run[r].actions) + MaxRetries
    BY DEF PerformsAreBounded
  <2>1. /\ run[r].performed \in Nat /\ run[r].retries \in Nat
        /\ Len(run[r].actions) \in Nat
    BY DEF EngineInv, TypeOK, Run
  <2>2. /\ run[r].performed <= Len(run[r].actions) + run[r].retries
        /\ run[r].retries <= MaxRetries
    BY DEF EngineInv, Sound, Placed
  <2> QED  BY <2>1, <2>2, FailoverBounds
<1> QED  BY <1>1, EngineAlways, PTL

\* The transition table never stops a recovery that had the engine to itself,
\* whatever state the recoveries, detections, confirmations and simulations
\* before it left, but for the confirmation of a failure detected before.
THEOREM AloneNeverIllegal == Spec => []AloneIsLegal
<1>1. EngineInv => AloneIsLegal
  BY DEF EngineInv, Sound, Reported, AloneIsLegal, RefusedUnconfirmed
<1> QED  BY <1>1, EngineAlways, PTL

\* recover() reports success only of a validated plan whose steps all
\* succeeded, and records a rollback only of one with no succeeded step left.
THEOREM ReportsAreHonest == Spec => []OutcomeIsHonest
<1>1. EngineInv => OutcomeIsHonest
  <2> SUFFICES ASSUME EngineInv, NEW r \in Recoveries
               PROVE  /\ run[r].outcome = "success" =>
                            /\ run[r].validated
                            /\ \A i \in DOMAIN run[r].status : run[r].status[i] = "succeeded"
                      /\ run[r].recorded = "rolled-back" =>
                            \A i \in DOMAIN run[r].status : run[r].status[i] # "succeeded"
    BY DEF OutcomeIsHonest
  <2>1. DOMAIN run[r].status = 1..Len(run[r].status)
    BY DEF EngineInv, TypeOK, Run
  <2>2. Reported(run[r])
    BY DEF EngineInv, Sound
  <2> QED  BY <2>1, <2>2 DEF Reported
<1> QED  BY <1>1, EngineAlways, PTL
=============================================================================
