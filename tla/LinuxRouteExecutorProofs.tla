---------------------- MODULE LinuxRouteExecutorProofs ----------------------
(***************************************************************************)
(* Proofs about the route executor and its journal, for every finite set   *)
(* of plans, all targets, next hops and metrics, and any number of crashes.*)
(* No hypothesis beyond those on the constants: a target whose journal may *)
(* not lead back is in tainted, and the parts of the invariant that fail   *)
(* there are stated of the other targets.                                  *)
(***************************************************************************)
EXTENDS LinuxRouteExecutor, FiniteSetTheorems, TLAPS

-----------------------------------------------------------------------------
(* The inductive invariant. *)

Applying(p) == journal[p] # None /\ journal[p].state = "applying"
Undo(p) == journal[p].rollbackCommands
Kernel(p) == kernel[Target[p]]
Clean(p) == Target[p] \notin tainted

\* The table p's replace leads to.
After(p, tab) == [tab EXCEPT ![Metric[p]] = Gateway[p]]

EntrySound(p) ==
    journal[p] # None =>
       /\ Undo(p) = rollbackCommandsFor(p, journal[p].snapshot)
       /\ Restorable(journal[p].snapshot)
       /\ Applying(p) /\ Clean(p) => ~Ambiguous(p, journal[p].snapshot)

\* What is journaled and pending at each point.
PointSound(p) ==
    /\ pc[p] \in {"replacing", "replaced", "applied", "active"} => Applying(p)
    /\ pc[p] \in {"rollingback", "stuck"} => journal[p] # None
    /\ pc[p] \in {"idle", "showing"} => journal[p] = None
    /\ pc[p] = "rollingback" => todo[p] \in {Undo(p), Tail(Undo(p)), <<>>}

\* The table of an unconfirmed plan is the captured one or the one it made of it.
TableSound(p) ==
    Applying(p) /\ Clean(p) =>
       /\ Kernel(p) \in {journal[p].snapshot, After(p, journal[p].snapshot)}
       /\ journal[p].snapshot \in goal[Target[p]]
       /\ pc[p] = "replacing" => Kernel(p) = journal[p].snapshot
       /\ pc[p] = "rollingback" /\ todo[p] = <<>> => Kernel(p) = journal[p].snapshot

\* A command that leads to an acceptable table, or takes a route of another metric.
Lands(cmd, t) == Exec(cmd, kernel[t]) \in goal[t] \/ Strays(cmd, kernel[t])

\* The rollback of a confirmed plan leads from one acceptable table to another.
LateSound(p) ==
    /\ journal[p] # None /\ ~Applying(p) /\ Clean(p)
    /\ pc[p] \in {"rollingback", "stuck"}
    => /\ mode = "running" /\ Len(Undo(p)) <= 1
       /\ pc[p] = "stuck" => Lands(Undo(p)[1], Target[p])
       /\ pc[p] = "rollingback" /\ todo[p] # <<>> => Lands(Head(todo[p]), Target[p])

PlanSound(p) == EntrySound(p) /\ PointSound(p) /\ TableSound(p) /\ LateSound(p)

\* One plan of a target is in progress.
OneAtWork ==
    \A p, q \in Plans : Target[p] = Target[q] /\ InProgress(p) /\ InProgress(q) => p = q

\* One plan of a target is in progress or unconfirmed.
Alone ==
    \A p, q \in Plans :
       /\ Target[p] = Target[q] /\ Clean(p)
       /\ InProgress(p) \/ Applying(p)
       /\ InProgress(q) \/ Applying(q)
       => p = q

\* Outside of service, only the entry being reconciled is in progress.
RecoverySound ==
    /\ mode # "running" =>
          \A p \in Plans : InProgress(p) =>
             /\ mode = "recovering" /\ queue # <<>> /\ p = Head(queue)
             /\ pc[p] = "rollingback" /\ Applying(p)
    /\ mode # "recovering" => queue = <<>>
    /\ \A i, j \in DOMAIN queue : queue[i] = queue[j] => i = j
    /\ \A i \in DOMAIN queue : journal[queue[i]] # None

Settled == \A t \in Targets \ tainted : Unconfirmed(t) = {} => kernel[t] \in goal[t]

RouteInv ==
    /\ TypeOK /\ OneAtWork /\ Alone /\ RecoverySound /\ Settled
    /\ \A p \in Plans : PlanSound(p)

-----------------------------------------------------------------------------
(* Commands and the tables they lead to. *)

LEMMA ExecType ==
    ASSUME NEW cmd \in Command, NEW tab \in Table
    PROVE  Exec(cmd, tab) \in Table
<1>1. cmd.gateway \in Gateways /\ cmd.metric \in Metrics
  BY DEF Command
<1> QED  BY <1>1 DEF Exec, Table

LEMMA FirstOfOne ==
    ASSUME NEW m \in Metrics
    PROVE  First({m}) = m
<1>1. m \in Nat
  BY RouteSets
<1> QED  BY <1>1 DEF First

LEMMA MutationType ==
    ASSUME NEW p \in Plans
    PROVE  /\ Mutation(p, "replace") \in Command /\ Mutation(p, "del") \in Command
           /\ Gateway[p] \in Gateways /\ Metric[p] \in Metrics /\ Target[p] \in Targets
           /\ Gateway[p] # None
  BY RouteSets DEF Mutation, Command

\* The replace of p.
LEMMA ReplaceRunsAfter ==
    ASSUME NEW p \in Plans, NEW tab \in Table
    PROVE  /\ Exec(Mutation(p, "replace"), tab) = After(p, tab)
           /\ After(p, tab) \in Table
  BY MutationType, ExecType DEF Exec, Mutation, After

\* Its delete takes the route of p from the table that has it, and nothing else.
LEMMA DeleteTakesOwn ==
    ASSUME NEW p \in Plans, NEW tab \in Table, ~Ambiguous(p, tab), tab[Metric[p]] = None,
           NEW K \in {tab, After(p, tab)}
    PROVE  Exec(Mutation(p, "del"), K) = tab
<1> DEFINE cmd == Mutation(p, "del")
<1>1. /\ cmd.op = "del" /\ cmd.gateway = Gateway[p] /\ cmd.metric = Metric[p]
      /\ Metric[p] \in Metrics /\ Gateway[p] # None /\ Gateway[p] \in Gateways
  BY MutationType DEF Mutation
<1>2. CASE K = tab
  <2>1. Matches(cmd, tab) = {}
    BY <1>1 DEF Matches, Ambiguous
  <2> QED  BY <1>1, <1>2, <2>1 DEF Exec
<1>3. CASE K = After(p, tab)
  <2>1. /\ K \in Table /\ K[Metric[p]] = Gateway[p]
        /\ \A m \in Metrics \ {Metric[p]} : K[m] = tab[m]
    BY <1>1, <1>3, ReplaceRunsAfter DEF After, Table
  <2>2. Metric[p] \in Matches(cmd, K)
    BY <1>1, <2>1 DEF Matches
  <2>3. First(Matches(cmd, K)) = Metric[p]
    <3>1. \A m \in Matches(cmd, K) : m = Metric[p]
      BY <1>1, <2>1 DEF Matches, Ambiguous
    <3>2. Matches(cmd, K) = {Metric[p]}
      BY <2>2, <3>1
    <3>3. First({Metric[p]}) = Metric[p]
      BY <1>1, FirstOfOne
    <3> QED  BY <3>2, <3>3
  <2>4. Exec(cmd, K) = [K EXCEPT ![Metric[p]] = None]
    BY <1>1, <2>2, <2>3 DEF Exec
  <2>5. \A m \in Metrics : [K EXCEPT ![Metric[p]] = None][m] = tab[m]
    BY <1>1, <2>1 DEF Table
  <2> QED  BY <1>1, <2>1, <2>4, <2>5 DEF Table
<1> QED  BY <1>2, <1>3

\* What is journaled is one command, or the restore and the delete; unless the
\* delete is ambiguous, it undoes the replace, from the table before and after it.
LEMMA UndoCommands ==
    ASSUME NEW p \in Plans, NEW tab \in Table, Restorable(tab)
    PROVE  \/ \E c \in Command :
                /\ rollbackCommandsFor(p, tab) = <<c>>
                /\ ~Ambiguous(p, tab) =>
                      \A K \in {tab, After(p, tab)} : Exec(c, K) = tab
           \/ \E r, d \in Command :
                /\ rollbackCommandsFor(p, tab) = <<r, d>>
                /\ ~Ambiguous(p, tab) =>
                      \A K \in {tab, After(p, tab)} : Exec(r, K) = K /\ Exec(d, K) = tab
<1> DEFINE del == Mutation(p, "del")
<1>1. del \in Command /\ del.op = "del" /\ Metric[p] \in Metrics /\ Gateway[p] \in Gateways
  BY MutationType DEF Mutation
<1>2. CASE Routes(tab) = {}
  <2>1. tab[Metric[p]] = None
    BY <1>1, <1>2 DEF Routes
  <2>2. ~Ambiguous(p, tab) => \A K \in {tab, After(p, tab)} : Exec(del, K) = tab
    BY <2>1, DeleteTakesOwn
  <2> QED  BY <1>1, <1>2, <2>2 DEF rollbackCommandsFor
<1>3. CASE Routes(tab) # {}
  <2>1. PICK m \in Metrics : Routes(tab) = {m}
    BY <1>3 DEF Restorable, Routes
  <2>2. First(Routes(tab)) = m
    BY <2>1, FirstOfOne
  <2> DEFINE restore == [op |-> "replace", gateway |-> tab[m], metric |-> m]
  <2>3. tab[m] \in Gateways
    BY <2>1 DEF Routes, Table
  <2>4. restore \in Command
    BY <2>3 DEF Command
  <2>5. \A T : Exec(restore, T) = [T EXCEPT ![m] = tab[m]]
    BY DEF Exec
  <2>6. CASE m = Metric[p]
    <3>1. \A K \in {tab, After(p, tab)} : Exec(restore, K) = tab
      BY <1>1, <2>5, <2>6 DEF After, Table
    <3>2. rollbackCommandsFor(p, tab) = <<restore>>
      BY <1>3, <2>2, <2>6 DEF rollbackCommandsFor
    <3> QED  BY <2>4, <3>1, <3>2
  <2>7. CASE m # Metric[p]
    <3>1. \A K \in {tab, After(p, tab)} : Exec(restore, K) = K
      BY <1>1, <2>5, <2>7 DEF After, Table
    <3>2. tab[Metric[p]] = None
      BY <1>1, <2>1, <2>7 DEF Routes
    <3>3. ~Ambiguous(p, tab) => \A K \in {tab, After(p, tab)} : Exec(del, K) = tab
      BY <3>2, DeleteTakesOwn
    <3>4. rollbackCommandsFor(p, tab) = <<restore, del>>
      BY <1>3, <2>2, <2>7 DEF rollbackCommandsFor
    <3> QED  BY <1>1, <2>4, <3>1, <3>3, <3>4
  <2> QED  BY <2>6, <2>7
<1> QED  BY <1>2, <1>3

\* A delete takes its own route where that is there.
LEMMA FirstIsOwn ==
    ASSUME NEW cmd \in Command, NEW K \in Table, cmd.metric \in Matches(cmd, K)
    PROVE  First(Matches(cmd, K)) = cmd.metric
<1>1. Matches(cmd, K) \subseteq Nat /\ cmd.metric \in Nat
  BY RouteSets DEF Matches, Command
<1>2. \A n \in Matches(cmd, K) : cmd.metric <= n
  BY <1>1 DEF Matches
<1>3. \A m \in Matches(cmd, K) : m <= cmd.metric /\ cmd.metric <= m => m = cmd.metric
  BY <1>1
<1> QED  BY <1>2, <1>3 DEF First

\* A command that did not stray does nothing more when it is run again, or strays.
LEMMA RunTwice ==
    ASSUME NEW cmd \in Command, NEW K \in Table, ~Strays(cmd, K)
    PROVE  LET L == Exec(cmd, K) IN Exec(cmd, L) = L \/ Strays(cmd, L)
<1> DEFINE L == Exec(cmd, K)
<1>1. /\ cmd.op \in {"replace", "del"} /\ cmd.metric \in Metrics
      /\ cmd.gateway \in Gateways /\ cmd.gateway # None /\ L \in Table
  BY ExecType, RouteSets DEF Command
<1>2. CASE cmd.op = "replace"
  BY <1>1, <1>2 DEF Exec, Table
<1>3. CASE cmd.op = "del" /\ Matches(cmd, K) = {}
  BY <1>3 DEF Exec
<1>4. CASE cmd.op = "del" /\ Matches(cmd, K) # {}
  <2>1. First(Matches(cmd, K)) = cmd.metric
    BY <1>4, FirstIsOwn DEF Strays
  <2>2. L = [K EXCEPT ![cmd.metric] = None]
    BY <1>4, <2>1 DEF Exec
  <2>3. L[cmd.metric] = None
    BY <1>1, <2>2 DEF Table
  <2>4. CASE Matches(cmd, L) = {}
    BY <1>4, <2>4 DEF Exec
  <2>5. CASE Matches(cmd, L) # {}
    <3>1. cmd.metric \notin Matches(cmd, L)
      BY <1>1, <2>3 DEF Matches
    <3> QED  BY <1>4, <2>5, <3>1 DEF Strays
  <2> QED  BY <2>4, <2>5
<1> QED  BY <1>1, <1>2, <1>3, <1>4

-----------------------------------------------------------------------------
(* The step of one plan, seen from the others. *)

\* Nobody else has to do with the target of o, unless it is tainted.
Mine(o) ==
    \A x \in Plans \ {o} : Target[x] = Target[o] =>
       ~InProgress(x) /\ (Applying(x) => Target[o] \in tainted')

\* A step of o stays within its target.
OwnMove(o) ==
    /\ mode' = mode
    /\ \A x \in Plans \ {o} : pc'[x] = pc[x] /\ todo'[x] = todo[x] /\ journal'[x] = journal[x]
    /\ \A t \in Targets \ {Target[o]} :
          kernel'[t] = kernel[t] /\ goal'[t] = goal[t] /\ (t \in tainted' <=> t \in tainted)

\* What it has to see to: its own part, and a table that is acceptable when
\* nothing is unconfirmed.
OwnSound(o) ==
    /\ PlanSound(o)'
    /\ Applying(o)' \/ Kernel(o)' \in goal'[Target[o]] \/ Target[o] \in tainted'

\* A plan in progress has its target for itself.
LEMMA MineAtWork ==
    ASSUME RouteInv, NEW o \in Plans, InProgress(o),
           \/ tainted \subseteq tainted'
           \/ Unconfirmed(Target[o]) \subseteq {o}
    PROVE  Mine(o)
<1>1. SUFFICES ASSUME NEW x \in Plans \ {o}, Target[x] = Target[o]
               PROVE  ~InProgress(x) /\ (Applying(x) => Target[o] \in tainted')
  BY DEF Mine
<1>2. ~InProgress(x)
  BY <1>1 DEF RouteInv, OneAtWork
<1>3. Applying(x) => Target[o] \in tainted /\ x \in Unconfirmed(Target[o])
  BY <1>1 DEF RouteInv, Alone, Clean, Unconfirmed, Applying
<1> QED  BY <1>1, <1>2, <1>3

LEMMA MineIfFree ==
    ASSUME NEW o \in Plans, TargetFree(o), Stacked(o) => Target[o] \in tainted'
    PROVE  Mine(o) /\ (Applying(o) => Target[o] \in tainted')
  BY DEF TargetFree, Mine, Stacked, Unconfirmed, Applying

LEMMA OwnMoveKeeps ==
    ASSUME RouteInv, NEW o \in Plans, Mine(o), OwnMove(o), OwnSound(o), TypeOK',
           RecoverySound'
    PROVE  RouteInv'
<1>1. \A x \in Plans \ {o} : Target[x] = Target[o] =>
         /\ ~InProgress(x)' /\ (Applying(x)' => ~Clean(x)')
  BY DEF Mine, OwnMove, InProgress, Applying, Clean
<1>2. \A x \in Plans \ {o} : (InProgress(x)' <=> InProgress(x)) /\ (Applying(x)' <=> Applying(x))
  BY DEF OwnMove, InProgress, Applying
<1>3. OneAtWork'
  BY <1>1, <1>2 DEF OneAtWork, RouteInv
<1>4. Alone'
  <2>1. SUFFICES ASSUME NEW p \in Plans, NEW q \in Plans, Target[p] = Target[q], Clean(p)',
                        (InProgress(p) \/ Applying(p))', (InProgress(q) \/ Applying(q))'
                 PROVE  p = q
    BY DEF Alone
  <2>2. CASE Target[p] = Target[o]
    BY <1>1, <2>1, <2>2 DEF Clean
  <2>3. CASE Target[p] # Target[o]
    <3>1. Clean(p)
      BY <2>1, <2>3, RouteSets DEF OwnMove, Clean
    <3> QED  BY <1>2, <2>1, <2>3, <3>1 DEF Alone, RouteInv
  <2> QED  BY <2>2, <2>3
<1>5. ASSUME NEW x \in Plans \ {o}
      PROVE  PlanSound(x)'
  <2>1. PlanSound(x) /\ Target[x] \in Targets /\ Target[o] \in Targets
    BY RouteSets DEF RouteInv
  <2>2. pc'[x] = pc[x] /\ todo'[x] = todo[x] /\ journal'[x] = journal[x] /\ mode' = mode
    BY DEF OwnMove
  <2>3. PointSound(x)'
    BY <2>1, <2>2 DEF PlanSound, PointSound, Applying, Undo
  <2>4. CASE Target[x] = Target[o]
    <3>1. ~(Applying(x)' /\ Clean(x)') /\ pc'[x] \notin {"rollingback", "stuck"}
      BY <1>1, <2>4 DEF InProgress
    <3>2. TableSound(x)' /\ LateSound(x)'
      BY <3>1 DEF TableSound, LateSound
    <3>3. EntrySound(x)'
      BY <2>1, <2>2, <3>1 DEF PlanSound, EntrySound, Undo
    <3> QED  BY <2>3, <3>2, <3>3 DEF PlanSound
  <2>5. CASE Target[x] # Target[o]
    <3>1. /\ kernel'[Target[x]] = kernel[Target[x]] /\ goal'[Target[x]] = goal[Target[x]]
          /\ Clean(x)' <=> Clean(x)
      BY <2>1, <2>5 DEF OwnMove, Clean
    <3>2. TableSound(x)'
      BY <2>1, <2>2, <3>1 DEF PlanSound, TableSound, Applying, Kernel, After
    <3>3. LateSound(x)'
      BY <2>1, <2>2, <3>1 DEF PlanSound, LateSound, Lands, Applying, Undo
    <3>4. EntrySound(x)'
      BY <2>1, <2>2, <3>1 DEF PlanSound, EntrySound, Undo, Applying
    <3> QED  BY <2>3, <3>2, <3>3, <3>4 DEF PlanSound
  <2> QED  BY <2>4, <2>5
<1>6. Settled'
  <2>1. SUFFICES ASSUME NEW t \in Targets, t \notin tainted', Unconfirmed(t)' = {}
                 PROVE  kernel'[t] \in goal'[t]
    BY DEF Settled
  <2>2. CASE t = Target[o]
    <3>1. ~Applying(o)'
      BY <2>1, <2>2 DEF Unconfirmed, Applying
    <3> QED  BY <2>1, <2>2, <3>1 DEF OwnSound, Kernel
  <2>3. CASE t # Target[o]
    <3>1. Unconfirmed(t) = {} /\ t \notin tainted
      BY <2>1, <2>3 DEF Unconfirmed, OwnMove
    <3> QED  BY <2>3, <3>1 DEF RouteInv, Settled, OwnMove
  <2> QED  BY <2>2, <2>3
<1> QED  BY <1>3, <1>4, <1>5, <1>6 DEF RouteInv, OwnSound

-----------------------------------------------------------------------------
(* Steps that move only the control point of a plan. *)

\* A plan's type facts in one place.
LEMMA PlanType ==
    ASSUME TypeOK, NEW p \in Plans
    PROVE  /\ Target[p] \in Targets /\ Kernel(p) \in Table
           /\ goal[Target[p]] \subseteq Table /\ goal[Target[p]] # {}
           /\ todo[p] \in Seq(Command) /\ pc[p] \in PlanPoints
           /\ journal[p] # None => /\ journal[p] \in Entry /\ Undo(p) \in Seq(Command)
                                   /\ journal[p].snapshot \in Table
  BY RouteSets DEF TypeOK, Kernel, Undo, Entry

\* Where nobody else has to do with a target, its table is the last acceptable one.
LEMMA SettledIfMine ==
    ASSUME RouteInv, NEW o \in Plans, Mine(o), ~Applying(o), tainted \subseteq tainted'
    PROVE  Kernel(o) \in goal[Target[o]] \/ Target[o] \in tainted'
<1>1. SUFFICES ASSUME Target[o] \notin tainted'
               PROVE  Kernel(o) \in goal[Target[o]]
  OBVIOUS
<1>2. Unconfirmed(Target[o]) = {} /\ Target[o] \notin tainted
  BY <1>1 DEF Mine, Unconfirmed, Applying
<1> QED  BY <1>2, RouteSets DEF RouteInv, Settled, Kernel

\* In service there is no queue, so nothing can disturb the recovery's part.
LEMMA ServingKeepsRecovery ==
    ASSUME RouteInv, mode = "running", mode' = mode, queue' = queue
    PROVE  RecoverySound'
<1>1. queue' = <<>>
  BY DEF RouteInv, RecoverySound
<1> QED  BY <1>1 DEF RecoverySound

\* Only the target of o may become tainted.
MayTaint(o) == tainted' \in {tainted, tainted \cup {Target[o]}}

LEMMA PointMoves ==
    ASSUME RouteInv, NEW o \in Plans, Mine(o), mode = "running", MayTaint(o),
           UNCHANGED <<kernel, journal, todo, mode, queue, goal, crashes>>,
           NEW v \in {"showing", "done", "replaced", "applied", "active", "abandoned"},
           pc' = [pc EXCEPT ![o] = v],
           v = "showing" => pc[o] \in {"idle", "showing"},
           v \in {"replaced", "applied", "active"} => Applying(o)
    PROVE  RouteInv'
<1>1. TypeOK'
  BY RouteSets DEF RouteInv, TypeOK, PlanPoints, MayTaint
<1>2. pc'[o] = v /\ \A x \in Plans \ {o} : pc'[x] = pc[x]
  BY DEF RouteInv, TypeOK
<1>3. OwnMove(o)
  BY <1>2 DEF OwnMove, MayTaint
<1>4. PlanSound(o) /\ (Clean(o)' => Clean(o)) /\ tainted \subseteq tainted'
  BY DEF RouteInv, MayTaint, Clean
<1>5. EntrySound(o)' /\ TableSound(o)' /\ LateSound(o)'
  <2>1. EntrySound(o)'
    BY <1>4 DEF PlanSound, EntrySound, Applying, Undo
  <2>2. TableSound(o)'
    BY <1>2, <1>4 DEF PlanSound, TableSound, Applying, Kernel, After
  <2>3. LateSound(o)'
    BY <1>2 DEF LateSound
  <2> QED  BY <2>1, <2>2, <2>3
<1>6. PointSound(o)'
  BY <1>2, <1>4 DEF PlanSound, PointSound, Applying
<1>7. Applying(o)' \/ Kernel(o)' \in goal'[Target[o]] \/ Target[o] \in tainted'
  BY <1>4, SettledIfMine DEF Applying, Kernel
<1>8. OwnSound(o)
  BY <1>5, <1>6, <1>7 DEF OwnSound, PlanSound
<1> QED  BY <1>1, <1>3, <1>8, OwnMoveKeeps, ServingKeepsRecovery

LEMMA PointSteps ==
    ASSUME RouteInv, NEW o \in Plans,
           \/ ApplyStart(o) \/ SnapshotFails(o) \/ ReplaceSucceeds(o)
           \/ ProvidersVerify(o) \/ Abandon(o) \/ RollbackAbandoned(o)
    PROVE  RouteInv'
<1>1. PointSound(o)
  BY DEF RouteInv, PlanSound
<1>2. CASE ApplyStart(o)
  <2>1. Mine(o) /\ MayTaint(o)
    BY <1>2, MineIfFree DEF ApplyStart, Taints, MayTaint
  <2> QED  BY <1>2, <2>1, PointMoves DEF ApplyStart
<1>3. ASSUME UNCHANGED tainted, InProgress(o)
      PROVE  Mine(o) /\ MayTaint(o)
  BY <1>3, MineAtWork DEF MayTaint
<1>4. CASE SnapshotFails(o)
  <2>1. Mine(o) /\ MayTaint(o)
    BY <1>3, <1>4 DEF SnapshotFails, InProgress
  <2>2. PICK v \in {"showing", "done"} : pc' = [pc EXCEPT ![o] = v]
    BY <1>4 DEF SnapshotFails, Rejects
  <2> QED  BY <1>4, <2>1, <2>2, PointMoves DEF SnapshotFails
<1>5. CASE ReplaceSucceeds(o)
  <2>1. Mine(o) /\ MayTaint(o) /\ Applying(o)
    BY <1>1, <1>3, <1>5 DEF ReplaceSucceeds, PointSound, InProgress
  <2> QED  BY <1>5, <2>1, PointMoves DEF ReplaceSucceeds
<1>6. CASE ProvidersVerify(o)
  <2>1. Mine(o) /\ MayTaint(o) /\ Applying(o)
    BY <1>1, <1>3, <1>6 DEF ProvidersVerify, PointSound, InProgress
  <2> QED  BY <1>6, <2>1, PointMoves DEF ProvidersVerify
<1>7. CASE Abandon(o)
  <2>1. Mine(o) /\ MayTaint(o)
    BY <1>3, <1>7 DEF Abandon, InProgress
  <2> QED  BY <1>7, <2>1, PointMoves DEF Abandon
<1>8. CASE RollbackAbandoned(o)
  <2>1. Mine(o) /\ MayTaint(o)
    BY <1>3, <1>8 DEF RollbackAbandoned, InProgress
  <2> QED  BY <1>8, <2>1, PointMoves DEF RollbackAbandoned
<1> QED  BY <1>2, <1>4, <1>5, <1>6, <1>7, <1>8

-----------------------------------------------------------------------------
(* applyRoutePlan: the snapshot, the journal entry, the replace. *)

LEMMA SnapshotStep ==
    ASSUME RouteInv, NEW o \in Plans, Snapshot(o)
    PROVE  RouteInv'
<1> DEFINE tab == kernel[Target[o]]
           entry == [state |-> "applying", snapshot |-> tab,
                     rollbackCommands |-> rollbackCommandsFor(o, tab)]
<1>1. /\ mode = "running" /\ pc[o] = "showing" /\ TypeOK
      /\ UNCHANGED <<kernel, todo, mode, queue, goal, crashes>>
      /\ PlanSound(o)
  BY DEF Snapshot, RouteInv
<1>2. MayTaint(o)
  BY DEF Snapshot, Taints, MayTaint
<1>3. Mine(o) /\ tainted \subseteq tainted' /\ Target[o] \in Targets
  BY <1>1, <1>2, MineAtWork, PlanType DEF InProgress, MayTaint
<1>4. CASE ~Restorable(tab)
  <2>1. UNCHANGED journal /\ Rejects(o)
    BY <1>4 DEF Snapshot
  <2>2. PICK v \in {"showing", "done"} : pc' = [pc EXCEPT ![o] = v]
    BY <2>1 DEF Rejects
  <2> QED  BY <1>1, <1>2, <1>3, <2>1, <2>2, PointMoves
<1>5. CASE Restorable(tab)
  <2>1. /\ journal' = [journal EXCEPT ![o] = entry] /\ pc' = [pc EXCEPT ![o] = "replacing"]
        /\ Clean(o)' => ~Ambiguous(o, tab)
    BY <1>5 DEF Snapshot, JournalFirst, Taints, Clean
  <2>2. tab \in Table /\ ~Applying(o) /\ Kernel(o) = tab
    BY <1>1, PlanType DEF Kernel, PlanSound, PointSound, Applying
  <2>3. rollbackCommandsFor(o, tab) \in Seq(Command)
    <3>1. \/ \E c \in Command : rollbackCommandsFor(o, tab) = <<c>>
          \/ \E r, d \in Command : rollbackCommandsFor(o, tab) = <<r, d>>
      BY <1>5, <2>2, UndoCommands
    <3>2. \A c \in Command : <<c>> \in Seq(Command)
      OBVIOUS
    <3>3. \A c, d \in Command : <<c, d>> \in Seq(Command)
      OBVIOUS
    <3> QED  BY <3>1, <3>2, <3>3
  <2>4. entry \in Entry /\ entry # None
    BY <2>2, <2>3, NoneIsNoEntry DEF Entry
  <2>5. TypeOK'
    <3>1. tainted' \subseteq Targets
      BY <1>1, <1>2, <1>3 DEF TypeOK, MayTaint
    <3> QED  BY <1>1, <2>1, <2>4, <3>1 DEF TypeOK, PlanPoints
  <2>6. /\ pc'[o] = "replacing" /\ journal'[o] = entry
        /\ \A x \in Plans \ {o} : pc'[x] = pc[x] /\ journal'[x] = journal[x]
    BY <1>1, <2>1 DEF TypeOK
  <2>7. OwnMove(o)
    BY <1>1, <1>2, <2>6 DEF OwnMove, MayTaint
  <2>8. Applying(o)' /\ Undo(o)' = rollbackCommandsFor(o, tab)
    BY <2>4, <2>6 DEF Applying, Undo
  <2>9. EntrySound(o)' /\ PointSound(o)' /\ LateSound(o)'
    BY <1>5, <2>1, <2>2, <2>6, <2>8 DEF EntrySound, PointSound, LateSound
  <2>10. TableSound(o)'
    BY <1>1, <1>3, <2>2, <2>6, SettledIfMine DEF TableSound, Kernel, Clean
  <2>11. OwnSound(o)
    BY <2>8, <2>9, <2>10 DEF OwnSound, PlanSound
  <2> QED  BY <1>1, <1>3, <2>5, <2>7, <2>11, OwnMoveKeeps, ServingKeepsRecovery
<1> QED  BY <1>4, <1>5

LEMMA ReplaceRunsStep ==
    ASSUME RouteInv, NEW o \in Plans, ReplaceRuns(o)
    PROVE  RouteInv'
<1> DEFINE tab == journal[o].snapshot
<1>1. /\ mode = "running" /\ pc[o] = "replacing" /\ TypeOK
      /\ kernel' = [kernel EXCEPT ![Target[o]] = Exec(Mutation(o, "replace"), @)]
      /\ pc' = [pc EXCEPT ![o] = "replaced"]
      /\ UNCHANGED <<journal, todo, mode, queue, goal, tainted, crashes>>
      /\ PlanSound(o)
  BY DEF ReplaceRuns, RouteInv
<1>2. Mine(o) /\ Target[o] \in Targets /\ Kernel(o) \in Table
  BY <1>1, MineAtWork, PlanType DEF InProgress
<1>3. Applying(o) /\ tab \in Table /\ (Clean(o) => Kernel(o) = tab)
  BY <1>1, PlanType DEF PlanSound, PointSound, TableSound, Applying
<1>4. /\ kernel' = [kernel EXCEPT ![Target[o]] = After(o, Kernel(o))]
      /\ After(o, Kernel(o)) \in Table
  BY <1>1, <1>2, ReplaceRunsAfter DEF Kernel
<1>5. /\ Kernel(o)' = After(o, Kernel(o))
      /\ \A t \in Targets \ {Target[o]} : kernel'[t] = kernel[t]
      /\ pc'[o] = "replaced" /\ \A x \in Plans \ {o} : pc'[x] = pc[x]
  <2>1. kernel \in [Targets -> Table]
    BY <1>1 DEF TypeOK
  <2>2. /\ kernel'[Target[o]] = After(o, Kernel(o))
        /\ \A t \in Targets \ {Target[o]} : kernel'[t] = kernel[t]
    BY <1>2, <1>4, <2>1
  <2>3. pc'[o] = "replaced" /\ \A x \in Plans \ {o} : pc'[x] = pc[x]
    BY <1>1 DEF TypeOK
  <2> QED  BY <2>2, <2>3 DEF Kernel
<1>6. TypeOK'
  BY <1>1, <1>4 DEF TypeOK, PlanPoints
<1>7. OwnMove(o)
  BY <1>1, <1>5 DEF OwnMove
<1>8. EntrySound(o)' /\ PointSound(o)' /\ LateSound(o)' /\ Applying(o)'
  <2>1. Applying(o)' /\ (Clean(o)' <=> Clean(o))
    BY <1>1, <1>3 DEF Applying, Clean
  <2> QED  BY <1>1, <1>3, <1>5, <2>1 DEF PlanSound, EntrySound, PointSound, LateSound, Undo
<1>9. TableSound(o)'
  <2>1. SUFFICES ASSUME Clean(o)
                 PROVE  /\ Kernel(o)' \in {tab, After(o, tab)} /\ tab \in goal[Target[o]]
    BY <1>1, <1>5 DEF TableSound, After, Clean
  <2> QED  BY <1>1, <1>3, <1>5, <2>1 DEF PlanSound, TableSound
<1>10. OwnSound(o)
  BY <1>8, <1>9 DEF OwnSound, PlanSound
<1> QED  BY <1>1, <1>2, <1>6, <1>7, <1>10, OwnMoveKeeps, ServingKeepsRecovery

\* An exit that is not zero: the entry goes, though the kernel may have obeyed.
LEMMA ReplaceFailsStep ==
    ASSUME RouteInv, NEW o \in Plans, ReplaceFails(o)
    PROVE  RouteInv' /\ (Clean(o)' => Kernel(o)' = journal[o].snapshot)
<1>1. /\ mode = "running" /\ TypeOK /\ pc[o] \in {"replacing", "replaced"}
      /\ journal' = [journal EXCEPT ![o] = None]
      /\ UNCHANGED <<kernel, todo, mode, queue, goal, crashes>>
      /\ PlanSound(o)
  BY DEF ReplaceFails, Forget, RouteInv
<1>2. MayTaint(o) /\ (Clean(o)' => pc[o] = "replacing" /\ Clean(o))
  BY <1>1 DEF ReplaceFails, Taints, MayTaint, Clean
<1>3. PICK v \in {"showing", "done"} : pc' = [pc EXCEPT ![o] = v]
  BY DEF ReplaceFails, Rejects
<1>4. Mine(o) /\ Applying(o) /\ Target[o] \in Targets
  BY <1>1, <1>2, MineAtWork, PlanType DEF PlanSound, PointSound, InProgress, MayTaint
<1>5. Clean(o)' => Kernel(o) = journal[o].snapshot /\ Kernel(o) \in goal[Target[o]]
  BY <1>1, <1>2, <1>4 DEF PlanSound, TableSound
<1>6. TypeOK'
  BY <1>1, <1>2, <1>3, <1>4 DEF TypeOK, PlanPoints, MayTaint
<1>7. /\ pc'[o] = v /\ journal'[o] = None
      /\ \A x \in Plans \ {o} : pc'[x] = pc[x] /\ journal'[x] = journal[x]
  BY <1>1, <1>3 DEF TypeOK
<1>8. OwnMove(o)
  BY <1>1, <1>2, <1>7 DEF OwnMove, MayTaint
<1>9. EntrySound(o)' /\ PointSound(o)' /\ LateSound(o)' /\ TableSound(o)'
  BY <1>7 DEF EntrySound, PointSound, LateSound, TableSound, Applying
<1>10. OwnSound(o)
  BY <1>1, <1>5, <1>9 DEF OwnSound, PlanSound, Kernel, Clean
<1>11. Clean(o)' => Kernel(o)' = journal[o].snapshot
  BY <1>1, <1>5 DEF Kernel
<1> QED  BY <1>1, <1>4, <1>6, <1>8, <1>10, <1>11, OwnMoveKeeps, ServingKeepsRecovery

-----------------------------------------------------------------------------
(* commit and confirmPlan, rollbackPlan. *)

\* A table that becomes the only acceptable one heals its target.
LEMMA Healing ==
    ASSUME RouteInv, NEW o \in Plans, InProgress(o), Heals(o)
    PROVE  /\ Mine(o) /\ tainted' \subseteq Targets
           /\ \A t \in Targets \ {Target[o]} : t \in tainted' <=> t \in tainted
<1>1. tainted \subseteq tainted' \/ Unconfirmed(Target[o]) \subseteq {o}
  BY DEF Heals
<1>2. Mine(o)
  BY <1>1, MineAtWork
<1> QED  BY <1>2 DEF Heals, RouteInv, TypeOK

LEMMA ConfirmStep ==
    ASSUME RouteInv, NEW o \in Plans, Confirm(o)
    PROVE  RouteInv' /\ journal'[o] # None
<1> DEFINE entry == [journal[o] EXCEPT !.state = "verified"]
<1>1. /\ mode = "running" /\ pc[o] = "active" /\ TypeOK
      /\ journal' = [journal EXCEPT ![o] = entry]
      /\ goal' = [goal EXCEPT ![Target[o]] = {kernel[Target[o]]}]
      /\ pc' = [pc EXCEPT ![o] = "confirmed"]
      /\ UNCHANGED <<kernel, todo, mode, queue, crashes>>
      /\ PlanSound(o)
  BY DEF Confirm, RouteInv
<1>2. /\ Mine(o) /\ tainted' \subseteq Targets
      /\ \A t \in Targets \ {Target[o]} : t \in tainted' <=> t \in tainted
  BY <1>1, Healing DEF Confirm, InProgress
<1>3. Applying(o) /\ Target[o] \in Targets /\ Kernel(o) \in Table
  BY <1>1, PlanType DEF PlanSound, PointSound
<1>4. /\ entry \in Entry /\ entry.state = "verified" /\ entry.snapshot = journal[o].snapshot
      /\ entry.rollbackCommands = Undo(o) /\ entry # None
  BY <1>1, <1>3, PlanType, NoneIsNoEntry DEF Applying, Entry, Undo
<1>5. TypeOK'
  BY <1>1, <1>2, <1>3, <1>4 DEF TypeOK, PlanPoints, Kernel
<1>6. /\ pc'[o] = "confirmed" /\ journal'[o] = entry /\ goal'[Target[o]] = {Kernel(o)}
      /\ \A x \in Plans \ {o} : pc'[x] = pc[x] /\ journal'[x] = journal[x]
      /\ \A t \in Targets \ {Target[o]} : goal'[t] = goal[t]
  BY <1>1, <1>3 DEF TypeOK, Kernel
<1>7. OwnMove(o)
  BY <1>1, <1>2, <1>6 DEF OwnMove
<1>8. Undo(o)' = Undo(o) /\ ~Applying(o)' /\ Kernel(o)' = Kernel(o)
  BY <1>1, <1>4, <1>6 DEF Undo, Applying, Kernel
<1>9. EntrySound(o)' /\ PointSound(o)' /\ TableSound(o)' /\ LateSound(o)'
  BY <1>1, <1>3, <1>4, <1>6, <1>8
     DEF PlanSound, EntrySound, PointSound, TableSound, LateSound, Applying
<1>10. OwnSound(o)
  BY <1>6, <1>8, <1>9 DEF OwnSound, PlanSound
<1> QED  BY <1>1, <1>2, <1>4, <1>5, <1>6, <1>7, <1>10, OwnMoveKeeps, ServingKeepsRecovery

\* The journaled undo of a plan: one command, or the restore and the delete.
LEMMA UndoOfEntry ==
    ASSUME TypeOK, NEW o \in Plans, EntrySound(o), journal[o] # None
    PROVE  LET tab == journal[o].snapshot IN
           \/ \E c \in Command :
                /\ Undo(o) = <<c>> /\ Tail(Undo(o)) = <<>>
                /\ ~Ambiguous(o, tab) => \A K \in {tab, After(o, tab)} : Exec(c, K) = tab
           \/ \E r, d \in Command :
                /\ Undo(o) = <<r, d>> /\ Tail(Undo(o)) = <<d>>
                /\ ~Ambiguous(o, tab) =>
                      \A K \in {tab, After(o, tab)} : Exec(r, K) = K /\ Exec(d, K) = tab
<1> DEFINE tab == journal[o].snapshot
           One(c) == ~Ambiguous(o, tab) => \A K \in {tab, After(o, tab)} : Exec(c, K) = tab
           Two(r, d) == ~Ambiguous(o, tab) =>
                           \A K \in {tab, After(o, tab)} : Exec(r, K) = K /\ Exec(d, K) = tab
<1>1. tab \in Table /\ Restorable(tab) /\ Undo(o) = rollbackCommandsFor(o, tab)
  BY PlanType DEF EntrySound
<1>2. \A c, d \in Command : Tail(<<c>>) = <<>> /\ Tail(<<c, d>>) = <<d>>
  OBVIOUS
<1>3. \/ \E c \in Command : rollbackCommandsFor(o, tab) = <<c>> /\ One(c)
      \/ \E r, d \in Command : rollbackCommandsFor(o, tab) = <<r, d>> /\ Two(r, d)
  BY <1>1, UndoCommands
<1> HIDE DEF One, Two
<1>4. \/ \E c \in Command : Undo(o) = <<c>> /\ Tail(Undo(o)) = <<>> /\ One(c)
      \/ \E r, d \in Command : Undo(o) = <<r, d>> /\ Tail(Undo(o)) = <<d>> /\ Two(r, d)
  <2>1. CASE \E c \in Command : rollbackCommandsFor(o, tab) = <<c>> /\ One(c)
    <3>1. PICK c \in Command : rollbackCommandsFor(o, tab) = <<c>> /\ One(c)
      BY <2>1
    <3>2. Undo(o) = <<c>> /\ Tail(Undo(o)) = <<>>
      BY <1>1, <1>2, <3>1
    <3> QED  BY <3>1, <3>2
  <2>2. CASE \E r, d \in Command : rollbackCommandsFor(o, tab) = <<r, d>> /\ Two(r, d)
    <3>1. PICK r, d \in Command : rollbackCommandsFor(o, tab) = <<r, d>> /\ Two(r, d)
      BY <2>2
    <3>2. Undo(o) = <<r, d>> /\ Tail(Undo(o)) = <<d>>
      BY <1>1, <1>2, <3>1
    <3> QED  BY <3>1, <3>2
  <2> QED  BY <1>3, <2>1, <2>2
<1> QED  BY <1>4 DEF One, Two

LEMMA UndoIsSome ==
    ASSUME TypeOK, NEW o \in Plans, EntrySound(o), journal[o] # None
    PROVE  /\ Undo(o) \in Seq(Command)
           /\ Len(Undo(o)) = 1 \/ (Len(Undo(o)) = 2 /\ Undo(o)[2] \in Command)
           /\ Undo(o) # <<>> /\ Head(Undo(o)) = Undo(o)[1] /\ Undo(o)[1] \in Command
           /\ Tail(Undo(o)) \in Seq(Command)
           /\ Tail(Undo(o)) # <<>> => Tail(Tail(Undo(o))) = <<>>
           /\ Len(Undo(o)) = 1 => Tail(Undo(o)) = <<>>
<1>1. \/ \E c \in Command : Undo(o) = <<c>>
      \/ \E r, d \in Command : Undo(o) = <<r, d>>
  BY UndoOfEntry
<1>0. \A c \in Command : <<c>> \in Seq(Command) /\ Tail(<<c>>) = <<>>
  OBVIOUS
<1>2. CASE \E c \in Command : Undo(o) = <<c>>
  <2>1. PICK c \in Command : Undo(o) = <<c>>
    BY <1>2
  <2> QED  BY <2>1
<1>3. CASE \E r, d \in Command : Undo(o) = <<r, d>>
  <2>1. PICK r, d \in Command : Undo(o) = <<r, d>>
    BY <1>3
  <2>2. /\ Undo(o) \in Seq(Command) /\ Len(Undo(o)) = 2
        /\ Undo(o)[1] = r /\ Undo(o)[2] = d /\ Head(Undo(o)) = r
    BY <2>1
  <2>3. Tail(Undo(o)) = <<d>>
    BY <2>1
  <2>4. Tail(Undo(o)) \in Seq(Command) /\ Tail(Tail(Undo(o))) = <<>>
    BY <1>0, <2>1, <2>3
  <2> QED  BY <2>1, <2>2, <2>4
<1> QED  BY <1>1, <1>2, <1>3

LEMMA RollbackStartStep ==
    ASSUME RouteInv, NEW o \in Plans, RollbackStart(o)
    PROVE  RouteInv'
<1> DEFINE fresh == pc[o] \in {"applied", "active", "stuck"} /\ UNCHANGED <<goal, tainted>>
           late == /\ pc[o] = "confirmed" /\ journal[o] # None /\ TargetFree(o)
                   /\ Taints(o, Stacked(o) \/ Len(Undo(o)) > 1)
                   /\ goal' = [goal EXCEPT ![Target[o]] = @ \cup {Replay(Undo(o), Kernel(o))}]
<1>1. /\ mode = "running" /\ TypeOK
      /\ pc' = [pc EXCEPT ![o] = "rollingback"]
      /\ todo' = [todo EXCEPT ![o] = Undo(o)]
      /\ UNCHANGED <<kernel, journal, mode, queue, crashes>>
      /\ PlanSound(o)
  BY DEF RollbackStart, RouteInv, Undo
<1>2. fresh \/ late
  BY DEF RollbackStart, Undo, Kernel
<1>3. /\ journal[o] # None /\ MayTaint(o) /\ tainted \subseteq tainted'
      /\ Clean(o)' => Clean(o)
  BY <1>1, <1>2 DEF PlanSound, PointSound, Applying, Taints, MayTaint, Clean
<1>4. Mine(o) /\ (late /\ Applying(o) => ~Clean(o)')
  <2>1. CASE fresh
    <3>1. Mine(o)
      BY <1>3, <2>1, MineAtWork DEF InProgress
    <3> QED  BY <2>1, <3>1
  <2>2. CASE late
    <3>1. Stacked(o) => Target[o] \in tainted'
      BY <2>2 DEF Taints
    <3> QED  BY <2>2, <3>1, MineIfFree DEF Clean
  <2> QED  BY <1>2, <2>1, <2>2
<1>5. /\ Undo(o) \in Seq(Command) /\ Undo(o) # <<>> /\ Head(Undo(o)) = Undo(o)[1]
      /\ Len(Undo(o)) = 1 \/ (Len(Undo(o)) = 2 /\ Undo(o)[2] \in Command)
      /\ Undo(o)[1] \in Command
      /\ Target[o] \in Targets /\ Kernel(o) \in Table
  BY <1>1, <1>3, UndoIsSome, PlanType DEF PlanSound
<1>6. Replay(Undo(o), Kernel(o)) \in Table
  <2>1. Exec(Undo(o)[1], Kernel(o)) \in Table
    BY <1>5, ExecType
  <2>2. CASE Len(Undo(o)) = 1
    BY <2>1, <2>2 DEF Replay
  <2>3. CASE Len(Undo(o)) = 2
    <3>1. Exec(Undo(o)[2], Exec(Undo(o)[1], Kernel(o))) \in Table
      BY <1>5, <2>1, <2>3, ExecType
    <3> QED  BY <2>3, <3>1 DEF Replay
  <2> QED  BY <1>5, <2>2, <2>3
<1>7. ASSUME late, Clean(o)'
      PROVE  /\ Len(Undo(o)) = 1
             /\ Replay(Undo(o), Kernel(o)) = Exec(Undo(o)[1], Kernel(o))
  <2>1. ~(Len(Undo(o)) > 1)
    BY <1>7 DEF Taints, Clean
  <2>2. Len(Undo(o)) = 1
    <3> HIDE DEF late, fresh
    <3> QED  BY <1>5, <2>1
  <2> QED  BY <2>2 DEF Replay
<1>8. /\ goal' \in [Targets -> (SUBSET Table) \ {{}}]
      /\ \A t \in Targets \ {Target[o]} : goal'[t] = goal[t]
      /\ goal[Target[o]] \subseteq goal'[Target[o]]
      /\ late => Replay(Undo(o), Kernel(o)) \in goal'[Target[o]]
  <2>1. goal \in [Targets -> (SUBSET Table) \ {{}}]
    BY <1>1 DEF TypeOK
  <2> DEFINE R == Replay(Undo(o), Kernel(o))
  <2>2. R \in Table
    BY <1>6
  <2> HIDE DEF R
  <2>3. CASE fresh
    BY <2>1, <2>3
  <2>4. CASE late
    <3>1. goal' = [goal EXCEPT ![Target[o]] = @ \cup {R}]
      BY <2>4 DEF R
    <3>2. /\ goal' \in [Targets -> (SUBSET Table) \ {{}}]
          /\ \A t \in Targets \ {Target[o]} : goal'[t] = goal[t]
          /\ goal[Target[o]] \subseteq goal'[Target[o]] /\ R \in goal'[Target[o]]
      BY <1>5, <2>1, <2>2, <3>1
    <3> QED  BY <3>2 DEF R
  <2> QED  BY <1>2, <2>3, <2>4
<1>9. TypeOK'
  <2>1. tainted' \subseteq Targets
    BY <1>1, <1>3, <1>5 DEF TypeOK, MayTaint
  <2> QED  BY <1>1, <1>5, <1>8, <2>1 DEF TypeOK, PlanPoints
<1>10. /\ pc'[o] = "rollingback" /\ todo'[o] = Undo(o)
       /\ \A x \in Plans \ {o} : pc'[x] = pc[x] /\ todo'[x] = todo[x]
  BY <1>1 DEF TypeOK
<1>11. OwnMove(o)
  BY <1>1, <1>3, <1>8, <1>10 DEF OwnMove, MayTaint
<1>12. EntrySound(o)' /\ PointSound(o)'
  BY <1>1, <1>3, <1>10 DEF PlanSound, EntrySound, PointSound, Undo, Applying
<1>13. TableSound(o)'
  BY <1>1, <1>3, <1>5, <1>8, <1>10 DEF PlanSound, TableSound, Applying, Kernel, After
<1>14. ASSUME ~Applying(o), Clean(o)'
       PROVE  /\ Len(Undo(o)) <= 1
              /\ Exec(Undo(o)[1], Kernel(o)) \in goal'[Target[o]] \/ Strays(Undo(o)[1], Kernel(o))
  <2>1. CASE late
    <3>1. Len(Undo(o)) = 1
      BY <1>7, <1>14, <2>1
    <3>2. Exec(Undo(o)[1], Kernel(o)) \in goal'[Target[o]]
      BY <1>7, <1>8, <1>14, <2>1
    <3> HIDE DEF late, fresh
    <3> QED  BY <3>1, <3>2
  <2>2. CASE fresh
    BY <1>1, <1>3, <1>8, <1>14, <2>2 DEF PlanSound, PointSound, LateSound, Lands, Kernel
  <2> QED  BY <1>2, <2>1, <2>2
<1>15. LateSound(o)'
  BY <1>1, <1>5, <1>10, <1>14 DEF LateSound, Lands, Applying, Undo, Kernel
<1>16. Applying(o)' \/ Kernel(o)' \in goal'[Target[o]] \/ Target[o] \in tainted'
  BY <1>1, <1>3, <1>4, <1>8, SettledIfMine DEF Applying, Kernel
<1>17. OwnSound(o)
  BY <1>12, <1>13, <1>15, <1>16 DEF OwnSound, PlanSound
<1> QED  BY <1>1, <1>4, <1>9, <1>11, <1>17, OwnMoveKeeps, ServingKeepsRecovery

\* What the command at hand does to the table of a plan whose undo it belongs to:
\* the last one leads to the captured table, the one before it changes nothing.
LEMMA CommandAtHand ==
    ASSUME RouteInv, NEW o \in Plans, pc[o] = "rollingback", todo[o] # <<>>
    PROVE  LET tab == journal[o].snapshot
               cmd == Head(todo[o])
           IN /\ cmd \in Command /\ Tail(todo[o]) \in Seq(Command)
              /\ Tail(todo[o]) \in {Tail(Undo(o)), <<>>}
              /\ Len(Undo(o)) <= 1 => todo[o] = Undo(o) /\ Tail(todo[o]) = <<>>
              /\ ~Ambiguous(o, tab) =>
                    \A K \in {tab, After(o, tab)} :
                       \/ Tail(todo[o]) = <<>> /\ Exec(cmd, K) = tab
                       \/ Tail(todo[o]) # <<>> /\ Exec(cmd, K) = K
<1> DEFINE tab == journal[o].snapshot
           cmd == Head(todo[o])
<1>1. /\ TypeOK /\ EntrySound(o) /\ journal[o] # None
      /\ todo[o] \in Seq(Command) /\ todo[o] \in {Undo(o), Tail(Undo(o)), <<>>}
  BY PlanType DEF RouteInv, PlanSound, PointSound
<1>2. cmd \in Command /\ Tail(todo[o]) \in Seq(Command)
  BY <1>1
<1>3. /\ Len(Undo(o)) = 1 \/ (Len(Undo(o)) = 2 /\ Undo(o)[2] \in Command)
      /\ Tail(Undo(o)) # <<>> => Tail(Tail(Undo(o))) = <<>>
      /\ Len(Undo(o)) = 1 => Tail(Undo(o)) = <<>>
  BY <1>1, UndoIsSome
<1>4. Tail(todo[o]) \in {Tail(Undo(o)), <<>>}
  BY <1>1, <1>3
<1>5. Len(Undo(o)) <= 1 => todo[o] = Undo(o) /\ Tail(todo[o]) = <<>>
  <2>1. Len(Undo(o)) <= 1 => Len(Undo(o)) = 1
    BY <1>3
  <2> QED  BY <1>1, <1>3, <2>1
<1>6. ASSUME ~Ambiguous(o, tab), NEW K \in {tab, After(o, tab)}
      PROVE  \/ Tail(todo[o]) = <<>> /\ Exec(cmd, K) = tab
             \/ Tail(todo[o]) # <<>> /\ Exec(cmd, K) = K
  <2>1. CASE \E c \in Command : Undo(o) = <<c>> /\ Tail(Undo(o)) = <<>> /\ Exec(c, K) = tab
    <3>1. PICK c \in Command : Undo(o) = <<c>> /\ Tail(Undo(o)) = <<>> /\ Exec(c, K) = tab
      BY <2>1
    <3>2. todo[o] = <<c>>
      BY <1>1, <3>1
    <3>3. cmd = c /\ Tail(todo[o]) = <<>>
      BY <3>2
    <3> QED  BY <3>1, <3>3
  <2>2. CASE \E r, d \in Command : /\ Undo(o) = <<r, d>> /\ Tail(Undo(o)) = <<d>>
                                   /\ Exec(r, K) = K /\ Exec(d, K) = tab
    <3>1. PICK r, d \in Command : /\ Undo(o) = <<r, d>> /\ Tail(Undo(o)) = <<d>>
                                  /\ Exec(r, K) = K /\ Exec(d, K) = tab
      BY <2>2
    <3>2. CASE todo[o] = <<r, d>>
      <4>1. cmd = r /\ Tail(todo[o]) = <<d>> /\ Tail(todo[o]) # <<>>
        BY <3>2
      <4> QED  BY <3>1, <4>1
    <3>3. CASE todo[o] = <<d>>
      <4>1. cmd = d /\ Tail(todo[o]) = <<>>
        BY <3>3
      <4> QED  BY <3>1, <4>1
    <3> QED  BY <1>1, <3>1, <3>2, <3>3
  <2> QED  BY <1>1, <1>6, <2>1, <2>2, UndoOfEntry
<1> QED  BY <1>2, <1>4, <1>5, <1>6

\* A command that the kernel runs.
LEMMA RunsKeepsType ==
    ASSUME TypeOK, NEW o \in Plans, NEW cmd \in Command, Runs(cmd, Target[o])
    PROVE  /\ kernel' \in [Targets -> Table] /\ Kernel(o)' = Exec(cmd, Kernel(o))
           /\ \A t \in Targets \ {Target[o]} : kernel'[t] = kernel[t]
           /\ MayTaint(o) /\ tainted \subseteq tainted' /\ tainted' \subseteq Targets
           /\ Clean(o)' => Clean(o) /\ ~Strays(cmd, Kernel(o))
<1>1. Target[o] \in Targets /\ Kernel(o) \in Table /\ Exec(cmd, Kernel(o)) \in Table
  BY PlanType, ExecType
<1>2. kernel' = [kernel EXCEPT ![Target[o]] = Exec(cmd, Kernel(o))]
  BY DEF Runs, Kernel
<1>3. /\ kernel' \in [Targets -> Table] /\ Kernel(o)' = Exec(cmd, Kernel(o))
      /\ \A t \in Targets \ {Target[o]} : kernel'[t] = kernel[t]
  BY <1>1, <1>2 DEF TypeOK, Kernel
<1>4. tainted' = IF Strays(cmd, Kernel(o)) THEN tainted \cup {Target[o]} ELSE tainted
  BY DEF Runs, Kernel
<1> QED  BY <1>1, <1>3, <1>4 DEF MayTaint, Clean, TypeOK

\* One command of an undo, in service or in recovery: the table stays one the rest
\* of the undo leads back from.
LEMMA CommandRuns ==
    ASSUME RouteInv, NEW o \in Plans, pc[o] = "rollingback", todo[o] # <<>>,
           Runs(Head(todo[o]), Target[o]),
           todo' = [todo EXCEPT ![o] = Tail(@)],
           UNCHANGED <<journal, pc, mode, queue, goal, crashes>>
    PROVE  RouteInv'
<1> DEFINE tab == journal[o].snapshot
           cmd == Head(todo[o])
           K == Kernel(o)
<1>1. TypeOK /\ PlanSound(o) /\ journal[o] # None
  BY DEF RouteInv, PlanSound, PointSound
<1>2. /\ cmd \in Command /\ Tail(todo[o]) \in Seq(Command)
      /\ Tail(todo[o]) \in {Tail(Undo(o)), <<>>}
      /\ Len(Undo(o)) <= 1 => todo[o] = Undo(o) /\ Tail(todo[o]) = <<>>
      /\ ~Ambiguous(o, tab) =>
            \A T \in {tab, After(o, tab)} :
               \/ Tail(todo[o]) = <<>> /\ Exec(cmd, T) = tab
               \/ Tail(todo[o]) # <<>> /\ Exec(cmd, T) = T
  BY CommandAtHand
<1>3. /\ kernel' \in [Targets -> Table] /\ Kernel(o)' = Exec(cmd, K)
      /\ \A t \in Targets \ {Target[o]} : kernel'[t] = kernel[t]
      /\ MayTaint(o) /\ tainted \subseteq tainted' /\ tainted' \subseteq Targets
      /\ Clean(o)' => Clean(o) /\ ~Strays(cmd, K)
  BY <1>1, <1>2, RunsKeepsType
<1>4. todo'[o] = Tail(todo[o]) /\ \A x \in Plans \ {o} : todo'[x] = todo[x]
  BY <1>1 DEF TypeOK
<1>5. TypeOK'
  BY <1>1, <1>2, <1>3 DEF TypeOK
<1>6. OwnMove(o) /\ Mine(o)
  BY <1>3, <1>4, MineAtWork DEF OwnMove, MayTaint, InProgress
<1>7. RecoverySound'
  BY DEF RouteInv, RecoverySound, InProgress, Applying
<1>8. EntrySound(o)'
  BY <1>1, <1>3 DEF PlanSound, EntrySound, Undo, Applying
<1>9. PointSound(o)'
  BY <1>1, <1>2, <1>4 DEF PlanSound, PointSound, Undo
<1>10. TableSound(o)'
  <2>1. SUFFICES ASSUME Applying(o), Clean(o)'
                 PROVE  /\ Kernel(o)' \in {tab, After(o, tab)}
                        /\ todo'[o] = <<>> => Kernel(o)' = tab
                        /\ tab \in goal[Target[o]]
    BY DEF TableSound, After, Applying
  <2>2. K \in {tab, After(o, tab)} /\ tab \in goal[Target[o]] /\ ~Ambiguous(o, tab)
    BY <1>1, <1>3, <2>1 DEF PlanSound, TableSound, EntrySound
  <2> QED  BY <1>2, <1>3, <1>4, <2>2
<1>11. ASSUME ~Applying(o), Clean(o)'
       PROVE  /\ todo'[o] = <<>> /\ Kernel(o)' \in goal[Target[o]]
              /\ mode = "running" /\ Len(Undo(o)) <= 1
  <2>1. mode = "running" /\ Len(Undo(o)) <= 1 /\ Lands(cmd, Target[o])
    BY <1>1, <1>3, <1>11 DEF PlanSound, LateSound
  <2> QED  BY <1>2, <1>3, <1>4, <1>11, <2>1 DEF Lands, Kernel
<1>12. LateSound(o)'
  BY <1>11 DEF LateSound, Applying, Undo
<1>13. Applying(o)' \/ Kernel(o)' \in goal'[Target[o]] \/ Target[o] \in tainted'
  BY <1>11 DEF Applying, Clean
<1>14. OwnSound(o)
  BY <1>8, <1>9, <1>10, <1>12, <1>13 DEF OwnSound, PlanSound
<1> QED  BY <1>5, <1>6, <1>7, <1>14, OwnMoveKeeps

\* A command that fails, run or not, can be tried again.
LEMMA RollbackFailsStep ==
    ASSUME RouteInv, NEW o \in Plans, RollbackFails(o)
    PROVE  RouteInv'
<1> DEFINE tab == journal[o].snapshot
           cmd == Head(todo[o])
           K == Kernel(o)
<1>1. /\ mode = "running" /\ pc[o] = "rollingback" /\ todo[o] # <<>> /\ TypeOK
      /\ pc' = [pc EXCEPT ![o] = "stuck"] /\ todo' = [todo EXCEPT ![o] = <<>>]
      /\ UNCHANGED <<journal, mode, queue, goal, crashes>>
      /\ PlanSound(o) /\ journal[o] # None
      /\ UNCHANGED <<kernel, tainted>> \/ Runs(cmd, Target[o])
  BY DEF RollbackFails, RouteInv, PlanSound, PointSound
<1>2. /\ cmd \in Command
      /\ Len(Undo(o)) <= 1 => todo[o] = Undo(o) /\ Tail(todo[o]) = <<>>
      /\ ~Ambiguous(o, tab) =>
            \A T \in {tab, After(o, tab)} :
               \/ Tail(todo[o]) = <<>> /\ Exec(cmd, T) = tab
               \/ Tail(todo[o]) # <<>> /\ Exec(cmd, T) = T
  BY <1>1, CommandAtHand
<1>3. /\ kernel' \in [Targets -> Table]
      /\ Kernel(o)' \in {K, Exec(cmd, K)}
      /\ \A t \in Targets \ {Target[o]} : kernel'[t] = kernel[t]
      /\ MayTaint(o) /\ tainted \subseteq tainted' /\ tainted' \subseteq Targets
      /\ Clean(o)' => Clean(o) /\ (Kernel(o)' = K \/ ~Strays(cmd, K))
  <2>1. CASE UNCHANGED <<kernel, tainted>>
    BY <1>1, <2>1 DEF TypeOK, Kernel, MayTaint, Clean
  <2>2. CASE Runs(cmd, Target[o])
    BY <1>1, <1>2, <2>2, RunsKeepsType
  <2> QED  BY <1>1, <2>1, <2>2
<1>4. /\ pc'[o] = "stuck" /\ todo'[o] = <<>>
      /\ \A x \in Plans \ {o} : pc'[x] = pc[x] /\ todo'[x] = todo[x]
  BY <1>1 DEF TypeOK
<1>5. TypeOK'
  <2>1. <<>> \in Seq(Command)
    OBVIOUS
  <2> QED  BY <1>1, <1>3, <2>1 DEF TypeOK, PlanPoints
<1>6. OwnMove(o) /\ Mine(o)
  BY <1>1, <1>3, <1>4, MineAtWork DEF OwnMove, MayTaint, InProgress
<1>7. EntrySound(o)' /\ PointSound(o)'
  BY <1>1, <1>3, <1>4 DEF PlanSound, EntrySound, PointSound, Undo, Applying
<1>8. TableSound(o)'
  <2>1. SUFFICES ASSUME Applying(o), Clean(o)'
                 PROVE  Kernel(o)' \in {tab, After(o, tab)} /\ tab \in goal[Target[o]]
    BY <1>1, <1>4 DEF TableSound, After, Applying
  <2>2. K \in {tab, After(o, tab)} /\ tab \in goal[Target[o]] /\ ~Ambiguous(o, tab)
    BY <1>1, <1>3, <2>1 DEF PlanSound, TableSound, EntrySound
  <2> QED  BY <1>2, <1>3, <2>2
<1>9. ASSUME ~Applying(o), Clean(o)'
      PROVE  /\ Len(Undo(o)) <= 1 /\ Undo(o)[1] = cmd
             /\ Exec(cmd, Kernel(o)') \in goal[Target[o]] \/ Strays(cmd, Kernel(o)')
  <2>1. Len(Undo(o)) <= 1 /\ (Exec(cmd, K) \in goal[Target[o]] \/ Strays(cmd, K))
    BY <1>1, <1>3, <1>9 DEF PlanSound, LateSound, Lands, Kernel
  <2>2. Undo(o)[1] = cmd
    BY <1>1, <1>2, <2>1, UndoIsSome DEF PlanSound
  <2>3. CASE Kernel(o)' = K
    BY <2>1, <2>2, <2>3
  <2>4. CASE Kernel(o)' = Exec(cmd, K) /\ ~Strays(cmd, K)
    <3>1. Exec(cmd, Exec(cmd, K)) = Exec(cmd, K) \/ Strays(cmd, Exec(cmd, K))
      BY <1>1, <1>2, <2>4, PlanType, RunTwice
    <3> QED  BY <2>1, <2>2, <2>4, <3>1
  <2> QED  BY <1>3, <1>9, <2>3, <2>4
<1>10. LateSound(o)'
  BY <1>1, <1>4, <1>9 DEF LateSound, Lands, Applying, Undo, Kernel
<1>11. Applying(o)' \/ Kernel(o)' \in goal'[Target[o]] \/ Target[o] \in tainted'
  <2>1. SUFFICES ASSUME ~Applying(o), Clean(o)'
                 PROVE  Kernel(o)' \in goal[Target[o]]
    BY <1>1 DEF Applying, Clean
  <2>2. K \in goal[Target[o]]
    BY <1>3, <1>6, <2>1, SettledIfMine DEF Clean
  <2>3. Exec(cmd, K) \in goal[Target[o]] \/ Strays(cmd, K)
    BY <1>1, <1>3, <2>1 DEF PlanSound, LateSound, Lands, Kernel
  <2> QED  BY <1>3, <2>1, <2>2, <2>3
<1>12. OwnSound(o)
  BY <1>7, <1>8, <1>10, <1>11 DEF OwnSound, PlanSound
<1> QED  BY <1>1, <1>5, <1>6, <1>12, OwnMoveKeeps, ServingKeepsRecovery

\* The end of an undo, reached or given up.
LEMMA UndoEnds ==
    ASSUME RouteInv, NEW o \in Plans, Mine(o),
           UNCHANGED <<kernel, mode, crashes>>, RecoverySound', queue' \in Seq(Plans),
           NEW v \in {"done", "abandoned"}, pc' = [pc EXCEPT ![o] = v],
           todo' \in [Plans -> Seq(Command)],
           \A x \in Plans \ {o} : todo'[x] = todo[x],
           tainted' \subseteq Targets,
           \A t \in Targets \ {Target[o]} : t \in tainted' <=> t \in tainted,
           \/ journal' = journal /\ goal' = goal /\ tainted' = tainted
           \/ /\ journal' = [journal EXCEPT ![o] = None]
              /\ goal' \in [Targets -> (SUBSET Table) \ {{}}]
              /\ \A t \in Targets \ {Target[o]} : goal'[t] = goal[t]
              /\ Kernel(o) \in goal'[Target[o]] \/ Target[o] \in tainted'
    PROVE  RouteInv'
<1>1. TypeOK /\ PlanSound(o)
  BY DEF RouteInv
<1>2. TypeOK'
  <2>1. journal' \in [Plans -> Entry \cup {None}] /\ goal' \in [Targets -> (SUBSET Table) \ {{}}]
    BY <1>1 DEF TypeOK
  <2>2. pc' \in [Plans -> PlanPoints]
    BY <1>1 DEF TypeOK, PlanPoints
  <2> QED  BY <1>1, <2>1, <2>2 DEF TypeOK
<1>3. /\ pc'[o] = v /\ \A x \in Plans \ {o} : pc'[x] = pc[x] /\ journal'[x] = journal[x]
      /\ \A t \in Targets \ {Target[o]} : goal'[t] = goal[t]
      /\ Kernel(o)' = Kernel(o)
  BY <1>1 DEF TypeOK, Kernel
<1>4. OwnMove(o)
  BY <1>3 DEF OwnMove
<1>5. LateSound(o)' /\ PointSound(o)'
  BY <1>3 DEF LateSound, PointSound
<1>6. CASE journal' = journal /\ goal' = goal /\ tainted' = tainted
  <2>1. EntrySound(o)'
    BY <1>1, <1>6 DEF PlanSound, EntrySound, Applying, Undo, Clean
  <2>2. TableSound(o)'
    BY <1>1, <1>3, <1>6 DEF PlanSound, TableSound, Applying, Kernel, After, Clean
  <2>3. Applying(o)' \/ Kernel(o)' \in goal'[Target[o]] \/ Target[o] \in tainted'
    BY <1>3, <1>6, SettledIfMine DEF Applying
  <2>4. OwnSound(o)
    BY <1>5, <2>1, <2>2, <2>3 DEF OwnSound, PlanSound
  <2> QED  BY <1>2, <1>4, <2>4, OwnMoveKeeps
<1>7. CASE /\ journal' = [journal EXCEPT ![o] = None]
           /\ Kernel(o) \in goal'[Target[o]] \/ Target[o] \in tainted'
  <2>1. journal'[o] = None
    BY <1>1, <1>7 DEF TypeOK
  <2>2. EntrySound(o)' /\ TableSound(o)'
    BY <2>1 DEF EntrySound, TableSound, Applying
  <2>3. OwnSound(o)
    BY <1>3, <1>5, <1>7, <2>2 DEF OwnSound, PlanSound
  <2> QED  BY <1>2, <1>4, <2>3, OwnMoveKeeps
<1> QED  BY <1>6, <1>7

\* The undo of an unconfirmed plan ends in the table the plan found.
LEMMA RollbackDoneStep ==
    ASSUME RouteInv, NEW o \in Plans, RollbackDone(o)
    PROVE  RouteInv' /\ (Applying(o) /\ Clean(o)' => Kernel(o)' = journal[o].snapshot)
<1>1. /\ mode = "running" /\ pc[o] = "rollingback" /\ todo[o] = <<>> /\ TypeOK
      /\ journal' = [journal EXCEPT ![o] = None]
      /\ goal' = [goal EXCEPT ![Target[o]] =
                    IF journal[o].state = "verified" THEN {kernel[Target[o]]} ELSE @]
      /\ pc' = [pc EXCEPT ![o] = "done"]
      /\ UNCHANGED <<kernel, todo, mode, queue, crashes>>
      /\ IF journal[o].state = "verified" THEN Heals(o) ELSE UNCHANGED tainted
      /\ PlanSound(o) /\ journal[o] # None
  BY DEF RollbackDone, Forget, RouteInv, PlanSound, PointSound
<1>2. /\ Target[o] \in Targets /\ Kernel(o) \in Table
      /\ journal[o].state \in {"applying", "verified"}
  BY <1>1, PlanType DEF Entry
<1>3. /\ Mine(o) /\ tainted' \subseteq Targets
      /\ \A t \in Targets \ {Target[o]} : t \in tainted' <=> t \in tainted
  <2>1. CASE journal[o].state = "verified"
    BY <1>1, <2>1, Healing DEF InProgress
  <2>2. CASE journal[o].state # "verified"
    BY <1>1, <2>2, MineAtWork DEF InProgress, TypeOK
  <2> QED  BY <2>1, <2>2
<1>4. Applying(o) /\ Clean(o)' => Kernel(o) = journal[o].snapshot /\ Kernel(o) \in goal[Target[o]]
  BY <1>1 DEF PlanSound, TableSound, Applying, Clean
<1>5. /\ goal' \in [Targets -> (SUBSET Table) \ {{}}]
      /\ \A t \in Targets \ {Target[o]} : goal'[t] = goal[t]
      /\ Kernel(o) \in goal'[Target[o]] \/ Target[o] \in tainted'
  <2>1. CASE journal[o].state = "verified"
    BY <1>1, <1>2, <2>1 DEF TypeOK, Kernel
  <2>2. CASE journal[o].state = "applying"
    <3>1. Clean(o)' => Kernel(o) \in goal[Target[o]]
      BY <1>1, <1>4, <2>2 DEF Applying
    <3> QED  BY <1>1, <1>2, <2>2, <3>1 DEF TypeOK, Clean
  <2> QED  BY <1>2, <2>1, <2>2
<1>6. /\ todo' \in [Plans -> Seq(Command)] /\ \A x \in Plans \ {o} : todo'[x] = todo[x]
      /\ queue' \in Seq(Plans)
  BY <1>1 DEF TypeOK
<1>7. RouteInv'
  BY <1>1, <1>3, <1>5, <1>6, UndoEnds, ServingKeepsRecovery
<1> QED  BY <1>1, <1>4, <1>7 DEF Kernel

LEMMA PlanStepKeeps ==
    ASSUME RouteInv, NEW o \in Plans, PlanStep(o)
    PROVE  RouteInv'
<1>1. CASE RollbackCommand(o)
  BY <1>1, CommandRuns DEF RollbackCommand
<1> QED  BY <1>1, PointSteps, SnapshotStep, ReplaceRunsStep, ReplaceFailsStep, ConfirmStep,
            RollbackStartStep, RollbackFailsStep, RollbackDoneStep DEF PlanStep

-----------------------------------------------------------------------------
(* Crash, restart, recoverInterrupted. *)

LEMMA CrashStep ==
    ASSUME RouteInv, Crash
    PROVE  RouteInv'
<1>1. /\ TypeOK /\ Alone /\ Settled /\ \A x \in Plans : PlanSound(x)
      /\ mode' = "down" /\ queue' = <<>> /\ crashes' = crashes + 1 /\ crashes < MaxCrashes
      /\ pc' = [p \in Plans |-> IF InProgress(p) THEN "abandoned" ELSE pc[p]]
      /\ todo' = [p \in Plans |-> <<>>]
      /\ UNCHANGED <<kernel, journal, goal, tainted>>
  BY DEF RouteInv, Crash
<1>2. TypeOK'
  <2>1. <<>> \in Seq(Command) /\ <<>> \in Seq(Plans)
    OBVIOUS
  <2>2. crashes' \in 0..MaxCrashes
    BY <1>1, RouteSets DEF TypeOK
  <2>3. pc' \in [Plans -> PlanPoints]
    BY <1>1 DEF TypeOK, PlanPoints
  <2>4. todo' \in [Plans -> Seq(Command)]
    BY <1>1, <2>1
  <2> QED  BY <1>1, <2>1, <2>2, <2>3, <2>4 DEF TypeOK
<1>3. \A x \in Plans : /\ pc'[x] \in {"idle", "confirmed", "abandoned", "done"}
                       /\ pc'[x] = "idle" => pc[x] = "idle"
                       /\ ~InProgress(x)' /\ (Applying(x)' <=> Applying(x))
                       /\ Clean(x)' <=> Clean(x)
  BY <1>1 DEF TypeOK, PlanPoints, InProgress, Applying, Clean
<1>4. Alone' /\ OneAtWork'
  BY <1>1, <1>3 DEF Alone, OneAtWork
<1>5. RecoverySound'
  BY <1>1, <1>3 DEF RecoverySound
<1>6. Settled'
  BY <1>1 DEF Settled, Unconfirmed
<1>7. ASSUME NEW x \in Plans
      PROVE  PlanSound(x)'
  <2>1. EntrySound(x)' /\ TableSound(x)'
    BY <1>1, <1>3 DEF PlanSound, EntrySound, TableSound, Undo, Applying, Kernel, After
  <2>2. PointSound(x)' /\ LateSound(x)'
    BY <1>1, <1>3 DEF PlanSound, PointSound, LateSound
  <2> QED  BY <2>1, <2>2 DEF PlanSound
<1> QED  BY <1>2, <1>4, <1>5, <1>6, <1>7 DEF RouteInv

\* A step that leaves the tables, the plans and the journal alone.
LEMMA RecoveryMoves ==
    ASSUME RouteInv, mode # "running" \/ mode' = mode,
           UNCHANGED <<kernel, journal, pc, todo, goal, tainted>>, TypeOK', RecoverySound'
    PROVE  RouteInv'
<1>1. Alone' /\ OneAtWork' /\ Settled'
  BY DEF RouteInv, Alone, OneAtWork, Settled, Unconfirmed, InProgress, Applying, Clean
<1>2. ASSUME NEW x \in Plans
      PROVE  PlanSound(x)'
  <2>1. PlanSound(x) /\ RecoverySound
    BY DEF RouteInv
  <2>2. EntrySound(x)' /\ PointSound(x)' /\ TableSound(x)'
    BY <2>1 DEF PlanSound, EntrySound, PointSound, TableSound, Undo, Applying, Kernel, After,
                Clean
  <2>3. LateSound(x)'
    <3>1. CASE mode # "running"
      BY <2>1, <3>1 DEF LateSound, RecoverySound, InProgress, Applying
    <3>2. CASE mode' = mode
      BY <2>1, <3>2 DEF PlanSound, LateSound, Lands, Applying, Undo, Clean
    <3> QED  BY <3>1, <3>2
  <2> QED  BY <2>2, <2>3 DEF PlanSound
<1> QED  BY <1>1, <1>2 DEF RouteInv

LEMMA RestartStep ==
    ASSUME RouteInv, Restart
    PROVE  RouteInv'
<1> DEFINE open == {p \in Plans : journal[p] # None}
           n == Cardinality(open)
<1>1. /\ mode = "down" /\ mode' = "recovering" /\ queue' \in Orders(open)
      /\ UNCHANGED <<kernel, journal, pc, todo, goal, tainted, crashes>>
      /\ TypeOK /\ RecoverySound
  BY DEF RouteInv, Restart
<1>2. n \in Nat
  BY RouteSets, FS_Subset, FS_CardinalityType
<1> HIDE DEF n
<1>3. /\ queue' \in [1..n -> open]
      /\ \A i, j \in 1..n : queue'[i] = queue'[j] => i = j
  BY <1>1 DEF Orders, n
<1>4. queue' \in Seq(Plans) /\ DOMAIN queue' = 1..n
  BY <1>2, <1>3
<1>5. TypeOK'
  BY <1>1, <1>4 DEF TypeOK
<1>6. \A x \in Plans : ~InProgress(x)'
  BY <1>1 DEF RecoverySound, InProgress
<1>7. RecoverySound'
  BY <1>1, <1>3, <1>4, <1>6 DEF RecoverySound
<1> QED  BY <1>1, <1>5, <1>7, RecoveryMoves

LEMMA ServeStep ==
    ASSUME RouteInv, Serve
    PROVE  RouteInv'
<1>1. /\ mode = "recovering" /\ queue = <<>> /\ mode' = "running" /\ TypeOK
      /\ UNCHANGED <<kernel, journal, pc, todo, queue, goal, tainted, crashes>>
  BY DEF RouteInv, Serve
<1>2. TypeOK'
  BY <1>1 DEF TypeOK
<1>3. RecoverySound'
  BY <1>1 DEF RecoverySound
<1> QED  BY <1>1, <1>2, <1>3, RecoveryMoves

\* The entry at hand leaves the queue, and nothing is in progress any more.
LEMMA QueueMoves ==
    ASSUME RouteInv, mode = "recovering", mode' = mode, queue # <<>>,
           queue' = Tail(queue),
           \A x \in Plans \ {Head(queue)} : journal'[x] = journal[x],
           \A x \in Plans : ~InProgress(x)'
    PROVE  RecoverySound' /\ queue' \in Seq(Plans)
<1>1. queue \in Seq(Plans) /\ RecoverySound
  BY DEF RouteInv, TypeOK
<1>2. /\ queue' \in Seq(Plans) /\ Head(queue) = queue[1] /\ 1 \in DOMAIN queue
      /\ \A i \in DOMAIN queue' : /\ i + 1 \in DOMAIN queue /\ queue'[i] = queue[i + 1]
                                  /\ i \in Nat /\ i # 0
  BY <1>1
<1>3. \A i, j \in DOMAIN queue' : queue'[i] = queue'[j] => i = j
  <2>1. SUFFICES ASSUME NEW i \in DOMAIN queue', NEW j \in DOMAIN queue',
                        queue'[i] = queue'[j]
                 PROVE  i = j
    OBVIOUS
  <2>2. i + 1 = j + 1
    BY <1>1, <1>2, <2>1 DEF RecoverySound
  <2> QED  BY <1>2, <2>1, <2>2
<1>4. \A i \in DOMAIN queue' : journal'[queue'[i]] # None
  <2>1. SUFFICES ASSUME NEW i \in DOMAIN queue'
                 PROVE  journal'[queue'[i]] # None
    OBVIOUS
  <2>2. i + 1 # 1
    BY <1>2, <2>1
  <2>3. queue[i + 1] # Head(queue) /\ queue[i + 1] \in Plans /\ journal[queue[i + 1]] # None
    BY <1>1, <1>2, <2>1, <2>2 DEF RecoverySound
  <2> QED  BY <1>2, <2>1, <2>3
<1> QED  BY <1>2, <1>3, <1>4 DEF RecoverySound

\* The entry at hand while recovery runs.
LEMMA AtHand ==
    ASSUME RouteInv, mode = "recovering", queue # <<>>
    PROVE  /\ Head(queue) \in Plans /\ journal[Head(queue)] # None
           /\ \A x \in Plans : InProgress(x) =>
                 x = Head(queue) /\ pc[x] = "rollingback" /\ Applying(x)
<1>1. queue \in Seq(Plans) /\ RecoverySound
  BY DEF RouteInv, TypeOK
<1>2. Head(queue) = queue[1] /\ 1 \in DOMAIN queue /\ Head(queue) \in Plans
  BY <1>1
<1> QED  BY <1>1, <1>2 DEF RecoverySound

LEMMA ReconcileVerifiedStep ==
    ASSUME RouteInv, ReconcileVerified
    PROVE  RouteInv' /\ \A p \in Plans : Applying(p) => journal'[p] # None
<1>0. PICK o \in Plans : o = Head(queue)
  BY AtHand DEF ReconcileVerified
<1>1. /\ mode = "recovering" /\ queue # <<>> /\ journal[o].state # "applying"
      /\ journal' = [journal EXCEPT ![o] = None] \/ journal' = journal
      /\ queue' = Tail(queue)
      /\ UNCHANGED <<kernel, pc, todo, mode, goal, tainted, crashes>>
      /\ TypeOK /\ Alone /\ OneAtWork /\ Settled /\ \A x \in Plans : PlanSound(x)
  BY <1>0 DEF RouteInv, ReconcileVerified, Undoes, Forget
<1>2. ~Applying(o) /\ \A x \in Plans : ~InProgress(x)
  BY <1>1, <1>0, AtHand DEF Applying
<1>3. /\ \A x \in Plans \ {o} : journal'[x] = journal[x]
      /\ \A x \in Plans : journal'[x] \in {None, journal[x]} /\ ~InProgress(x)'
      /\ \A x \in Plans : Clean(x)' <=> Clean(x)
  BY <1>1, <1>2 DEF TypeOK, InProgress, Clean
<1>4. RecoverySound' /\ queue' \in Seq(Plans)
  BY <1>1, <1>3, <1>0, QueueMoves
<1>5. \A x \in Plans : Applying(x)' <=> Applying(x)
  <2>1. ~Applying(o)'
    BY <1>2, <1>3 DEF Applying
  <2> QED  BY <1>2, <1>3, <2>1 DEF Applying
<1>6. TypeOK'
  BY <1>1, <1>4 DEF TypeOK
<1>7. Alone' /\ OneAtWork'
  BY <1>1, <1>2, <1>3, <1>5 DEF Alone, OneAtWork
<1>8. Settled'
  <2>1. \A t \in Targets : Unconfirmed(t)' = Unconfirmed(t)
    BY <1>5 DEF Unconfirmed, Applying
  <2> QED  BY <1>1, <2>1 DEF Settled
<1>9. ASSUME NEW x \in Plans
      PROVE  PlanSound(x)'
  <2>1. PointSound(x)'
    BY <1>1, <1>2, <1>3, <1>5 DEF PlanSound, PointSound, InProgress
  <2>2. EntrySound(x)'
    BY <1>1, <1>3, <1>5 DEF PlanSound, EntrySound, Undo
  <2>3. TableSound(x)'
    <3>1. Applying(x)' => journal'[x] = journal[x]
      BY <1>3 DEF Applying
    <3> QED  BY <1>1, <1>3, <1>5, <3>1 DEF PlanSound, TableSound, Kernel, After
  <2>4. LateSound(x)'
    BY <1>3 DEF LateSound, InProgress
  <2> QED  BY <2>1, <2>2, <2>3, <2>4 DEF PlanSound
<1>10. \A p \in Plans : Applying(p) => journal'[p] # None
  BY <1>2, <1>3 DEF Applying
<1> QED  BY <1>4, <1>6, <1>7, <1>8, <1>9, <1>10 DEF RouteInv

LEMMA ReconcileStartStep ==
    ASSUME RouteInv, ReconcileStart
    PROVE  RouteInv'
<1>0. PICK o \in Plans : o = Head(queue)
  BY AtHand DEF ReconcileStart
<1>1. /\ mode = "recovering" /\ queue # <<>> /\ journal[o].state = "applying"
      /\ pc[o] # "rollingback"
      /\ pc' = [pc EXCEPT ![o] = "rollingback"] /\ todo' = [todo EXCEPT ![o] = Undo(o)]
      /\ UNCHANGED <<kernel, journal, mode, queue, goal, tainted, crashes>>
      /\ TypeOK /\ Alone /\ RecoverySound /\ PlanSound(o)
  BY <1>0 DEF RouteInv, ReconcileStart, Undoes, Undo
<1>2. Applying(o) /\ \A x \in Plans : ~InProgress(x)
  BY <1>1, <1>0, AtHand DEF Applying
<1>3. Mine(o)
  BY <1>1, <1>2 DEF Mine, Alone, Clean
<1>4. Undo(o) \in Seq(Command) /\ Undo(o) # <<>>
  BY <1>1, <1>2, UndoIsSome DEF PlanSound, Applying
<1>5. TypeOK'
  BY <1>1, <1>4 DEF TypeOK, PlanPoints
<1>6. /\ pc'[o] = "rollingback" /\ todo'[o] = Undo(o)
      /\ \A x \in Plans \ {o} : pc'[x] = pc[x] /\ todo'[x] = todo[x]
  BY <1>1, <1>2 DEF TypeOK
<1>7. OwnMove(o)
  BY <1>1, <1>6 DEF OwnMove
<1>8. Applying(o)' /\ \A x \in Plans \ {o} : ~InProgress(x)'
  BY <1>1, <1>2, <1>6 DEF Applying, InProgress
<1>9. RecoverySound'
  BY <1>1, <1>6, <1>8, <1>0 DEF RecoverySound
<1>10. EntrySound(o)' /\ PointSound(o)' /\ LateSound(o)'
  BY <1>1, <1>6, <1>8
     DEF PlanSound, EntrySound, PointSound, LateSound, Undo, Applying, Clean
<1>11. TableSound(o)'
  BY <1>1, <1>2, <1>4, <1>6 DEF PlanSound, TableSound, Applying, Kernel, After, Clean
<1>12. OwnSound(o)
  BY <1>8, <1>10, <1>11 DEF OwnSound, PlanSound
<1> QED  BY <1>3, <1>5, <1>7, <1>9, <1>12, OwnMoveKeeps

LEMMA ReconcileEndStep ==
    ASSUME RouteInv, ReconcileEnd
    PROVE  /\ RouteInv'
           /\ \A p \in Plans : Applying(p) /\ journal'[p] = None /\ Clean(p)' =>
                 Kernel(p)' = journal[p].snapshot
<1>0. PICK o \in Plans : o = Head(queue)
  BY AtHand DEF ReconcileEnd
<1>1. /\ mode = "recovering" /\ queue # <<>> /\ pc[o] = "rollingback"
      /\ queue' = Tail(queue) /\ todo' = [todo EXCEPT ![o] = <<>>]
      /\ UNCHANGED <<kernel, mode, goal, tainted, crashes>>
      /\ \/ /\ todo[o] = <<>> /\ journal' = [journal EXCEPT ![o] = None]
            /\ pc' = [pc EXCEPT ![o] = "done"]
         \/ /\ journal' = journal /\ pc' = [pc EXCEPT ![o] = "abandoned"]
      /\ TypeOK /\ PlanSound(o)
  BY <1>0 DEF RouteInv, ReconcileEnd, Forget
<1>2. \A x \in Plans : InProgress(x) => x = o /\ Applying(x)
  BY <1>1, <1>0, AtHand
<1>3. Applying(o) /\ Mine(o)
  BY <1>1, <1>2, MineAtWork DEF InProgress
<1>4. todo[o] = <<>> /\ Clean(o) =>
         Kernel(o) = journal[o].snapshot /\ Kernel(o) \in goal[Target[o]]
  BY <1>1, <1>3 DEF PlanSound, TableSound
<1>5. PICK v \in {"done", "abandoned"} : pc' = [pc EXCEPT ![o] = v]
  BY <1>1
<1>6. /\ \A x \in Plans \ {o} : journal'[x] = journal[x]
      /\ \A x \in Plans : ~InProgress(x)'
  <2>1. pc'[o] = v /\ \A x \in Plans \ {o} : pc'[x] = pc[x]
    BY <1>1, <1>2, <1>5 DEF TypeOK
  <2> QED  BY <1>1, <1>2, <2>1 DEF InProgress, TypeOK
<1>7. RecoverySound' /\ queue' \in Seq(Plans)
  BY <1>1, <1>6, <1>0, QueueMoves
<1>8. /\ todo' \in [Plans -> Seq(Command)] /\ \A x \in Plans \ {o} : todo'[x] = todo[x]
      /\ goal \in [Targets -> (SUBSET Table) \ {{}}] /\ tainted \subseteq Targets
  <2>1. <<>> \in Seq(Command)
    OBVIOUS
  <2> QED  BY <1>1, <2>1 DEF TypeOK
<1>9. RouteInv'
  <2>1. \/ journal' = journal
        \/ /\ journal' = [journal EXCEPT ![o] = None]
           /\ Kernel(o) \in goal'[Target[o]] \/ Target[o] \in tainted'
    BY <1>1, <1>4 DEF Clean
  <2> QED  BY <1>1, <1>3, <1>5, <1>7, <1>8, <2>1, UndoEnds
<1>10. ASSUME NEW p \in Plans, Applying(p), journal'[p] = None, Clean(p)'
       PROVE  Kernel(p)' = journal[p].snapshot
  <2>1. p = o /\ todo[o] = <<>>
    BY <1>1, <1>6, <1>10 DEF Applying
  <2> QED  BY <1>1, <1>4, <1>10, <2>1 DEF Kernel, Clean
<1> QED  BY <1>9, <1>10

LEMMA RecoveryKeeps ==
    ASSUME RouteInv, Recovery
    PROVE  RouteInv'
<1>1. CASE ReconcileCommand
  BY <1>1, CommandRuns, AtHand DEF ReconcileCommand
<1> QED  BY <1>1, ReconcileVerifiedStep, ReconcileStartStep, ReconcileEndStep, ServeStep
         DEF Recovery

-----------------------------------------------------------------------------
(* Crash safety. *)

LEMMA InitSound ==
    ASSUME Init
    PROVE  RouteInv
<1>1. /\ kernel \in [Targets -> [Metrics -> Preset \cup {None}]]
      /\ journal = [p \in Plans |-> None] /\ pc = [p \in Plans |-> "idle"]
      /\ todo = [p \in Plans |-> <<>>] /\ mode = "running" /\ queue = <<>>
      /\ goal = [t \in Targets |-> {kernel[t]}] /\ tainted = {} /\ crashes = 0
  BY DEF Init
<1>2. kernel \in [Targets -> Table]
  <2>1. Preset \subseteq Gateways
    BY RouteSets
  <2> QED  BY <1>1, <2>1 DEF Table
<1>3. TypeOK
  <2>1. <<>> \in Seq(Command) /\ <<>> \in Seq(Plans)
    OBVIOUS
  <2>2. crashes \in 0..MaxCrashes
    BY <1>1, RouteSets
  <2>3. goal \in [Targets -> (SUBSET Table) \ {{}}]
    BY <1>1, <1>2
  <2> QED  BY <1>1, <1>2, <2>1, <2>2, <2>3 DEF TypeOK, PlanPoints
<1>4. OneAtWork /\ Alone /\ RecoverySound /\ Settled
  BY <1>1 DEF OneAtWork, Alone, RecoverySound, Settled, InProgress, Applying
<1>5. ASSUME NEW p \in Plans
      PROVE  PlanSound(p)
  BY <1>1 DEF PlanSound, EntrySound, PointSound, TableSound, LateSound, Applying
<1> QED  BY <1>3, <1>4, <1>5 DEF RouteInv

LEMMA NextKeeps ==
    ASSUME RouteInv, [Next]_vars
    PROVE  RouteInv'
<1>1. CASE UNCHANGED vars
  <2>1. TypeOK'
    BY <1>1 DEF vars, RouteInv, TypeOK
  <2>2. RecoverySound'
    BY <1>1 DEF vars, RouteInv, RecoverySound, InProgress, Applying
  <2> QED  BY <1>1, <2>1, <2>2, RecoveryMoves DEF vars
<1>2. CASE Next
  BY <1>2, PlanStepKeeps, CrashStep, RestartStep, RecoveryKeeps DEF Next
<1> QED  BY <1>1, <1>2

\* With an unconfirmed plan for a target, its undo leads to an acceptable table.
LEMMA UndoRestores ==
    ASSUME RouteInv, NEW p \in Plans, Applying(p), Clean(p)
    PROVE  Replay(Undo(p), Kernel(p)) \in goal[Target[p]]
<1> DEFINE tab == journal[p].snapshot
<1>1. /\ TypeOK /\ EntrySound(p) /\ journal[p] # None /\ ~Ambiguous(p, tab)
      /\ Kernel(p) \in {tab, After(p, tab)} /\ tab \in goal[Target[p]]
  BY DEF RouteInv, PlanSound, TableSound, EntrySound, Applying
<1>2. CASE \E c \in Command : Undo(p) = <<c>> /\ Exec(c, Kernel(p)) = tab
  <2>1. PICK c \in Command : Undo(p) = <<c>> /\ Exec(c, Kernel(p)) = tab
    BY <1>2
  <2>2. Len(Undo(p)) = 1 /\ Undo(p)[1] = c
    BY <2>1
  <2> QED  BY <1>1, <2>1, <2>2 DEF Replay
<1>3. CASE \E r, d \in Command : /\ Undo(p) = <<r, d>>
                                 /\ Exec(r, Kernel(p)) = Kernel(p) /\ Exec(d, Kernel(p)) = tab
  <2>1. PICK r, d \in Command : /\ Undo(p) = <<r, d>>
                                /\ Exec(r, Kernel(p)) = Kernel(p) /\ Exec(d, Kernel(p)) = tab
    BY <1>3
  <2>2. Len(Undo(p)) = 2 /\ Undo(p)[1] = r /\ Undo(p)[2] = d
    BY <2>1
  <2> QED  BY <1>1, <2>1, <2>2 DEF Replay
<1> QED  BY <1>1, <1>2, <1>3, UndoOfEntry

LEMMA EveryCrashIsRecoverable ==
    ASSUME RouteInv
    PROVE  RoutesInv
<1>1. TypeOK /\ Settled
  BY DEF RouteInv
<1>2. ASSUME NEW t \in Targets \ tainted
      PROVE  Recoverable(t)
  <2>1. CASE Unconfirmed(t) = {}
    BY <1>1, <2>1 DEF Settled, Recoverable
  <2>2. CASE Unconfirmed(t) # {}
    <3>1. PICK p \in Unconfirmed(t) : TRUE
      BY <2>2
    <3>2. p \in Plans /\ Applying(p) /\ Target[p] = t /\ Clean(p)
      BY <3>1 DEF Unconfirmed, Applying, Clean
    <3>3. Replay(journal[p].rollbackCommands, kernel[t]) \in goal[t]
      BY <3>2, UndoRestores DEF Undo, Kernel
    <3> QED  BY <2>2, <3>1, <3>3 DEF Recoverable
  <2> QED  BY <2>1, <2>2
<1> QED  BY <1>1, <1>2 DEF RoutesInv, CrashIsRecoverable

\* Whatever the instant of a crash, in service, in a rollback or in the recovery
\* of an earlier crash, the journal leads back to an acceptable table: the entry
\* applyRoutePlan persists before `ip route replace` undoes both outcomes of it.
\* The exceptions are those CrashIsRecoverable names, and no other.
THEOREM CrashSafety == Spec => []RoutesInv
<1>1. Init => RouteInv
  BY InitSound
<1>2. RouteInv /\ [Next]_vars => RouteInv'
  BY NextKeeps
<1>3. RouteInv => RoutesInv
  BY EveryCrashIsRecoverable
<1> QED  BY <1>1, <1>2, <1>3, PTL DEF Spec

\* The entries a plan's own steps forget.
LEMMA PlanForgets ==
    ASSUME RouteInv, NEW o \in Plans, PlanStep(o),
           NEW p \in Plans, Applying(p), journal'[p] = None, Clean(p)'
    PROVE  Kernel(p)' = journal[p].snapshot
<1>1. TypeOK /\ p \in DOMAIN journal /\ o \in DOMAIN journal
  BY DEF RouteInv, TypeOK
<1>2. CASE ReplaceFails(o)
  <2>1. p = o
    BY <1>1, <1>2 DEF ReplaceFails, Forget, Applying
  <2> QED  BY <1>2, <2>1, ReplaceFailsStep
<1>3. CASE RollbackDone(o)
  <2>1. p = o
    BY <1>1, <1>3 DEF RollbackDone, Forget, Applying
  <2> QED  BY <1>3, <2>1, RollbackDoneStep
<1>4. CASE Confirm(o)
  <2>1. journal'[o] # None /\ \A x \in Plans \ {o} : journal'[x] = journal[x]
    BY <1>1, <1>4, ConfirmStep DEF Confirm, TypeOK
  <2> QED  BY <2>1 DEF Applying
<1>5. CASE Snapshot(o)
  <2>1. pc[o] = "showing" /\ PointSound(o)
    BY <1>5 DEF Snapshot, RouteInv, PlanSound
  <2>2. journal[o] = None
    BY <2>1 DEF PointSound
  <2>3. \A x \in Plans \ {o} : journal'[x] = journal[x]
    BY <1>1, <1>5 DEF Snapshot, JournalFirst, TypeOK
  <2> QED  BY <2>2, <2>3 DEF Applying
<1>6. CASE UNCHANGED journal
  BY <1>6 DEF Applying
<1> QED  BY <1>2, <1>3, <1>4, <1>5, <1>6
         DEF PlanStep, ApplyStart, SnapshotFails, ReplaceRuns, ReplaceSucceeds,
             ProvidersVerify, Abandon, RollbackStart, RollbackCommand, RollbackFails,
             RollbackAbandoned

\* No step forgets an unconfirmed plan whose change is still in the kernel: a
\* failed replace, a finished rollback and a finished reconciliation all leave the
\* table that captureSnapshot read; the exceptions are those of CrashSafety.
THEOREM ForgettingIsSafe == Spec => ForgottenMeansRestored
<1>1. Init => RouteInv
  BY InitSound
<1>2. RouteInv /\ [Next]_vars => RouteInv'
  BY NextKeeps
<1>3. ASSUME RouteInv, Next, NEW p \in Plans, Applying(p), journal'[p] = None, Clean(p)'
      PROVE  kernel'[Target[p]] = journal[p].snapshot
  <2>1. CASE \E o \in Plans : PlanStep(o)
    BY <1>3, <2>1, PlanForgets DEF Kernel
  <2>2. CASE ReconcileVerified
    BY <1>3, <2>2, ReconcileVerifiedStep
  <2>3. CASE ReconcileEnd
    BY <1>3, <2>3, ReconcileEndStep DEF Kernel
  <2>4. CASE UNCHANGED journal
    BY <1>3, <2>4 DEF Applying
  <2> QED  BY <1>3, <2>1, <2>2, <2>3, <2>4
           DEF Next, Crash, Restart, Recovery, ReconcileStart, ReconcileCommand, Serve
<1>4. RouteInv /\ [Next]_vars =>
        [\A p \in Plans : /\ journal[p] # None /\ journal'[p] = None
                          /\ journal[p].state = "applying" /\ Target[p] \notin tainted'
                          => kernel'[Target[p]] = journal[p].snapshot]_vars
  BY <1>3 DEF Applying, Clean
<1> QED  BY <1>1, <1>2, <1>4, PTL DEF Spec, ForgottenMeansRestored
=============================================================================
