------------------------- MODULE LinuxRouteExecutor -------------------------
(***************************************************************************)
(* The Linux route executor and its crash-safe journal                     *)
(* (packages/linux-client/src/linux-route-executor.ts, route-journal.ts)   *)
(* over a kernel routing table, driven by the routing engine               *)
(* (packages/routing/src/index.ts: commit, rollbackPlan, confirmPlan).     *)
(*                                                                         *)
(* The process may crash between any two awaits; the journal survives, the *)
(* memory does not, and the next start runs recoverInterrupted before it   *)
(* serves again.  The in-memory maps of the executor always equal the      *)
(* journal (persist and forget write both, the constructor rehydrates      *)
(* them), so one variable stands for both.                                 *)
(***************************************************************************)
EXTENDS Naturals, Sequences, FiniteSets

CONSTANTS
    Plans,        \* route plans, each applied at most once (ids are unique)
    Targets,      \* route prefixes
    Gateways,     \* next hops
    Metrics,      \* route metrics; 0 is left out of the ip arguments
    Target,       \* Plans -> Targets:  targetFor(plan)
    Gateway,      \* Plans -> Gateways: plan.selectedPath.route.gateway
    Metric,       \* Plans -> Metrics:  plan.selectedPath.route.metric
    Preset,       \* next hops of the routes the host starts with
    Opaque,       \* those of them whose routes canRestoreRoute rejects
    None,
    MaxCrashes    \* bound: crashes in one behaviour

ASSUME RouteSets ==
    /\ IsFiniteSet(Plans)
    /\ Target \in [Plans -> Targets]
    /\ Gateway \in [Plans -> Gateways]
    /\ Metric \in [Plans -> Metrics]
    /\ Metrics \subseteq Nat /\ 0 \in Metrics
    /\ Opaque \subseteq Preset /\ Preset \subseteq Gateways
    /\ None \notin Gateways
    /\ MaxCrashes \in Nat

VARIABLES
    kernel,   \* the routing table: target -> metric -> next hop
    journal,  \* plan -> RouteJournalEntry
    pc,       \* where the handling of each plan is suspended
    todo,     \* rollback commands a plan has still to run
    mode,     \* the process: running, down, or recovering at start
    queue,    \* recoverInterrupted: entries still to reconcile
    goal,     \* target -> the tables that are acceptable should we crash now
    tainted,  \* history: targets whose table the journal may not lead back to
    crashes

vars == <<kernel, journal, pc, todo, mode, queue, goal, tainted, crashes>>

-----------------------------------------------------------------------------
(* The kernel's route table (external: iproute2). *)

Table == [Metrics -> Gateways \cup {None}]
Routes(tab) == {m \in Metrics : tab[m] # None}

Command == [op: {"replace", "del"}, gateway: Gateways, metric: Metrics]

\* A delete without a metric takes the first route through that next hop.
Matches(cmd, tab) ==
    {m \in Metrics : tab[m] = cmd.gateway /\ cmd.metric \in {0, m}}

First(ms) == CHOOSE m \in ms : \A n \in ms : m <= n

\* The table after `ip route replace` or `ip route del`.
Exec(cmd, tab) ==
    IF cmd.op = "replace" THEN [tab EXCEPT ![cmd.metric] = cmd.gateway]
    ELSE IF Matches(cmd, tab) = {} THEN tab
    ELSE [tab EXCEPT ![First(Matches(cmd, tab))] = None]

\* "No such process".
Absent(cmd, tab) == cmd.op = "del" /\ Matches(cmd, tab) = {}

\* The delete finds its own route gone and takes one of another metric.
Strays(cmd, tab) ==
    cmd.op = "del" /\ Matches(cmd, tab) # {} /\ cmd.metric \notin Matches(cmd, tab)

\* The kernel runs a rollback command.
Runs(cmd, t) ==
    /\ kernel' = [kernel EXCEPT ![t] = Exec(cmd, @)]
    /\ tainted' = IF Strays(cmd, kernel[t]) THEN tainted \cup {t} ELSE tainted

\* The table after a whole rollback, absent routes ignored.
Replay(cmds, tab) ==
    CASE Len(cmds) = 0 -> tab
      [] Len(cmds) = 1 -> Exec(cmds[1], tab)
      [] Len(cmds) = 2 -> Exec(cmds[2], Exec(cmds[1], tab))

-----------------------------------------------------------------------------
(* Journal entries. *)

Entry == [state: {"applying", "verified"}, snapshot: Table,
          rollbackCommands: Seq(Command)]
ASSUME NoneIsNoEntry == None \notin Entry

\* mutationArgs.
Mutation(p, op) == [op |-> op, gateway |-> Gateway[p], metric |-> Metric[p]]

\* captureSnapshot and the refusal of applyRoutePlan: at most one prior route,
\* of a shape that can be replayed.
Restorable(tab) ==
    \A m \in Routes(tab) : Routes(tab) = {m} /\ tab[m] \notin Opaque

\* Mutant: the applied route is not deleted when its metric differs.
rollbackRestoreOnly(p, tab) ==
    IF Routes(tab) = {} THEN <<Mutation(p, "del")>>
    ELSE LET m == First(Routes(tab)) IN
         <<[op |-> "replace", gateway |-> tab[m], metric |-> m]>>

rollbackCommandsFor(p, tab) ==
    IF Routes(tab) = {} THEN <<Mutation(p, "del")>>
    ELSE LET m == First(Routes(tab))
             restore == [op |-> "replace", gateway |-> tab[m], metric |-> m]
         IN IF m = Metric[p] THEN <<restore>>
            ELSE <<restore, Mutation(p, "del")>>

Unconfirmed(t) ==
    {p \in Plans : /\ journal[p] # None
                   /\ journal[p].state = "applying"
                   /\ Target[p] = t}

PlanPoints == {"idle", "showing", "replacing", "replaced", "applied", "active",
               "confirmed", "rollingback", "stuck", "abandoned", "done"}

\* A plan whose handler is between its first and its last await.
InProgress(p) == pc[p] \in {"showing", "replacing", "replaced", "applied",
                            "active", "rollingback", "stuck"}

Init ==
    /\ kernel \in [Targets -> [Metrics -> Preset \cup {None}]]
    /\ journal = [p \in Plans |-> None]
    /\ pc = [p \in Plans |-> "idle"]
    /\ todo = [p \in Plans |-> <<>>]
    /\ mode = "running"
    /\ queue = <<>>
    /\ goal = [t \in Targets |-> {kernel[t]}]
    /\ tainted = {} /\ crashes = 0

-----------------------------------------------------------------------------
(* applyRoutePlan. *)

\* The privileged boundary holds the resource, so plans for one target are
\* handled one after the other.
TargetFree(p) == \A q \in Plans : Target[q] = Target[p] => ~InProgress(q)

\* The target may be mutated over a plan that was abandoned unconfirmed.
Stacked(p) == Unconfirmed(Target[p]) # {}

Taints(p, cause) == tainted' = IF cause THEN tainted \cup {Target[p]} ELSE tainted

ApplyStart(p) ==
    /\ mode = "running" /\ pc[p] = "idle"
    /\ TargetFree(p)
    /\ pc' = [pc EXCEPT ![p] = "showing"]
    /\ Taints(p, Stacked(p))
    /\ UNCHANGED <<kernel, journal, todo, mode, queue, goal, crashes>>

\* Mutant: the entry is written only after the kernel was changed.
JournalLate(p, tab) == UNCHANGED journal

\* persist: the undo is on disk before the kernel is touched.
JournalFirst(p, tab) ==
    journal' = [journal EXCEPT ![p] =
                  [state |-> "applying", snapshot |-> tab,
                   rollbackCommands |-> rollbackCommandsFor(p, tab)]]

\* applyRoutePlan rejects: KernelRuntime.execute calls it again, up to its
\* maxAttempts (the count is not told apart), or the plan is over.
Rejects(p) == \E next \in {"showing", "done"} : pc' = [pc EXCEPT ![p] = next]

\* A route of the table that a delete of p, which names no metric, may take.
Ambiguous(p, tab) == Metric[p] = 0 /\ \E m \in Metrics \ {0} : tab[m] = Gateway[p]

\* `ip route show` answers.
Snapshot(p) ==
    /\ mode = "running" /\ pc[p] = "showing"
    /\ LET tab == kernel[Target[p]] IN
       IF Restorable(tab)
         THEN /\ JournalFirst(p, tab) /\ pc' = [pc EXCEPT ![p] = "replacing"]
              /\ Taints(p, Ambiguous(p, tab))
         ELSE UNCHANGED <<journal, tainted>> /\ Rejects(p)
    /\ UNCHANGED <<kernel, todo, mode, queue, goal, crashes>>

\* `ip route show` or the journal write fails: nothing was mutated.
SnapshotFails(p) ==
    /\ mode = "running" /\ pc[p] = "showing"
    /\ Rejects(p)
    /\ UNCHANGED <<kernel, journal, todo, mode, queue, goal, tainted, crashes>>

\* The kernel runs `ip route replace`; its exit is still to be read.
ReplaceRuns(p) ==
    /\ mode = "running" /\ pc[p] = "replacing"
    /\ kernel' = [kernel EXCEPT ![Target[p]] = Exec(Mutation(p, "replace"), @)]
    /\ pc' = [pc EXCEPT ![p] = "replaced"]
    /\ UNCHANGED <<journal, todo, mode, queue, goal, tainted, crashes>>

ReplaceSucceeds(p) ==
    /\ mode = "running" /\ pc[p] = "replaced"
    /\ pc' = [pc EXCEPT ![p] = "applied"]
    /\ UNCHANGED <<kernel, journal, todo, mode, queue, goal, tainted, crashes>>

Forget(p) == journal' = [journal EXCEPT ![p] = None]

\* A non-zero exit is taken for "nothing happened" and the entry is forgotten,
\* also when `ip` was killed at its timeout after the kernel had obeyed it.
ReplaceFails(p) ==
    /\ mode = "running" /\ pc[p] \in {"replacing", "replaced"}
    /\ Forget(p)
    /\ Rejects(p)
    /\ Taints(p, pc[p] = "replaced")
    /\ UNCHANGED <<kernel, todo, mode, queue, goal, crashes>>

-----------------------------------------------------------------------------
(* commit, confirmPlan, rollbackPlan. *)

\* The verification providers of commit() agree.
ProvidersVerify(p) ==
    /\ mode = "running" /\ pc[p] = "applied"
    /\ pc' = [pc EXCEPT ![p] = "active"]
    /\ UNCHANGED <<kernel, journal, todo, mode, queue, goal, tainted, crashes>>

\* The table is a new start for the target unless another plan is unconfirmed.
Heals(p) == tainted' = IF Unconfirmed(Target[p]) \subseteq {p} THEN tainted \ {Target[p]}
                       ELSE tainted

\* The destination was verified: confirmRoutePlan marks the entry.
Confirm(p) ==
    /\ mode = "running" /\ pc[p] = "active"
    /\ Heals(p)
    /\ journal' = [journal EXCEPT ![p] = [@ EXCEPT !.state = "verified"]]
    /\ goal' = [goal EXCEPT ![Target[p]] = {kernel[Target[p]]}]
    /\ pc' = [pc EXCEPT ![p] = "confirmed"]
    /\ UNCHANGED <<kernel, todo, mode, queue, crashes>>

\* The boundary's run was halted after apply: nobody confirms or rolls back.
Abandon(p) ==
    /\ mode = "running" /\ pc[p] \in {"applied", "active"}
    /\ pc' = [pc EXCEPT ![p] = "abandoned"]
    /\ UNCHANGED <<kernel, journal, todo, mode, queue, goal, tainted, crashes>>

\* rollbackRoutePlan with the journaled commands: after a failed verification,
\* again after a failed rollback, or for a plan confirmed earlier.
RollbackStart(p) ==
    /\ mode = "running"
    /\ \/ pc[p] \in {"applied", "active", "stuck"} /\ UNCHANGED <<goal, tainted>>
       \/ /\ pc[p] = "confirmed" /\ journal[p] # None
          /\ TargetFree(p)
          /\ Taints(p, Stacked(p) \/ Len(journal[p].rollbackCommands) > 1)
          /\ goal' = [goal EXCEPT ![Target[p]] =
                @ \cup {Replay(journal[p].rollbackCommands, kernel[Target[p]])}]
    /\ pc' = [pc EXCEPT ![p] = "rollingback"]
    /\ todo' = [todo EXCEPT ![p] = journal[p].rollbackCommands]
    /\ UNCHANGED <<kernel, journal, mode, queue, crashes>>

\* runRollback: one command.
RollbackCommand(p) ==
    /\ mode = "running" /\ pc[p] = "rollingback"
    /\ todo[p] # <<>>
    /\ ~Absent(Head(todo[p]), kernel[Target[p]])
    /\ Runs(Head(todo[p]), Target[p])
    /\ todo' = [todo EXCEPT ![p] = Tail(@)]
    /\ UNCHANGED <<journal, pc, mode, queue, goal, crashes>>

\* A command fails, or is killed at its timeout and may have run: the entry is kept.
RollbackFails(p) ==
    /\ mode = "running" /\ pc[p] = "rollingback"
    /\ todo[p] # <<>>
    /\ UNCHANGED <<kernel, tainted>> \/ Runs(Head(todo[p]), Target[p])
    /\ pc' = [pc EXCEPT ![p] = "stuck"]
    /\ todo' = [todo EXCEPT ![p] = <<>>]
    /\ UNCHANGED <<journal, mode, queue, goal, crashes>>

\* All commands ran: the entry is forgotten.
RollbackDone(p) ==
    /\ mode = "running" /\ pc[p] = "rollingback"
    /\ todo[p] = <<>>
    /\ Forget(p)
    /\ goal' = [goal EXCEPT ![Target[p]] =
                  IF journal[p].state = "verified" THEN {kernel[Target[p]]} ELSE @]
    /\ IF journal[p].state = "verified" THEN Heals(p) ELSE UNCHANGED tainted
    /\ pc' = [pc EXCEPT ![p] = "done"]
    /\ UNCHANGED <<kernel, todo, mode, queue, crashes>>

\* The caller gives up on a rollback that keeps failing.
RollbackAbandoned(p) ==
    /\ mode = "running" /\ pc[p] = "stuck"
    /\ pc' = [pc EXCEPT ![p] = "abandoned"]
    /\ UNCHANGED <<kernel, journal, todo, mode, queue, goal, tainted, crashes>>

-----------------------------------------------------------------------------
(* Crash, restart, recoverInterrupted. *)

Crash ==
    /\ mode # "down"
    /\ crashes < MaxCrashes
    /\ crashes' = crashes + 1
    /\ mode' = "down"
    /\ pc' = [p \in Plans |-> IF InProgress(p) THEN "abandoned" ELSE pc[p]]
    /\ todo' = [p \in Plans |-> <<>>]
    /\ queue' = <<>>
    /\ UNCHANGED <<kernel, journal, goal, tainted>>

\* journal.list() in file-name order, which says nothing about plan order.
Orders(S) == {s \in [1..Cardinality(S) -> S] :
                 \A i, j \in 1..Cardinality(S) : s[i] = s[j] => i = j}

Restart ==
    /\ mode = "down"
    /\ mode' = "recovering"
    /\ queue' \in Orders({p \in Plans : journal[p] # None})
    /\ UNCHANGED <<kernel, journal, pc, todo, goal, tainted, crashes>>

Undoes(p) == journal[p].state = "applying"

\* A verified entry is pruned once it is older than the retention, or skipped.
ReconcileVerified ==
    /\ mode = "recovering" /\ queue # <<>>
    /\ LET p == Head(queue) IN
       /\ ~Undoes(p)
       /\ Forget(p) \/ UNCHANGED journal
    /\ queue' = Tail(queue)
    /\ UNCHANGED <<kernel, pc, todo, mode, goal, tainted, crashes>>

\* An unconfirmed entry is undone, command by command.
ReconcileStart ==
    /\ mode = "recovering" /\ queue # <<>>
    /\ LET p == Head(queue) IN
       /\ Undoes(p)
       /\ pc[p] # "rollingback"
       /\ pc' = [pc EXCEPT ![p] = "rollingback"]
       /\ todo' = [todo EXCEPT ![p] = journal[p].rollbackCommands]
    /\ UNCHANGED <<kernel, journal, mode, queue, goal, tainted, crashes>>

ReconcileCommand ==
    /\ mode = "recovering" /\ queue # <<>>
    /\ LET p == Head(queue) IN
       /\ pc[p] = "rollingback" /\ todo[p] # <<>>
       /\ Runs(Head(todo[p]), Target[p])
       /\ todo' = [todo EXCEPT ![p] = Tail(@)]
    /\ UNCHANGED <<journal, pc, mode, queue, goal, crashes>>

\* Mutant: a failing entry is tried again at once.
ReconcileEndRetries ==
    /\ mode = "recovering" /\ queue # <<>>
    /\ LET p == Head(queue) IN
       /\ pc[p] = "rollingback"
       /\ \/ /\ todo[p] = <<>> /\ Forget(p) /\ pc' = [pc EXCEPT ![p] = "done"]
             /\ queue' = Tail(queue)
          \/ UNCHANGED <<journal, queue>> /\ pc' = [pc EXCEPT ![p] = "abandoned"]
       /\ todo' = [todo EXCEPT ![p] = <<>>]
    /\ UNCHANGED <<kernel, mode, goal, tainted, crashes>>

\* The entry is forgotten, or kept for the next start when a command failed or
\* was killed, the last one possibly after it ran.
ReconcileEnd ==
    /\ mode = "recovering" /\ queue # <<>>
    /\ LET p == Head(queue) IN
       /\ pc[p] = "rollingback"
       /\ \/ todo[p] = <<>> /\ Forget(p) /\ pc' = [pc EXCEPT ![p] = "done"]
          \/ UNCHANGED journal /\ pc' = [pc EXCEPT ![p] = "abandoned"]
       /\ todo' = [todo EXCEPT ![p] = <<>>]
    /\ queue' = Tail(queue)
    /\ UNCHANGED <<kernel, mode, goal, tainted, crashes>>

Serve ==
    /\ mode = "recovering" /\ queue = <<>>
    /\ mode' = "running"
    /\ UNCHANGED <<kernel, journal, pc, todo, queue, goal, tainted, crashes>>

-----------------------------------------------------------------------------
PlanStep(p) ==
    \/ ApplyStart(p) \/ Snapshot(p) \/ SnapshotFails(p)
    \/ ReplaceRuns(p) \/ ReplaceSucceeds(p) \/ ReplaceFails(p)
    \/ ProvidersVerify(p) \/ Confirm(p) \/ Abandon(p)
    \/ RollbackStart(p) \/ RollbackCommand(p) \/ RollbackFails(p)
    \/ RollbackDone(p) \/ RollbackAbandoned(p)

Recovery == \/ ReconcileVerified \/ ReconcileStart \/ ReconcileCommand
            \/ ReconcileEnd \/ Serve

Next == (\E p \in Plans : PlanStep(p)) \/ Crash \/ Restart \/ Recovery

Spec == Init /\ [][Next]_vars

\* The supervisor restarts the process and recovery is not interrupted forever.
FairSpec == Spec /\ WF_vars(Restart) /\ WF_vars(Recovery)

-----------------------------------------------------------------------------
(* Properties. *)

\* The type invariant: journaled and pending rollback commands are ones that `ip`
\* accepts, and the kernel keeps one next hop per metric.
TypeOK ==
    /\ kernel \in [Targets -> Table]
    /\ journal \in [Plans -> Entry \cup {None}]
    /\ pc \in [Plans -> PlanPoints]
    /\ todo \in [Plans -> Seq(Command)]
    /\ mode \in {"running", "down", "recovering"}
    /\ queue \in Seq(Plans)
    /\ goal \in [Targets -> (SUBSET Table) \ {{}}]
    /\ tainted \subseteq Targets
    /\ crashes \in 0..MaxCrashes

\* A table from which the interrupted mutations of t can still be undone: with
\* nothing unconfirmed it is acceptable as it is, otherwise the journaled
\* commands of the unconfirmed plan lead back to an acceptable one.
Recoverable(t) ==
    IF Unconfirmed(t) = {} THEN kernel[t] \in goal[t]
    ELSE \E p \in Unconfirmed(t) :
            Replay(journal[p].rollbackCommands, kernel[t]) \in goal[t]

\* Crash safety: whatever the instant of a crash - before or after the kernel
\* ran the command, in a rollback, or in the recovery of an earlier crash - the
\* journal suffices to restore the last confirmed route.  The exceptions, each
\* until the target's next confirmation: a replace that was killed after it ran,
\* a plan started or rolled back over an unconfirmed one, the rollback of a
\* confirmed plan by two commands, and a delete without a metric where the
\* next hop has a route of another metric.
CrashIsRecoverable == \A t \in Targets \ tainted : Recoverable(t)

\* The executor's state is well formed and, but for the targets excepted above,
\* every crash can be recovered from.
RoutesInv == TypeOK /\ CrashIsRecoverable

\* The executor loses interest in an unconfirmed plan only when the table is
\* again the one its snapshot captured, whether the replace failed, the plan was
\* rolled back, or a restart undid it; with the same exceptions.
ForgottenMeansRestored ==
    [][\A p \in Plans :
          /\ journal[p] # None /\ journal'[p] = None
          /\ journal[p].state = "applying" /\ Target[p] \notin tainted'
          => kernel'[Target[p]] = journal[p].snapshot]_vars

\* Recovery ends, whatever fails on the way.
RecoveryFinishes == mode = "down" ~> mode = "running"

-----------------------------------------------------------------------------
(* Claims of the source that the code does not keep on every instance. *)

\* "A crash before that point still rolls the change back on restart, while a
\* confirmed change survives it": a process that has reconciled its journal
\* serves with the table that was last confirmed.
ServesConfirmedRoutes ==
    \A t \in Targets :
       /\ mode = "running"
       /\ Unconfirmed(t) = {}
       /\ \A p \in Plans : Target[p] = t => ~InProgress(p)
       => kernel[t] \in goal[t]
=============================================================================
