--------------------------- MODULE TunnelLifecycle ---------------------------
(***************************************************************************)
(* AutomatedTunnelLifecycle (packages/tunnel/src/lifecycle.ts) for one     *)
(* full tunnel, over the nftables kill switch (kill-switch.ts).            *)
(*                                                                         *)
(* Provider, adapter and kill switch are awaited; provider and kill switch *)
(* under a timeout that stops the waiting and not the work: what was       *)
(* abandoned goes on by itself.  The firewall is an nft table: absent,     *)
(* open (no chain) or with an output chain that drops.  Every nft command  *)
(* is a step, and may fail.                                                *)
(***************************************************************************)
EXTENDS Naturals, FiniteSets

CONSTANTS
    Ops,            \* calls of the lifecycle
    MaxAttempts,    \* maxConnectAttempts
    MaxConns,       \* connections the provider makes in one behaviour
    MaxStrays       \* pieces of abandoned work at once

ASSUME LifecycleAssumption ==
    /\ MaxAttempts \in 1..10
    /\ MaxConns \in Nat \ {0}
    /\ MaxStrays \in Nat

VARIABLES
    tunnel,     \* tunnels.get(id).state, or "gone"
    locked,     \* locks.has(id)
    op,         \* the calls
    links,      \* the connections map; connections are numbered as they are made,
                \* so the order of the numbers is the map's insertion order
    made,       \* how many connections the provider made
    up,         \* the connections that are up
    table,      \* the nft table
    strays,     \* kill-switch work and connects that were abandoned and go on
    ending,     \* connections whose disconnect was abandoned and goes on
    guard,      \* history: the lifecycle enabled the kill switch and no connection
                \* was verified since ("on"), the last enable failed ("undone"), or
                \* kill-switch work was abandoned at a timeout ("lost")
    orphans     \* history: connections the lifecycle lost sight of

vars == <<tunnel, locked, op, links, made, up, table, strays, ending, guard,
          orphans>>
provider == <<links, made, up, ending, orphans>>
switch == <<table, strays, guard>>

-----------------------------------------------------------------------------
\* toDisconnecting() takes a disconnecting tunnel as it is.
allowedTransitions ==
    [gone          |-> {},
     configured    |-> {"preparing", "destroyed"},
     preparing     |-> {"connecting", "failed", "disconnecting"},
     connecting    |-> {"establishing", "failed", "disconnecting"},
     establishing  |-> {"connected", "failed", "disconnecting"},
     connected     |-> {"disconnecting", "recovering", "failed"},
     disconnecting |-> {"disconnecting", "disconnected", "failed"},
     disconnected  |-> {"preparing", "destroyed"},
     failed        |-> {"recovering", "disconnecting", "destroyed"},
     destroyed     |-> {}]
States == DOMAIN allowedTransitions

Kinds == {"establish", "connect", "disconnect", "destroy", "reconnect", "rotate"}

\* What an nft sequence does next: enable() is delete, add, chain, rules, or undo;
\* disable() is drop.
SwitchSteps == {"delete", "add", "chain", "rules", "undo", "drop"}

Inside == {"validating", "preparing", "enabling", "connecting", "establishing",
           "checking", "disabling", "retrying", "cleaning", "reenabling",
           "closing", "leaving", "tidying", "destroying", "rotating"}
Points == Inside \cup {"idle", "creating", "locking", "undoing", "unmaking", "done", "unrolled"}
Switching == {"enabling", "disabling", "reenabling", "closing"}

Op == [kind: Kinds, pc: Points,
       try: 0..MaxAttempts,
       sw: SwitchSteps \cup {"ok", "bad"},
       armed: BOOLEAN,                      \* killSwitchEnabled
       seen: States,                        \* the tunnel's state under the lock
       conn: 0..MaxConns]                   \* the connection to disconnect, or 0

\* A call before it begins; what it knew is forgotten when it ends.
Fresh == [kind |-> "connect", pc |-> "idle", try |-> 0, sw |-> "ok", armed |-> FALSE,
          seen |-> "gone", conn |-> 0]

Init ==
    /\ tunnel \in {"gone", "configured"} /\ locked = FALSE
    /\ op = [o \in Ops |-> Fresh]
    /\ links = {} /\ made = 0 /\ up = {} /\ ending = {} /\ orphans = {}
    /\ table = "absent" /\ strays = {} /\ guard = "off"

-----------------------------------------------------------------------------
(* NftablesKillSwitch. *)

Effect(step) ==
    CASE step \in {"delete", "undo", "drop"} -> "absent"
      [] step = "add"   -> IF table = "absent" THEN "open" ELSE table
      [] step = "chain" -> "drop"
      [] step = "rules" -> table

AfterCommand(step) ==
    CASE step = "delete" -> "add"
      [] step = "add"    -> "chain"
      [] step = "chain"  -> "rules"
      [] step \in {"rules", "drop"} -> "ok"
      [] step = "undo"   -> "bad"

\* A failed delete is not noticed; a failure after `add table` undoes it.
AfterFailure(step) ==
    CASE step = "add" -> "bad"
      [] step \in {"chain", "rules"} -> "undo"
      [] OTHER -> AfterCommand(step)

\* One nft command: the table and what comes next.  Chains and rules need a table.
Command(step, next) ==
    \/ /\ step \in {"chain", "rules"} => table # "absent"
       /\ table' = Effect(step) /\ next = AfterCommand(step)
    \/ table' = table /\ next = AfterFailure(step)

Guard(g) == guard' = IF guard = "lost" THEN "lost" ELSE g

-----------------------------------------------------------------------------
(* Helpers of the lifecycle. *)

At(o, p) == op[o].pc = p
Goes(o, p) == op' = [op EXCEPT ![o] = [@ EXCEPT !.pc = p]]
Ends(o) == op' = [op EXCEPT ![o] = [Fresh EXCEPT !.pc = "done"]]

\* getConnection: the first one that was recorded.
First == IF links = {} THEN 0 ELSE CHOOSE c \in links : \A d \in links : c <= d

Forget(c) == links' = links \ {c}

\* The call rejects; establish() then rolls its tunnel back, without the lock.
Rejected(r) ==
    IF r.kind = "establish" THEN [Fresh EXCEPT !.pc = "undoing", !.conn = First]
                            ELSE [Fresh EXCEPT !.pc = "done"]

Rejects(o) ==
    /\ op' = [op EXCEPT ![o] = Rejected(@)]
    /\ locked' = FALSE

\* connect()'s catch: markFailed, and an armed kill switch is enabled again.
ConnectThrows(o) ==
    /\ tunnel' = IF tunnel \in {"gone", "destroyed"} THEN tunnel ELSE "failed"
    /\ IF op[o].armed
         THEN /\ op' = [op EXCEPT ![o] = [@ EXCEPT !.pc = "reenabling", !.sw = "delete"]]
              /\ UNCHANGED locked
         ELSE Rejects(o)

MayRetry(o) == op[o].try < MaxAttempts

AttemptFails(o, retryable) ==
    IF retryable /\ MayRetry(o) /\ tunnel # "gone"
      THEN /\ op' = [op EXCEPT ![o] = [@ EXCEPT !.pc = "retrying", !.conn = First]]
           /\ UNCHANGED <<tunnel, locked>>
      ELSE ConnectThrows(o)

-----------------------------------------------------------------------------
(* Calls. *)

\* The first call may establish the tunnel.
Call(o, kind) ==
    /\ At(o, "idle")
    /\ (kind = "establish") = (tunnel = "gone" /\ \A p \in Ops : At(p, "idle"))
    /\ op' = [op EXCEPT ![o] = [@ EXCEPT
                 !.kind = kind, !.pc = IF kind = "establish" THEN "creating" ELSE "locking"]]
    /\ UNCHANGED <<tunnel, locked, provider, switch>>

\* provider.create, and the event that makes the tunnel known.
Created(o) ==
    /\ At(o, "creating")
    /\ tunnel' = "configured"
    /\ Goes(o, "locking")
    /\ UNCHANGED <<locked, provider, switch>>

\* reconnect() disconnects a connected tunnel, and takes the lock again to connect.
FirstStep(o) ==
    CASE op[o].kind \in {"disconnect", "destroy"} -> "closing"
      [] op[o].kind = "rotate"    -> "rotating"
      [] op[o].kind = "reconnect" -> IF tunnel = "connected" THEN "closing" ELSE "validating"
      [] OTHER                    -> "validating"

LockFree == ~locked

Lock(o) ==
    /\ At(o, "locking") /\ LockFree /\ tunnel # "gone"
    /\ locked' = TRUE
    /\ op' = [op EXCEPT ![o] = [@ EXCEPT !.pc = FirstStep(o), !.sw = "delete",
                                         !.seen = tunnel, !.conn = First, !.armed = FALSE]]
    /\ UNCHANGED <<tunnel, provider, switch>>

\* A concurrent operation or an unknown tunnel.
LockRejects(o) ==
    /\ At(o, "locking") /\ (~LockFree \/ tunnel = "gone")
    /\ op' = [op EXCEPT ![o] = Rejected(@)]
    /\ UNCHANGED <<tunnel, locked, provider, switch>>

\* rotate() changed the configuration; it unlocks and reconnect() locks at once.
Rotated(o) ==
    /\ At(o, "rotating") /\ tunnel # "gone"
    /\ op' = [op EXCEPT ![o] = [@ EXCEPT
                 !.kind = "reconnect", !.seen = tunnel, !.conn = First,
                 !.pc = IF tunnel = "connected" THEN "closing" ELSE "validating"]]
    /\ UNCHANGED <<tunnel, locked, provider, switch>>

\* The new configuration is invalid, or the tunnel was rolled back meanwhile.
RotateRejects(o) ==
    /\ At(o, "rotating")
    /\ Rejects(o)
    /\ UNCHANGED <<tunnel, provider, switch>>

-----------------------------------------------------------------------------
(* connect(). *)

\* The route context is valid; the state was read before that wait.
Validated(o) ==
    /\ At(o, "validating")
    /\ IF op[o].seen \in {"failed", "disconnected", "configured", "preparing"}
         THEN /\ tunnel' = IF op[o].seen = "failed" THEN "connecting" ELSE "preparing"
              /\ op' = [op EXCEPT ![o] = [@ EXCEPT !.pc = "preparing", !.seen = "gone", !.conn = 0]]
              /\ UNCHANGED locked
         ELSE ConnectThrows(o)
    /\ UNCHANGED <<provider, switch>>

\* The route context is rejected, its check times out, or prepare() throws.
Unprepared(o) ==
    /\ op[o].pc \in {"validating", "preparing"}
    /\ ConnectThrows(o)
    /\ UNCHANGED <<provider, switch>>

Prepared(o) ==
    /\ At(o, "preparing")
    /\ op' = [op EXCEPT ![o] = [@ EXCEPT !.pc = "enabling", !.sw = "delete"]]
    /\ UNCHANGED <<tunnel, locked, provider, switch>>

\* The first attempt; the tunnel may have been rolled back by now.
Enabled(o) ==
    /\ At(o, "enabling") /\ op[o].sw = "ok"
    /\ tunnel' = IF tunnel = "gone" THEN "gone" ELSE "connecting"
    /\ op' = [op EXCEPT ![o] = [@ EXCEPT
                 !.armed = TRUE, !.try = 1, !.sw = "delete",
                 !.pc = IF tunnel = "gone" THEN "reenabling" ELSE "connecting"]]
    /\ Guard("on")
    /\ UNCHANGED <<locked, provider, table, strays>>

Connects(o) ==
    /\ At(o, "connecting") /\ made < MaxConns
    /\ made' = made + 1 /\ up' = up \cup {made + 1}
    /\ links' = links \cup {made + 1}
    /\ IF tunnel = "gone" THEN AttemptFails(o, FALSE)
       ELSE tunnel' = "establishing" /\ Goes(o, "establishing") /\ UNCHANGED locked
    /\ UNCHANGED <<ending, orphans, switch>>

ConnectFails(o, retryable) ==
    /\ At(o, "connecting")
    /\ AttemptFails(o, retryable)
    /\ UNCHANGED <<provider, switch>>

ConnectTimesOut(o) ==
    /\ At(o, "connecting") /\ Cardinality(strays) < MaxStrays
    /\ AttemptFails(o, TRUE)
    /\ strays' = strays \cup {"connect"}
    /\ UNCHANGED <<provider, table, guard>>

\* Mutant: the kill switch goes as soon as the provider is connected.
EstablishedOpens(o) ==
    /\ At(o, "establishing")
    /\ op' = [op EXCEPT ![o] = [@ EXCEPT !.pc = "checking"]] /\ table' = "absent"
    /\ UNCHANGED <<tunnel, locked, provider, strays, guard>>

Established(o) ==
    /\ At(o, "establishing")
    /\ Goes(o, "checking")
    /\ UNCHANGED <<tunnel, locked, provider, switch>>

\* adapter.establish throws, or the health check fails or times out.
Unhealthy(o, retryable) ==
    /\ op[o].pc \in {"establishing", "checking"}
    /\ AttemptFails(o, retryable)
    /\ UNCHANGED <<provider, switch>>

Healthy(o) ==
    /\ At(o, "checking")
    /\ IF tunnel = "gone" THEN AttemptFails(o, FALSE) /\ UNCHANGED guard
       ELSE /\ tunnel' = "connected" /\ Guard("off")
            /\ op' = [op EXCEPT ![o] = [@ EXCEPT !.pc = "disabling", !.sw = "drop"]]
            /\ UNCHANGED locked
    /\ UNCHANGED <<provider, table, strays>>

Disabled(o) ==
    /\ At(o, "disabling") /\ op[o].sw = "ok"
    /\ Ends(o) /\ locked' = FALSE
    /\ UNCHANGED <<tunnel, provider, switch>>

\* prepareRetry(): the connection is forgotten even when its disconnect fails, and
\* an error leaves the loop.
RetryDisconnected(o) ==
    /\ At(o, "retrying")
    /\ op' = [op EXCEPT ![o] = [@ EXCEPT !.pc = "cleaning", !.conn = 0]]
    /\ Forget(op[o].conn) /\ up' = up \ {op[o].conn}
    /\ UNCHANGED <<tunnel, locked, made, ending, orphans, switch>>

RetryDisconnectFails(o, late) ==
    /\ At(o, "retrying") /\ op[o].conn # 0
    /\ ConnectThrows(o)
    /\ Forget(op[o].conn) /\ orphans' = orphans \cup {op[o].conn}
    /\ ending' = IF late THEN ending \cup {op[o].conn} ELSE ending
    /\ UNCHANGED <<made, up, switch>>

\* The tunnel is recorded again and the next attempt begins.
RetryCleaned(o) ==
    /\ At(o, "cleaning")
    /\ tunnel' = "connecting"
    /\ op' = [op EXCEPT ![o] = [@ EXCEPT !.pc = "connecting", !.try = op[o].try + 1]]
    /\ UNCHANGED <<locked, provider, switch>>

RetryCleanupFails(o) ==
    /\ At(o, "cleaning")
    /\ ConnectThrows(o)
    /\ UNCHANGED <<provider, switch>>

-----------------------------------------------------------------------------
(* disconnect(), with its kill switch enabled first. *)

\* Mutant: the tunnel keeps its state until it is disconnected.
ClosedSilently(o) ==
    /\ At(o, "closing") /\ op[o].sw = "ok"
    /\ IF "disconnecting" \in allowedTransitions[op[o].seen]
         THEN Goes(o, "leaving") /\ UNCHANGED <<tunnel, locked>>
         ELSE Rejects(o) /\ UNCHANGED tunnel
    /\ Guard("on")
    /\ UNCHANGED <<provider, table, strays>>

Closed(o) ==
    /\ At(o, "closing") /\ op[o].sw = "ok"
    /\ IF "disconnecting" \in allowedTransitions[op[o].seen]
         THEN /\ tunnel' = "disconnecting" /\ UNCHANGED locked
              /\ op' = [op EXCEPT ![o] = [@ EXCEPT !.pc = "leaving", !.seen = "gone"]]
         ELSE Rejects(o) /\ UNCHANGED tunnel
    /\ Guard("on")
    /\ UNCHANGED <<provider, table, strays>>

Left(o) ==
    /\ At(o, "leaving")
    /\ op' = [op EXCEPT ![o] = [@ EXCEPT !.pc = "tidying", !.conn = 0]]
    /\ Forget(op[o].conn) /\ up' = up \ {op[o].conn}
    /\ UNCHANGED <<tunnel, locked, made, ending, orphans, switch>>

LeavingFails(o, late) ==
    /\ At(o, "leaving") /\ op[o].conn # 0
    /\ Rejects(o)
    /\ ending' = IF late THEN ending \cup {op[o].conn} ELSE ending
    /\ UNCHANGED <<tunnel, links, made, up, orphans, switch>>

\* cleanup() is over; reconnect() goes on to connect.
Tidied(o) ==
    /\ At(o, "tidying")
    /\ IF tunnel = "gone" THEN Rejects(o) /\ UNCHANGED tunnel
       ELSE /\ tunnel' = "disconnected"
            /\ CASE op[o].kind = "destroy" -> Goes(o, "destroying") /\ UNCHANGED locked
                 [] op[o].kind = "reconnect" ->
                      /\ op' = [op EXCEPT ![o] = [@ EXCEPT !.kind = "connect", !.pc = "locking"]]
                      /\ locked' = FALSE
                 [] OTHER -> Ends(o) /\ locked' = FALSE
    /\ UNCHANGED <<provider, switch>>

Destroyed(o) ==
    /\ At(o, "destroying")
    /\ tunnel' = "destroyed"
    /\ Ends(o) /\ locked' = FALSE
    /\ UNCHANGED <<provider, switch>>

\* cleanup() or destroy() throws.
TidyingFails(o) ==
    /\ op[o].pc \in {"tidying", "destroying"}
    /\ Rejects(o)
    /\ UNCHANGED <<tunnel, provider, switch>>

-----------------------------------------------------------------------------
(* The kill switch at work for an operation. *)

Runs(o) ==
    /\ op[o].pc \in Switching /\ op[o].sw \in SwitchSteps
    /\ \E next \in SwitchSteps \cup {"ok", "bad"} :
          Command(op[o].sw, next) /\ op' = [op EXCEPT ![o] = [@ EXCEPT !.sw = next]]
    /\ UNCHANGED <<tunnel, locked, provider, strays, guard>>

\* Mutant: the failure of the safety action is nobody's.
SwitchFailsUnheard(o) ==
    /\ op[o].pc \in Switching \ {"reenabling"} /\ op[o].sw = "bad"
    /\ IF At(o, "enabling") THEN ConnectThrows(o) ELSE Rejects(o) /\ UNCHANGED tunnel
    /\ Guard(IF guard = "off" THEN "off" ELSE "undone")
    /\ UNCHANGED <<provider, table, strays>>

\* enable() throws; after it the table may be gone.
SwitchFails(o) ==
    /\ op[o].pc \in Switching /\ op[o].sw = "bad"
    /\ IF At(o, "enabling") THEN ConnectThrows(o) ELSE Rejects(o) /\ UNCHANGED tunnel
    /\ Guard(IF guard = "off" THEN "off" ELSE "undone")
    /\ UNCHANGED <<provider, table, strays>>

Reenabled(o) ==
    /\ At(o, "reenabling") /\ op[o].sw = "ok"
    /\ Rejects(o)
    /\ Guard("on")
    /\ UNCHANGED <<tunnel, provider, table, strays>>

\* healthTimeoutMs is over; the commands go on.
SwitchTimesOut(o) ==
    /\ op[o].pc \in Switching /\ op[o].sw \in SwitchSteps /\ Cardinality(strays) < MaxStrays
    /\ CASE At(o, "enabling")  -> ConnectThrows(o)
         [] At(o, "disabling") -> AttemptFails(o, TRUE)
         [] OTHER              -> Rejects(o) /\ UNCHANGED tunnel
    /\ strays' = strays \cup {op[o].sw}
    /\ guard' = "lost"
    /\ UNCHANGED <<provider, table>>

-----------------------------------------------------------------------------
(* establish()'s rollback, outside the lock. *)

Undone(o) ==
    /\ At(o, "undoing")
    /\ op' = [op EXCEPT ![o] = [@ EXCEPT !.pc = "unmaking", !.conn = 0]]
    /\ Forget(op[o].conn) /\ up' = up \ {op[o].conn}
    /\ UNCHANGED <<tunnel, locked, made, ending, orphans, switch>>

Unmade(o) ==
    /\ At(o, "unmaking")
    /\ tunnel' = "gone"
    /\ Ends(o)
    /\ UNCHANGED <<locked, provider, switch>>

\* rollback_failed: the tunnel stays, possibly without its connection.
UndoFails(o) ==
    /\ op[o].pc \in {"undoing", "unmaking"}
    /\ Goes(o, "unrolled")
    /\ UNCHANGED <<tunnel, locked, provider, switch>>

-----------------------------------------------------------------------------
(* Abandoned work. *)

StrayCommand(step) ==
    /\ step \in strays \cap SwitchSteps
    /\ \E next \in SwitchSteps \cup {"ok", "bad"} :
          /\ Command(step, next)
          /\ strays' = (strays \ {step}) \cup ({next} \cap SwitchSteps)
    /\ UNCHANGED <<tunnel, locked, op, provider, guard>>

LateConnect ==
    /\ "connect" \in strays /\ made < MaxConns
    /\ strays' = strays \ {"connect"}
    /\ made' = made + 1 /\ up' = up \cup {made + 1} /\ orphans' = orphans \cup {made + 1}
    /\ UNCHANGED <<tunnel, locked, op, links, ending, table, guard>>

LateDisconnect(c) ==
    /\ c \in ending
    /\ ending' = ending \ {c} /\ up' = up \ {c}
    /\ UNCHANGED <<tunnel, locked, op, links, made, orphans, switch>>

-----------------------------------------------------------------------------
ConnectStep(o) ==
    \/ Created(o) \/ Lock(o) \/ LockRejects(o) \/ Rotated(o) \/ RotateRejects(o)
    \/ Validated(o) \/ Unprepared(o) \/ Prepared(o) \/ Enabled(o) \/ Connects(o)
    \/ (\E r \in BOOLEAN : ConnectFails(o, r) \/ Unhealthy(o, r))
    \/ ConnectTimesOut(o) \/ Established(o) \/ Healthy(o) \/ Disabled(o)
    \/ RetryDisconnected(o) \/ (\E late \in BOOLEAN : RetryDisconnectFails(o, late))
    \/ RetryCleaned(o) \/ RetryCleanupFails(o)

DisconnectStep(o) ==
    \/ Closed(o) \/ Left(o) \/ (\E late \in BOOLEAN : LeavingFails(o, late))
    \/ Tidied(o) \/ Destroyed(o) \/ TidyingFails(o)
    \/ Undone(o) \/ Unmade(o) \/ UndoFails(o)

SwitchStep(o) == Runs(o) \/ SwitchFails(o) \/ Reenabled(o) \/ SwitchTimesOut(o)

Next ==
    \/ \E o \in Ops : \/ \E kind \in Kinds : Call(o, kind)
                      \/ ConnectStep(o) \/ DisconnectStep(o) \/ SwitchStep(o)
    \/ \E step \in SwitchSteps : StrayCommand(step)
    \/ LateConnect
    \/ \E c \in ending : LateDisconnect(c)

Spec == Init /\ [][Next]_vars

\* Provider, adapter and nft answer, or the timers do.
FairSpec ==
    Spec /\ \A o \in Ops : WF_vars(ConnectStep(o) \/ DisconnectStep(o) \/ SwitchStep(o))

-----------------------------------------------------------------------------
(* Properties. *)

\* The type invariant.
TypeOK ==
    /\ tunnel \in States /\ locked \in BOOLEAN
    /\ op \in [Ops -> Op]
    /\ links \subseteq 1..MaxConns /\ made \in 0..MaxConns
    /\ up \subseteq 1..MaxConns /\ ending \subseteq 1..MaxConns /\ orphans \subseteq 1..MaxConns
    /\ table \in {"absent", "open", "drop"}
    /\ strays \subseteq SwitchSteps \cup {"connect"}
    /\ guard \in {"off", "on", "undone", "lost"}

\* The lock of a tunnel is held exactly while one operation is inside, through
\* every throw, second turn and rejected concurrent call.
LockMatchesOperation ==
    /\ locked = \E o \in Ops : op[o].pc \in Inside
    /\ \A o, p \in Ops : op[o].pc \in Inside /\ op[p].pc \in Inside => o = p

\* Fail closed: from the moment connect() or disconnect() has enabled the kill
\* switch until a connection was verified, over retries, failures and later
\* operations, traffic is dropped.  The exceptions are the commands of an enable
\* in progress, which begins by deleting the table, an enable that failed, which
\* deletes it too, and commands abandoned at a timeout.
FailClosed ==
    guard = "on" => \/ table = "drop"
                    \/ \E o \in Ops : op[o].pc \in Switching /\ op[o].sw # "ok"

\* No connection is lost: one that is up is in the map, where disconnect() finds
\* it, but for one that came up after its timeout and one whose disconnect failed
\* on the way to a retry.
UpIsKnown == up \subseteq links \cup orphans

\* A tunnel that is connected, with no operation at work on it, has a recorded
\* connection that is up.  The exception is an establish() whose rollback failed: it
\* works outside the lock and may have taken the connection of another call.
ConnectedIsUp ==
    (tunnel = "connected" /\ \A o \in Ops : op[o].pc \in {"idle", "locking", "done"}) =>
       links \cap up # {}

\* The lock admits one operation, retries stay within their limit, and the tunnel's
\* recorded state and the connections on the host agree in both directions, but
\* for the named exceptions.
ConnectionsAreAccounted == TypeOK /\ LockMatchesOperation /\ UpIsKnown /\ ConnectedIsUp

\* Every call ends, whatever fails or times out in it.
EveryCallEnds == \A o \in Ops : ~At(o, "idle") ~> op[o].pc \in {"done", "unrolled"}

-----------------------------------------------------------------------------
(* Claims of the source that the code does not keep. *)

\* A disconnected tunnel has no recorded connection that is up (fails with three
\* calls: getConnection() returns the oldest connection, disconnect() takes only it).
DisconnectedIsDown ==
    tunnel = "disconnected" => up \cap links = {}
=============================================================================
