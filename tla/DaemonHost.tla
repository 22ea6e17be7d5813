----------------------------- MODULE DaemonHost -----------------------------
(***************************************************************************)
(* The daemon process (apps/daemon/src/index.ts) around the runtime: its   *)
(* start, its scheduler (packages/resilience-runtime/src/scheduler.ts),    *)
(* the bounded closed loop (closed-loop.ts), the cycles an operator asks   *)
(* for, shutdown on a signal, and the journal from which it puts the DNS   *)
(* resolvers back (apps/daemon/src/dns-restore.ts).                        *)
(*                                                                         *)
(* A cycle of the runtime is abstract here (ResilienceRuntime.tla has its  *)
(* stages): who asked for it, and the DNS changes it makes.  Only          *)
(* scheduled cycles may be live; the loop and the control socket run safe  *)
(* cycles, which change nothing.  A process that dies without running its  *)
(* handlers, also on a signal that comes before they are installed, is the *)
(* action Crash.  The names are the module's own, so that DnsProofs can    *)
(* extend it next to the other module about DNS.                           *)
(***************************************************************************)
EXTENDS Naturals

CONSTANTS
    Links,              \* network links of connectivity sources
    Signals,            \* shutdown signals of one process
    Nothing,
    MaxLoop,            \* maxCycles of the closed loop
    StopWhenHealthy

VARIABLES
    life,       \* RuntimeDaemonHost.lifecycle
    timer,      \* the scheduler's interval is set
    ticking,    \* RuntimeScheduler.active
    cycle,      \* the runtime's cycle in flight, or Nothing
    loop,       \* BoundedClosedLoopController.run
    loopAborted, \* closedLoopAbortController.signal
    stop,       \* the invocations of stop(), one per signal
    resolvers,  \* what systemd-resolved uses for each link
    journal,    \* dns-original.json, or Nothing
    shadowed,   \* history: links changed while another one was on record
    overran,    \* history: a shutdown went on without waiting any longer
    exit        \* how the latest process ended

hostVars == <<life, timer, ticking, cycle, loop, loopAborted, stop, resolvers, journal,
              shadowed, overran, exit>>
host == <<resolvers, journal, shadowed>>

-----------------------------------------------------------------------------
\* "recovering": the resolvers are back and the record is still to be removed.
Lives == {"down", "created", "recovering", "running", "stopping"}
Callers == {"scheduler", "loop", "control"}
Outcomes == {"healthy", "degraded", "blocked", "failed", "threw"}
Cycle == [by: Callers, at: {"deciding", "capturing", "changing"},
          link: Links \cup {Nothing}]
Loop == [pc: {"off", "between", "cycling", "answered"}, round: 0..MaxLoop,
         how: Outcomes \cup {"none"}]
StopPoints == {"idle", "closing", "scheduler", "runtime", "restoring",
               "removing", "leaving"}
Record == [link: Links, servers: {"original", "irp"}]

ASSUME HostAssumption ==
    /\ Links # {} /\ Nothing \notin Links
    /\ MaxLoop \in Nat \ {0}
    /\ StopWhenHealthy \in BOOLEAN
    /\ Nothing \notin Cycle \cup Record

LoopOff == [pc |-> "off", round |-> 0, how |-> "none"]

HostInit ==
    /\ life = "down" /\ timer = FALSE /\ ticking = FALSE /\ cycle = Nothing
    /\ loop = LoopOff /\ loopAborted = FALSE
    /\ stop = [s \in Signals |-> "idle"]
    /\ resolvers = [l \in Links |-> "original"]
    /\ journal = Nothing /\ shadowed = {} /\ overran = FALSE /\ exit = "none"

\* The process ends and takes its timers, cycles and loops with it.
Ends(how) ==
    /\ life' = "down" /\ timer' = FALSE /\ ticking' = FALSE /\ cycle' = Nothing
    /\ loop' = LoopOff /\ loopAborted' = FALSE
    /\ stop' = [s \in Signals |-> "idle"]
    /\ exit' = how

-----------------------------------------------------------------------------
(* DnsRestoreJournal.restore. *)

\* resolvectl puts the recorded resolvers back.
PutBack == resolvers' = [resolvers EXCEPT ![journal.link] = journal.servers]

-----------------------------------------------------------------------------
(* Start. *)

Boot ==
    /\ life = "down"
    /\ life' = "created"
    /\ UNCHANGED <<timer, ticking, cycle, loop, loopAborted, stop, host, overran, exit>>

\* initialize(): restoreDns('startup-recovery').
StartupRestore ==
    /\ life = "created" /\ journal # Nothing
    /\ PutBack
    /\ life' = "recovering"
    /\ UNCHANGED <<timer, ticking, cycle, loop, loopAborted, stop, journal, shadowed,
                   overran, exit>>

\* The rest of initialize(), start() and the entry point: the scheduler's timer
\* is set and the closed loop begins.  A restore that failed is reported and the
\* daemon starts with its record on file.
Started ==
    /\ life \in {"created", "recovering"}
    /\ journal' = IF life = "recovering" THEN Nothing ELSE journal
    /\ life' = "running" /\ timer' = TRUE
    /\ loop' = [LoopOff EXCEPT !.pc = "between", !.round = 1]
    /\ UNCHANGED <<ticking, cycle, loopAborted, stop, resolvers, shadowed,
                   overran, exit>>

-----------------------------------------------------------------------------
(* Cycles. *)

\* ResilienceRuntime.cycle(): refused while another one is in flight.
Begins(who) ==
    /\ cycle = Nothing
    /\ cycle' = [by |-> who, at |-> "deciding", link |-> Nothing]

\* RuntimeScheduler.runOnce.  A tick that finds its own cycle active, comes too
\* soon or is refused by the runtime changes nothing.
Tick ==
    /\ timer /\ ~ticking
    /\ Begins("scheduler")
    /\ ticking' = TRUE
    /\ UNCHANGED <<life, timer, loop, loopAborted, stop, host, overran, exit>>

TickEnds ==
    /\ ticking /\ (cycle # Nothing => cycle.by # "scheduler")
    /\ ticking' = FALSE
    /\ UNCHANGED <<life, timer, cycle, loop, loopAborted, stop, host, overran, exit>>

\* POST /v1/cycle.
ControlCycle ==
    /\ life = "running"
    /\ Begins("control")
    /\ UNCHANGED <<life, timer, ticking, loop, loopAborted, stop, host, overran, exit>>

\* A live cycle applies a DNS provider, the first time or to roll back, to the
\* link of the source that is active by then.
ApplyDnsProvider(l) ==
    /\ cycle # Nothing /\ cycle.by = "scheduler" /\ cycle.at = "deciding"
    /\ cycle' = [cycle EXCEPT !.at = IF journal = Nothing THEN "capturing" ELSE "changing",
                              !.link = l]
    /\ UNCHANGED <<life, timer, ticking, loop, loopAborted, stop, host, overran, exit>>

\* Mutant: only the change itself decides what to record.
CapturedLate ==
    /\ cycle # Nothing /\ cycle.at = "capturing"
    /\ resolvers' = [resolvers EXCEPT ![cycle.link] = "irp"]
    /\ cycle' = [cycle EXCEPT !.at = "changing"]
    /\ UNCHANGED <<life, timer, ticking, loop, loopAborted, stop, journal, shadowed,
                   overran, exit>>

\* captureBeforeChange: the link's resolvers are read and recorded.
Captured ==
    /\ cycle # Nothing /\ cycle.at = "capturing"
    /\ journal' = [link |-> cycle.link, servers |-> resolvers[cycle.link]]
    /\ cycle' = [cycle EXCEPT !.at = "changing"]
    /\ UNCHANGED <<life, timer, ticking, loop, loopAborted, stop, resolvers, shadowed,
                   overran, exit>>

\* `resolvectl dns` sets the new resolvers.
Changed ==
    /\ cycle # Nothing /\ cycle.at = "changing"
    /\ resolvers' = [resolvers EXCEPT ![cycle.link] = "irp"]
    /\ shadowed' = IF journal # Nothing /\ journal.link # cycle.link
                     THEN shadowed \cup {cycle.link} ELSE shadowed
    /\ cycle' = [cycle EXCEPT !.at = "deciding"]
    /\ UNCHANGED <<life, timer, ticking, loop, loopAborted, stop, journal, overran, exit>>

\* resolvectl fails or is killed at its timeout, having changed nothing.
CommandFails ==
    /\ cycle # Nothing /\ cycle.at \in {"capturing", "changing"}
    /\ cycle' = [cycle EXCEPT !.at = "deciding"]
    /\ UNCHANGED <<life, timer, ticking, loop, loopAborted, stop, host, overran, exit>>

CycleEnds(how) ==
    /\ cycle # Nothing /\ cycle.at = "deciding"
    /\ cycle' = Nothing
    /\ loop' = IF cycle.by = "loop" THEN [loop EXCEPT !.pc = "answered", !.how = how]
               ELSE loop
    /\ UNCHANGED <<life, timer, ticking, loopAborted, stop, host, overran, exit>>

-----------------------------------------------------------------------------
(* BoundedClosedLoopController.run and runOneLoop. *)

LoopGoes(next) ==
    /\ loop' = next
    /\ UNCHANGED <<life, timer, ticking, loopAborted, stop, exit>>

\* Mutant: the signal is not looked at between two cycles.
LoopCyclesUnchecked ==
    /\ loop.pc = "between"
    /\ Begins("loop")
    /\ LoopGoes([loop EXCEPT !.pc = "cycling"])
    /\ UNCHANGED <<host, overran>>

LoopCycles ==
    /\ loop.pc = "between" /\ ~loopAborted
    /\ Begins("loop")
    /\ LoopGoes([loop EXCEPT !.pc = "cycling"])
    /\ UNCHANGED <<host, overran>>

LoopAborts ==
    /\ \/ loop.pc = "between" /\ loopAborted
       \/ loop.pc = "answered" /\ loop.how = "threw" /\ loopAborted
    /\ LoopGoes(LoopOff)
    /\ UNCHANGED <<cycle, host, overran>>

\* The runtime refuses a cycle that would overlap.  As on every other failure of
\* the loop, the process exits with code 1.
LoopRefused ==
    /\ loop.pc = "between" /\ ~loopAborted /\ cycle # Nothing
    /\ Ends("failed")
    /\ UNCHANGED <<host, overran>>

LoopFails ==
    /\ loop.pc = "answered"
    /\ \/ loop.how \in {"blocked", "failed"}
       \/ loop.how = "threw" /\ ~loopAborted
    /\ Ends("failed")
    /\ UNCHANGED <<host, overran>>

LoopContinues ==
    /\ loop.pc = "answered" /\ loop.how \in {"healthy", "degraded"}
    /\ IF (loop.how = "healthy" /\ StopWhenHealthy) \/ loop.round = MaxLoop
         THEN LoopGoes(LoopOff)
         ELSE LoopGoes([LoopOff EXCEPT !.pc = "between", !.round = loop.round + 1])
    /\ UNCHANGED <<cycle, host, overran>>

-----------------------------------------------------------------------------
(* Shutdown. *)

StopGoes(s, p) ==
    /\ stop' = [stop EXCEPT ![s] = p]
    /\ UNCHANGED <<ticking, cycle, loop, exit>>

\* abortClosedLoop() and stop() up to its first await.  The control server closes
\* for the first stop(); a second one finds it gone.
Signal(s) ==
    /\ life \in {"running", "stopping"} /\ stop[s] = "idle"
    /\ life' = "stopping" /\ timer' = FALSE /\ loopAborted' = TRUE
    /\ StopGoes(s, IF life = "running" THEN "closing" ELSE "scheduler")
    /\ UNCHANGED <<host, overran>>

\* server.close() answers once no request is in flight.
ControlClosed(s) ==
    /\ stop[s] = "closing" /\ (cycle # Nothing => cycle.by # "control")
    /\ StopGoes(s, "scheduler")
    /\ UNCHANGED <<life, timer, loopAborted, host, overran>>

\* RuntimeScheduler.whenIdle, then ResilienceRuntime.whenIdle.
SchedulerIdle(s) ==
    /\ stop[s] = "scheduler" /\ ~ticking
    /\ StopGoes(s, "runtime")
    /\ UNCHANGED <<life, timer, loopAborted, host, overran>>

RuntimeIdle(s) ==
    /\ stop[s] = "runtime" /\ cycle = Nothing
    /\ StopGoes(s, "restoring")
    /\ UNCHANGED <<life, timer, loopAborted, host, overran>>

\* Mutant: the wait for the scheduler has no deadline.
DrainTimesOutLate(s) ==
    /\ stop[s] = "runtime" /\ cycle # Nothing
    /\ overran' = TRUE
    /\ StopGoes(s, "restoring")
    /\ UNCHANGED <<life, timer, loopAborted, host>>

\* SHUTDOWN_DRAIN_MS is over.
DrainTimesOut(s) ==
    /\ \/ stop[s] = "scheduler" /\ ticking
       \/ stop[s] = "runtime" /\ cycle # Nothing
    /\ overran' = TRUE
    /\ StopGoes(s, "restoring")
    /\ UNCHANGED <<life, timer, loopAborted, host>>

\* restoreDns('shutdown').
Restore(s) ==
    /\ stop[s] = "restoring" /\ journal # Nothing
    /\ PutBack
    /\ StopGoes(s, "removing")
    /\ UNCHANGED <<life, timer, loopAborted, journal, shadowed, overran>>

RemoveRecord(s) ==
    /\ stop[s] = "removing"
    /\ journal' = Nothing
    /\ StopGoes(s, "leaving")
    /\ UNCHANGED <<life, timer, loopAborted, resolvers, shadowed, overran>>

\* Nothing is on record, or resolvectl fails, which is reported.
RestoreOver(s) ==
    /\ stop[s] = "restoring"
    /\ StopGoes(s, "leaving")
    /\ UNCHANGED <<life, timer, loopAborted, host, overran>>

\* The rest of stop() and of the signal handler.
Leave(s) ==
    /\ stop[s] = "leaving"
    /\ Ends("clean")
    /\ UNCHANGED <<host, overran>>

-----------------------------------------------------------------------------
(* The environment. *)

Crash ==
    /\ life # "down"
    /\ Ends("crash")
    /\ UNCHANGED <<host, overran>>

-----------------------------------------------------------------------------
Changing == (\E l \in Links : ApplyDnsProvider(l)) \/ Captured \/ Changed \/ CommandFails

LoopStep == LoopCycles \/ LoopAborts \/ LoopRefused \/ LoopFails \/ LoopContinues

StopStep(s) ==
    \/ ControlClosed(s) \/ SchedulerIdle(s) \/ RuntimeIdle(s) \/ DrainTimesOut(s)
    \/ Restore(s) \/ RemoveRecord(s) \/ RestoreOver(s) \/ Leave(s)

HostNext ==
    \/ Boot \/ StartupRestore \/ Started
    \/ Tick \/ TickEnds \/ ControlCycle \/ Changing
    \/ \E how \in Outcomes : CycleEnds(how)
    \/ LoopStep
    \/ \E s \in Signals : Signal(s) \/ StopStep(s)
    \/ Crash

HostSpec == HostInit /\ [][HostNext]_hostVars

\* The cycle of an operator's request ends and the event loop resumes stop(); a
\* scheduled cycle may hang, the deadline of the drain does not.
FairHostSpec ==
    /\ HostSpec
    /\ WF_hostVars(/\ cycle # Nothing /\ cycle.by = "control"
                   /\ \E how \in Outcomes : CycleEnds(how))
    /\ \A s \in Signals : WF_hostVars(StopStep(s))

-----------------------------------------------------------------------------
(* Properties. *)

\* The type invariant.
HostTypeOK ==
    /\ life \in Lives /\ timer \in BOOLEAN /\ ticking \in BOOLEAN
    /\ cycle \in Cycle \cup {Nothing}
    /\ loop \in Loop /\ loopAborted \in BOOLEAN
    /\ stop \in [Signals -> StopPoints]
    /\ shadowed \subseteq Links
    /\ resolvers \in [Links -> {"original", "irp"}]
    /\ journal \in Record \cup {Nothing}
    /\ overran \in BOOLEAN
    /\ exit \in {"none", "clean", "failed", "crash"}

\* Resolvers that were replaced are on record with their originals, through
\* crashes, failed restores and restarts, so that a later start can put them
\* back.  Two cases are excused: the journal has room for one link only, and a
\* live cycle that a shutdown stopped waiting for may change the resolvers after
\* the record was removed.
OriginalIsOnRecord ==
    \A l \in Links :
       resolvers[l] # "original" =>
          \/ l \in shadowed \/ overran
          \/ journal = [link |-> l, servers |-> "original"]

\* Resolvers are changed only with their originals on record, in a well-formed host.
ResolversInv == HostTypeOK /\ OriginalIsOnRecord

\* stop() is orderly.  No cycle begins before the startup recovery is over or
\* after a shutdown began: not from the timer, not from the loop, not over the
\* control socket.  And a cycle under way is let to reach its end: the process
\* leaves with code 0 only when none is in flight, or the drain ran out of time.
StopIsOrderly ==
    [][/\ cycle = Nothing /\ cycle' # Nothing => life = "running"
       /\ exit' = "clean" /\ life # "down" /\ life' = "down" =>
             cycle = Nothing \/ overran]_hostVars

\* A shutdown ends even when a scheduled cycle never does.
ShutdownEnds == life = "stopping" ~> life = "down"

-----------------------------------------------------------------------------
(* Claims of the source that the code does not keep. *)

\* "On shutdown it restores the original resolvers": after a clean exit with
\* nothing left on record every link has its own resolvers.
ShutdownRestoresResolvers ==
    life = "down" /\ exit = "clean" /\ journal = Nothing /\ ~overran =>
       \A l \in Links : resolvers[l] = "original"

\* "Exiting mid-mutation would leave an unverified change": the process ends
\* itself only when no cycle is changing the resolvers, or out of time.
ExitCutsNothingOff ==
    [][life # "down" /\ life' = "down" /\ exit' # "crash"
       => overran \/ cycle = Nothing \/ cycle.at = "deciding"]_hostVars
=============================================================================
