---------------------------- MODULE KernelRuntime ----------------------------
(***************************************************************************)
(* The kernel (packages/kernel/src/index.ts): the message bus, execute(),  *)
(* the workflow engine, start() and stop().                                *)
(*                                                                         *)
(* A call is one published message with the handlers that were registered  *)
(* when it was published.  All handlers of a message share its `attempts`  *)
(* counter, Promise.all answers the caller at the first rejection while    *)
(* the other handlers go on, and the abort signal of a call hangs on the   *)
(* kernel's only as long as its listener is installed.                     *)
(***************************************************************************)
EXTENDS Naturals, Sequences, FiniteSets

CONSTANTS
    MaxHandlers,  \* bound: handlers of a name and of '*' together
    Calls,        \* published messages, numbered in order; also the signals
                  \* execute() creates
    Flows,        \* runs of one workflow; also the signals run() creates
    Kernel,       \* the kernel's own signal, KernelRuntime.abort
    None,
    MaxAttempts,  \* maxAttempts of execute()
    Retry,        \* step.retry of the workflow
    Steps         \* number of steps of the workflow

\* The handlers of a message, by their place in its list.
Handlers == 1..MaxHandlers

Signals == Calls \cup Flows \cup {Kernel}

ASSUME KernelSets ==
    /\ Calls \subseteq Nat
    /\ Calls \cap Flows = {} /\ Kernel \notin Calls \cup Flows
    /\ None \notin Signals
ASSUME KernelBounds ==
    /\ MaxHandlers \in Nat
    /\ MaxAttempts \in Nat \ {0}
    /\ Retry \in Nat \ {0}
    /\ Steps \in Nat

VARIABLES
    state,      \* KernelRuntime.state
    call,       \* call -> its message and invocations
    flow,       \* workflow run -> its loop
    aborted,    \* signals that are aborted
    linked,     \* signals whose listener and timer are installed
    timedOut    \* signals whose timer has fired

vars == <<state, call, flow, aborted, linked, timedOut>>

-----------------------------------------------------------------------------
States == {"created", "bootstrapping", "running", "stopped"}

\* running: the handler was invoked and has not returned for the last time.
Invocation == {"absent", "running", "ok", "failed"}
Answers == {"none", "ok", "error", "timeout"}
Message == [kind: {"start", "execute", "step"}, signal: Signals, max: Nat,
            attempts: Nat, inv: [Handlers -> Invocation], answer: Answers]
FlowRecord == [pc: {"ready", "condition", "command", "over"}, at: Nat,
               current: Calls \cup {None}, simulate: BOOLEAN,
               done: Seq({"skipped", "predicted", "completed"}),
               answer: Answers]

ASSUME NoneIsNoRecord == None \notin Message /\ None \notin FlowRecord

\* The next message to be published.
Fresh(c) == /\ call[c] = None
            /\ \A b \in Calls : b < c => call[b] # None

Present(c) == {h \in Handlers : call[c].inv[h] # "absent"}

Init ==
    /\ state = "created"
    /\ call = [c \in Calls |-> None]
    /\ flow = [f \in Flows |-> None]
    /\ aborted = {} /\ linked = {} /\ timedOut = {}

\* MessageBus.on and the function it returns may run between any two messages,
\* so a message finds any number of handlers registered.
Registered == 0..MaxHandlers

-----------------------------------------------------------------------------
(* MessageBus.publish and invoke. *)

\* Mutant: rejections are ignored.
AllOfLosesRejections(inv) ==
    IF \A h \in Handlers : inv[h] \in {"absent", "ok"} THEN "ok" ELSE "none"

\* Promise.all over the invocations: ok when all are, error at the first
\* rejection.
AllOf(inv) ==
    IF \E h \in Handlers : inv[h] = "failed" THEN "error"
    ELSE IF \A h \in Handlers : inv[h] \in {"absent", "ok"} THEN "ok"
    ELSE "none"

\* Every invoke() runs to its first await: handlers are started in order
\* until the shared budget is spent, the others reject at once, and so do all
\* of them under an aborted signal.
FirstRound(n, dead, max) ==
    [h \in Handlers |-> IF h > n THEN "absent"
                        ELSE IF dead \/ h > max THEN "failed" ELSE "running"]

Published(kind, n, signal, dead, max) ==
    LET inv == FirstRound(n, dead, max) IN
    [kind |-> kind, signal |-> signal, max |-> max,
     attempts |-> Cardinality({h \in Handlers : inv[h] = "running"}),
     inv |-> inv, answer |-> AllOf(inv)]

\* The loop of invoke() after a failed attempt.
Retries(c) == /\ call[c].attempts < call[c].max
              /\ call[c].signal \notin aborted

\* execute() maps the error of a timed-out operation.
Mapped(c, answer) ==
    IF answer = "error" /\ call[c].kind = "execute" /\ c \in timedOut
      THEN "timeout" ELSE answer

\* The continuation of the awaited publish: execute() drops its listener and
\* timer, start() sets the state (and rejects without touching it).
Continue(c, kind, answer) ==
    /\ linked' = IF kind = "execute" /\ answer # "none" THEN linked \ {c} ELSE linked
    /\ state' = IF kind = "start" /\ answer = "ok" THEN "running" ELSE state

\* The handler ends one of its invocations; the first answer is final.
Invoked(c, h, result, attempts) ==
    LET inv == [call[c].inv EXCEPT ![h] = result]
        answer == IF call[c].answer # "none" THEN call[c].answer
                  ELSE Mapped(c, AllOf(inv))
    IN /\ call' = [call EXCEPT ![c] =
                      [@ EXCEPT !.inv = inv, !.attempts = attempts, !.answer = answer]]
       /\ Continue(c, call[c].kind, answer)

HandlerReturns(c, h) ==
    /\ call[c] # None /\ call[c].inv[h] = "running"
    /\ Invoked(c, h, "ok", call[c].attempts)
    /\ UNCHANGED <<flow, aborted, timedOut>>

HandlerThrows(c, h) ==
    /\ call[c] # None /\ call[c].inv[h] = "running"
    /\ IF Retries(c) THEN Invoked(c, h, "running", call[c].attempts + 1)
                     ELSE Invoked(c, h, "failed", call[c].attempts)
    /\ UNCHANGED <<flow, aborted, timedOut>>

-----------------------------------------------------------------------------
(* KernelRuntime. *)

\* createLinkedAbortController: born aborted under an aborted parent.
Link(s) ==
    /\ linked' = linked \cup {s}
    /\ aborted' = IF Kernel \in aborted THEN aborted \cup {s} ELSE aborted

Execute(c, n) ==
    /\ Fresh(c)
    /\ call' = [call EXCEPT ![c] =
                  Published("execute", n, c, Kernel \in aborted, MaxAttempts)]
    /\ aborted' = IF Kernel \in aborted THEN aborted \cup {c} ELSE aborted
    /\ linked' = IF call'[c].answer = "none" THEN linked \cup {c} ELSE linked
    /\ UNCHANGED <<state, flow, timedOut>>

\* start() publishes KernelBootstrapped with a budget of one attempt.
Start(c, n) ==
    /\ state # "running"
    /\ Fresh(c)
    /\ call' = [call EXCEPT ![c] = 
                  Published("start", n, Kernel, Kernel \in aborted, 1)]
    /\ state' = IF call'[c].answer = "ok" THEN "running" ELSE "bootstrapping"
    /\ UNCHANGED <<flow, aborted, linked, timedOut>>

\* Mutant: operations do not listen to the kernel's signal.
AbortedByStopKernelOnly == {Kernel}

\* The abort event reaches the linked signals synchronously.
AbortedByStop == {Kernel} \cup linked

\* stop() has no await: draining is never observed.
Stop ==
    /\ state # "stopped"
    /\ state' = "stopped"
    /\ aborted' = aborted \cup AbortedByStop
    /\ UNCHANGED <<call, flow, linked, timedOut>>

\* Mutant: the timer does not record that it fired.
TimerFiresSilently(s) ==
    /\ s \in linked \ timedOut
    /\ aborted' = aborted \cup {s}
    /\ UNCHANGED <<state, call, flow, linked, timedOut>>

\* The timeout of an operation or of a workflow.
TimerFires(s) ==
    /\ s \in linked \ timedOut
    /\ timedOut' = timedOut \cup {s}
    /\ aborted' = aborted \cup {s}
    /\ UNCHANGED <<state, call, flow, linked>>

-----------------------------------------------------------------------------
(* WorkflowEngine.run. *)

FlowStart(f, simulate) ==
    /\ flow[f] = None
    /\ flow' = [flow EXCEPT ![f] =
                  [pc |-> "ready", at |-> 1, current |-> None,
                   simulate |-> simulate, done |-> <<>>, answer |-> "none"]]
    /\ Link(f)
    /\ UNCHANGED <<state, call, timedOut>>

\* execute() of the workflow ends: it answers the race unless the watcher did.
FlowOver(f, answer) ==
    /\ flow' = [flow EXCEPT ![f] =
                   [flow[f] EXCEPT !.pc = "over", !.current = None,
                                   !.answer = IF @ = "none" THEN answer ELSE @]]
    /\ linked' = linked \ {f}

\* The head of the loop; every step may have a condition to await.
StepBegins(f) ==
    /\ flow[f] # None /\ flow[f].pc = "ready"
    /\ IF flow[f].at > Steps THEN FlowOver(f, "ok")
       ELSE IF f \in aborted THEN FlowOver(f, "error")
       ELSE /\ flow' = [flow EXCEPT ![f] = [@ EXCEPT !.pc = "condition"]]
            /\ UNCHANGED linked
    /\ UNCHANGED <<state, call, aborted, timedOut>>

Advance(f, status) ==
    flow' = [flow EXCEPT ![f] =
                [flow[f] EXCEPT !.pc = "ready", !.at = @ + 1, !.current = None,
                                !.done = Append(@, status)]]

\* The condition says no.
StepSkipped(f) ==
    /\ flow[f] # None /\ flow[f].pc = "condition"
    /\ Advance(f, "skipped")
    /\ UNCHANGED <<state, call, aborted, linked, timedOut>>

\* The condition throws, or the principal lacks the capability.
StepRefused(f) ==
    /\ flow[f] # None /\ flow[f].pc = "condition"
    /\ FlowOver(f, "error")
    /\ UNCHANGED <<state, call, aborted, timedOut>>

StepPredicted(f) ==
    /\ flow[f] # None /\ flow[f].pc = "condition"
    /\ flow[f].simulate
    /\ Advance(f, "predicted")
    /\ UNCHANGED <<state, call, aborted, linked, timedOut>>

StepCommanded(f, c, n) ==
    /\ flow[f] # None /\ flow[f].pc = "condition"
    /\ ~flow[f].simulate
    /\ Fresh(c)
    /\ call' = [call EXCEPT ![c] = 
                  Published("step", n, f, f \in aborted, Retry)]
    /\ flow' = [flow EXCEPT ![f] = [@ EXCEPT !.pc = "command", !.current = c]]
    /\ UNCHANGED <<state, aborted, linked, timedOut>>

StepAnswered(f) ==
    /\ flow[f] # None /\ flow[f].pc = "command"
    /\ LET answer == call[flow[f].current].answer IN
       \/ answer = "ok" /\ Advance(f, "completed") /\ UNCHANGED linked
       \/ answer = "error" /\ FlowOver(f, "error")
    /\ UNCHANGED <<state, call, aborted, timedOut>>

\* Mutant: the watcher does not ask whether the signal's timer has fired.
WatcherFiresEarly(f) ==
    /\ flow[f] # None /\ flow[f].answer = "none"
    /\ flow' = [flow EXCEPT ![f] = [@ EXCEPT !.answer = "timeout"]]
    /\ linked' = linked \ {f}
    /\ UNCHANGED <<state, call, aborted, timedOut>>

\* The watcher of the race: the caller is answered, the loop goes on.
WatcherFires(f) ==
    /\ flow[f] # None /\ flow[f].answer = "none"
    /\ f \in timedOut
    /\ flow' = [flow EXCEPT ![f] = [@ EXCEPT !.answer = "timeout"]]
    /\ linked' = linked \ {f}
    /\ UNCHANGED <<state, call, aborted, timedOut>>

-----------------------------------------------------------------------------
FlowStep(f) ==
    \/ StepBegins(f) \/ StepSkipped(f) \/ StepRefused(f) \/ StepPredicted(f)
    \/ (\E c \in Calls, n \in Registered : StepCommanded(f, c, n)) \/ StepAnswered(f)

Next ==
    \/ \E c \in Calls, n \in Registered : Execute(c, n) \/ Start(c, n)
    \/ \E c \in Calls, h \in Handlers : HandlerReturns(c, h) \/ HandlerThrows(c, h)
    \/ Stop
    \/ \E s \in Signals : TimerFires(s)
    \/ \E f \in Flows : \/ \E simulate \in BOOLEAN : FlowStart(f, simulate)
                        \/ FlowStep(f) \/ WatcherFires(f)

Spec == Init /\ [][Next]_vars

\* Timers fire.  Nothing is assumed of handlers or conditions: they may hang.
FairSpec ==
    /\ Spec
    /\ \A f \in Flows : WF_vars(TimerFires(f)) /\ WF_vars(WatcherFires(f))

-----------------------------------------------------------------------------
(* Properties. *)

\* The type invariant: one message is attempted at most maxAttempts times,
\* however many handlers share it.
TypeOK ==
    /\ state \in States
    /\ call \in [Calls -> Message \cup {None}]
    /\ \A c \in Calls : call[c] # None => call[c].attempts <= call[c].max
    /\ flow \in [Flows -> FlowRecord \cup {None}]
    /\ aborted \subseteq Signals /\ timedOut \subseteq aborted
    /\ linked \subseteq Calls \cup Flows

\* Promise.all loses no answer: a command is unanswered only while one of its
\* handlers is running, although handlers are starved of the shared budget,
\* cancelled, removed or registered meanwhile; and it is answered ok only when
\* every handler it was published to has returned.
AnswerMatchesHandlers ==
    \A c \in Calls : call[c] # None =>
       /\ call[c].answer = "none" =>
             \E h \in Present(c) : call[c].inv[h] = "running"
       /\ call[c].answer = "ok" =>
             \A h \in Present(c) : call[c].inv[h] = "ok"

\* A workflow is reported successful only when each of its steps was skipped,
\* predicted, or completed by a command that all its handlers carried out.
FlowOkMeansAllSteps ==
    \A f \in Flows : flow[f] # None /\ flow[f].answer = "ok" =>
       /\ Len(flow[f].done) = Steps
       /\ \A c \in Calls :
             call[c] # None /\ call[c].signal = f => call[c].answer = "ok"

\* What the bus and the workflow engine answer is backed by what the handlers did:
\* no command stays unanswered with nobody running it, no shared attempts budget
\* is overdrawn, and "ok" of a command or a workflow means that all of it was done.
AnswersAreSound == TypeOK /\ AnswerMatchesHandlers /\ FlowOkMeansAllSteps

\* Nobody waits for this call any more: it was answered, or it is a step of a
\* workflow that was.
Unawaited(c) ==
    \/ call[c].answer # "none"
    \/ \E f \in Flows : /\ flow[f] # None /\ flow[f].answer # "none"
                        /\ call[c].signal = f

\* Once the caller has its answer - the first rejection of several a
\* timeout - no handler of that command is invoked again, although the other
\* retry loops are still running and the listener is gone.
AnsweredIsQuiet ==
    [][\A c \in Calls : call[c] # None /\ Unawaited(c) =>
          call'[c].attempts = call[c].attempts]_vars

\* After stop() no handler is invoked again, in calls that are under way, in
\* ones whose listener was already removed, and in calls made after the stop.
StoppedIsQuiet ==
    [][\A c \in Calls : Kernel \in aborted /\ call'[c] # None =>
          call'[c].attempts = IF call[c] = None THEN 0 ELSE call[c].attempts]_vars

\* A workflow with a timeout answers its caller even when a handler or a
\* condition never returns.
EveryFlowAnswered ==
    \A f \in Flows : flow[f] # None ~> (flow[f] # None /\ flow[f].answer # "none")
=============================================================================
