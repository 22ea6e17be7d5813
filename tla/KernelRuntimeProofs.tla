------------------------- MODULE KernelRuntimeProofs -------------------------
(***************************************************************************)
(* Proofs about the message bus and the workflow engine, for every set of  *)
(* calls and workflow runs and every number of handlers, attempts and      *)
(* steps.                                                                  *)
(***************************************************************************)
EXTENDS KernelRuntime, FiniteSetTheorems, TLAPS

-----------------------------------------------------------------------------
(* The inductive invariant. *)

\* The answer of a message is the one its invocations justify.
Consistent(m) ==
    /\ m.answer = "none" =>
          /\ \E h \in Handlers : m.inv[h] = "running"
          /\ \A h \in Handlers : m.inv[h] # "failed"
    /\ m.answer = "ok" => \A h \in Handlers : m.inv[h] \in {"absent", "ok"}
    /\ m.answer \in {"error", "timeout"} => \E h \in Handlers : m.inv[h] = "failed"

\* A handler gives up only when the shared budget is spent or the signal dead.
Exhausted(m, dead) ==
    (\E h \in Handlers : m.inv[h] = "failed") =>
       m.attempts >= m.max \/ m.signal \in dead

CallSound(c, m, dead, hooked) ==
    /\ m \in Message /\ m.attempts <= m.max
    /\ m.kind = "execute" => m.signal = c /\ (m.answer = "none" => c \in hooked)
    /\ m.kind = "start" => m.signal = Kernel
    /\ m.kind = "step" => m.signal \in Flows /\ m.answer # "timeout"
    /\ Consistent(m)
    /\ Exhausted(m, dead)

\* The loop of a workflow run keeps count, and its signal hears of a stop until
\* it is over or aborted anyway.
FlowSound(f, w, dead, hooked, fired) ==
    /\ w \in FlowRecord
    /\ w.at = Len(w.done) + 1
    /\ w.pc = "ready" => w.at <= Steps + 1
    /\ w.pc \in {"condition", "command"} => w.at <= Steps
    /\ w.pc = "over" => w.answer # "none"
    /\ w.pc # "over" => w.answer # "ok" /\ (f \in hooked \/ f \in dead)
    /\ w.answer # "none" => f \in fired \/ w.pc = "over"
    /\ w.answer = "ok" => Len(w.done) = Steps

\* The commands of a run were carried out, except for the one it awaits and the
\* one that ended it.
Commanded(f, w, calls) ==
    /\ \A c \in Calls : calls[c] # None /\ calls[c].signal = f =>
          /\ w # None
          /\ \/ calls[c].answer = "ok"
             \/ w.pc = "command" /\ w.current = c
             \/ w.pc = "over" /\ w.answer # "ok" /\ calls[c].answer = "error"
    /\ w # None /\ w.pc = "command" =>
          w.current \in Calls /\ calls[w.current] # None /\ calls[w.current].signal = f

Typed ==
    /\ state \in States
    /\ call \in [Calls -> Message \cup {None}]
    /\ flow \in [Flows -> FlowRecord \cup {None}]
    /\ aborted \subseteq Signals /\ timedOut \subseteq aborted
    /\ linked \subseteq Calls \cup Flows

KernelInv ==
    /\ Typed
    /\ \A c \in Calls : call[c] # None => CallSound(c, call[c], aborted, linked)
    /\ \A f \in Flows :
          /\ flow[f] # None => FlowSound(f, flow[f], aborted, linked, timedOut)
          /\ Commanded(f, flow[f], call)
    /\ Kernel \in aborted => linked \subseteq aborted

-----------------------------------------------------------------------------
(* Messages. *)

\* Promise.all, case by case.
LEMMA AllOfAnswers ==
    ASSUME NEW inv \in [Handlers -> Invocation]
    PROVE  /\ AllOf(inv) \in {"none", "ok", "error"}
           /\ AllOf(inv) = "none" =>
                 /\ \E h \in Handlers : inv[h] = "running"
                 /\ \A h \in Handlers : inv[h] # "failed"
           /\ AllOf(inv) = "ok" => \A h \in Handlers : inv[h] \in {"absent", "ok"}
           /\ AllOf(inv) = "error" => \E h \in Handlers : inv[h] = "failed"
BY DEF AllOf, Invocation

\* The handlers started in the first round are the first ones.
LEMMA FirstRoundCount ==
    ASSUME NEW n \in Registered, NEW dead \in BOOLEAN, NEW max \in Nat, NEW inv,
           inv = FirstRound(n, dead, max)
    PROVE  LET started == Cardinality({h \in Handlers : inv[h] = "running"}) IN
           /\ inv \in [Handlers -> Invocation]
           /\ started \in Nat /\ started <= max
           /\ dead => started = 0
           /\ (\E h \in Handlers : inv[h] = "failed") => started = max \/ dead
<1> DEFINE S == {h \in Handlers : inv[h] = "running"}
<1>1. n \in Nat /\ n <= MaxHandlers /\ MaxHandlers \in Nat
  BY KernelBounds DEF Registered
<1>2. inv \in [Handlers -> Invocation]
  BY DEF FirstRound, Invocation
<1>3. \A h \in Handlers :
         inv[h] = IF h > n THEN "absent" ELSE IF dead \/ h > max THEN "failed" ELSE "running"
  BY DEF FirstRound
<1>4. Handlers = 1..MaxHandlers
  BY DEF Handlers
<1>5. \A k \in Nat : Cardinality(1..k) = k
  BY FS_Interval
<1>6. CASE dead
  <2>1. S = {}
    BY <1>3, <1>6
  <2>2. Cardinality(S) = 0
    BY <2>1, FS_EmptySet
  <2> HIDE DEF S
  <2>3. Cardinality(S) \in Nat /\ Cardinality(S) <= max /\ Cardinality(S) = 0
    BY <2>2
  <2> QED  BY <1>2, <1>6, <2>3 DEF S
<1>7. CASE ~dead
  <2>1. S = {h \in 1..MaxHandlers : h <= n /\ h <= max}
    BY <1>1, <1>3, <1>4, <1>7
  <2>2. CASE n <= max
    <3>1. S = 1..n
      BY <1>1, <2>1, <2>2
    <3>2. Cardinality(S) = n
      BY <1>1, <1>5, <3>1
    <3>3. \A h \in Handlers : inv[h] # "failed"
      BY <1>1, <1>3, <1>4, <1>7, <2>2
    <3> HIDE DEF S
    <3>4. Cardinality(S) \in Nat /\ Cardinality(S) <= max
      BY <1>1, <2>2, <3>2
    <3> QED  BY <1>2, <1>7, <3>3, <3>4 DEF S
  <2>3. CASE max < n
    <3>1. S = 1..max
      BY <1>1, <2>1, <2>3
    <3>2. Cardinality(S) = max
      BY <1>5, <3>1
    <3> HIDE DEF S
    <3>3. Cardinality(S) \in Nat /\ Cardinality(S) <= max /\ Cardinality(S) = max
      BY <3>2
    <3> QED  BY <1>2, <1>7, <3>3 DEF S
  <2> QED  BY <1>1, <2>2, <2>3
<1> QED  BY <1>6, <1>7

LEMMA PublishedSound ==
    ASSUME NEW kind \in {"start", "execute", "step"}, NEW n \in Registered,
           NEW signal \in Signals, NEW dead \in BOOLEAN, NEW max \in Nat
    PROVE  LET m == Published(kind, n, signal, dead, max) IN
           /\ m \in Message /\ m.kind = kind /\ m.signal = signal
           /\ m.attempts <= m.max /\ m.answer # "timeout"
           /\ dead => m.attempts = 0
           /\ Consistent(m)
           /\ \A gone : (dead => signal \in gone) => Exhausted(m, gone)
<1> DEFINE inv == FirstRound(n, dead, max)
           started == Cardinality({h \in Handlers : inv[h] = "running"})
           m == [kind |-> kind, signal |-> signal, max |-> max,
                 attempts |-> started, inv |-> inv, answer |-> AllOf(inv)]
<1>1. /\ inv \in [Handlers -> Invocation]
      /\ started \in Nat /\ started <= max
      /\ dead => started = 0
      /\ (\E h \in Handlers : inv[h] = "failed") => started = max \/ dead
  BY FirstRoundCount
<1>2. m = Published(kind, n, signal, dead, max)
  BY Zenon DEF Published
<1> HIDE DEF inv, started
<1>3. /\ AllOf(inv) \in {"none", "ok", "error"}
      /\ AllOf(inv) = "none" =>
            /\ \E h \in Handlers : inv[h] = "running"
            /\ \A h \in Handlers : inv[h] # "failed"
      /\ AllOf(inv) = "ok" => \A h \in Handlers : inv[h] \in {"absent", "ok"}
      /\ AllOf(inv) = "error" => \E h \in Handlers : inv[h] = "failed"
  BY <1>1, AllOfAnswers
<1>4. /\ m \in Message /\ m.kind = kind /\ m.signal = signal /\ m.inv = inv
      /\ m.max = max /\ m.attempts = started /\ m.answer = AllOf(inv)
  BY <1>1, <1>3 DEF Message, Answers
<1> HIDE DEF m
<1>5. Consistent(m) /\ m.answer # "timeout"
  BY <1>3, <1>4 DEF Consistent
<1>6. \A gone : (dead => signal \in gone) => Exhausted(m, gone)
  BY <1>1, <1>4 DEF Exhausted
<1> QED  BY <1>1, <1>2, <1>4, <1>5, <1>6

\* A later stop, timeout or listener takes nothing away from a sound message.
LEMMA CallKept ==
    ASSUME NEW c, NEW m, NEW dead, NEW hooked, CallSound(c, m, dead, hooked),
           NEW dead2, dead \subseteq dead2,
           NEW hooked2, c \in hooked => c \in hooked2
    PROVE  CallSound(c, m, dead2, hooked2)
BY DEF CallSound, Exhausted

LEMMA FlowKept ==
    ASSUME NEW f, NEW w, NEW dead, NEW hooked, NEW fired,
           FlowSound(f, w, dead, hooked, fired),
           NEW dead2, dead \subseteq dead2,
           NEW hooked2, f \in hooked => f \in hooked2 \/ f \in dead2 \/ w.pc = "over",
           NEW fired2, fired \subseteq fired2
    PROVE  FlowSound(f, w, dead2, hooked2, fired2)
BY DEF FlowSound

\* Nobody is left running in an answered message that could be tried again.
LEMMA AnsweredIsOver ==
    ASSUME KernelInv, NEW c \in Calls, call[c] # None, call[c].answer # "none"
    PROVE  \/ ~Retries(c)
           \/ \A h \in Handlers : call[c].inv[h] # "running"
<1>1. CallSound(c, call[c], aborted, linked)
  BY DEF KernelInv
<1>2. call[c].answer \in Answers
  BY <1>1 DEF CallSound, Message
<1>3. CASE call[c].answer = "ok"
  BY <1>1, <1>3 DEF CallSound, Consistent
<1>4. CASE call[c].answer \in {"error", "timeout"}
  <2>1. \E h \in Handlers : call[c].inv[h] = "failed"
    BY <1>1, <1>4 DEF CallSound, Consistent
  <2>2. call[c].attempts >= call[c].max \/ call[c].signal \in aborted
    BY <1>1, <2>1 DEF CallSound, Exhausted
  <2>3. call[c].attempts \in Nat /\ call[c].max \in Nat
    BY <1>1 DEF CallSound, Message
  <2> QED  BY <2>2, <2>3 DEF Retries
<1> QED  BY <1>2, <1>3, <1>4 DEF Answers

\* What a handler does with one of its attempts: returns, is invoked again, or
\* gives up.
Ends(c, result, attempts) ==
    \/ result = "ok" /\ attempts = call[c].attempts
    \/ result = "running" /\ attempts = call[c].attempts + 1 /\ Retries(c)
    \/ result = "failed" /\ attempts = call[c].attempts /\ ~Retries(c)

LEMMA HandlerCases ==
    ASSUME NEW c \in Calls, NEW h \in Handlers,
           HandlerReturns(c, h) \/ HandlerThrows(c, h)
    PROVE  /\ call[c] # None /\ call[c].inv[h] = "running"
           /\ \E result, attempts :
                 Ends(c, result, attempts) /\ Invoked(c, h, result, attempts)
           /\ UNCHANGED <<flow, aborted, timedOut>>
<1>1. CASE HandlerReturns(c, h)
  BY <1>1 DEF HandlerReturns, Ends
<1>2. CASE HandlerThrows(c, h) /\ Retries(c)
  BY <1>2 DEF HandlerThrows, Ends
<1>3. CASE HandlerThrows(c, h) /\ ~Retries(c)
  BY <1>3 DEF HandlerThrows, Ends
<1> QED  BY <1>1, <1>2, <1>3

\* The message after one of its handlers has done so.
LEMMA InvokedSound ==
    ASSUME KernelInv, NEW c \in Calls, call[c] # None,
           NEW h \in Handlers, call[c].inv[h] = "running",
           NEW result, NEW attempts, Ends(c, result, attempts),
           Invoked(c, h, result, attempts)
    PROVE  \E m : /\ call' = [call EXCEPT ![c] = m]
                  /\ m.kind = call[c].kind /\ m.signal = call[c].signal
                  /\ m.answer = call[c].answer \/ call[c].answer = "none"
                  /\ CallSound(c, m, aborted, linked')
<1> DEFINE x == call[c]
           inv == [x.inv EXCEPT ![h] = result]
           answer == IF x.answer # "none" THEN x.answer ELSE Mapped(c, AllOf(inv))
           m == [x EXCEPT !.inv = inv, !.attempts = attempts, !.answer = answer]
<1>1. CallSound(c, x, aborted, linked) /\ x \in Message /\ x.attempts <= x.max
  BY DEF KernelInv, CallSound
<1>2. call' = [call EXCEPT ![c] = m]
  BY Zenon DEF Invoked
<1>3. linked' = IF x.kind = "execute" /\ answer # "none" THEN linked \ {c} ELSE linked
  BY DEF Invoked, Continue
<1> HIDE DEF x
<1>4. /\ x.inv \in [Handlers -> Invocation] /\ x.attempts \in Nat /\ x.max \in Nat
      /\ x.answer \in Answers /\ x.kind \in {"start", "execute", "step"}
      /\ x.inv[h] = "running"
  BY <1>1 DEF Message, x
<1>5. /\ attempts \in Nat /\ attempts <= x.max
      /\ result \in {"ok", "running", "failed"}
      /\ attempts >= x.attempts
      /\ result = "failed" => attempts >= x.max \/ x.signal \in aborted
  BY <1>1, <1>4 DEF Ends, Retries, x
<1>6. /\ inv \in [Handlers -> Invocation]
      /\ \A g \in Handlers : inv[g] = IF g = h THEN result ELSE x.inv[g]
  BY <1>4, <1>5 DEF Invocation
<1> HIDE DEF inv
<1>7. /\ AllOf(inv) \in {"none", "ok", "error"}
      /\ AllOf(inv) = "none" =>
            /\ \E g \in Handlers : inv[g] = "running"
            /\ \A g \in Handlers : inv[g] # "failed"
      /\ AllOf(inv) = "ok" => \A g \in Handlers : inv[g] \in {"absent", "ok"}
      /\ AllOf(inv) = "error" => \E g \in Handlers : inv[g] = "failed"
  BY <1>6, AllOfAnswers
<1>8. /\ Mapped(c, AllOf(inv)) \in Answers
      /\ Mapped(c, AllOf(inv)) = AllOf(inv)
            \/ /\ Mapped(c, AllOf(inv)) = "timeout" /\ AllOf(inv) = "error"
               /\ x.kind = "execute"
  BY <1>7 DEF Mapped, Answers, x
<1>9. answer \in Answers /\ (x.answer = "none" => answer = Mapped(c, AllOf(inv)))
      /\ (x.answer # "none" => answer = x.answer)
  BY <1>4, <1>8
<1> HIDE DEF answer
<1>10. /\ m \in Message /\ m.kind = x.kind /\ m.signal = x.signal /\ m.max = x.max
       /\ m.inv = inv /\ m.attempts = attempts /\ m.answer = answer
  BY <1>1, <1>5, <1>6, <1>9 DEF Message
<1> HIDE DEF m
<1>11. Consistent(m)
  <2>1. CASE x.answer = "none"
    BY <1>7, <1>8, <1>9, <1>10, <2>1 DEF Consistent
  <2>2. CASE x.answer # "none"
    <3>1. x.answer # "ok"
      BY <1>1, <1>4 DEF CallSound, Consistent
    <3>2. x.answer \in {"error", "timeout"}
      BY <1>4, <2>2, <3>1 DEF Answers
    <3>3. PICK g \in Handlers : x.inv[g] = "failed"
      BY <1>1, <3>2 DEF CallSound, Consistent
    <3>4. inv[g] = "failed"
      BY <1>4, <1>6, <3>3
    <3> QED  BY <1>9, <1>10, <2>2, <3>2, <3>4 DEF Consistent
  <2> QED  BY <2>1, <2>2
<1>12. Exhausted(m, aborted)
  <2> SUFFICES ASSUME NEW g \in Handlers, inv[g] = "failed"
               PROVE  attempts >= x.max \/ x.signal \in aborted
    BY <1>10 DEF Exhausted
  <2>1. CASE g = h
    BY <1>5, <1>6, <2>1
  <2>2. CASE g # h
    <3>1. x.attempts >= x.max \/ x.signal \in aborted
      BY <1>1, <1>6, <2>2 DEF CallSound, Exhausted
    <3> QED  BY <1>4, <1>5, <3>1
  <2> QED  BY <2>1, <2>2
<1>13. /\ m.kind = "execute" => m.signal = c /\ (m.answer = "none" => c \in linked')
       /\ m.kind = "start" => m.signal = Kernel
       /\ m.kind = "step" => m.signal \in Flows /\ m.answer # "timeout"
  <2>1. /\ x.kind = "execute" => x.signal = c /\ (x.answer = "none" => c \in linked)
        /\ x.kind = "start" => x.signal = Kernel
        /\ x.kind = "step" => x.signal \in Flows /\ x.answer # "timeout"
    BY <1>1 DEF CallSound
  <2> QED  BY <1>3, <1>7, <1>8, <1>9, <1>10, <2>1
<1>14. CallSound(c, m, aborted, linked')
  BY <1>5, <1>10, <1>11, <1>12, <1>13 DEF CallSound
<1>15. m.answer = x.answer \/ x.answer = "none"
  BY <1>9, <1>10
<1> QED  BY <1>2, <1>10, <1>14, <1>15 DEF x

-----------------------------------------------------------------------------
(* Steps that touch one message or one workflow run. *)

LEMMA OneCall ==
    ASSUME KernelInv, NEW c \in Calls, NEW m, call' = [call EXCEPT ![c] = m],
           CallSound(c, m, aborted', linked'), aborted \subseteq aborted',
           \A b \in Calls : b # c /\ b \in linked => b \in linked'
    PROVE  /\ call' \in [Calls -> Message \cup {None}]
           /\ call'[c] = m /\ m # None
           /\ \A b \in Calls : b # c => call'[b] = call[b]
           /\ \A b \in Calls : call'[b] # None => CallSound(b, call'[b], aborted', linked')
<1>1. m \in Message /\ m # None
  BY NoneIsNoRecord DEF CallSound
<1>2. call \in [Calls -> Message \cup {None}]
  BY DEF KernelInv, Typed
<1>3. /\ call' \in [Calls -> Message \cup {None}]
      /\ call'[c] = m
      /\ \A b \in Calls : b # c => call'[b] = call[b]
  BY <1>1, <1>2
<1>4. \A b \in Calls : call'[b] # None => CallSound(b, call'[b], aborted', linked')
  <2> SUFFICES ASSUME NEW b \in Calls, call'[b] # None, b # c
               PROVE  CallSound(b, call'[b], aborted', linked')
    BY <1>3
  <2>1. CallSound(b, call[b], aborted, linked)
    BY <1>3 DEF KernelInv
  <2> QED  BY <1>3, <2>1, CallKept
<1> QED  BY <1>1, <1>3, <1>4

LEMMA SameCalls ==
    ASSUME KernelInv, call' = call, aborted \subseteq aborted',
           \A b \in Calls : b \in linked => b \in linked'
    PROVE  \A b \in Calls : call'[b] # None => CallSound(b, call'[b], aborted', linked')
BY CallKept DEF KernelInv

LEMMA SameFlows ==
    ASSUME KernelInv, flow' = flow, aborted \subseteq aborted',
           timedOut \subseteq timedOut',
           \A f \in Flows : f \in linked => f \in linked'
    PROVE  \A f \in Flows : flow'[f] # None =>
              FlowSound(f, flow'[f], aborted', linked', timedOut')
<1> SUFFICES ASSUME NEW f \in Flows, flow[f] # None
             PROVE  FlowSound(f, flow[f], aborted', linked', timedOut')
  OBVIOUS
<1>1. FlowSound(f, flow[f], aborted, linked, timedOut)
  BY DEF KernelInv
<1> QED  BY <1>1, FlowKept

LEMMA OneFlow ==
    ASSUME KernelInv, NEW f \in Flows, NEW w, flow' = [flow EXCEPT ![f] = w],
           FlowSound(f, w, aborted', linked', timedOut'),
           aborted \subseteq aborted', timedOut \subseteq timedOut',
           \A g \in Flows : g # f /\ g \in linked => g \in linked'
    PROVE  /\ flow' \in [Flows -> FlowRecord \cup {None}]
           /\ flow'[f] = w /\ w # None
           /\ \A g \in Flows : g # f => flow'[g] = flow[g]
           /\ \A g \in Flows : flow'[g] # None =>
                 FlowSound(g, flow'[g], aborted', linked', timedOut')
<1>1. w \in FlowRecord /\ w # None
  BY NoneIsNoRecord DEF FlowSound
<1>2. flow \in [Flows -> FlowRecord \cup {None}]
  BY DEF KernelInv, Typed
<1>3. /\ flow' \in [Flows -> FlowRecord \cup {None}]
      /\ flow'[f] = w
      /\ \A g \in Flows : g # f => flow'[g] = flow[g]
  BY <1>1, <1>2
<1>4. \A g \in Flows : flow'[g] # None =>
         FlowSound(g, flow'[g], aborted', linked', timedOut')
  <2> SUFFICES ASSUME NEW g \in Flows, flow'[g] # None, g # f
               PROVE  FlowSound(g, flow'[g], aborted', linked', timedOut')
    BY <1>3
  <2>1. flow'[g] = flow[g] /\ FlowSound(g, flow[g], aborted, linked, timedOut)
    BY <1>3 DEF KernelInv
  <2>2. FlowSound(g, flow[g], aborted', linked', timedOut')
    BY <2>1, FlowKept
  <2> QED  BY <2>1, <2>2
<1> QED  BY <1>1, <1>3, <1>4

\* The flows see a message of somebody else appear.
LEMMA CommandedAside ==
    ASSUME KernelInv, NEW c \in Calls, call[c] = None, flow' = flow,
           call'[c].signal \notin Flows, \A b \in Calls : b # c => call'[b] = call[b]
    PROVE  \A f \in Flows : Commanded(f, flow[f], call)'
<1> SUFFICES ASSUME NEW f \in Flows PROVE Commanded(f, flow[f], call')
  OBVIOUS
<1>1. Commanded(f, flow[f], call)
  BY DEF KernelInv
<1>2. \A b \in Calls : call'[b] # None /\ call'[b].signal = f => b # c /\ call'[b] = call[b]
  OBVIOUS
<1>3. \A b \in Calls : call[b] # None => call'[b] = call[b]
  OBVIOUS
<1> QED  BY <1>1, <1>2, <1>3 DEF Commanded

\* The flows see one of their messages get on.
LEMMA CommandedOn ==
    ASSUME KernelInv, NEW c \in Calls, call[c] # None, call'[c] # None, flow' = flow,
           call'[c].signal = call[c].signal,
           call'[c].answer = call[c].answer \/ call[c].answer = "none",
           \A b \in Calls : b # c => call'[b] = call[b]
    PROVE  \A f \in Flows : Commanded(f, flow[f], call)'
<1> SUFFICES ASSUME NEW f \in Flows PROVE Commanded(f, flow[f], call')
  OBVIOUS
<1>1. Commanded(f, flow[f], call)
  BY DEF KernelInv
<1>2. ASSUME NEW b \in Calls, call'[b] # None, call'[b].signal = f
      PROVE  /\ flow[f] # None
             /\ \/ call'[b].answer = "ok"
                \/ flow[f].pc = "command" /\ flow[f].current = b
                \/ flow[f].pc = "over" /\ flow[f].answer # "ok" /\ call'[b].answer = "error"
  <2>1. call[b] # None /\ call[b].signal = f
    BY <1>2
  <2>2. /\ flow[f] # None
        /\ \/ call[b].answer = "ok"
           \/ flow[f].pc = "command" /\ flow[f].current = b
           \/ flow[f].pc = "over" /\ flow[f].answer # "ok" /\ call[b].answer = "error"
    BY <1>1, <2>1 DEF Commanded
  <2> QED  BY <2>2
<1>3. flow[f] # None /\ flow[f].pc = "command" =>
         /\ flow[f].current \in Calls /\ call'[flow[f].current] # None
         /\ call'[flow[f].current].signal = f
  BY <1>1 DEF Commanded
<1> QED  BY <1>2, <1>3 DEF Commanded

\* The flows see one of them move on; the messages stay.
LEMMA CommandedFlow ==
    ASSUME KernelInv, NEW f \in Flows, call' = call,
           \A g \in Flows : g # f => flow'[g] = flow[g],
           Commanded(f, flow'[f], call)
    PROVE  \A g \in Flows : Commanded(g, flow[g], call)'
<1> SUFFICES ASSUME NEW g \in Flows PROVE Commanded(g, flow'[g], call)
  OBVIOUS
<1>1. CASE g = f
  BY <1>1
<1>2. CASE g # f
  BY <1>2 DEF KernelInv
<1> QED  BY <1>1, <1>2

-----------------------------------------------------------------------------
(* The operations of the bus and of the kernel. *)

LEMMA HandlerInv ==
    ASSUME KernelInv, NEW c \in Calls, NEW h \in Handlers,
           HandlerReturns(c, h) \/ HandlerThrows(c, h)
    PROVE  KernelInv'
<1>1. call[c] # None /\ call[c].inv[h] = "running"
  BY HandlerCases
<1>2. PICK result, attempts :
         Ends(c, result, attempts) /\ Invoked(c, h, result, attempts)
  BY HandlerCases
<1>3. UNCHANGED <<flow, aborted, timedOut>>
  BY HandlerCases
<1>4. PICK m : /\ call' = [call EXCEPT ![c] = m]
               /\ m.kind = call[c].kind /\ m.signal = call[c].signal
               /\ m.answer = call[c].answer \/ call[c].answer = "none"
               /\ CallSound(c, m, aborted, linked')
  BY <1>1, <1>2, InvokedSound
<1>5. linked' \in {linked, linked \ {c}} /\ state' \in {"running", state}
  BY <1>2 DEF Invoked, Continue
<1>6. /\ call' \in [Calls -> Message \cup {None}]
      /\ call'[c] = m /\ m # None
      /\ \A b \in Calls : b # c => call'[b] = call[b]
      /\ \A b \in Calls : call'[b] # None => CallSound(b, call'[b], aborted', linked')
  BY <1>3, <1>4, <1>5, OneCall
<1>7. \A f \in Flows : f \in linked => f \in linked'
  BY <1>5, KernelSets
<1>8. \A f \in Flows : flow'[f] # None =>
         FlowSound(f, flow'[f], aborted', linked', timedOut')
  BY <1>3, <1>7, SameFlows
<1>9. \A f \in Flows : Commanded(f, flow[f], call)'
  BY <1>1, <1>3, <1>4, <1>6, CommandedOn
<1>10. Typed' /\ (Kernel \in aborted' => linked' \subseteq aborted')
  BY <1>3, <1>5, <1>6 DEF KernelInv, Typed, States
<1> QED  BY <1>6, <1>8, <1>9, <1>10 DEF KernelInv

LEMMA ExecuteInv ==
    ASSUME KernelInv, NEW c \in Calls, NEW n \in Registered, Execute(c, n)
    PROVE  KernelInv'
<1> DEFINE dead == Kernel \in aborted
           m == Published("execute", n, c, dead, MaxAttempts)
<1>1. /\ m \in Message /\ m.kind = "execute" /\ m.signal = c
      /\ m.attempts <= m.max /\ Consistent(m)
      /\ \A gone : (dead => c \in gone) => Exhausted(m, gone)
  <2>1. /\ c \in Signals /\ MaxAttempts \in Nat /\ dead \in BOOLEAN
        /\ "execute" \in {"start", "execute", "step"}
    BY KernelBounds DEF Signals
  <2> HIDE DEF dead
  <2> QED  BY <2>1, PublishedSound
<1>2. call[c] = None /\ call' = [call EXCEPT ![c] = m]
  BY DEF Execute, Fresh
<1> HIDE DEF m
<1>3. /\ aborted' = IF Kernel \in aborted THEN aborted \cup {c} ELSE aborted
      /\ linked' = IF call'[c].answer = "none" THEN linked \cup {c} ELSE linked
      /\ UNCHANGED <<state, flow, timedOut>>
  BY DEF Execute
<1>4. call'[c] = m
  BY <1>2 DEF KernelInv, Typed
<1>5. CallSound(c, m, aborted', linked')
  BY <1>1, <1>3, <1>4 DEF CallSound
<1>6. /\ call' \in [Calls -> Message \cup {None}]
      /\ \A b \in Calls : b # c => call'[b] = call[b]
      /\ \A b \in Calls : call'[b] # None => CallSound(b, call'[b], aborted', linked')
  BY <1>2, <1>3, <1>5, OneCall
<1>7. \A f \in Flows : flow'[f] # None =>
         FlowSound(f, flow'[f], aborted', linked', timedOut')
  BY <1>3, SameFlows
<1>8. \A f \in Flows : Commanded(f, flow[f], call)'
  BY <1>1, <1>2, <1>3, <1>4, <1>6, CommandedAside, KernelSets
<1>9. Typed' /\ (Kernel \in aborted' => linked' \subseteq aborted')
  BY <1>3, <1>6, KernelSets DEF KernelInv, Typed, Signals
<1> QED  BY <1>6, <1>7, <1>8, <1>9 DEF KernelInv

LEMMA StartInv ==
    ASSUME KernelInv, NEW c \in Calls, NEW n \in Registered, Start(c, n)
    PROVE  KernelInv'
<1> DEFINE dead == Kernel \in aborted
           m == Published("start", n, Kernel, dead, 1)
<1>1. /\ m \in Message /\ m.kind = "start" /\ m.signal = Kernel
      /\ m.attempts <= m.max /\ Consistent(m)
      /\ \A gone : (dead => Kernel \in gone) => Exhausted(m, gone)
  <2>1. /\ Kernel \in Signals /\ 1 \in Nat /\ dead \in BOOLEAN
        /\ "start" \in {"start", "execute", "step"}
    BY DEF Signals
  <2> HIDE DEF dead
  <2> QED  BY <2>1, PublishedSound
<1>2. call[c] = None /\ call' = [call EXCEPT ![c] = m]
  BY DEF Start, Fresh
<1> HIDE DEF m
<1>3. state' \in {"running", "bootstrapping"} /\ UNCHANGED <<flow, aborted, linked, timedOut>>
  BY DEF Start
<1>4. call'[c] = m
  BY <1>2 DEF KernelInv, Typed
<1>5. CallSound(c, m, aborted', linked')
  BY <1>1, <1>3 DEF CallSound
<1>6. /\ call' \in [Calls -> Message \cup {None}]
      /\ \A b \in Calls : b # c => call'[b] = call[b]
      /\ \A b \in Calls : call'[b] # None => CallSound(b, call'[b], aborted', linked')
  BY <1>2, <1>3, <1>5, OneCall
<1>7. \A f \in Flows : flow'[f] # None =>
         FlowSound(f, flow'[f], aborted', linked', timedOut')
  BY <1>3, SameFlows
<1>8. \A f \in Flows : Commanded(f, flow[f], call)'
  BY <1>1, <1>2, <1>3, <1>4, <1>6, CommandedAside, KernelSets
<1>9. Typed' /\ (Kernel \in aborted' => linked' \subseteq aborted')
  BY <1>3, <1>6 DEF KernelInv, Typed, States
<1> QED  BY <1>6, <1>7, <1>8, <1>9 DEF KernelInv

\* stop() and the timers touch signals only.
LEMMA SignalInv ==
    ASSUME KernelInv, Stop \/ \E s \in Signals : TimerFires(s)
    PROVE  KernelInv'
<1>1. /\ UNCHANGED <<call, flow, linked>> /\ state' \in {"stopped", state}
      /\ aborted \subseteq aborted' /\ timedOut \subseteq timedOut'
  BY DEF Stop, TimerFires
<1>2. Typed' /\ (Kernel \in aborted' => linked' \subseteq aborted')
  <2>1. CASE Stop
    BY <2>1 DEF Stop, AbortedByStop, KernelInv, Typed, States, Signals
  <2>2. ASSUME NEW s \in Signals, TimerFires(s)
        PROVE  Typed' /\ (Kernel \in aborted' => linked' \subseteq aborted')
    <3>1. s \in linked /\ s # Kernel
      BY <2>2, KernelSets DEF TimerFires, KernelInv, Typed
    <3> QED  BY <2>2, <3>1 DEF TimerFires, KernelInv, Typed
  <2> QED  BY <2>1, <2>2
<1>3. \A b \in Calls : call'[b] # None => CallSound(b, call'[b], aborted', linked')
  BY <1>1, SameCalls
<1>4. \A f \in Flows : flow'[f] # None =>
         FlowSound(f, flow'[f], aborted', linked', timedOut')
  BY <1>1, SameFlows
<1>5. \A f \in Flows : Commanded(f, flow[f], call)'
  BY <1>1 DEF KernelInv
<1> QED  BY <1>2, <1>3, <1>4, <1>5 DEF KernelInv

-----------------------------------------------------------------------------
(* The operations of a workflow run. *)

\* Every command of run f so far was carried out.
AllDone(f) == \A c \in Calls : call[c] # None /\ call[c].signal = f => call[c].answer = "ok"

LEMMA BetweenCommands ==
    ASSUME KernelInv, NEW f \in Flows, flow[f] # None, flow[f].pc \in {"ready", "condition"}
    PROVE  AllDone(f)
BY DEF KernelInv, Commanded, AllDone

\* execute() of the workflow ends.
LEMMA FlowOverInv ==
    ASSUME KernelInv, NEW f \in Flows, flow[f] # None, flow[f].pc # "over",
           NEW how \in {"ok", "error"}, FlowOver(f, how),
           UNCHANGED <<state, call, aborted, timedOut>>,
           how = "ok" => AllDone(f) /\ Len(flow[f].done) = Steps,
           \A c \in Calls : call[c] # None /\ call[c].signal = f =>
              call[c].answer \in {"ok", "error"}
    PROVE  KernelInv'
<1> DEFINE x == flow[f]
           given == IF x.answer = "none" THEN how ELSE x.answer
           w == [x EXCEPT !.pc = "over", !.current = None, !.answer = given]
<1>1. FlowSound(f, x, aborted, linked, timedOut) /\ x \in FlowRecord
  BY DEF KernelInv, FlowSound
<1>2. flow' = [flow EXCEPT ![f] = w] /\ linked' = linked \ {f}
  BY Zenon DEF FlowOver
<1> HIDE DEF x
<1>3. /\ given \in Answers /\ given # "none"
      /\ given = "ok" => how = "ok"
  BY <1>1 DEF FlowSound, FlowRecord, Answers, x
<1> HIDE DEF given
<1>4. /\ w \in FlowRecord /\ w.pc = "over" /\ w.answer = given
      /\ w.at = x.at /\ w.done = x.done
  BY <1>1, <1>3 DEF FlowRecord
<1> HIDE DEF w
<1>5. FlowSound(f, w, aborted', linked', timedOut')
  BY <1>1, <1>3, <1>4 DEF FlowSound, x
<1>6. /\ flow' \in [Flows -> FlowRecord \cup {None}]
      /\ flow'[f] = w /\ w # None
      /\ \A g \in Flows : g # f => flow'[g] = flow[g]
      /\ \A g \in Flows : flow'[g] # None =>
            FlowSound(g, flow'[g], aborted', linked', timedOut')
  BY <1>2, <1>5, OneFlow
<1>7. Commanded(f, w, call)
  <2> SUFFICES ASSUME NEW c \in Calls, call[c] # None, call[c].signal = f
               PROVE  call[c].answer = "ok" \/ (w.answer # "ok" /\ call[c].answer = "error")
    BY <1>4, <1>6 DEF Commanded
  <2>1. CASE how = "ok"
    BY <2>1 DEF AllDone
  <2>2. CASE how = "error"
    BY <1>3, <1>4, <2>2
  <2> QED  BY <2>1, <2>2
<1>8. \A g \in Flows : Commanded(g, flow[g], call)'
  BY <1>6, <1>7, CommandedFlow
<1>9. \A b \in Calls : b \in linked => b \in linked'
  BY <1>2, KernelSets
<1>10. \A b \in Calls : call'[b] # None => CallSound(b, call'[b], aborted', linked')
  BY <1>9, SameCalls
<1>11. Typed' /\ (Kernel \in aborted' => linked' \subseteq aborted')
  BY <1>2, <1>6 DEF KernelInv, Typed
<1> QED  BY <1>6, <1>8, <1>10, <1>11 DEF KernelInv

\* A flow that moves on within its loop.
LEMMA LoopInv ==
    ASSUME KernelInv, NEW f \in Flows, NEW w, flow' = [flow EXCEPT ![f] = w],
           FlowSound(f, w, aborted, linked, timedOut), Commanded(f, w, call),
           UNCHANGED <<state, call, aborted, linked, timedOut>>
    PROVE  KernelInv'
<1>1. FlowSound(f, w, aborted', linked', timedOut')
  OBVIOUS
<1>2. /\ flow' \in [Flows -> FlowRecord \cup {None}]
      /\ flow'[f] = w /\ w # None
      /\ \A g \in Flows : g # f => flow'[g] = flow[g]
      /\ \A g \in Flows : flow'[g] # None =>
            FlowSound(g, flow'[g], aborted', linked', timedOut')
  BY <1>1, OneFlow
<1>3. \A g \in Flows : Commanded(g, flow[g], call)'
  BY <1>2, CommandedFlow
<1>4. \A b \in Calls : call'[b] # None => CallSound(b, call'[b], aborted', linked')
  BY SameCalls
<1>5. Typed' /\ (Kernel \in aborted' => linked' \subseteq aborted')
  BY <1>2 DEF KernelInv, Typed
<1> QED  BY <1>2, <1>3, <1>4, <1>5 DEF KernelInv

LEMMA AdvanceInv ==
    ASSUME KernelInv, NEW f \in Flows, flow[f] # None,
           flow[f].pc \in {"condition", "command"}, AllDone(f),
           NEW status \in {"skipped", "predicted", "completed"}, Advance(f, status),
           UNCHANGED <<state, call, aborted, linked, timedOut>>
    PROVE  KernelInv'
<1> DEFINE x == flow[f]
           done == Append(x.done, status)
           w == [x EXCEPT !.pc = "ready", !.at = x.at + 1, !.current = None, !.done = done]
<1>1. FlowSound(f, x, aborted, linked, timedOut) /\ x \in FlowRecord
  BY DEF KernelInv, FlowSound
<1>2. flow' = [flow EXCEPT ![f] = w]
  BY Zenon DEF Advance
<1> HIDE DEF x
<1>3. /\ x.done \in Seq({"skipped", "predicted", "completed"}) /\ x.at \in Nat
      /\ x.at = Len(x.done) + 1 /\ x.at <= Steps
      /\ x.pc \in {"condition", "command"}
  BY <1>1 DEF FlowSound, FlowRecord, x
<1>4. /\ done \in Seq({"skipped", "predicted", "completed"})
      /\ Len(done) = Len(x.done) + 1 /\ x.at + 1 \in Nat
  BY <1>3
<1> HIDE DEF done
<1>5. /\ w \in FlowRecord /\ w.pc = "ready" /\ w.at = x.at + 1 /\ w.done = done
      /\ w.answer = x.answer
  BY <1>1, <1>4 DEF FlowRecord
<1> HIDE DEF w
<1>6. w.at = Len(w.done) + 1 /\ w.at <= Steps + 1
  BY <1>3, <1>4, <1>5, KernelBounds
<1>7. FlowSound(f, w, aborted, linked, timedOut)
  BY <1>1, <1>3, <1>5, <1>6 DEF FlowSound
<1>8. w # None
  BY <1>5, NoneIsNoRecord
<1>9. Commanded(f, w, call)
  BY <1>5, <1>8 DEF AllDone, Commanded
<1> QED  BY <1>2, <1>7, <1>9, LoopInv

LEMMA FlowStartInv ==
    ASSUME KernelInv, NEW f \in Flows, NEW simulate \in BOOLEAN, FlowStart(f, simulate)
    PROVE  KernelInv'
<1> DEFINE w == [pc |-> "ready", at |-> 1, current |-> None,
                 simulate |-> simulate, done |-> <<>>, answer |-> "none"]
<1>1. /\ flow[f] = None /\ flow' = [flow EXCEPT ![f] = w]
      /\ linked' = linked \cup {f}
      /\ aborted' = IF Kernel \in aborted THEN aborted \cup {f} ELSE aborted
      /\ UNCHANGED <<state, call, timedOut>>
  BY DEF FlowStart, Link
<1>2. /\ <<>> \in Seq({"skipped", "predicted", "completed"}) /\ Len(<<>>) = 0
      /\ 1 \in Nat /\ 1 = 0 + 1 /\ 1 <= Steps + 1
  BY KernelBounds
<1>3. /\ w \in FlowRecord /\ w.pc = "ready" /\ w.at = 1 /\ w.answer = "none"
      /\ Len(w.done) = 0
  BY <1>2 DEF FlowRecord, Answers
<1> HIDE DEF w
<1>4. FlowSound(f, w, aborted', linked', timedOut')
  BY <1>1, <1>2, <1>3 DEF FlowSound
<1>5. /\ flow' \in [Flows -> FlowRecord \cup {None}]
      /\ flow'[f] = w /\ w # None
      /\ \A g \in Flows : g # f => flow'[g] = flow[g]
      /\ \A g \in Flows : flow'[g] # None =>
            FlowSound(g, flow'[g], aborted', linked', timedOut')
  BY <1>1, <1>4, OneFlow
<1>6. Commanded(f, w, call)
  <2>1. Commanded(f, None, call)
    BY <1>1 DEF KernelInv
  <2> QED  BY <1>3, <2>1 DEF Commanded
<1>7. \A g \in Flows : Commanded(g, flow[g], call)'
  BY <1>1, <1>5, <1>6, CommandedFlow
<1>8. \A b \in Calls : call'[b] # None => CallSound(b, call'[b], aborted', linked')
  BY <1>1, SameCalls
<1>9. Typed' /\ (Kernel \in aborted' => linked' \subseteq aborted')
  BY <1>1, <1>5, KernelSets DEF KernelInv, Typed, Signals
<1> QED  BY <1>5, <1>7, <1>8, <1>9 DEF KernelInv

LEMMA StepBeginsInv ==
    ASSUME KernelInv, NEW f \in Flows, StepBegins(f)
    PROVE  KernelInv'
<1> DEFINE x == flow[f]
           w == [x EXCEPT !.pc = "condition"]
<1>1. /\ x # None /\ x.pc = "ready" /\ UNCHANGED <<state, call, aborted, timedOut>>
  BY DEF StepBegins
<1>2. FlowSound(f, x, aborted, linked, timedOut) /\ x \in FlowRecord
  BY <1>1 DEF KernelInv, FlowSound
<1>3. AllDone(f)
  BY <1>1, BetweenCommands
<1>4. /\ x.at \in Nat /\ Len(x.done) \in Nat /\ x.at = Len(x.done) + 1
      /\ x.at <= Steps + 1
  BY <1>1, <1>2 DEF FlowSound, FlowRecord
<1>5. CASE x.at > Steps /\ FlowOver(f, "ok")
  <2>1. Len(x.done) = Steps
    BY <1>4, <1>5, KernelBounds
  <2> QED  BY <1>1, <1>3, <1>5, <2>1, FlowOverInv DEF AllDone
<1>6. CASE FlowOver(f, "error")
  BY <1>1, <1>3, <1>6, FlowOverInv DEF AllDone
<1>7. CASE ~(x.at > Steps) /\ flow' = [flow EXCEPT ![f] = w] /\ UNCHANGED linked
  <2> HIDE DEF x
  <2>1. /\ w \in FlowRecord /\ w.pc = "condition" /\ w.at = x.at /\ w.done = x.done
        /\ w.answer = x.answer
    BY <1>2 DEF FlowRecord
  <2>2. x.at <= Steps
    BY <1>4, <1>7, KernelBounds
  <2> HIDE DEF w
  <2>3. FlowSound(f, w, aborted, linked, timedOut)
    BY <1>1, <1>2, <2>1, <2>2 DEF FlowSound
  <2>4. Commanded(f, w, call)
    BY <1>3, <2>1, NoneIsNoRecord DEF AllDone, Commanded
  <2> QED  BY <1>1, <1>7, <2>3, <2>4, LoopInv
<1> QED  BY <1>5, <1>6, <1>7 DEF StepBegins

LEMMA StepRefusedInv ==
    ASSUME KernelInv, NEW f \in Flows, StepRefused(f)
    PROVE  KernelInv'
<1>1. /\ flow[f] # None /\ flow[f].pc = "condition" /\ FlowOver(f, "error")
      /\ UNCHANGED <<state, call, aborted, timedOut>>
  BY DEF StepRefused
<1>2. AllDone(f)
  BY <1>1, BetweenCommands
<1> QED  BY <1>1, <1>2, FlowOverInv DEF AllDone

LEMMA StepPassedInv ==
    ASSUME KernelInv, NEW f \in Flows, StepSkipped(f) \/ StepPredicted(f)
    PROVE  KernelInv'
<1>1. /\ flow[f] # None /\ flow[f].pc = "condition"
      /\ Advance(f, "skipped") \/ Advance(f, "predicted")
      /\ UNCHANGED <<state, call, aborted, linked, timedOut>>
  BY DEF StepSkipped, StepPredicted
<1>2. AllDone(f)
  BY <1>1, BetweenCommands
<1> QED  BY <1>1, <1>2, AdvanceInv

LEMMA StepAnsweredInv ==
    ASSUME KernelInv, NEW f \in Flows, StepAnswered(f)
    PROVE  KernelInv'
<1> DEFINE b == flow[f].current
<1>1. /\ flow[f] # None /\ flow[f].pc = "command"
      /\ UNCHANGED <<state, call, aborted, timedOut>>
      /\ \/ call[b].answer = "ok" /\ Advance(f, "completed") /\ UNCHANGED linked
         \/ call[b].answer = "error" /\ FlowOver(f, "error")
  BY DEF StepAnswered
<1>2. \A c \in Calls : call[c] # None /\ call[c].signal = f =>
         call[c].answer = "ok" \/ c = b
  BY <1>1 DEF KernelInv, Commanded
<1>3. CASE call[b].answer = "ok" /\ Advance(f, "completed") /\ UNCHANGED linked
  <2>1. AllDone(f)
    BY <1>2, <1>3 DEF AllDone
  <2> QED  BY <1>1, <1>3, <2>1, AdvanceInv
<1>4. CASE call[b].answer = "error" /\ FlowOver(f, "error")
  <2>1. \A c \in Calls : call[c] # None /\ call[c].signal = f =>
           call[c].answer \in {"ok", "error"}
    BY <1>2, <1>4
  <2> QED  BY <1>1, <1>4, <2>1, FlowOverInv
<1> QED  BY <1>1, <1>3, <1>4

LEMMA StepCommandedInv ==
    ASSUME KernelInv, NEW f \in Flows, NEW c \in Calls, NEW n \in Registered,
           StepCommanded(f, c, n)
    PROVE  KernelInv'
<1> DEFINE dead == f \in aborted
           m == Published("step", n, f, dead, Retry)
           x == flow[f]
           w == [x EXCEPT !.pc = "command", !.current = c]
<1>1. /\ m \in Message /\ m.kind = "step" /\ m.signal = f
      /\ m.attempts <= m.max /\ Consistent(m) /\ m.answer # "timeout"
      /\ \A gone : (dead => f \in gone) => Exhausted(m, gone)
  <2>1. /\ f \in Signals /\ Retry \in Nat /\ dead \in BOOLEAN
        /\ "step" \in {"start", "execute", "step"}
    BY KernelBounds DEF Signals
  <2> HIDE DEF dead
  <2> QED  BY <2>1, PublishedSound
<1>2. /\ x # None /\ x.pc = "condition" /\ call[c] = None
      /\ call' = [call EXCEPT ![c] = m] /\ flow' = [flow EXCEPT ![f] = w]
      /\ UNCHANGED <<state, aborted, linked, timedOut>>
  BY DEF StepCommanded, Fresh
<1>3. FlowSound(f, x, aborted, linked, timedOut) /\ AllDone(f)
  BY <1>2, BetweenCommands DEF KernelInv
<1> HIDE DEF m, x
<1>4. CallSound(c, m, aborted', linked')
  BY <1>1, <1>2 DEF CallSound
<1>5. /\ call' \in [Calls -> Message \cup {None}]
      /\ call'[c] = m /\ m # None
      /\ \A b \in Calls : b # c => call'[b] = call[b]
      /\ \A b \in Calls : call'[b] # None => CallSound(b, call'[b], aborted', linked')
  BY <1>2, <1>4, OneCall
<1>6. /\ w \in FlowRecord /\ w.pc = "command" /\ w.current = c
      /\ w.at = x.at /\ w.done = x.done /\ w.answer = x.answer
  BY <1>3 DEF FlowSound, FlowRecord
<1> HIDE DEF w
<1>7. FlowSound(f, w, aborted', linked', timedOut')
  BY <1>2, <1>3, <1>6 DEF FlowSound
<1>8. /\ flow' \in [Flows -> FlowRecord \cup {None}]
      /\ flow'[f] = w /\ w # None
      /\ \A g \in Flows : g # f => flow'[g] = flow[g]
      /\ \A g \in Flows : flow'[g] # None =>
            FlowSound(g, flow'[g], aborted', linked', timedOut')
  BY <1>2, <1>7, OneFlow
<1>9. ASSUME NEW g \in Flows
      PROVE  Commanded(g, flow'[g], call')
  <2>1. CASE g = f
    <3>1. \A b \in Calls : call'[b] # None /\ call'[b].signal = f =>
             call'[b].answer = "ok" \/ b = c
      BY <1>3, <1>5 DEF AllDone
    <3> QED  BY <1>1, <1>5, <1>6, <1>8, <2>1, <3>1 DEF Commanded
  <2>2. CASE g # f
    <3>1. flow'[g] = flow[g] /\ Commanded(g, flow[g], call)
      BY <1>8, <2>2 DEF KernelInv
    <3>2. \A b \in Calls : call'[b] # None /\ call'[b].signal = g =>
             b # c /\ call'[b] = call[b]
      BY <1>1, <1>5, <2>2
    <3>3. \A b \in Calls : call[b] # None => call'[b] = call[b]
      BY <1>2, <1>5
    <3> QED  BY <3>1, <3>2, <3>3 DEF Commanded
  <2> QED  BY <2>1, <2>2
<1>10. Typed' /\ (Kernel \in aborted' => linked' \subseteq aborted')
  BY <1>2, <1>5, <1>8 DEF KernelInv, Typed
<1> QED  BY <1>5, <1>8, <1>9, <1>10 DEF KernelInv

LEMMA WatcherInv ==
    ASSUME KernelInv, NEW f \in Flows, WatcherFires(f)
    PROVE  KernelInv'
<1> DEFINE x == flow[f]
           w == [x EXCEPT !.answer = "timeout"]
<1>1. /\ x # None /\ x.answer = "none" /\ f \in timedOut
      /\ flow' = [flow EXCEPT ![f] = w] /\ linked' = linked \ {f}
      /\ UNCHANGED <<state, call, aborted, timedOut>>
  BY DEF WatcherFires
<1>2. FlowSound(f, x, aborted, linked, timedOut) /\ Commanded(f, x, call)
  BY <1>1 DEF KernelInv
<1>3. f \in aborted
  BY <1>1 DEF KernelInv, Typed
<1> HIDE DEF x
<1>4. /\ w \in FlowRecord /\ w.pc = x.pc /\ w.current = x.current
      /\ w.at = x.at /\ w.done = x.done /\ w.answer = "timeout"
  BY <1>2 DEF FlowSound, FlowRecord, Answers
<1> HIDE DEF w
<1>5. FlowSound(f, w, aborted', linked', timedOut')
  BY <1>1, <1>2, <1>3, <1>4 DEF FlowSound
<1>6. /\ flow' \in [Flows -> FlowRecord \cup {None}]
      /\ flow'[f] = w /\ w # None
      /\ \A g \in Flows : g # f => flow'[g] = flow[g]
      /\ \A g \in Flows : flow'[g] # None =>
            FlowSound(g, flow'[g], aborted', linked', timedOut')
  BY <1>1, <1>5, OneFlow
<1>7. Commanded(f, w, call)
  BY <1>1, <1>2, <1>4, <1>6 DEF Commanded
<1>8. \A g \in Flows : Commanded(g, flow[g], call)'
  BY <1>1, <1>6, <1>7, CommandedFlow
<1>9. \A b \in Calls : b \in linked => b \in linked'
  BY <1>1, KernelSets
<1>10. \A b \in Calls : call'[b] # None => CallSound(b, call'[b], aborted', linked')
  BY <1>1, <1>9, SameCalls
<1>11. Typed' /\ (Kernel \in aborted' => linked' \subseteq aborted')
  BY <1>1, <1>6 DEF KernelInv, Typed
<1> QED  BY <1>6, <1>8, <1>10, <1>11 DEF KernelInv

-----------------------------------------------------------------------------
(* The invariant is inductive. *)

LEMMA KernelInit == Init => KernelInv
BY KernelSets DEF Init, KernelInv, Typed, States, Commanded

\* The steps of Next, one disjunct per operation.
LEMMA NextCases ==
    ASSUME Next
    PROVE  \/ \E c \in Calls, n \in Registered : Execute(c, n)
           \/ \E c \in Calls, n \in Registered : Start(c, n)
           \/ \E c \in Calls, h \in Handlers : HandlerReturns(c, h) \/ HandlerThrows(c, h)
           \/ Stop \/ \E s \in Signals : TimerFires(s)
           \/ \E f \in Flows, simulate \in BOOLEAN : FlowStart(f, simulate)
           \/ \E f \in Flows : StepBegins(f) \/ StepRefused(f) \/ StepAnswered(f)
           \/ \E f \in Flows : StepSkipped(f) \/ StepPredicted(f)
           \/ \E f \in Flows, c \in Calls, n \in Registered : StepCommanded(f, c, n)
           \/ \E f \in Flows : WatcherFires(f)
BY DEF Next, FlowStep

LEMMA KernelInductive == KernelInv /\ [Next]_vars => KernelInv'
<1> SUFFICES ASSUME KernelInv, [Next]_vars PROVE KernelInv'
  OBVIOUS
<1>1. CASE Next
  BY <1>1, NextCases, ExecuteInv, StartInv, HandlerInv, SignalInv, FlowStartInv,
     StepBeginsInv, StepRefusedInv, StepAnsweredInv, StepPassedInv,
     StepCommandedInv, WatcherInv
<1>2. CASE UNCHANGED vars
  BY <1>2 DEF vars, KernelInv, Typed
<1> QED  BY <1>1, <1>2

LEMMA KernelAlways == Spec => []KernelInv
BY KernelInit, KernelInductive, PTL DEF Spec

-----------------------------------------------------------------------------
(* What callers are told. *)

\* What the bus answers is backed by its handlers, and what the workflow engine
\* answers by its commands, whatever mixture of failures, retries, removed
\* listeners, timeouts and stops a message meets.
THEOREM SoundAnswers == Spec => []AnswersAreSound
<1>1. KernelInv => AnswersAreSound
  <2> SUFFICES ASSUME KernelInv PROVE AnswersAreSound
    OBVIOUS
  <2>1. TypeOK
    BY DEF KernelInv, Typed, CallSound, TypeOK
  <2>2. AnswerMatchesHandlers
    BY DEF AnswerMatchesHandlers, KernelInv, CallSound, Consistent, Present
  <2>3. ASSUME NEW f \in Flows, flow[f] # None, flow[f].answer = "ok"
        PROVE  /\ Len(flow[f].done) = Steps
               /\ \A c \in Calls :
                     call[c] # None /\ call[c].signal = f => call[c].answer = "ok"
    <3>1. FlowSound(f, flow[f], aborted, linked, timedOut) /\ Commanded(f, flow[f], call)
      BY <2>3 DEF KernelInv
    <3>2. flow[f].pc = "over" /\ Len(flow[f].done) = Steps
      BY <2>3, <3>1 DEF FlowSound
    <3> QED  BY <2>3, <3>1, <3>2 DEF Commanded
  <2> QED  BY <2>1, <2>2, <2>3 DEF AnswersAreSound, FlowOkMeansAllSteps
<1> QED  BY <1>1, KernelAlways, PTL

\* Handlers are invoked again by the retry loop only, and nothing but
\* StepCommanded, Execute and Start publishes.
LEMMA AttemptsMove ==
    ASSUME KernelInv, [Next]_vars, NEW c \in Calls, call[c] # None,
           call'[c].attempts # call[c].attempts
    PROVE  Retries(c) /\ \E h \in Handlers : call[c].inv[h] = "running"
<1>1. call'[c] # call[c]
  OBVIOUS
<1>2. call \in [Calls -> Message \cup {None}] /\ call[c] \in Message
  BY DEF KernelInv, Typed, CallSound
<1>3. ASSUME NEW d \in Calls, NEW h \in Handlers, HandlerReturns(d, h) \/ HandlerThrows(d, h)
      PROVE  Retries(c) /\ \E g \in Handlers : call[c].inv[g] = "running"
  <2>1. PICK result, attempts :
           Ends(d, result, attempts) /\ Invoked(d, h, result, attempts)
    BY <1>3, HandlerCases
  <2>2. d = c
    BY <1>1, <1>2, <2>1 DEF Invoked
  <2>3. call'[c].attempts = attempts
    BY <1>2, <2>1, <2>2 DEF Invoked, Message
  <2>4. Retries(c)
    BY <2>1, <2>2, <2>3 DEF Ends
  <2> QED  BY <1>3, <2>2, <2>4, HandlerCases
<1>4. ASSUME NEW d \in Calls, call[d] = None, NEW m, call' = [call EXCEPT ![d] = m]
      PROVE  FALSE
  BY <1>1, <1>2, <1>4
<1>5. ASSUME NEW d \in Calls, NEW n \in Registered,
             \/ Execute(d, n) \/ Start(d, n) \/ \E f \in Flows : StepCommanded(f, d, n)
      PROVE  FALSE
  BY <1>4, <1>5 DEF Execute, Start, StepCommanded, Fresh
<1>6. CASE call' = call
  BY <1>1, <1>6
<1>7. CASE UNCHANGED vars
  BY <1>6, <1>7 DEF vars
<1>8. CASE Next
  <2>1. ASSUME NEW f \in Flows,
               \/ \E simulate \in BOOLEAN : FlowStart(f, simulate)
               \/ StepBegins(f) \/ StepRefused(f) \/ StepAnswered(f)
               \/ StepSkipped(f) \/ StepPredicted(f) \/ WatcherFires(f)
        PROVE  call' = call
    BY <2>1 DEF FlowStart, StepBegins, StepRefused, StepAnswered, StepSkipped,
       StepPredicted, WatcherFires
  <2>2. ASSUME Stop \/ \E s \in Signals : TimerFires(s)
        PROVE  call' = call
    BY <2>2 DEF Stop, TimerFires
  <2> QED  BY <1>3, <1>5, <1>6, <1>8, <2>1, <2>2, NextCases
<1> QED  BY <1>7, <1>8

\* Once its caller has an answer, a message is not tried again: the retry loops
\* that are still running find the budget spent or the signal aborted.
THEOREM QuietOnceAnswered == Spec => AnsweredIsQuiet
<1> DEFINE Quiet == \A c \in Calls : call[c] # None /\ Unawaited(c) =>
                       call'[c].attempts = call[c].attempts
<1>1. KernelInv /\ [Next]_vars => Quiet
  <2> SUFFICES ASSUME KernelInv, [Next]_vars, NEW c \in Calls, call[c] # None,
                      Unawaited(c), call'[c].attempts # call[c].attempts
               PROVE  FALSE
    BY Zenon
  <2>1. Retries(c) /\ \E h \in Handlers : call[c].inv[h] = "running"
    BY AttemptsMove
  <2>2. call[c].answer = "none"
    BY <2>1, AnsweredIsOver
  <2>3. PICK f \in Flows : flow[f] # None /\ flow[f].answer # "none" /\ call[c].signal = f
    BY <2>2 DEF Unawaited
  <2>4. FlowSound(f, flow[f], aborted, linked, timedOut) /\ Commanded(f, flow[f], call)
    BY <2>3 DEF KernelInv
  <2>5. CASE f \in timedOut
    BY <2>1, <2>3, <2>5 DEF KernelInv, Typed, Retries
  <2>6. CASE flow[f].pc = "over"
    BY <2>2, <2>3, <2>4, <2>6 DEF Commanded
  <2> QED  BY <2>3, <2>4, <2>5, <2>6 DEF FlowSound
<1> HIDE DEF Quiet
<1>2. Spec => [][Quiet]_vars
  BY <1>1, KernelAlways, PTL DEF Spec
<1> QED  BY <1>2 DEF Quiet, AnsweredIsQuiet

\* After stop() no handler is invoked, by a call under way or by a later one.
THEOREM QuietOnceStopped == Spec => StoppedIsQuiet
<1> DEFINE Quiet == \A c \in Calls : Kernel \in aborted /\ call'[c] # None =>
              call'[c].attempts = IF call[c] = None THEN 0 ELSE call[c].attempts
<1>1. KernelInv /\ [Next]_vars => Quiet
  <2> SUFFICES ASSUME KernelInv, [Next]_vars, NEW c \in Calls, Kernel \in aborted,
                      call'[c] # None
               PROVE  call'[c].attempts = IF call[c] = None THEN 0 ELSE call[c].attempts
    BY DEF Quiet
  <2>1. CASE call[c] # None
    <3> SUFFICES ASSUME call'[c].attempts # call[c].attempts PROVE FALSE
      BY <2>1
    <3>1. Retries(c) /\ \E h \in Handlers : call[c].inv[h] = "running"
      BY <2>1, AttemptsMove
    <3>2. call[c].answer = "none" /\ call[c].signal \notin aborted
      BY <2>1, <3>1, AnsweredIsOver DEF Retries
    <3>3. CallSound(c, call[c], aborted, linked) /\ linked \subseteq aborted
      BY <2>1 DEF KernelInv
    <3>4. call[c].kind = "step" /\ call[c].signal \in Flows
      BY <3>2, <3>3 DEF CallSound, Message
    <3> DEFINE f == call[c].signal
    <3>5. flow[f] # None /\ flow[f].pc = "command"
      BY <2>1, <3>2, <3>4 DEF KernelInv, Commanded
    <3>6. FlowSound(f, flow[f], aborted, linked, timedOut)
      BY <3>4, <3>5 DEF KernelInv
    <3> QED  BY <3>2, <3>3, <3>5, <3>6 DEF FlowSound
  <2>2. CASE call[c] = None
    <3>1. ASSUME NEW kind \in {"start", "execute", "step"}, NEW n \in Registered,
                 NEW signal \in Signals, NEW max \in Nat, NEW d \in Calls,
                 NEW dead \in BOOLEAN, dead,
                 call' = [call EXCEPT ![d] = Published(kind, n, signal, dead, max)]
          PROVE  call'[c].attempts = 0
      <4> DEFINE m == Published(kind, n, signal, dead, max)
      <4>1. m \in Message /\ (dead => m.attempts = 0)
        BY PublishedSound
      <4>2. dead /\ call' = [call EXCEPT ![d] = m]
        BY <3>1
      <4> HIDE DEF m
      <4>3. call \in [Calls -> Message \cup {None}]
        BY DEF KernelInv, Typed
      <4>4. d = c
        BY <2>2, <4>2, <4>3
      <4> QED  BY <4>1, <4>2, <4>3, <4>4
    <3>2. ASSUME NEW d \in Calls, NEW n \in Registered, Execute(d, n)
          PROVE  call'[c].attempts = 0
      <4> DEFINE dead == Kernel \in aborted
      <4>1. call' = [call EXCEPT ![d] = Published("execute", n, d, dead, MaxAttempts)]
        BY <3>2 DEF Execute
      <4>2. dead \in BOOLEAN /\ dead /\ d \in Signals /\ MaxAttempts \in Nat
        BY KernelBounds DEF Signals
      <4> HIDE DEF dead
      <4> QED  BY <3>1, <4>1, <4>2
    <3>3. ASSUME NEW d \in Calls, NEW n \in Registered, Start(d, n)
          PROVE  call'[c].attempts = 0
      <4> DEFINE dead == Kernel \in aborted
      <4>1. call' = [call EXCEPT ![d] = Published("start", n, Kernel, dead, 1)]
        BY <3>3 DEF Start
      <4>2. dead \in BOOLEAN /\ dead /\ Kernel \in Signals
        BY DEF Signals
      <4> HIDE DEF dead
      <4> QED  BY <3>1, <4>1, <4>2
    <3>4. ASSUME NEW f \in Flows, NEW d \in Calls, NEW n \in Registered,
                 StepCommanded(f, d, n)
          PROVE  call'[c].attempts = 0
      <4>1. flow[f] # None /\ flow[f].pc = "condition"
        BY <3>4 DEF StepCommanded
      <4>2. f \in aborted
        BY <4>1 DEF KernelInv, FlowSound
      <4> DEFINE dead == f \in aborted
      <4>3. call' = [call EXCEPT ![d] = Published("step", n, f, dead, Retry)]
        BY <3>4 DEF StepCommanded
      <4>4. dead \in BOOLEAN /\ dead /\ f \in Signals /\ Retry \in Nat
        BY <4>2, KernelBounds DEF Signals
      <4> HIDE DEF dead
      <4> QED  BY <3>1, <4>3, <4>4
    <3>5. ASSUME NEW d \in Calls, NEW h \in Handlers,
                 HandlerReturns(d, h) \/ HandlerThrows(d, h)
          PROVE  FALSE
      <4>1. call \in [Calls -> Message \cup {None}]
        BY DEF KernelInv, Typed
      <4>2. PICK result, attempts : Invoked(d, h, result, attempts)
        BY <3>5, HandlerCases
      <4>3. call[d] # None
        BY <3>5, HandlerCases
      <4> QED  BY <2>2, <4>1, <4>2, <4>3 DEF Invoked
    <3>6. call' # call
      BY <2>2
    <3>7. ASSUME NEW f \in Flows,
                 \/ \E simulate \in BOOLEAN : FlowStart(f, simulate)
                 \/ StepBegins(f) \/ StepRefused(f) \/ StepAnswered(f)
                 \/ StepSkipped(f) \/ StepPredicted(f) \/ WatcherFires(f)
          PROVE  call' = call
      BY <3>7 DEF FlowStart, StepBegins, StepRefused, StepAnswered, StepSkipped,
         StepPredicted, WatcherFires
    <3>8. ASSUME Stop \/ \E s \in Signals : TimerFires(s)
          PROVE  call' = call
      BY <3>8 DEF Stop, TimerFires
    <3>9. Next
      BY <3>6 DEF vars
    <3> QED  BY <2>2, <3>2, <3>3, <3>4, <3>5, <3>6, <3>7, <3>8, <3>9, NextCases
  <2> QED  BY <2>1, <2>2
<1> HIDE DEF Quiet
<1>2. Spec => [][Quiet]_vars
  BY <1>1, KernelAlways, PTL DEF Spec
<1> QED  BY <1>2 DEF Quiet, StoppedIsQuiet
=============================================================================
