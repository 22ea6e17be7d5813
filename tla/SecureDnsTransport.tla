------------------------- MODULE SecureDnsTransport -------------------------
(***************************************************************************)
(* SecureDnsTransportEngine of packages/dns/src/index.ts: queries that     *)
(* fall back from one encrypted transport to the next, retry, share pooled *)
(* TLS sockets and circuit breakers, are cancelled, and meet a shutdown.   *)
(*                                                                         *)
(* DNS over HTTPS sends its requests through an agent of its own and its   *)
(* connections are tokens; a DNS over TLS connection is a socket on which  *)
(* answers come back without anything but their id to tell whose they are. *)
(* Which transports a query may use, and in which order, is the outcome of *)
(* select() and an input here.  Answers are well formed, one per data      *)
(* event.  A listener that throws ends the process: nothing catches it.    *)
(* The ids of two queries are taken as distinct; the code draws them at    *)
(* random from 16 bits.  The event bus may reject wherever it is awaited.  *)
(***************************************************************************)
EXTENDS Naturals, Sequences, SequencesExt

CONSTANTS
    Queries,            \* calls of resolve()
    Sockets,            \* TLS sockets that can be opened in one behaviour
    Plans,              \* the fallback orders select() can return
    None,
    MaxAttempts,        \* retry.maxAttempts
    MaxConnections,     \* pool.maxConnections
    FailureThreshold    \* circuitBreaker.failureThreshold

Transports == {"doh", "dot"}

ASSUME TransportAssumption ==
    /\ None \notin Queries \cup Sockets
    /\ Plans \subseteq Seq(Transports)
    /\ MaxAttempts \in Nat \ {0} /\ MaxConnections \in Nat \ {0}
    /\ FailureThreshold \in Nat \ {0}

VARIABLES
    query,      \* each call of resolve()
    aborted,    \* queries whose caller aborted their signal
    sock,       \* the sockets
    pool,       \* TransportConnectionPool.entries of the DoT key
    circuit,    \* SecureDnsTransportEngine.circuits
    down,       \* shuttingDown
    uncaught,   \* the socket on which a listener threw, or None
    late,       \* history: queries inside execute() when shutdown() was called
    lost        \* history: sockets let go without closing them

vars == <<query, aborted, sock, pool, circuit, down, uncaught, late, lost>>

-----------------------------------------------------------------------------
Points == {"idle", "choosing", "executing", "connecting", "connected", "waiting",
           "done"}
Query == [pc: Points, plan: Plans \cup {<<>>}, at: Nat, try: 0..MaxAttempts,
          conn: Sockets \cup {None}, answer: Queries \cup {None}]

\* "dead": the peer or a destroy() ended the socket and the connection's state is
\* still 'open', so that the pool takes it for a live one.
Socket == [st: {"none", "open", "dead", "closed"},
           by: Queries \cup {None},       \* whose abort signal destroys it
           user: Queries \cup {None},     \* who held it last
           owed: [Queries -> Nat],        \* requests not answered yet
           heard: SUBSET Queries,         \* data listeners on it
           stale: BOOLEAN]                \* history: a query left an answer behind

\* failures: see CircuitBreaker.
Circuit == [st: {"closed", "open", "half-open"}, failures: Nat]

Call(pc, answer) ==
    [pc |-> pc, plan |-> <<>>, at |-> 1, try |-> 0, conn |-> None, answer |-> answer]

NoSocket(st) ==
    [st |-> st, by |-> None, user |-> None, owed |-> [q \in Queries |-> 0],
     heard |-> {}, stale |-> FALSE]

Init ==
    /\ query = [q \in Queries |-> Call("idle", None)]
    /\ aborted = {}
    /\ sock = [c \in Sockets |-> NoSocket("none")]
    /\ pool = <<>>
    /\ circuit = [t \in Transports |-> [st |-> "closed", failures |-> 0]]
    /\ down = FALSE /\ uncaught = None /\ late = {} /\ lost = {}

Transport(q) == query[q].plan[query[q].at]

-----------------------------------------------------------------------------
(* CircuitBreaker. *)

Failed(b) ==
    [st |-> IF b.failures + 1 >= FailureThreshold THEN "open" ELSE b.st,
     failures |-> b.failures + 1]

Succeeded(b) == [st |-> "closed", failures |-> 0]

-----------------------------------------------------------------------------
(* TransportConnectionPool.  acquire() drops what is too old and shifts the *)
(* first of the rest; release() drops what does not fit.  A dropped         *)
(* connection is not closed.                                                *)

\* Mutant: the first connection is read and stays in the pool.
KeptUnshifted(rest) == rest

Kept(rest) == IF rest = <<>> THEN <<>> ELSE Tail(rest)

\* The places of the pool that the filter can leave, in their order.
Youngs ==
    UNION {{young \in [1..n -> 1..Len(pool)] :
               \A i, j \in 1..n : i < j => young[i] < young[j]} : n \in 0..Len(pool)}

Release(c) ==
    LET fits == c # None /\ sock[c].st # "closed" /\ Len(pool) < MaxConnections IN
    /\ pool' = IF fits THEN Append(pool, c) ELSE pool
    /\ lost' = IF c # None /\ ~fits THEN lost \cup {c} ELSE lost

-----------------------------------------------------------------------------
(* SecureDnsTransportEngine.resolve and withRetry. *)

Goes(q, r) == query' = [query EXCEPT ![q] = r]

\* select() returns, or finds no transport that policy allows.
Ask(q, plan) ==
    /\ query[q].pc = "idle"
    /\ Goes(q, IF plan = <<>> THEN Call("done", None)
               ELSE [query[q] EXCEPT !.pc = "choosing", !.plan = plan])
    /\ UNCHANGED <<aborted, sock, pool, circuit, down, uncaught, late, lost>>

NextTransport(q) ==
    IF query[q].at = Len(query[q].plan)
      THEN Call("done", None)
      ELSE [query[q] EXCEPT !.pc = "choosing", !.at = @ + 1, !.conn = None]

Reports(q, result) == circuit' = [circuit EXCEPT ![Transport(q)] = result]

\* The catch of resolve(): the failure counts and the next transport is taken,
\* unless the event bus refuses an event of this fallback.
FallsBack(q, before) ==
    /\ Reports(q, Failed(before))
    /\ \E r \in {NextTransport(q), Call("done", None)} : Goes(q, r)

\* The loop's turn for one transport.  The refusal of an open circuit counts as
\* one more failure, and so does the refusal of the event of the choice.
Choose(q, recovered) ==
    /\ query[q].pc = "choosing"
    /\ LET open == circuit[Transport(q)].st = "open"
           before == IF open THEN [circuit[Transport(q)] EXCEPT !.st = "half-open"]
                     ELSE circuit[Transport(q)]
       IN  \/ open /\ ~recovered /\ FallsBack(q, circuit[Transport(q)])
           \/ (open => recovered) /\ FallsBack(q, before)
           \/ /\ open => recovered
              /\ Reports(q, before)
              /\ Goes(q, [query[q] EXCEPT !.pc = "executing", !.try = 1])
    /\ UNCHANGED <<aborted, sock, pool, down, uncaught, late, lost>>

\* withRetry: an error that may be retried goes to the next attempt, then back to
\* resolve(); any other ends both loops.
AfterError(q, retryable) ==
    IF ~retryable
      THEN /\ Goes(q, Call("done", None))
           /\ UNCHANGED circuit
    ELSE IF query[q].try < MaxAttempts
      THEN /\ Goes(q, [query[q] EXCEPT !.pc = "executing", !.try = @ + 1, !.conn = None])
           /\ UNCHANGED circuit
    ELSE FallsBack(q, circuit[Transport(q)])

-----------------------------------------------------------------------------
(* SecureDnsTransportEngine.execute. *)

\* A request is written and a listener waits for the next data.
Requested(s, q) ==
    IF s.st # "open" THEN s
    ELSE [s EXCEPT !.user = q, !.heard = @ \cup {q}, !.owed[q] = @ + 1]

Refused(q) == down

Refuse(q) ==
    /\ query[q].pc = "executing" /\ Refused(q)
    /\ AfterError(q, TRUE)
    /\ UNCHANGED <<aborted, sock, pool, down, uncaught, late, lost>>

\* DoH: the request goes out on the agent.
StartDoh(q) ==
    /\ query[q].pc = "executing" /\ ~Refused(q) /\ Transport(q) = "doh"
    /\ Goes(q, [query[q] EXCEPT !.pc = "waiting"])
    /\ UNCHANGED <<aborted, sock, pool, circuit, down, uncaught, late, lost>>

\* DoT: the connections at other places than the `young` idled or lived too long.
StartDot(q, young) ==
    /\ query[q].pc = "executing" /\ ~Refused(q) /\ Transport(q) = "dot"
    /\ LET rest == [i \in DOMAIN young |-> pool[young[i]]] IN
       /\ lost' = lost \cup (ToSet(pool) \ ToSet(rest))
       /\ pool' = Kept(rest)
       /\ IF rest = <<>>
            THEN Goes(q, [query[q] EXCEPT !.pc = "connecting"]) /\ UNCHANGED sock
            ELSE /\ Goes(q, [query[q] EXCEPT !.pc = "waiting", !.conn = rest[1]])
                 /\ sock' = [sock EXCEPT ![rest[1]] = Requested(@, q)]
    /\ UNCHANGED <<aborted, circuit, down, uncaught, late>>

Fresh == CHOOSE c \in Sockets : sock[c].st = "none"

\* The abort listener that connect() installs stays for the life of the socket,
\* and hears nothing when the signal was aborted before.
Connected(q, c) ==
    /\ query[q].pc = "connecting" /\ sock[c].st = "none" /\ c = Fresh
    /\ sock' = [sock EXCEPT ![c].st = "open", ![c].user = q,
                            ![c].by = IF q \in aborted THEN None ELSE q]
    /\ Goes(q, [query[q] EXCEPT !.pc = "connected", !.conn = c])
    /\ UNCHANGED <<aborted, pool, circuit, down, uncaught, late, lost>>

ConnectFails(q, retryable) ==
    /\ query[q].pc = "connecting"
    /\ AfterError(q, retryable)
    /\ UNCHANGED <<aborted, sock, pool, down, uncaught, late, lost>>

Send(q) ==
    /\ query[q].pc = "connected"
    /\ sock' = [sock EXCEPT ![query[q].conn] = Requested(@, q)]
    /\ Goes(q, [query[q] EXCEPT !.pc = "waiting"])
    /\ UNCHANGED <<aborted, pool, circuit, down, uncaught, late, lost>>

\* The event bus refuses the event of the connection, between connect() and the
\* try whose finally clause releases: nobody keeps the socket.
Unannounced(q) ==
    /\ query[q].pc = "connected"
    /\ AfterError(q, TRUE)
    /\ lost' = lost \cup {query[q].conn}
    /\ UNCHANGED <<aborted, sock, pool, down, uncaught, late>>

\* The promise of transport.resolve() rejects and the finally clause releases.
RequestFails(q, retryable) ==
    /\ AfterError(q, retryable)
    /\ Release(query[q].conn)

Abandoned(q) ==
    sock' = [c \in Sockets |-> IF c = query[q].conn
                                 THEN [sock[c] EXCEPT !.stale = @ \/ sock[c].owed[q] > 0]
                                 ELSE sock[c]]

\* Mutant: the timer is stopped with the socket.
TimesOutIfAlive(q) ==
    /\ query[q].pc = "waiting"
    /\ (query[q].conn # None => sock[query[q].conn].st = "open")
    /\ RequestFails(q, TRUE) /\ Abandoned(q)
    /\ UNCHANGED <<aborted, down, uncaught, late>>

\* DoT: the timer of the read; DoH: the timeout or any other failure.
TimesOut(q) ==
    /\ query[q].pc = "waiting"
    /\ RequestFails(q, TRUE) /\ Abandoned(q)
    /\ UNCHANGED <<aborted, down, uncaught, late>>

\* DoH: a refused certificate or request, or an answer over the limit.
DohRefuses(q) ==
    /\ query[q].pc = "waiting" /\ Transport(q) = "doh"
    /\ RequestFails(q, FALSE)
    /\ UNCHANGED <<aborted, sock, down, uncaught, late>>

Answered(q, w) ==
    /\ Goes(q, Call("done", w))
    /\ Reports(q, Succeeded(circuit[Transport(q)]))
    /\ Release(query[q].conn)

DohAnswers(q) ==
    /\ query[q].pc = "waiting" /\ Transport(q) = "doh"
    /\ Answered(q, q)
    /\ UNCHANGED <<aborted, sock, down, uncaught, late>>

\* Mutant: the id of an answer is not compared with that of the request.
MismatchIgnored(c, w) == FALSE

\* validateDnsWireResponse, in a listener, against the request it was made for.
Mismatch(c, w) == \E q \in sock[c].heard : q # w

\* s.once('data').
HeardAfter(c) == {}

Waits(q, c) == query[q].pc = "waiting" /\ query[q].conn = c

\* The answer to w's request arrives and every listener of the socket is called.
\* An answer over the limit is refused before its id is looked at.  A retry
\* repeats the request with its id, so an answer to the first may serve it.
DataArrives(c, w, tooLarge) ==
    /\ sock[c].st = "open" /\ sock[c].owed[w] > 0
    /\ sock' = [sock EXCEPT ![c].owed[w] = @ - 1, ![c].heard = HeardAfter(c)]
    /\ IF ~tooLarge /\ Mismatch(c, w)
         THEN uncaught' = c /\ UNCHANGED <<query, circuit, pool, lost>>
         ELSE /\ uncaught' = uncaught
              /\ \/ \E q \in sock[c].heard :
                       /\ Waits(q, c)
                       /\ IF tooLarge THEN RequestFails(q, FALSE) ELSE Answered(q, w)
                 \/ /\ \A q \in sock[c].heard : ~Waits(q, c)
                    /\ UNCHANGED <<query, circuit, pool, lost>>
    /\ UNCHANGED <<aborted, down, late>>

-----------------------------------------------------------------------------
(* The environment. *)

\* The peer ends the connection, with an error event or without.
PeerCloses(c, loud) ==
    /\ sock[c].st = "open"
    /\ sock' = [sock EXCEPT ![c] = NoSocket("dead")]
    /\ \/ \E q \in Queries : loud /\ Waits(q, c) /\ RequestFails(q, TRUE)
       \/ /\ ~loud \/ \A q \in Queries : ~Waits(q, c)
          /\ UNCHANGED <<query, circuit, pool, lost>>
    /\ UNCHANGED <<aborted, down, uncaught, late>>

\* The caller aborts: every socket connected for this query is destroyed, whoever
\* uses it by now, and the query rejects if it is at a point that listens.
Cancel(q) ==
    /\ query[q].pc # "idle" /\ q \notin aborted
    /\ aborted' = aborted \cup {q}
    /\ sock' = [c \in Sockets |->
                  LET s == IF sock[c].st = "open" /\ sock[c].by = q THEN NoSocket("dead")
                           ELSE sock[c]
                  IN IF c = query[q].conn /\ query[q].pc = "waiting"
                       THEN [s EXCEPT !.stale = @ \/ s.owed[q] > 0] ELSE s]
    /\ IF query[q].pc \in {"connecting", "waiting"}
         THEN RequestFails(q, FALSE)
         ELSE UNCHANGED <<query, circuit, pool, lost>>
    /\ UNCHANGED <<down, uncaught, late>>

\* shutdown(): what is in the pool is closed.
Shutdown ==
    /\ ~down /\ down' = TRUE
    /\ late' = {q \in Queries : query[q].pc \in {"connecting", "connected", "waiting"}}
    /\ sock' = [c \in Sockets |-> IF c \in ToSet(pool)
                                    THEN NoSocket("closed")
                                    ELSE sock[c]]
    /\ pool' = <<>>
    /\ UNCHANGED <<query, aborted, circuit, uncaught, lost>>

-----------------------------------------------------------------------------
Execution(q) ==
    \/ \E recovered \in BOOLEAN : Choose(q, recovered)
    \/ Refuse(q) \/ StartDoh(q) \/ (\E young \in Youngs : StartDot(q, young))
    \/ (\E r \in BOOLEAN : ConnectFails(q, r)) \/ Send(q) \/ Unannounced(q)
    \/ TimesOut(q)

Replies(q) ==
    \/ \E c \in Sockets : Connected(q, c)
    \/ DohRefuses(q) \/ DohAnswers(q)

Next ==
    /\ uncaught = None
    /\ \/ \E q \in Queries :
            \/ \E plan \in Plans \cup {<<>>} : Ask(q, plan)
            \/ Execution(q) \/ Replies(q) \/ Cancel(q)
       \/ \E c \in Sockets :
            \/ \E w \in Queries, tooLarge \in BOOLEAN : DataArrives(c, w, tooLarge)
            \/ \E loud \in BOOLEAN : PeerCloses(c, loud)
       \/ Shutdown

Spec == Init /\ [][Next]_vars

\* The event loop runs every call on; connects and reads have timers.
FairSpec == Spec /\ \A q \in Queries : WF_vars(uncaught = None /\ Execution(q))

-----------------------------------------------------------------------------
(* Properties. *)

Holding(q) == query[q].conn

\* The type invariant; the pool keeps within its limit.
TypeOK ==
    /\ query \in [Queries -> Query]
    /\ aborted \subseteq Queries
    /\ sock \in [Sockets -> Socket]
    /\ pool \in Seq(Sockets) /\ Len(pool) <= MaxConnections
    /\ circuit \in [Transports -> Circuit]
    /\ down \in BOOLEAN /\ uncaught \in Sockets \cup {None}
    /\ late \subseteq Queries /\ lost \subseteq Sockets

\* A query is answered with the answer to its own question, however often its
\* socket was abandoned by a timeout and used again.
AnswerIsOwn == \A q \in Queries : query[q].answer \in {None, q}

\* A pooled connection serves one query at a time: nobody holds what is in the
\* pool, nobody holds what another one holds, and nothing is in the pool twice.
OneUser ==
    /\ \A q \in Queries : Holding(q) # None =>
          /\ Holding(q) \notin ToSet(pool)
          /\ \A p \in Queries \ {q} : Holding(p) # Holding(q)
    /\ IsInjective(pool)

\* Every socket that is still open is held by a query or waits in the pool, with
\* two exceptions that nobody closes: the sockets that the pool drops because
\* they are too old or because it is full, and a new socket whose
\* connection.established event the bus refused.
OpenIsHeld ==
    \A c \in Sockets : sock[c].st = "open" =>
       \/ c \in ToSet(pool) \cup lost
       \/ \E q \in Queries : Holding(q) = c

\* shutdown() closes the pool, and what stays open after it, those let go
\* aside, belongs to a query that was inside execute() at that moment: later
\* calls, retries and fallbacks open nothing.
OnlyLateSurvives ==
    down => \A c \in Sockets : sock[c].st = "open" => c \in lost \/ sock[c].user \in late

\* Through the interleaved reports of several queries a circuit is closed exactly
\* when it has fewer failures than the threshold since the last success.
CircuitMatchesFailures ==
    \A t \in Transports : (circuit[t].st = "closed") = (circuit[t].failures < FailureThreshold)

\* A listener throws only on a socket on which an earlier request was given up
\* while its answer was due.
UncaughtIsExplained == uncaught # None => sock[uncaught].stale

\* Abandoned answers reach nobody: a query gets its own answer, and a frame that
\* arrives for a listener left behind throws only where a request was given up.
AnswersAreOwn == AnswerIsOwn /\ UncaughtIsExplained

\* The transport keeps count of its connections and failures: one user per
\* connection, none open but held, pooled or let go as the exceptions say, none
\* opened after shutdown(), and circuits that agree with the failures reported to them.
SocketsAreAccounted ==
    TypeOK /\ OneUser /\ OpenIsHeld /\ OnlyLateSurvives /\ CircuitMatchesFailures

\* Every call of resolve() ends, by an answer or an error, even when sockets die
\* in silence, circuits open and the engine shuts down meanwhile.
EveryQueryEnds ==
    \A q \in Queries : query[q].pc # "idle" ~> (query[q].pc = "done" \/ uncaught # None)
=============================================================================
