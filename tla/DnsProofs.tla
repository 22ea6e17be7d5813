------------------------------ MODULE DnsProofs ------------------------------
(***************************************************************************)
(* Proofs about DNS on the host.  The first part is about the secure       *)
(* transports, for every set of queries, sockets and fallback orders and   *)
(* every limit of the retries, the pool and the circuits; the second about *)
(* the daemon that records and restores the machine's resolvers, for every *)
(* set of links and of shutdown signals and every length of the loop.      *)
(***************************************************************************)
EXTENDS SecureDnsTransport, DaemonHost, TLAPS

-----------------------------------------------------------------------------
(* The inductive invariant. *)

\* Where a call is in its plan, and what it holds there.
QuerySound(q) ==
    /\ query[q].pc = "idle" => query[q].at = 1
    /\ query[q].pc \notin {"idle", "done"} =>
          query[q].plan \in Plans /\ query[q].at \in 1..Len(query[q].plan)
    /\ Holding(q) # None =>
          query[q].pc \in {"connected", "waiting"} /\ Transport(q) = "dot"
    /\ query[q].pc = "connected" => Holding(q) # None
    /\ query[q].pc = "connecting" => Transport(q) = "dot"
    /\ down /\ query[q].pc \in {"connecting", "connected", "waiting"} => q \in late

\* A socket on which no answer was left behind owes one to whoever waits on it, who
\* is its only listener.
AnswersDue(c) ==
    \A q \in Queries :
       IF Waits(q, c) THEN q \in sock[c].heard /\ sock[c].owed[q] = 1
                      ELSE q \notin sock[c].heard /\ sock[c].owed[q] = 0

SocketSound(c) ==
    /\ sock[c].st = "none" =>
          /\ sock[c] = NoSocket("none") /\ c \notin ToSet(pool) \cup lost
          /\ \A q \in Queries : Holding(q) # c
    /\ sock[c].st = "open" => \A q \in Queries : Holding(q) = c => sock[c].user = q
    /\ sock[c].st = "open" /\ ~sock[c].stale => AnswersDue(c)

TransportInv ==
    /\ SocketsAreAccounted /\ AnswersAreOwn
    /\ \A q \in Queries : QuerySound(q)
    /\ \A c \in Sockets : SocketSound(c)

-----------------------------------------------------------------------------
(* The pool as a sequence. *)

LEMMA AppendOne ==
    ASSUME NEW s \in Seq(Sockets), NEW c \in Sockets
    PROVE  /\ Append(s, c) \in Seq(Sockets) /\ Len(Append(s, c)) = Len(s) + 1
           /\ ToSet(Append(s, c)) = ToSet(s) \cup {c}
           /\ IsInjective(s) /\ c \notin ToSet(s) => IsInjective(Append(s, c))
<1> DEFINE t == Append(s, c)
<1>1. /\ t \in Seq(Sockets) /\ Len(t) = Len(s) + 1 /\ Len(s) \in Nat
      /\ DOMAIN t = 1..Len(s) + 1 /\ DOMAIN s = 1..Len(s)
      /\ \A i \in 1..Len(s) : t[i] = s[i]
      /\ t[Len(s) + 1] = c
  OBVIOUS
<1> HIDE DEF t
<1>2. ToSet(t) = ToSet(s) \cup {c}
  BY <1>1 DEF ToSet
<1>3. ASSUME IsInjective(s), c \notin ToSet(s)
      PROVE  IsInjective(t)
  <2>1. SUFFICES ASSUME NEW i \in DOMAIN t, NEW j \in DOMAIN t, t[i] = t[j]
                 PROVE  i = j
    BY DEF IsInjective
  <2>2. \A k \in 1..Len(s) : s[k] # c
    BY <1>1, <1>3 DEF ToSet
  <2>3. CASE i \in 1..Len(s) /\ j \in 1..Len(s)
    BY <1>1, <1>3, <2>1, <2>3 DEF IsInjective
  <2>4. CASE i = Len(s) + 1 /\ j \in 1..Len(s)
    BY <1>1, <2>1, <2>2, <2>4
  <2>5. CASE j = Len(s) + 1 /\ i \in 1..Len(s)
    BY <1>1, <2>1, <2>2, <2>5
  <2> QED  BY <1>1, <2>3, <2>4, <2>5
<1> QED  BY <1>1, <1>2, <1>3 DEF t

\* What acquire() leaves in the pool once it has taken the first.
LEMMA TailOne ==
    ASSUME NEW s \in Seq(Sockets), s # <<>>
    PROVE  /\ s[1] \in Sockets /\ Tail(s) \in Seq(Sockets) /\ Len(Tail(s)) <= Len(s)
           /\ ToSet(s) = ToSet(Tail(s)) \cup {s[1]}
           /\ IsInjective(s) => IsInjective(Tail(s)) /\ s[1] \notin ToSet(Tail(s))
<1> DEFINE t == Tail(s)
<1>1. /\ t \in Seq(Sockets) /\ Len(t) = Len(s) - 1 /\ Len(s) \in Nat /\ Len(s) >= 1
      /\ DOMAIN t = 1..Len(s) - 1 /\ DOMAIN s = 1..Len(s) /\ s[1] \in Sockets
      /\ \A i \in 1..Len(s) - 1 : t[i] = s[i + 1]
  OBVIOUS
<1> HIDE DEF t
<1>2. ToSet(s) = ToSet(t) \cup {s[1]}
  <2>1. \A i \in DOMAIN s : i = 1 \/ (i - 1 \in DOMAIN t /\ s[i] = t[i - 1])
    BY <1>1
  <2>2. \A i \in DOMAIN t : i + 1 \in DOMAIN s /\ t[i] = s[i + 1]
    BY <1>1
  <2>3. 1 \in DOMAIN s
    BY <1>1
  <2> QED  BY <2>1, <2>2, <2>3 DEF ToSet
<1>3. ASSUME IsInjective(s)
      PROVE  IsInjective(t) /\ s[1] \notin ToSet(t)
  <2>1. \A i \in DOMAIN t : i + 1 \in DOMAIN s /\ t[i] = s[i + 1] /\ i + 1 # 1 /\ i \in Nat
    BY <1>1
  <2>2. s[1] \notin ToSet(t)
    <3>1. 1 \in DOMAIN s
      BY <1>1
    <3> QED  BY <1>3, <2>1, <3>1 DEF ToSet, IsInjective
  <2>3. SUFFICES ASSUME NEW i \in DOMAIN t, NEW j \in DOMAIN t, t[i] = t[j]
                 PROVE  i = j
    BY <2>2 DEF IsInjective
  <2>4. i + 1 = j + 1
    BY <1>3, <2>1, <2>3 DEF IsInjective
  <2> QED  BY <2>1, <2>4
<1>4. Len(t) <= Len(s)
  BY <1>1
<1> QED  BY <1>1, <1>2, <1>3, <1>4 DEF t

\* The connections that are young enough.
LEMMA YoungRest ==
    ASSUME NEW young \in Youngs, pool \in Seq(Sockets),
           NEW rest, rest = [i \in DOMAIN young |-> pool[young[i]]]
    PROVE  /\ rest \in Seq(Sockets) /\ Len(rest) <= Len(pool) /\ ToSet(rest) \subseteq ToSet(pool)
           /\ IsInjective(pool) => IsInjective(rest)
<1>1. PICK n \in 0..Len(pool) : /\ young \in [1..n -> 1..Len(pool)]
                                /\ \A i, j \in 1..n : i < j => young[i] < young[j]
  BY DEF Youngs
<1>2. Len(pool) \in Nat /\ DOMAIN pool = 1..Len(pool) /\ n \in Nat /\ n <= Len(pool)
  BY <1>1
<1>3. \A i \in 1..n : young[i] \in 1..Len(pool) /\ pool[young[i]] \in Sockets
  BY <1>1, <1>2
<1>4. rest \in [1..n -> Sockets] /\ DOMAIN rest = 1..n /\ \A i \in 1..n : rest[i] = pool[young[i]]
  BY <1>1, <1>3
<1>5. rest \in Seq(Sockets) /\ Len(rest) = n
  BY <1>2, <1>4
<1>6. ToSet(rest) \subseteq ToSet(pool)
  BY <1>2, <1>3, <1>4 DEF ToSet
<1>7. ASSUME IsInjective(pool)
      PROVE  IsInjective(rest)
  <2>1. SUFFICES ASSUME NEW i \in 1..n, NEW j \in 1..n, rest[i] = rest[j]
                 PROVE  i = j
    BY <1>4 DEF IsInjective
  <2>2. young[i] = young[j]
    BY <1>2, <1>3, <1>4, <1>7, <2>1 DEF IsInjective
  <2>3. ~(i < j) /\ ~(j < i)
    BY <1>1, <1>2, <2>2
  <2> QED  BY <1>2, <2>3
<1> QED  BY <1>2, <1>5, <1>6, <1>7

-----------------------------------------------------------------------------
(* Steps after which a query holds nothing. *)

\* A record of q between two transports, attempts or calls.
Rests(q, r) ==
    /\ r \in Query /\ r.conn = None /\ r.answer \in {None, q}
    /\ r.pc \notin {"idle", "connecting", "connected"}
    /\ r.pc # "done" => r.plan \in Plans /\ r.at \in 1..Len(r.plan)
    /\ down /\ r.pc = "waiting" => q \in late

CircuitsKept == circuit' \in [Transports -> Circuit] /\ CircuitMatchesFailures'

\* What a step in which q gives up its connection may do to the socket c.
Left(q, c) ==
    /\ sock'[c].st = "none" => sock'[c] = sock[c]
    /\ sock'[c].st = "open" => sock[c].st = "open" /\ sock'[c].user = sock[c].user
    /\ sock'[c].st = "open" /\ ~sock'[c].stale =>
          /\ ~sock[c].stale
          /\ \A p \in Queries :
                IF p = q /\ Waits(q, c)
                  THEN p \notin sock'[c].heard /\ sock'[c].owed[p] = 0
                  ELSE /\ p \in sock'[c].heard <=> p \in sock[c].heard
                       /\ sock'[c].owed[p] = sock[c].owed[p]

LEMMA QueryType ==
    ASSUME TypeOK, NEW q \in Queries
    PROVE  /\ query[q] \in Query /\ query[q].pc \in Points
           /\ query[q].plan \in Plans \cup {<<>>} /\ query[q].at \in Nat
           /\ query[q].try \in 0..MaxAttempts /\ MaxAttempts \in Nat \ {0}
           /\ query[q].conn \in Sockets \cup {None} /\ query[q].answer \in Queries \cup {None}
           /\ None \notin Queries /\ None \notin Sockets
  BY TransportAssumption DEF TypeOK, Query

LEMMA TransportType ==
    ASSUME TransportInv, NEW q \in Queries, query[q].pc \notin {"idle", "done"}
    PROVE  /\ query[q].plan \in Plans /\ query[q].at \in 1..Len(query[q].plan)
           /\ query[q].plan \in Seq(Transports) /\ Transport(q) \in Transports
<1>1. query[q].plan \in Plans /\ query[q].at \in 1..Len(query[q].plan)
  BY DEF TransportInv, QuerySound
<1>2. query[q].plan \in Seq(Transports)
  BY <1>1, TransportAssumption
<1> QED  BY <1>1, <1>2 DEF Transport

\* The connection that q held is in the pool or let go.
Parted(q) ==
    /\ pool' \in Seq(Sockets) /\ Len(pool') <= MaxConnections /\ IsInjective(pool')
    /\ lost \subseteq lost' /\ lost' \subseteq Sockets
    /\ ToSet(pool) \subseteq ToSet(pool')
    /\ ToSet(pool') \cup lost' =
         ToSet(pool) \cup lost \cup (IF Holding(q) = None THEN {} ELSE {Holding(q)})
    /\ ToSet(pool') \subseteq
         ToSet(pool) \cup (IF Holding(q) = None THEN {} ELSE {Holding(q)})

\* The pool after release(), whether or not the connection fits.
LEMMA ReleaseKeeps ==
    ASSUME TransportInv, NEW q \in Queries, Release(Holding(q))
    PROVE  Parted(q)
<1> DEFINE c == Holding(q)
           fits == c # None /\ sock[c].st # "closed" /\ Len(pool) < MaxConnections
<1>1. /\ pool \in Seq(Sockets) /\ Len(pool) <= MaxConnections /\ lost \subseteq Sockets
      /\ IsInjective(pool) /\ c \in Sockets \cup {None} /\ None \notin Sockets
      /\ c # None => c \notin ToSet(pool)
      /\ Len(pool) \in Nat /\ MaxConnections \in Nat
  BY QueryType, TransportAssumption
     DEF TransportInv, SocketsAreAccounted, TypeOK, OneUser, Holding
<1>2. /\ pool' = IF fits THEN Append(pool, c) ELSE pool
      /\ lost' = IF c # None /\ ~fits THEN lost \cup {c} ELSE lost
  BY DEF Release
<1>3. CASE fits
  <2>1. c \in Sockets /\ c \notin ToSet(pool) /\ pool' = Append(pool, c) /\ lost' = lost
        /\ c # None
    BY <1>1, <1>2, <1>3
  <2>2. /\ pool' \in Seq(Sockets) /\ Len(pool') = Len(pool) + 1 /\ IsInjective(pool')
        /\ ToSet(pool') = ToSet(pool) \cup {c}
    BY <1>1, <2>1, AppendOne
  <2>3. Len(pool') <= MaxConnections
    BY <1>1, <1>3, <2>2
  <2> QED  BY <1>1, <2>1, <2>2, <2>3 DEF Parted
<1>4. CASE ~fits
  <2>1. pool' = pool
    BY <1>2, <1>4
  <2>2. lost' = lost \cup (IF c = None THEN {} ELSE {c})
    BY <1>2, <1>4
  <2> HIDE DEF fits
  <2> QED  BY <1>1, <2>1, <2>2 DEF Parted
<1> QED  BY <1>3, <1>4

LEMMA Releases ==
    ASSUME TransportInv, NEW q \in Queries, NEW r, Rests(q, r),
           query' = [query EXCEPT ![q] = r], Parted(q), CircuitsKept,
           sock' \in [Sockets -> Socket], \A c \in Sockets : Left(q, c),
           aborted' \subseteq Queries, uncaught = None, uncaught' = None,
           UNCHANGED <<down, late>>
    PROVE  TransportInv'
<1>1. /\ TypeOK /\ OneUser /\ OpenIsHeld /\ OnlyLateSurvives /\ AnswerIsOwn
      /\ \A p \in Queries : QuerySound(p)
      /\ \A c \in Sockets : SocketSound(c)
  BY DEF TransportInv, SocketsAreAccounted, AnswersAreOwn
<1>2. /\ query'[q] = r /\ r.conn = None /\ r \in Query
      /\ \A p \in Queries \ {q} : query'[p] = query[p]
      /\ query' \in [Queries -> Query]
  BY <1>1 DEF Rests, TypeOK
<1>3. TypeOK'
  BY <1>1, <1>2 DEF TypeOK, CircuitsKept, Parted
<1>4. \A c \in Sockets : \A p \in Queries :
         Waits(p, c)' <=> (p # q /\ Waits(p, c))
  BY <1>2, QueryType, <1>1 DEF Waits
<1>5. \A p \in Queries : Holding(p)' = IF p = q THEN None ELSE Holding(p)
  BY <1>2 DEF Holding
<1>6. OneUser'
  <2>1. ASSUME NEW p \in Queries, Holding(p)' # None
        PROVE  /\ Holding(p)' \notin ToSet(pool')
               /\ \A o \in Queries \ {p} : Holding(o)' # Holding(p)'
    <3>1. p # q /\ Holding(p)' = Holding(p) /\ Holding(p) # None
      BY <1>5, <2>1
    <3>2. Holding(p) \notin ToSet(pool) /\ \A o \in Queries \ {p} : Holding(o) # Holding(p)
      BY <1>1, <3>1 DEF OneUser
    <3>3. Holding(p) \notin ToSet(pool')
      BY <3>1, <3>2 DEF Parted
    <3> QED  BY <1>5, <3>1, <3>2, <3>3
  <2> QED  BY <2>1 DEF OneUser, Parted
<1>7. OpenIsHeld'
  <2>1. SUFFICES ASSUME NEW c \in Sockets, sock'[c].st = "open",
                        c \notin ToSet(pool') \cup lost'
                 PROVE  \E p \in Queries : Holding(p)' = c
    BY DEF OpenIsHeld
  <2>2. sock[c].st = "open" /\ c \notin ToSet(pool) \cup lost /\ c # Holding(q)
    BY <2>1, <1>1, QueryType DEF Left, Parted
  <2>3. PICK p \in Queries : Holding(p) = c
    BY <1>1, <2>2 DEF OpenIsHeld
  <2> QED  BY <1>5, <2>2, <2>3
<1>8. OnlyLateSurvives'
  BY <1>1 DEF OnlyLateSurvives, Left, Parted
<1>9. AnswersAreOwn'
  BY <1>1, <1>2 DEF AnswersAreOwn, AnswerIsOwn, UncaughtIsExplained, Rests
<1>10. ASSUME NEW p \in Queries
       PROVE  QuerySound(p)'
  <2>1. CASE p = q
    BY <1>2, <2>1 DEF QuerySound, Rests, Holding
  <2>2. CASE p # q
    BY <1>1, <1>2, <2>2 DEF QuerySound, Holding, Transport
  <2> QED  BY <2>1, <2>2
<1>11. ASSUME NEW c \in Sockets
       PROVE  SocketSound(c)'
  <2>1. ASSUME sock'[c].st = "none"
        PROVE  /\ sock'[c] = NoSocket("none") /\ c \notin ToSet(pool') \cup lost'
               /\ \A p \in Queries : Holding(p)' # c
    <3>1. sock[c].st = "none" /\ sock'[c] = sock[c]
      BY <2>1 DEF Left
    <3>2. /\ sock[c] = NoSocket("none") /\ c \notin ToSet(pool) \cup lost
          /\ \A p \in Queries : Holding(p) # c
      BY <1>1, <3>1 DEF SocketSound
    <3>3. None \notin Sockets
      BY TransportAssumption
    <3> QED  BY <1>5, <3>1, <3>2, <3>3 DEF Parted
  <2>2. ASSUME sock'[c].st = "open", NEW p \in Queries, Holding(p)' = c
        PROVE  sock'[c].user = p
    <3>1. Holding(p) = c
      BY <1>5, <2>2, TransportAssumption
    <3> QED  BY <1>1, <2>2, <3>1 DEF SocketSound, Left
  <2>3. ASSUME sock'[c].st = "open", ~sock'[c].stale
        PROVE  AnswersDue(c)'
    <3>1. sock[c].st = "open" /\ ~sock[c].stale /\ AnswersDue(c)
      BY <1>1, <2>3 DEF Left, SocketSound
    <3>2. ASSUME NEW p \in Queries
          PROVE  IF Waits(p, c)' THEN p \in sock'[c].heard /\ sock'[c].owed[p] = 1
                                 ELSE p \notin sock'[c].heard /\ sock'[c].owed[p] = 0
      <4>1. CASE p = q /\ Waits(q, c)
        BY <1>4, <2>3, <4>1 DEF Left
      <4>2. CASE ~(p = q /\ Waits(q, c))
        <5>1. /\ p \in sock'[c].heard <=> p \in sock[c].heard
              /\ sock'[c].owed[p] = sock[c].owed[p]
          BY <2>3, <4>2 DEF Left
        <5>2. Waits(p, c)' <=> Waits(p, c)
          BY <1>4, <4>2
        <5> QED  BY <3>1, <5>1, <5>2 DEF AnswersDue
      <4> QED  BY <4>1, <4>2
    <3> QED  BY <3>2 DEF AnswersDue
  <2> QED  BY <2>1, <2>2, <2>3 DEF SocketSound
<1> QED  BY <1>3, <1>6, <1>7, <1>8, <1>9, <1>10, <1>11
         DEF TransportInv, SocketsAreAccounted, CircuitsKept

\* The invariant's parts that concern one query or one circuit.
LEMMA InvParts ==
    ASSUME TransportInv
    PROVE  /\ TypeOK /\ OneUser /\ OpenIsHeld /\ OnlyLateSurvives /\ CircuitMatchesFailures
           /\ AnswerIsOwn /\ \A q \in Queries : QuerySound(q)
           /\ \A c \in Sockets : SocketSound(c)
           /\ sock \in [Sockets -> Socket] /\ circuit \in [Transports -> Circuit]
           /\ aborted \subseteq Queries /\ query \in [Queries -> Query]
           /\ None \notin Sockets /\ None \notin Queries
  BY TransportAssumption DEF TransportInv, SocketsAreAccounted, AnswersAreOwn, TypeOK

LEMMA NothingToRelease ==
    ASSUME NEW q \in Queries, Holding(q) = None, UNCHANGED <<pool, lost>>
    PROVE  Release(Holding(q))
  BY DEF Release

LEMMA LeftAsIs ==
    ASSUME NEW q \in Queries, NEW c \in Sockets, sock'[c] = sock[c], ~Waits(q, c)
    PROVE  Left(q, c)
  BY DEF Left

\* A circuit keeps agreeing with the failures reported to it.
LEMMA CircuitSteps ==
    ASSUME TransportInv, NEW t \in Transports,
           \/ UNCHANGED circuit
           \/ circuit' = [circuit EXCEPT ![t] = Succeeded(circuit[t])]
           \/ \E b \in Circuit :
                 /\ circuit' = [circuit EXCEPT ![t] = b]
                 /\ (b.st = "closed") = (b.failures < FailureThreshold)
    PROVE  CircuitsKept
<1>1. circuit \in [Transports -> Circuit] /\ CircuitMatchesFailures
  BY InvParts
<1>2. FailureThreshold \in Nat \ {0}
  BY TransportAssumption
<1>3. circuit[t] \in Circuit /\ circuit[t].failures \in Nat
      /\ ((circuit[t].st = "closed") = (circuit[t].failures < FailureThreshold))
      /\ circuit[t].st \in {"closed", "open", "half-open"}
  BY <1>1 DEF Circuit, CircuitMatchesFailures
<1>4. ASSUME NEW b \in Circuit, circuit' = [circuit EXCEPT ![t] = b],
             (b.st = "closed") = (b.failures < FailureThreshold)
      PROVE  CircuitsKept
  <2>1. circuit' \in [Transports -> Circuit]
    BY <1>1, <1>4
  <2>2. \A u \in Transports : circuit'[u] = IF u = t THEN b ELSE circuit[u]
    BY <1>1, <1>4
  <2> QED  BY <1>1, <1>4, <2>1, <2>2 DEF CircuitsKept, CircuitMatchesFailures
<1>5. CASE UNCHANGED circuit
  BY <1>1, <1>5 DEF CircuitsKept, CircuitMatchesFailures
<1>6. CASE circuit' = [circuit EXCEPT ![t] = Succeeded(circuit[t])]
  <2>1. /\ Succeeded(circuit[t]) \in Circuit
        /\ (Succeeded(circuit[t]).st = "closed")
              = (Succeeded(circuit[t]).failures < FailureThreshold)
    BY <1>2 DEF Succeeded, Circuit
  <2> QED  BY <1>4, <1>6, <2>1
<1> QED  BY <1>4, <1>5, <1>6

LEMMA CallRests ==
    ASSUME NEW q \in Queries, NEW a \in {None, q}
    PROVE  Rests(q, Call("done", a))
<1>1. <<>> \in Plans \cup {<<>>} /\ 1 \in Nat /\ 0 \in 0..MaxAttempts
  BY TransportAssumption
<1> QED  BY <1>1 DEF Rests, Call, Query, Points

LEMMA NextRests ==
    ASSUME TransportInv, NEW q \in Queries, query[q].pc \notin {"idle", "done"}
    PROVE  Rests(q, NextTransport(q))
<1>1. /\ query[q] \in Query /\ query[q].answer \in {None, q} /\ query[q].at \in Nat
      /\ query[q].plan \in Plans /\ query[q].at \in 1..Len(query[q].plan)
      /\ query[q].plan \in Seq(Transports)
  BY QueryType, TransportType, InvParts DEF AnswerIsOwn
<1>2. CASE query[q].at = Len(query[q].plan)
  BY <1>2, CallRests DEF NextTransport
<1>3. CASE query[q].at # Len(query[q].plan)
  <2> DEFINE r == [query[q] EXCEPT !.pc = "choosing", !.at = @ + 1, !.conn = None]
  <2>1. query[q].at + 1 \in 1..Len(query[q].plan) /\ query[q].at + 1 \in Nat
    BY <1>1, <1>3
  <2>2. /\ r \in Query /\ r.pc = "choosing" /\ r.at = query[q].at + 1 /\ r.conn = None
        /\ r.plan = query[q].plan /\ r.answer = query[q].answer
    BY <1>1, <2>1 DEF Query, Points
  <2> QED  BY <1>1, <1>3, <2>1, <2>2 DEF NextTransport, Rests
<1> QED  BY <1>2, <1>3

\* A failure that counts: of the circuit as it is, or half open.
LEMMA FallBackRests ==
    ASSUME TransportInv, NEW q \in Queries, query[q].pc \notin {"idle", "done"}, NEW before,
           \/ before = circuit[Transport(q)]
           \/ /\ circuit[Transport(q)].st = "open"
              /\ before = [circuit[Transport(q)] EXCEPT !.st = "half-open"],
           FallsBack(q, before)
    PROVE  CircuitsKept /\ \E r : Rests(q, r) /\ query' = [query EXCEPT ![q] = r]
<1> DEFINE t == Transport(q)
<1>1. t \in Transports
  BY TransportType
<1>2. Rests(q, NextTransport(q)) /\ Rests(q, Call("done", None))
  BY NextRests, CallRests
<1>3. circuit[t] \in Circuit /\ circuit[t].failures \in Nat /\ before.failures = circuit[t].failures
  BY <1>1, InvParts DEF Circuit
<1>4. /\ before \in Circuit
      /\ (before.st = "closed") = (before.failures < FailureThreshold)
  BY <1>1, <1>3, InvParts DEF Circuit, CircuitMatchesFailures
<1>5. FailureThreshold \in Nat \ {0}
  BY TransportAssumption
<1>6. /\ Failed(before) \in Circuit
      /\ (Failed(before).st = "closed") = (Failed(before).failures < FailureThreshold)
  BY <1>3, <1>4, <1>5 DEF Failed, Circuit
<1>7. circuit' = [circuit EXCEPT ![t] = Failed(before)]
  BY DEF FallsBack, Reports
<1>8. CircuitsKept
  BY <1>1, <1>6, <1>7, CircuitSteps
<1> QED  BY <1>2, <1>8 DEF FallsBack, Goes

\* After an error a query goes on without a connection, or is over.
LEMMA ErrorRests ==
    ASSUME TransportInv, NEW q \in Queries, NEW retryable \in BOOLEAN,
           query[q].pc \notin {"idle", "done"}, AfterError(q, retryable)
    PROVE  CircuitsKept /\ \E r : Rests(q, r) /\ query' = [query EXCEPT ![q] = r]
<1>1. /\ query[q] \in Query /\ query[q].answer \in {None, q} /\ query[q].at \in Nat
      /\ query[q].try \in 0..MaxAttempts /\ MaxAttempts \in Nat
      /\ query[q].plan \in Plans /\ query[q].at \in 1..Len(query[q].plan)
      /\ Transport(q) \in Transports /\ query[q].plan \in Seq(Transports)
  BY QueryType, TransportType, InvParts DEF AnswerIsOwn
<1>2. Rests(q, Call("done", None))
  BY CallRests
<1>4. CASE ~retryable
  BY <1>1, <1>2, <1>4, CircuitSteps DEF AfterError, Goes
<1>5. CASE retryable /\ query[q].try < MaxAttempts
  <2> DEFINE r == [query[q] EXCEPT !.pc = "executing", !.try = @ + 1, !.conn = None]
  <2>1. query[q].try + 1 \in 0..MaxAttempts
    BY <1>1, <1>5
  <2>2. /\ r \in Query /\ r.pc = "executing" /\ r.at = query[q].at /\ r.conn = None
        /\ r.plan = query[q].plan /\ r.answer = query[q].answer
    BY <1>1, <2>1 DEF Query, Points
  <2>3. Rests(q, r)
    BY <1>1, <2>2 DEF Rests
  <2>4. query' = [query EXCEPT ![q] = r] /\ UNCHANGED circuit
    BY <1>5 DEF AfterError, Goes
  <2>5. CircuitsKept
    BY <1>1, <2>4, CircuitSteps
  <2> QED  BY <2>3, <2>4, <2>5
<1>6. CASE retryable /\ ~(query[q].try < MaxAttempts)
  BY <1>6, FallBackRests DEF AfterError
<1> QED  BY <1>4, <1>5, <1>6

-----------------------------------------------------------------------------
(* Steps of a query that holds nothing. *)

LEMMA EmptyHanded ==
    ASSUME TransportInv, NEW q \in Queries, query[q].pc \notin {"connected", "waiting"}
    PROVE  Holding(q) = None /\ \A c \in Sockets : ~Waits(q, c)
  BY InvParts DEF QuerySound, Waits

\* The query moves, the connections stay.
LEMMA QueryMoves ==
    ASSUME TransportInv, NEW q \in Queries, NEW r, Rests(q, r),
           query' = [query EXCEPT ![q] = r], Holding(q) = None, CircuitsKept,
           uncaught = None, UNCHANGED <<aborted, sock, pool, down, uncaught, late, lost>>
    PROVE  TransportInv'
<1>1. Release(Holding(q))
  BY NothingToRelease
<1>2. \A c \in Sockets : Left(q, c)
  <2>1. \A c \in Sockets : ~Waits(q, c)
    BY InvParts DEF Waits, Holding
  <2> QED  BY <2>1, LeftAsIs
<1> QED  BY <1>1, <1>2, InvParts, ReleaseKeeps, Releases

LEMMA AskStep ==
    ASSUME TransportInv, uncaught = None, NEW q \in Queries, NEW plan \in Plans \cup {<<>>},
           Ask(q, plan)
    PROVE  TransportInv'
<1>1. /\ query[q].pc = "idle" /\ Holding(q) = None /\ query[q].at = 1
      /\ query[q] \in Query /\ query[q].answer \in {None, q} /\ query[q].conn = None
      /\ UNCHANGED <<aborted, sock, pool, circuit, down, uncaught, late, lost>>
  BY InvParts, EmptyHanded, QueryType DEF Ask, QuerySound, AnswerIsOwn, Holding
<1>2. CircuitsKept
  BY <1>1, CircuitSteps DEF Transports
<1>3. CASE plan = <<>>
  <2>1. Rests(q, Call("done", None)) /\ query' = [query EXCEPT ![q] = Call("done", None)]
    BY <1>3, CallRests DEF Ask, Goes
  <2> QED  BY <1>1, <1>2, <2>1, QueryMoves
<1>4. CASE plan # <<>>
  <2> DEFINE r == [query[q] EXCEPT !.pc = "choosing", !.plan = plan]
  <2>1. plan \in Plans /\ plan \in Seq(Transports)
    BY <1>4, TransportAssumption
  <2>2. 1 \in 1..Len(plan)
    BY <1>4, <2>1
  <2>3. /\ r \in Query /\ r.pc = "choosing" /\ r.at = 1 /\ r.conn = None /\ r.plan = plan
        /\ r.answer = query[q].answer
    BY <1>1, <2>1 DEF Query, Points
  <2>4. Rests(q, r)
    BY <1>1, <2>1, <2>2, <2>3 DEF Rests
  <2>5. query' = [query EXCEPT ![q] = r]
    BY <1>4 DEF Ask, Goes
  <2> QED  BY <1>1, <1>2, <2>4, <2>5, QueryMoves
<1> QED  BY <1>3, <1>4

\* The record of a query that changes its control point only.
LEMMA PointRests ==
    ASSUME TransportInv, NEW q \in Queries, query[q].pc \notin {"idle", "done"},
           Holding(q) = None, NEW pc \in {"executing", "waiting"},
           NEW try \in 0..MaxAttempts, down /\ pc = "waiting" => q \in late
    PROVE  Rests(q, [query[q] EXCEPT !.pc = pc, !.try = try])
<1> DEFINE r == [query[q] EXCEPT !.pc = pc, !.try = try]
<1>1. /\ query[q] \in Query /\ query[q].answer \in {None, q} /\ query[q].conn = None
      /\ query[q].plan \in Plans /\ query[q].at \in 1..Len(query[q].plan)
  BY QueryType, TransportType, InvParts DEF AnswerIsOwn, Holding
<1>2. /\ r \in Query /\ r.pc = pc /\ r.at = query[q].at /\ r.conn = None
      /\ r.plan = query[q].plan /\ r.answer = query[q].answer
  BY <1>1 DEF Query, Points
<1> QED  BY <1>1, <1>2 DEF Rests

LEMMA ChooseStep ==
    ASSUME TransportInv, uncaught = None, NEW q \in Queries, NEW recovered \in BOOLEAN,
           Choose(q, recovered)
    PROVE  TransportInv'
<1> DEFINE t == Transport(q)
           before == IF circuit[t].st = "open" THEN [circuit[t] EXCEPT !.st = "half-open"]
                     ELSE circuit[t]
           r == [query[q] EXCEPT !.pc = "executing", !.try = 1]
<1>1. /\ query[q].pc = "choosing" /\ Holding(q) = None /\ t \in Transports
      /\ UNCHANGED <<aborted, sock, pool, down, uncaught, late, lost>>
  BY EmptyHanded, TransportType DEF Choose
<1>2. \/ FallsBack(q, circuit[t]) \/ FallsBack(q, before)
      \/ Reports(q, before) /\ query' = [query EXCEPT ![q] = r]
  BY DEF Choose, Goes
<1>3. CASE FallsBack(q, circuit[t]) \/ FallsBack(q, before)
  <2>1. CircuitsKept /\ \E n : Rests(q, n) /\ query' = [query EXCEPT ![q] = n]
    BY <1>1, <1>3, FallBackRests
  <2> QED  BY <1>1, <2>1, QueryMoves
<1>4. CASE Reports(q, before) /\ query' = [query EXCEPT ![q] = r]
  <2>1. before \in Circuit /\ (before.st = "closed") = (before.failures < FailureThreshold)
    BY <1>1, InvParts DEF Circuit, CircuitMatchesFailures
  <2>2. circuit' = [circuit EXCEPT ![t] = before]
    BY <1>4 DEF Reports
  <2> HIDE DEF before
  <2>3. CircuitsKept
    BY <1>1, <2>1, <2>2, CircuitSteps
  <2>4. 1 \in 0..MaxAttempts
    BY TransportAssumption
  <2>5. Rests(q, r)
    BY <1>1, <2>4, PointRests
  <2> QED  BY <1>1, <1>4, <2>3, <2>5, QueryMoves
<1> QED  BY <1>2, <1>3, <1>4

LEMMA RefuseStep ==
    ASSUME TransportInv, uncaught = None, NEW q \in Queries,
           Refuse(q) \/ \E retryable \in BOOLEAN : ConnectFails(q, retryable)
    PROVE  TransportInv'
<1>1. /\ query[q].pc \in {"executing", "connecting"}
      /\ \E retryable \in BOOLEAN : AfterError(q, retryable)
      /\ UNCHANGED <<aborted, sock, pool, down, uncaught, late, lost>>
  BY DEF Refuse, ConnectFails
<1>2. Holding(q) = None
  BY <1>1, EmptyHanded
<1>3. CircuitsKept /\ \E r : Rests(q, r) /\ query' = [query EXCEPT ![q] = r]
  BY <1>1, ErrorRests
<1> QED  BY <1>1, <1>2, <1>3, QueryMoves

LEMMA StartDohStep ==
    ASSUME TransportInv, uncaught = None, NEW q \in Queries, StartDoh(q)
    PROVE  TransportInv'
<1> DEFINE r == [query[q] EXCEPT !.pc = "waiting"]
<1>1. /\ query[q].pc = "executing" /\ ~down /\ query' = [query EXCEPT ![q] = r]
      /\ UNCHANGED <<aborted, sock, pool, circuit, down, uncaught, late, lost>>
  BY DEF StartDoh, Refused, Goes
<1>2. Holding(q) = None /\ Transport(q) \in Transports /\ query[q] \in Query
      /\ query[q].try \in 0..MaxAttempts
  BY <1>1, InvParts, EmptyHanded, TransportType, QueryType
<1>3. CircuitsKept
  BY <1>1, <1>2, CircuitSteps
<1>4. r = [query[q] EXCEPT !.pc = "waiting", !.try = query[q].try]
  BY <1>2 DEF Query
<1>5. Rests(q, r)
  BY <1>1, <1>2, <1>4, PointRests
<1> QED  BY <1>1, <1>2, <1>3, <1>5, QueryMoves

-----------------------------------------------------------------------------
(* Steps in which a query takes a connection. *)

\* What q takes with it into the record r; what the pool drops is counted as lost.
Takes(q, r) ==
    /\ r \in Query /\ r.answer \in {None, q} /\ Holding(q) \in {None, r.conn}
    /\ pool' \in Seq(Sockets) /\ Len(pool') <= MaxConnections /\ IsInjective(pool')
    /\ ToSet(pool') \subseteq ToSet(pool) /\ lost \subseteq lost'
    /\ lost' \subseteq lost \cup ToSet(pool)
    /\ ToSet(pool) \subseteq ToSet(pool') \cup lost' \cup {r.conn}
    /\ r.conn # None =>
          /\ r.conn \notin ToSet(pool')
          /\ \A p \in Queries \ {q} : Holding(p) # r.conn

\* The state of the connection it took.
TakenSound(q, c) ==
    /\ sock'[c].st # "none"
    /\ sock'[c].st = "open" => sock'[c].user = q /\ (down => q \in late)
    /\ sock'[c].st = "open" /\ ~sock'[c].stale => AnswersDue(c)'

LEMMA TakesKeeps ==
    ASSUME TransportInv, NEW q \in Queries, NEW r, Takes(q, r),
           query' = [query EXCEPT ![q] = r], QuerySound(q)',
           sock' \in [Sockets -> Socket], \A d \in Sockets \ {r.conn} : sock'[d] = sock[d],
           NEW c \in Sockets \cup {None}, c = r.conn, c # None => TakenSound(q, c),
           uncaught = None, UNCHANGED <<aborted, circuit, down, uncaught, late>>
    PROVE  TransportInv'
<1>1. /\ TypeOK /\ OneUser /\ OpenIsHeld /\ OnlyLateSurvives /\ AnswerIsOwn
      /\ \A p \in Queries : QuerySound(p)
      /\ \A d \in Sockets : SocketSound(d)
      /\ None \notin Sockets /\ lost \subseteq Sockets /\ pool \in Seq(Sockets)
  BY InvParts DEF TypeOK
<1>2. /\ query'[q] = r /\ r \in Query
      /\ \A p \in Queries \ {q} : query'[p] = query[p]
      /\ query' \in [Queries -> Query]
  BY <1>1 DEF Takes, TypeOK
<1>3. \A p \in Queries : Holding(p)' = IF p = q THEN r.conn ELSE Holding(p)
  BY <1>2 DEF Holding
<1>4. ToSet(pool) \subseteq Sockets
  BY <1>1 DEF ToSet
<1>5. TypeOK'
  <2>1. lost' \subseteq Sockets
    BY <1>1, <1>4 DEF Takes
  <2> QED  BY <1>1, <1>2, <2>1 DEF TypeOK, Takes
<1>6. OneUser'
  <2>1. ASSUME NEW p \in Queries, Holding(p)' # None
        PROVE  /\ Holding(p)' \notin ToSet(pool')
               /\ \A o \in Queries \ {p} : Holding(o)' # Holding(p)'
    <3>1. CASE p = q
      BY <1>3, <2>1, <3>1 DEF Takes
    <3>2. CASE p # q
      <4>1. Holding(p) # None /\ Holding(p)' = Holding(p)
        BY <1>3, <2>1, <3>2
      <4>2. Holding(p) \notin ToSet(pool) /\ \A o \in Queries \ {p} : Holding(o) # Holding(p)
        BY <1>1, <4>1 DEF OneUser
      <4>3. r.conn # Holding(p)
        BY <3>2, <4>1 DEF Takes
      <4> QED  BY <1>3, <4>1, <4>2, <4>3 DEF Takes
    <3> QED  BY <3>1, <3>2
  <2> QED  BY <2>1 DEF OneUser, Takes
<1>7. OpenIsHeld'
  <2>1. SUFFICES ASSUME NEW d \in Sockets, sock'[d].st = "open",
                        d \notin ToSet(pool') \cup lost', d # r.conn
                 PROVE  \E p \in Queries : Holding(p)' = d
    BY <1>3 DEF OpenIsHeld
  <2>2. sock[d].st = "open" /\ d \notin ToSet(pool) \cup lost
    BY <2>1 DEF Takes
  <2>3. PICK p \in Queries : Holding(p) = d
    BY <1>1, <2>2 DEF OpenIsHeld
  <2>4. p # q
    BY <1>1, <2>1, <2>3 DEF Takes
  <2> QED  BY <1>3, <2>3, <2>4
<1>8. OnlyLateSurvives'
  <2>1. SUFFICES ASSUME down, NEW d \in Sockets, sock'[d].st = "open"
                 PROVE  d \in lost' \/ sock'[d].user \in late
    BY <1>1 DEF OnlyLateSurvives
  <2>2. CASE d = c
    BY <2>1, <2>2, <1>1 DEF TakenSound
  <2>3. CASE d # c
    BY <1>1, <2>1, <2>3 DEF OnlyLateSurvives, Takes
  <2> QED  BY <2>2, <2>3
<1>9. AnswersAreOwn'
  BY <1>1, <1>2 DEF AnswersAreOwn, AnswerIsOwn, UncaughtIsExplained, Takes
<1>10. ASSUME NEW p \in Queries
       PROVE  QuerySound(p)'
  BY <1>1, <1>2 DEF QuerySound, Holding, Transport
<1>11. ASSUME NEW d \in Sockets
       PROVE  SocketSound(d)'
  <2>1. CASE d = r.conn
    <3>1. TakenSound(q, c) /\ \A p \in Queries \ {q} : Holding(p) # c
      BY <1>1, <2>1 DEF Takes
    <3>2. \A p \in Queries : Holding(p)' = d => p = q
      BY <1>3, <2>1, <3>1
    <3>3. SocketSound(c)'
      BY <2>1, <3>1, <3>2 DEF SocketSound, TakenSound
    <3> QED  BY <2>1, <3>3
  <2>2. CASE d # r.conn
    <3>1. sock'[d] = sock[d] /\ SocketSound(d)
      BY <1>1, <2>2
    <3>2. \A p \in Queries : Holding(p)' = d => Holding(p) = d
      BY <1>3, <2>2
    <3>3. \A p \in Queries : Waits(p, d)' <=> Waits(p, d)
      BY <1>1, <1>2, <2>2 DEF Waits, Takes, Holding
    <3>4. AnswersDue(d) => AnswersDue(d)'
      BY <3>1, <3>3 DEF AnswersDue
    <3>5. d \in ToSet(pool') \cup lost' => d \in ToSet(pool) \cup lost
      BY DEF Takes
    <3> QED  BY <3>1, <3>2, <3>4, <3>5 DEF SocketSound
  <2> QED  BY <2>1, <2>2
<1>12. CircuitMatchesFailures'
  BY InvParts DEF CircuitMatchesFailures
<1> QED  BY <1>5, <1>6, <1>7, <1>8, <1>9, <1>10, <1>11, <1>12
         DEF TransportInv, SocketsAreAccounted

\* A request on a connection nobody waits on.
LEMMA RequestSound ==
    ASSUME TransportInv, NEW q \in Queries, NEW c \in Sockets,
           \A p \in Queries : ~Waits(p, c), \A p \in Queries : Waits(p, c)' <=> p = q,
           sock'[c] = Requested(sock[c], q), sock[c].st # "none", down => q \in late
    PROVE  sock'[c] \in Socket /\ TakenSound(q, c)
<1>1. sock[c] \in Socket /\ SocketSound(c)
  BY InvParts
<1>2. CASE sock[c].st # "open"
  BY <1>1, <1>2 DEF Requested, TakenSound
<1>3. CASE sock[c].st = "open"
  <2> DEFINE s == sock[c]
  <2>1. /\ s.heard \subseteq Queries /\ s.owed \in [Queries -> Nat] /\ s.owed[q] + 1 \in Nat
    BY <1>1 DEF Socket
  <2>2. sock'[c] = [s EXCEPT !.user = q, !.heard = @ \cup {q}, !.owed[q] = @ + 1]
    BY <1>3 DEF Requested
  <2>3. /\ sock'[c].st = s.st /\ sock'[c].user = q /\ sock'[c].stale = s.stale
        /\ sock'[c].heard = s.heard \cup {q}
        /\ sock'[c].owed = [s.owed EXCEPT ![q] = @ + 1]
    BY <1>1, <2>2 DEF Socket
  <2>4. sock'[c] \in Socket
    <3> DEFINE o == [s.owed EXCEPT ![q] = @ + 1]
               h == s.heard \cup {q}
    <3>1. o \in [Queries -> Nat] /\ h \in SUBSET Queries
      BY <2>1
    <3>2. sock'[c] = [s EXCEPT !.user = q, !.heard = h, !.owed = o]
      BY <1>1, <2>2 DEF Socket
    <3> HIDE DEF o, h
    <3> QED  BY <1>1, <3>1, <3>2 DEF Socket
  <2>5. ASSUME ~s.stale
        PROVE  AnswersDue(c)'
    <3>1. \A p \in Queries : p \notin s.heard /\ s.owed[p] = 0
      BY <1>1, <1>3, <2>5 DEF SocketSound, AnswersDue
    <3>2. \A p \in Queries : sock'[c].owed[p] = IF p = q THEN 1 ELSE 0
      BY <2>1, <2>3, <3>1
    <3> QED  BY <2>3, <3>1, <3>2 DEF AnswersDue
  <2> QED  BY <1>3, <2>3, <2>4, <2>5 DEF TakenSound
<1> QED  BY <1>2, <1>3

LEMMA StartDotStep ==
    ASSUME TransportInv, uncaught = None, NEW q \in Queries, NEW young \in Youngs,
           StartDot(q, young)
    PROVE  TransportInv'
<1> DEFINE rest == [i \in DOMAIN young |-> pool[young[i]]]
<1>1. /\ query[q].pc = "executing" /\ ~down /\ Transport(q) = "dot"
      /\ lost' = lost \cup (ToSet(pool) \ ToSet(rest)) /\ pool' = Kept(rest)
      /\ IF rest = <<>>
           THEN Goes(q, [query[q] EXCEPT !.pc = "connecting"]) /\ UNCHANGED sock
           ELSE /\ Goes(q, [query[q] EXCEPT !.pc = "waiting", !.conn = rest[1]])
                /\ sock' = [sock EXCEPT ![rest[1]] = Requested(@, q)]
      /\ UNCHANGED <<aborted, circuit, down, uncaught, late>>
  BY DEF StartDot, Refused
<1>2. /\ query[q] \in Query /\ query[q].answer \in {None, q} /\ query[q].conn = None
      /\ query[q].plan \in Plans /\ query[q].at \in 1..Len(query[q].plan)
      /\ pool \in Seq(Sockets) /\ Len(pool) <= MaxConnections /\ IsInjective(pool)
      /\ OneUser /\ sock \in [Sockets -> Socket] /\ query \in [Queries -> Query]
      /\ None \notin Sockets /\ MaxConnections \in Nat
  BY <1>1, QueryType, TransportType, InvParts, EmptyHanded, TransportAssumption
     DEF AnswerIsOwn, Holding, TypeOK, OneUser
<1>3. /\ rest \in Seq(Sockets) /\ Len(rest) <= Len(pool) /\ ToSet(rest) \subseteq ToSet(pool)
      /\ IsInjective(rest)
  BY <1>2, YoungRest
<1> HIDE DEF rest
<1>4. CASE rest = <<>>
  <2> DEFINE r == [query[q] EXCEPT !.pc = "connecting"]
  <2>1. query' = [query EXCEPT ![q] = r] /\ sock' = sock /\ pool' = <<>> /\ ToSet(rest) = {}
    BY <1>1, <1>4 DEF Goes, Kept, ToSet
  <2>2. /\ r \in Query /\ r.pc = "connecting" /\ r.at = query[q].at /\ r.conn = None
        /\ r.plan = query[q].plan /\ r.answer = query[q].answer
    BY <1>2 DEF Query, Points
  <2>3. query'[q] = r
    BY <1>2, <2>1
  <2>4. QuerySound(q)'
    <3>1. Transport(q)' = Transport(q)
      BY <2>2, <2>3 DEF Transport
    <3> QED  BY <1>1, <1>2, <2>2, <2>3, <3>1 DEF QuerySound, Holding
  <2>5. Takes(q, r)
    <3>1. /\ pool' \in Seq(Sockets) /\ Len(pool') <= MaxConnections /\ IsInjective(pool')
          /\ ToSet(pool') = {}
      BY <1>2, <2>1 DEF IsInjective, ToSet
    <3>2. /\ lost \subseteq lost' /\ lost' \subseteq lost \cup ToSet(pool)
          /\ ToSet(pool) \subseteq lost'
      BY <1>1, <2>1
    <3> QED  BY <1>2, <2>2, <3>1, <3>2 DEF Takes, Holding
  <2> HIDE DEF r
  <2> QED  BY <1>1, <1>2, <2>1, <2>2, <2>4, <2>5, TakesKeeps
<1>5. CASE rest # <<>>
  <2>0. PICK c \in Sockets : c = rest[1]
    BY <1>3, <1>5
  <2> DEFINE r == [query[q] EXCEPT !.pc = "waiting", !.conn = c]
  <2>1. /\ query' = [query EXCEPT ![q] = r] /\ pool' = Tail(rest)
        /\ sock' = [sock EXCEPT ![c] = Requested(@, q)]
    BY <1>1, <1>5, <2>0 DEF Goes, Kept
  <2>2. /\ c \in Sockets /\ Tail(rest) \in Seq(Sockets) /\ Len(Tail(rest)) <= Len(rest)
        /\ ToSet(rest) = ToSet(Tail(rest)) \cup {c}
        /\ IsInjective(Tail(rest)) /\ c \notin ToSet(Tail(rest))
    BY <1>3, <1>5, <2>0, TailOne
  <2>3. c \in ToSet(pool) /\ \A p \in Queries : Holding(p) # c
    BY <1>2, <1>3, <2>2 DEF OneUser
  <2>4. /\ r \in Query /\ r.pc = "waiting" /\ r.at = query[q].at /\ r.conn = c
        /\ r.plan = query[q].plan /\ r.answer = query[q].answer
    BY <1>2, <2>2 DEF Query, Points
  <2> HIDE DEF r
  <2>5. query'[q] = r /\ \A p \in Queries \ {q} : query'[p] = query[p]
    BY <1>2, <2>1
  <2>6. QuerySound(q)'
    <3>1. Transport(q)' = Transport(q)
      BY <2>4, <2>5 DEF Transport
    <3> QED  BY <1>1, <1>2, <2>2, <2>4, <2>5, <3>1 DEF QuerySound, Holding
  <2>7. Takes(q, r)
    <3>1. Len(pool') <= MaxConnections
      BY <1>2, <1>3, <2>1, <2>2
    <3> QED  BY <1>1, <1>2, <1>3, <2>1, <2>2, <2>3, <2>4, <3>1 DEF Takes, Holding
  <2>8. /\ \A p \in Queries : ~Waits(p, c)
        /\ \A p \in Queries : Waits(p, c)' <=> p = q
    BY <2>3, <2>4, <2>5 DEF Waits, Holding
  <2>9. sock'[c] = Requested(sock[c], q) /\ \A d \in Sockets \ {c} : sock'[d] = sock[d]
    BY <1>2, <2>1, <2>2
  <2>10. sock[c].st # "none"
    BY <2>2, <2>3, InvParts DEF SocketSound
  <2>11. sock'[c] \in Socket /\ TakenSound(q, c)
    BY <1>1, <2>2, <2>8, <2>9, <2>10, RequestSound
  <2>12. sock' \in [Sockets -> Socket]
    BY <1>2, <2>1, <2>2, <2>9, <2>11
  <2> QED  BY <1>1, <2>1, <2>4, <2>6, <2>7, <2>9, <2>11, <2>12, TakesKeeps
<1> QED  BY <1>4, <1>5

LEMMA ConnectedStep ==
    ASSUME TransportInv, uncaught = None, NEW q \in Queries, NEW c \in Sockets,
           Connected(q, c)
    PROVE  TransportInv'
<1> DEFINE r == [query[q] EXCEPT !.pc = "connected", !.conn = c]
           s == [sock[c] EXCEPT !.st = "open", !.user = q,
                                !.by = IF q \in aborted THEN None ELSE q]
<1>1. /\ query[q].pc = "connecting" /\ sock[c].st = "none"
      /\ sock' = [sock EXCEPT ![c] = s] /\ query' = [query EXCEPT ![q] = r]
      /\ UNCHANGED <<aborted, pool, circuit, down, uncaught, late, lost>>
  BY DEF Connected, Goes
<1>2. /\ query[q] \in Query /\ query[q].answer \in {None, q} /\ query[q].conn = None
      /\ query[q].plan \in Plans /\ query[q].at \in 1..Len(query[q].plan)
      /\ TypeOK /\ IsInjective(pool) /\ QuerySound(q)
      /\ sock \in [Sockets -> Socket] /\ query \in [Queries -> Query]
      /\ None \notin Sockets
  BY <1>1, QueryType, TransportType, InvParts, EmptyHanded
     DEF AnswerIsOwn, Holding, OneUser
<1>3. /\ sock[c] = NoSocket("none") /\ c \notin ToSet(pool) \cup lost
      /\ \A p \in Queries : Holding(p) # c
  BY <1>1, InvParts DEF SocketSound
<1>4. /\ r \in Query /\ r.pc = "connected" /\ r.at = query[q].at /\ r.conn = c
      /\ r.plan = query[q].plan /\ r.answer = query[q].answer
  BY <1>2 DEF Query, Points
<1>5. /\ s \in Socket /\ s.st = "open" /\ s.user = q /\ s.heard = {} /\ ~s.stale
      /\ s.owed = [p \in Queries |-> 0]
  <2> DEFINE by == IF q \in aborted THEN None ELSE q
             o == [p \in Queries |-> 0]
  <2>1. by \in Queries \cup {None} /\ o \in [Queries -> Nat]
    OBVIOUS
  <2>2. /\ sock[c] \in Socket /\ sock[c].heard = {} /\ ~sock[c].stale /\ sock[c].owed = o
    <3>1. sock[c] \in Socket
      BY <1>2
    <3>2. sock[c] = [st |-> "none", by |-> None, user |-> None,
                     owed |-> [p \in Queries |-> 0], heard |-> {}, stale |-> FALSE]
      BY <1>3 DEF NoSocket
    <3> QED  BY ONLY <3>1, <3>2 DEF o
  <2> HIDE DEF by
  <2>3. s = [sock[c] EXCEPT !.st = "open", !.user = q, !.by = by]
    BY DEF by
  <2> HIDE DEF o, s
  <2>4. /\ s \in Socket /\ s.st = "open" /\ s.user = q /\ s.heard = sock[c].heard
        /\ s.stale = sock[c].stale /\ s.owed = sock[c].owed
    BY <2>1, <2>2, <2>3 DEF Socket
  <2> QED  BY <2>2, <2>4 DEF o
<1> HIDE DEF r, s
<1>6. /\ query'[q] = r /\ \A p \in Queries \ {q} : query'[p] = query[p]
      /\ sock'[c] = s /\ \A d \in Sockets \ {c} : sock'[d] = sock[d]
      /\ sock' \in [Sockets -> Socket]
  BY <1>1, <1>2, <1>5
<1>7. QuerySound(q)'
  <2>1. Transport(q)' = Transport(q)
    BY <1>4, <1>6 DEF Transport
  <2> QED  BY <1>1, <1>2, <1>4, <1>6, <2>1 DEF QuerySound, Holding
<1>8. Takes(q, r)
  BY <1>1, <1>2, <1>3, <1>4 DEF Takes, Holding, TypeOK
<1>9. TakenSound(q, c)
  <2>1. \A p \in Queries : ~Waits(p, c)'
    BY <1>3, <1>4, <1>6 DEF Waits, Holding
  <2>2. \A p \in Queries : p \notin sock'[c].heard /\ sock'[c].owed[p] = 0
    BY <1>5, <1>6
  <2>3. AnswersDue(c)'
    BY <2>1, <2>2 DEF AnswersDue
  <2>4. down => q \in late
    BY <1>1, <1>2 DEF QuerySound
  <2>5. sock'[c].st = "open" /\ sock'[c].user = q
    BY <1>5, <1>6
  <2> QED  BY <2>3, <2>4, <2>5 DEF TakenSound
<1> QED  BY <1>1, <1>4, <1>6, <1>7, <1>8, <1>9, TakesKeeps

LEMMA SendStep ==
    ASSUME TransportInv, uncaught = None, NEW q \in Queries, Send(q)
    PROVE  TransportInv'
<1>1. /\ query[q].pc = "connected" /\ query[q] \in Query /\ query[q].answer \in {None, q}
      /\ query \in [Queries -> Query] /\ sock \in [Sockets -> Socket] /\ TypeOK /\ OneUser
      /\ QuerySound(q) /\ Holding(q) \in Sockets /\ None \notin Sockets
      /\ \A d \in Sockets : SocketSound(d)
  BY QueryType, InvParts DEF Send, AnswerIsOwn, QuerySound, Holding
<1>2. PICK c \in Sockets : c = query[q].conn
  BY <1>1 DEF Holding
<1> DEFINE r == [query[q] EXCEPT !.pc = "waiting"]
<1>3. /\ sock' = [sock EXCEPT ![c] = Requested(@, q)] /\ query' = [query EXCEPT ![q] = r]
      /\ UNCHANGED <<aborted, pool, circuit, down, uncaught, late, lost>>
  BY <1>2 DEF Send, Goes
<1>4. /\ r \in Query /\ r.pc = "waiting" /\ r.at = query[q].at /\ r.conn = c
      /\ r.plan = query[q].plan /\ r.answer = query[q].answer
  BY <1>1, <1>2 DEF Query, Points
<1> HIDE DEF r
<1>5. /\ query'[q] = r /\ \A p \in Queries \ {q} : query'[p] = query[p]
      /\ sock'[c] = Requested(sock[c], q) /\ \A d \in Sockets \ {c} : sock'[d] = sock[d]
  BY <1>1, <1>3
<1>6. QuerySound(q)'
  <2>1. Transport(q)' = Transport(q)
    BY <1>4, <1>5 DEF Transport
  <2> QED  BY <1>1, <1>2, <1>3, <1>4, <1>5, <2>1 DEF QuerySound, Holding
<1>7. c \notin ToSet(pool) /\ \A p \in Queries \ {q} : Holding(p) # c
  BY <1>1, <1>2 DEF OneUser, Holding
<1>8. Takes(q, r)
  BY <1>1, <1>2, <1>3, <1>4, <1>7 DEF Takes, Holding, TypeOK, OneUser
<1>9. \A p \in Queries : ~Waits(p, c)
  BY <1>1, <1>7 DEF Waits, Holding
<1>10. \A p \in Queries : Waits(p, c)' <=> p = q
  BY <1>4, <1>5, <1>7 DEF Waits, Holding
<1>11. sock[c].st # "none"
  BY <1>1, <1>2 DEF SocketSound, Holding
<1>12. down => q \in late
  BY <1>1 DEF QuerySound
<1>13. sock'[c] \in Socket /\ TakenSound(q, c)
  BY <1>5, <1>9, <1>10, <1>11, <1>12, RequestSound
<1>14. sock' \in [Sockets -> Socket]
  BY <1>1, <1>3, <1>5, <1>13
<1> QED  BY <1>3, <1>4, <1>5, <1>6, <1>8, <1>13, <1>14, TakesKeeps

-----------------------------------------------------------------------------
(* Steps in which a query gives up its connection. *)

LEMMA FailingKeeps ==
    ASSUME TransportInv, NEW q \in Queries, query[q].pc \notin {"idle", "done"},
           NEW retryable \in BOOLEAN, RequestFails(q, retryable),
           sock' \in [Sockets -> Socket], \A c \in Sockets : Left(q, c),
           aborted' \subseteq Queries, uncaught = None, UNCHANGED <<down, uncaught, late>>
    PROVE  TransportInv'
<1>1. AfterError(q, retryable) /\ Release(Holding(q))
  BY DEF RequestFails, Holding
<1>2. PICK r : Rests(q, r) /\ query' = [query EXCEPT ![q] = r] /\ CircuitsKept
  BY <1>1, ErrorRests
<1> QED  BY <1>1, <1>2, ReleaseKeeps, Releases

LEMMA AnsweringKeeps ==
    ASSUME TransportInv, NEW q \in Queries, query[q].pc = "waiting", Answered(q, q),
           sock' \in [Sockets -> Socket], \A c \in Sockets : Left(q, c),
           uncaught = None, UNCHANGED <<aborted, down, uncaught, late>>
    PROVE  TransportInv'
<1>1. /\ query' = [query EXCEPT ![q] = Call("done", q)] /\ Release(Holding(q))
      /\ circuit' = [circuit EXCEPT ![Transport(q)] = Succeeded(circuit[Transport(q)])]
  BY DEF Answered, Goes, Reports, Holding
<1>2. Transport(q) \in Transports
  BY TransportType
<1>3. CircuitsKept
  BY <1>1, <1>2, CircuitSteps
<1>4. Rests(q, Call("done", q))
  BY CallRests
<1> QED  BY <1>1, <1>3, <1>4, InvParts, ReleaseKeeps, Releases

LEMMA UnannouncedStep ==
    ASSUME TransportInv, uncaught = None, NEW q \in Queries, Unannounced(q)
    PROVE  TransportInv'
<1>1. /\ query[q].pc = "connected" /\ AfterError(q, TRUE) /\ lost' = lost \cup {Holding(q)}
      /\ UNCHANGED <<aborted, sock, pool, down, uncaught, late>>
  BY DEF Unannounced, Holding
<1>2. Holding(q) \in Sockets /\ Holding(q) # None
  BY <1>1, QueryType, InvParts DEF QuerySound, Holding
<1>3. PICK r : Rests(q, r) /\ query' = [query EXCEPT ![q] = r] /\ CircuitsKept
  BY <1>1, ErrorRests
<1>4. Parted(q)
  BY <1>1, <1>2, InvParts DEF Parted, TypeOK, OneUser
<1>5. \A c \in Sockets : Left(q, c)
  BY <1>1, LeftAsIs DEF Waits
<1> QED  BY <1>1, <1>3, <1>4, <1>5, InvParts, Releases

LEMMA TimesOutStep ==
    ASSUME TransportInv, uncaught = None, NEW q \in Queries, TimesOut(q)
    PROVE  TransportInv'
<1>1. /\ query[q].pc = "waiting" /\ RequestFails(q, TRUE)
      /\ sock' = [c \in Sockets |-> IF c = query[q].conn
                                     THEN [sock[c] EXCEPT !.stale = @ \/ sock[c].owed[q] > 0]
                                     ELSE sock[c]]
      /\ UNCHANGED <<aborted, down, uncaught, late>>
  BY DEF TimesOut, Abandoned
<1>2. ASSUME NEW c \in Sockets
      PROVE  sock'[c] \in Socket /\ Left(q, c)
  <2>1. sock[c] \in Socket /\ SocketSound(c)
    BY InvParts
  <2>2. CASE c # query[q].conn
    <3>1. sock'[c] = sock[c] /\ ~Waits(q, c)
      BY <1>1, <2>2 DEF Waits
    <3> QED  BY <2>1, <3>1, LeftAsIs
  <2>3. CASE c = query[q].conn
    <3>1. /\ sock'[c] \in Socket /\ sock'[c].st = sock[c].st /\ sock'[c].user = sock[c].user
          /\ sock'[c].heard = sock[c].heard /\ sock'[c].owed = sock[c].owed
          /\ sock'[c].stale = (sock[c].stale \/ sock[c].owed[q] > 0)
      <4> DEFINE left == sock[c].stale \/ sock[c].owed[q] > 0
      <4>1. sock'[c] = [sock[c] EXCEPT !.stale = left] /\ left \in BOOLEAN
        BY <1>1, <2>1, <2>3 DEF Socket
      <4> HIDE DEF left
      <4>2. /\ sock'[c] \in Socket /\ sock'[c].st = sock[c].st /\ sock'[c].user = sock[c].user
            /\ sock'[c].heard = sock[c].heard /\ sock'[c].owed = sock[c].owed
            /\ sock'[c].stale = left
        BY <2>1, <4>1 DEF Socket
      <4> QED  BY <4>2 DEF left
    <3>2. Waits(q, c)
      BY <1>1, <2>3 DEF Waits
    <3>3. sock[c].st # "none"
      BY <2>1, <2>3 DEF SocketSound, Holding
    <3>4. sock[c].st = "open" /\ ~sock[c].stale => sock[c].owed[q] = 1
      BY <2>1, <3>2 DEF SocketSound, AnswersDue
    <3>5. sock'[c].st = "open" => sock'[c].stale
      <4>1. sock[c].owed[q] = 1 => sock[c].owed[q] > 0
        OBVIOUS
      <4>2. sock[c].st = "open" => sock[c].stale \/ sock[c].owed[q] > 0
        BY <3>4, <4>1, Zenon
      <4> QED  BY <3>1, <4>2
    <3> QED  BY <3>1, <3>3, <3>5 DEF Left
  <2> QED  BY <2>2, <2>3
<1>3. sock' \in [Sockets -> Socket]
  BY <1>1, <1>2
<1> QED  BY <1>1, <1>2, <1>3, InvParts, FailingKeeps

LEMMA DohSteps ==
    ASSUME TransportInv, uncaught = None, NEW q \in Queries, DohRefuses(q) \/ DohAnswers(q)
    PROVE  TransportInv'
<1>1. /\ query[q].pc = "waiting" /\ Transport(q) = "doh"
      /\ RequestFails(q, FALSE) \/ Answered(q, q)
      /\ UNCHANGED <<aborted, sock, down, uncaught, late>>
  BY DEF DohRefuses, DohAnswers
<1>2. \A c \in Sockets : ~Waits(q, c)
  BY <1>1, InvParts DEF QuerySound, Waits, Holding
<1>3. (\A c \in Sockets : Left(q, c)) /\ sock' \in [Sockets -> Socket] /\ aborted' \subseteq Queries
  BY <1>1, <1>2, InvParts, LeftAsIs
<1> QED  BY <1>1, <1>3, FailingKeeps, AnsweringKeeps

-----------------------------------------------------------------------------
(* Steps that no query takes part in. *)

Still(c) ==
    /\ sock'[c].st = "none" => sock'[c] = sock[c]
    /\ sock'[c].st = "open" => sock[c].st = "open" /\ sock'[c].user = sock[c].user
    /\ sock'[c].st = "open" /\ ~sock'[c].stale =>
          ~sock[c].stale /\ sock'[c].heard = sock[c].heard /\ sock'[c].owed = sock[c].owed

LEMMA StillKeeps ==
    ASSUME TransportInv, UNCHANGED <<query, pool, circuit, down, late, lost>>,
           aborted' \subseteq Queries, sock' \in [Sockets -> Socket],
           uncaught' \in Sockets \cup {None}, UncaughtIsExplained',
           \A c \in Sockets : Still(c)
    PROVE  TransportInv'
<1>1. /\ TypeOK /\ OneUser /\ OpenIsHeld /\ OnlyLateSurvives /\ AnswerIsOwn
      /\ CircuitMatchesFailures /\ \A p \in Queries : QuerySound(p)
      /\ \A d \in Sockets : SocketSound(d)
  BY InvParts
<1>2. TypeOK' /\ OneUser' /\ CircuitMatchesFailures' /\ AnswerIsOwn'
  BY <1>1 DEF TypeOK, OneUser, CircuitMatchesFailures, AnswerIsOwn, Holding
<1>3. OpenIsHeld' /\ OnlyLateSurvives'
  BY <1>1 DEF OpenIsHeld, OnlyLateSurvives, Still, Holding
<1>4. \A p \in Queries : QuerySound(p)'
  BY <1>1 DEF QuerySound, Holding, Transport
<1>5. ASSUME NEW c \in Sockets
      PROVE  SocketSound(c)'
  <2>1. \A p \in Queries : (Waits(p, c)' <=> Waits(p, c)) /\ Holding(p)' = Holding(p)
    BY DEF Waits, Holding
  <2>2. SocketSound(c) /\ Still(c)
    BY <1>1
  <2>3. sock'[c].st = "open" /\ ~sock'[c].stale => AnswersDue(c)'
    BY <2>1, <2>2 DEF SocketSound, Still, AnswersDue
  <2> QED  BY <2>1, <2>2, <2>3 DEF SocketSound, Still
<1> QED  BY <1>2, <1>3, <1>4, <1>5 DEF TransportInv, SocketsAreAccounted, AnswersAreOwn

LEMMA NoSocketType ==
    ASSUME NEW st \in {"none", "dead", "closed"}
    PROVE  NoSocket(st) \in Socket /\ NoSocket(st).st = st
<1>1. [p \in Queries |-> 0] \in [Queries -> Nat]
  OBVIOUS
<1> QED  BY <1>1 DEF NoSocket, Socket

LEMMA PeerClosesStep ==
    ASSUME TransportInv, uncaught = None, NEW c \in Sockets, NEW loud \in BOOLEAN,
           PeerCloses(c, loud)
    PROVE  TransportInv'
<1>1. /\ sock' = [sock EXCEPT ![c] = NoSocket("dead")]
      /\ \/ \E q \in Queries : Waits(q, c) /\ RequestFails(q, TRUE)
         \/ UNCHANGED <<query, circuit, pool, lost>>
      /\ UNCHANGED <<aborted, down, uncaught, late>>
  BY DEF PeerCloses
<1>2. sock \in [Sockets -> Socket] /\ aborted \subseteq Queries
  BY InvParts
<1>3. /\ sock' \in [Sockets -> Socket] /\ sock'[c].st = "dead"
      /\ \A d \in Sockets \ {c} : sock'[d] = sock[d]
  BY <1>1, <1>2, NoSocketType
<1>4. ASSUME NEW q \in Queries, Waits(q, c), RequestFails(q, TRUE)
      PROVE  TransportInv'
  <2>1. query[q].pc = "waiting"
    BY <1>4 DEF Waits
  <2>2. ASSUME NEW d \in Sockets
        PROVE  Left(q, d)
    <3>1. CASE d = c
      BY <1>3, <3>1 DEF Left
    <3>2. CASE d # c
      BY <1>3, <1>4, <3>2, LeftAsIs DEF Waits
    <3> QED  BY <3>1, <3>2
  <2> QED  BY <1>1, <1>2, <1>3, <1>4, <2>1, <2>2, FailingKeeps
<1>5. ASSUME UNCHANGED <<query, circuit, pool, lost>>
      PROVE  TransportInv'
  <2>1. \A d \in Sockets : Still(d)
    BY <1>3 DEF Still
  <2>2. UncaughtIsExplained'
    BY <1>1 DEF UncaughtIsExplained
  <2> QED  BY <1>1, <1>2, <1>3, <1>5, <2>1, <2>2, StillKeeps
<1> QED  BY <1>1, <1>4, <1>5

-----------------------------------------------------------------------------
(* An answer arrives. *)

\* On a socket on which no answer was left behind it is for the one who waits there.
LEMMA OneAnswerDue ==
    ASSUME TransportInv, NEW c \in Sockets, NEW w \in Queries,
           sock[c].st = "open", sock[c].owed[w] > 0, ~sock[c].stale
    PROVE  /\ Waits(w, c) /\ w \in sock[c].heard /\ sock[c].owed[w] = 1
           /\ \A q \in Queries \ {w} : ~Waits(q, c) /\ q \notin sock[c].heard /\ sock[c].owed[q] = 0
<1>1. AnswersDue(c) /\ OneUser /\ None \notin Sockets
  BY InvParts DEF SocketSound
<1>2. sock[c].owed[w] # 0
  OBVIOUS
<1>3. Waits(w, c) /\ w \in sock[c].heard /\ sock[c].owed[w] = 1
  BY <1>1, <1>2 DEF AnswersDue
<1>4. \A q \in Queries \ {w} : ~Waits(q, c)
  BY <1>1, <1>3 DEF OneUser, Waits, Holding
<1> QED  BY <1>1, <1>3, <1>4 DEF AnswersDue

LEMMA DataArrivesStep ==
    ASSUME TransportInv, uncaught = None, NEW c \in Sockets, NEW w \in Queries,
           NEW tooLarge \in BOOLEAN, DataArrives(c, w, tooLarge)
    PROVE  TransportInv'
<1> DEFINE o == [sock[c].owed EXCEPT ![w] = @ - 1]
<1>1. /\ sock[c].st = "open" /\ sock[c].owed[w] > 0
      /\ sock' = [sock EXCEPT ![c].owed[w] = @ - 1, ![c].heard = {}]
      /\ UNCHANGED <<aborted, down, late>>
  BY DEF DataArrives, HeardAfter
<1>2. /\ sock \in [Sockets -> Socket] /\ sock[c] \in Socket /\ aborted \subseteq Queries
      /\ sock[c].owed \in [Queries -> Nat] /\ sock[c].heard \subseteq Queries
      /\ None \notin Sockets /\ OneUser /\ SocketSound(c)
  BY InvParts DEF Socket
<1>3. o \in [Queries -> Nat] /\ o[w] = sock[c].owed[w] - 1
      /\ \A p \in Queries \ {w} : o[p] = sock[c].owed[p]
  BY <1>1, <1>2
<1>4. sock' = [sock EXCEPT ![c] = [@ EXCEPT !.owed = o, !.heard = {}]]
  BY <1>1, <1>2 DEF Socket
<1> HIDE DEF o
<1>5. /\ sock'[c] = [sock[c] EXCEPT !.owed = o, !.heard = {}]
      /\ \A d \in Sockets \ {c} : sock'[d] = sock[d]
  BY <1>2, <1>4
<1>6. /\ sock'[c] \in Socket /\ sock'[c].st = "open" /\ sock'[c].user = sock[c].user
      /\ sock'[c].owed = o /\ sock'[c].heard = {} /\ sock'[c].stale = sock[c].stale
  BY <1>1, <1>2, <1>3, <1>5 DEF Socket
<1>7. sock' \in [Sockets -> Socket]
  BY <1>2, <1>4, <1>5, <1>6
<1>8. ASSUME NEW q \in Queries, Waits(q, c)
      PROVE  \A d \in Sockets : Left(q, d)
  <2>1. ASSUME NEW d \in Sockets, d # c
        PROVE  Left(q, d)
    BY <1>5, <1>8, <2>1, LeftAsIs DEF Waits
  <2>2. ASSUME ~sock[c].stale, NEW p \in Queries
        PROVE  IF p = q THEN o[p] = 0
                        ELSE p \notin sock[c].heard /\ o[p] = sock[c].owed[p]
    <3>1. q = w /\ sock[c].owed[w] = 1
      BY <1>1, <1>8, <2>2, OneAnswerDue
    <3>2. p # w => p \notin sock[c].heard
      BY <1>1, <2>2, OneAnswerDue
    <3> QED  BY <1>3, <3>1, <3>2
  <2>3. Left(q, c)
    BY <1>1, <1>6, <1>8, <2>2 DEF Left
  <2> QED  BY <2>1, <2>3
<1>9. ASSUME \A q \in sock[c].heard : ~Waits(q, c)
      PROVE  sock[c].stale
  BY <1>1, <1>9, OneAnswerDue
<1>10. ASSUME sock[c].stale
       PROVE  \A d \in Sockets : Still(d)
  BY <1>1, <1>5, <1>6, <1>10 DEF Still
<1>11. CASE ~tooLarge /\ Mismatch(c, w)
  <2>1. uncaught' = c /\ UNCHANGED <<query, circuit, pool, lost>>
    BY <1>11 DEF DataArrives
  <2>2. PICK q \in sock[c].heard : q # w
    BY <1>11 DEF Mismatch
  <2>3. sock[c].stale
    BY <1>1, <1>2, <2>2, OneAnswerDue
  <2>4. UncaughtIsExplained'
    BY <1>6, <2>1, <2>3 DEF UncaughtIsExplained
  <2> QED  BY <1>1, <1>2, <1>7, <1>10, <2>1, <2>3, <2>4, StillKeeps
<1>12. CASE ~(~tooLarge /\ Mismatch(c, w))
  <2>1. /\ uncaught' = uncaught
        /\ \/ \E q \in sock[c].heard :
                 /\ Waits(q, c)
                 /\ IF tooLarge THEN RequestFails(q, FALSE) ELSE Answered(q, w)
           \/ /\ \A q \in sock[c].heard : ~Waits(q, c)
              /\ UNCHANGED <<query, circuit, pool, lost>>
    BY <1>12 DEF DataArrives
  <2>2. ASSUME NEW q \in sock[c].heard, Waits(q, c),
               IF tooLarge THEN RequestFails(q, FALSE) ELSE Answered(q, w)
        PROVE  TransportInv'
    <3>1. q \in Queries /\ query[q].pc = "waiting" /\ \A d \in Sockets : Left(q, d)
      BY <1>2, <1>8, <2>2 DEF Waits
    <3>2. CASE tooLarge
      BY <1>1, <1>2, <1>7, <2>1, <2>2, <3>1, <3>2, FailingKeeps
    <3>3. CASE ~tooLarge
      <4>1. q = w
        BY <1>12, <2>2, <3>3 DEF Mismatch
      <4> QED  BY <1>1, <1>7, <2>1, <2>2, <3>1, <3>3, <4>1, AnsweringKeeps
    <3> QED  BY <3>2, <3>3
  <2>3. ASSUME \A q \in sock[c].heard : ~Waits(q, c), UNCHANGED <<query, circuit, pool, lost>>
        PROVE  TransportInv'
    <3>1. \A d \in Sockets : Still(d)
      BY <1>9, <1>10, <2>3
    <3>2. uncaught' \in Sockets \cup {None} /\ UncaughtIsExplained'
      BY <2>1 DEF UncaughtIsExplained
    <3> QED  BY <1>1, <1>2, <1>7, <2>3, <3>1, <3>2, StillKeeps
  <2> QED  BY <2>1, <2>2, <2>3
<1> QED  BY <1>11, <1>12

-----------------------------------------------------------------------------
(* The caller and the engine's owner. *)

LEMMA CancelStep ==
    ASSUME TransportInv, uncaught = None, NEW q \in Queries, Cancel(q)
    PROVE  TransportInv'
<1>1. /\ aborted' = aborted \cup {q} /\ UNCHANGED <<down, uncaught, late>>
      /\ IF query[q].pc \in {"connecting", "waiting"}
           THEN RequestFails(q, FALSE)
           ELSE UNCHANGED <<query, circuit, pool, lost>>
      /\ query[q].pc # "idle"
  BY DEF Cancel
<1>2. ASSUME NEW c \in Sockets
      PROVE  /\ sock'[c] \in Socket /\ Left(q, c)
             /\ query[q].pc \notin {"connecting", "waiting"} => Still(c)
  <2> DEFINE s == IF sock[c].st = "open" /\ sock[c].by = q THEN NoSocket("dead") ELSE sock[c]
             mine == c = query[q].conn /\ query[q].pc = "waiting"
  <2>1. sock[c] \in Socket /\ SocketSound(c)
    BY InvParts
  <2>2. sock'[c] = IF mine THEN [s EXCEPT !.stale = @ \/ s.owed[q] > 0] ELSE s
    BY DEF Cancel
  <2>3. s \in Socket /\ (s = sock[c] \/ s.st = "dead")
    BY <2>1, NoSocketType
  <2> HIDE DEF s
  <2>4. CASE ~mine
    <3>1. sock'[c] = s /\ ~Waits(q, c)
      BY <2>2, <2>4 DEF Waits
    <3> QED  BY <2>3, <3>1 DEF Left, Still
  <2>5. CASE mine
    <3>1. /\ sock'[c] \in Socket /\ sock'[c].st = s.st /\ sock'[c].user = s.user
          /\ sock'[c].heard = s.heard /\ sock'[c].owed = s.owed
          /\ sock'[c].stale = (s.stale \/ s.owed[q] > 0)
      <4> DEFINE left == s.stale \/ s.owed[q] > 0
      <4>1. sock'[c] = [s EXCEPT !.stale = left] /\ left \in BOOLEAN
        BY <2>2, <2>3, <2>5 DEF Socket
      <4> HIDE DEF left
      <4>2. /\ sock'[c] \in Socket /\ sock'[c].st = s.st /\ sock'[c].user = s.user
            /\ sock'[c].heard = s.heard /\ sock'[c].owed = s.owed
            /\ sock'[c].stale = left
        BY <2>3, <4>1 DEF Socket
      <4> QED  BY <4>2 DEF left
    <3>2. Waits(q, c)
      BY <2>5 DEF Waits
    <3>3. sock[c].st # "none"
      BY <2>1, <2>5 DEF SocketSound, Holding
    <3>4. s.st = "open" => s = sock[c]
      BY <2>3
    <3>5. s.st = "open" /\ ~s.stale => s.owed[q] = 1
      BY <2>1, <3>2, <3>4 DEF SocketSound, AnswersDue
    <3>6. sock'[c].st = "open" => sock'[c].stale
      <4>1. s.owed[q] = 1 => s.owed[q] > 0
        OBVIOUS
      <4>2. s.st = "open" => s.stale \/ s.owed[q] > 0
        BY <3>5, <4>1, Zenon
      <4> QED  BY <3>1, <4>2
    <3>7. sock'[c].st # "none"
      BY <2>3, <3>1, <3>3
    <3>8. sock'[c].st = "open" => sock[c].st = "open" /\ sock'[c].user = sock[c].user
      BY <3>1, <3>4
    <3> QED  BY <2>5, <3>1, <3>6, <3>7, <3>8 DEF Left
  <2> QED  BY <2>4, <2>5
<1>3. sock' \in [Sockets -> Socket]
  BY <1>2 DEF Cancel
<1>4. aborted' \subseteq Queries
  BY <1>1, InvParts
<1>5. CASE query[q].pc \in {"connecting", "waiting"}
  BY <1>1, <1>2, <1>3, <1>4, <1>5, FailingKeeps
<1>6. CASE query[q].pc \notin {"connecting", "waiting"}
  <2>1. UncaughtIsExplained'
    BY <1>1 DEF UncaughtIsExplained
  <2> QED  BY <1>1, <1>2, <1>3, <1>4, <1>6, <2>1, StillKeeps
<1> QED  BY <1>5, <1>6

LEMMA ShutdownStep ==
    ASSUME TransportInv, uncaught = None, Shutdown
    PROVE  TransportInv'
<1>1. /\ ~down /\ down' = TRUE
      /\ late' = {q \in Queries : query[q].pc \in {"connecting", "connected", "waiting"}}
      /\ sock' = [c \in Sockets |-> IF c \in ToSet(pool) THEN NoSocket("closed") ELSE sock[c]]
      /\ pool' = <<>>
      /\ UNCHANGED <<query, aborted, circuit, uncaught, lost>>
  BY DEF Shutdown
<1>2. /\ TypeOK /\ OneUser /\ OpenIsHeld /\ AnswerIsOwn
      /\ CircuitMatchesFailures /\ \A q \in Queries : QuerySound(q)
      /\ \A c \in Sockets : SocketSound(c)
      /\ sock \in [Sockets -> Socket] /\ MaxConnections \in Nat
  BY InvParts, TransportAssumption
<1>3. /\ ToSet(pool') = {} /\ IsInjective(pool')
      /\ pool' \in Seq(Sockets) /\ Len(pool') <= MaxConnections
  BY <1>1, <1>2 DEF ToSet, IsInjective
<1>4. \A c \in Sockets :
         /\ sock'[c] \in Socket
         /\ sock'[c].st \in {"none", "open"} => sock'[c] = sock[c] /\ c \notin ToSet(pool)
  BY <1>1, <1>2, NoSocketType
<1>5. sock' \in [Sockets -> Socket]
  BY <1>1, <1>4
<1>6. TypeOK'
  BY <1>1, <1>2, <1>3, <1>5 DEF TypeOK
<1>7. OneUser' /\ CircuitMatchesFailures' /\ AnswersAreOwn'
  BY <1>1, <1>2, <1>3 DEF OneUser, Holding, CircuitMatchesFailures, AnswersAreOwn, AnswerIsOwn,
                         UncaughtIsExplained
<1>8. OpenIsHeld'
  BY <1>1, <1>2, <1>4 DEF OpenIsHeld, Holding
<1>9. OnlyLateSurvives'
  <2>1. SUFFICES ASSUME NEW c \in Sockets, sock'[c].st = "open", c \notin lost
                 PROVE  sock'[c].user \in late'
    BY <1>1 DEF OnlyLateSurvives
  <2>2. sock'[c] = sock[c] /\ c \notin ToSet(pool)
    BY <1>4, <2>1
  <2>3. PICK q \in Queries : Holding(q) = c
    BY <1>2, <2>1, <2>2 DEF OpenIsHeld
  <2>4. sock[c].user = q /\ query[q].pc \in {"connected", "waiting"}
    BY <1>2, <2>1, <2>2, <2>3, TransportAssumption DEF SocketSound, QuerySound
  <2> QED  BY <1>1, <2>2, <2>4
<1>10. \A q \in Queries : QuerySound(q)'
  BY <1>1, <1>2 DEF QuerySound, Holding, Transport
<1>11. ASSUME NEW c \in Sockets
       PROVE  SocketSound(c)'
  <2>1. \A q \in Queries : (Waits(q, c)' <=> Waits(q, c)) /\ Holding(q)' = Holding(q)
    BY <1>1 DEF Waits, Holding
  <2>2. sock'[c].st \in {"none", "open"} => sock'[c] = sock[c]
    BY <1>4
  <2>3. sock'[c].st = "open" /\ ~sock'[c].stale => AnswersDue(c)'
    BY <1>2, <2>1, <2>2 DEF SocketSound, AnswersDue
  <2> QED  BY <1>1, <1>2, <1>3, <2>1, <2>2, <2>3 DEF SocketSound
<1> QED  BY <1>6, <1>7, <1>8, <1>9, <1>10, <1>11 DEF TransportInv, SocketsAreAccounted

-----------------------------------------------------------------------------
(* The theorems about the transports. *)

LEMMA TransportInit == Init => TransportInv
<1> SUFFICES ASSUME Init
             PROVE  TransportInv
  OBVIOUS
<1>1. /\ query = [q \in Queries |-> Call("idle", None)] /\ aborted = {}
      /\ sock = [c \in Sockets |-> NoSocket("none")] /\ pool = <<>>
      /\ circuit = [t \in Transports |-> [st |-> "closed", failures |-> 0]]
      /\ down = FALSE /\ uncaught = None /\ late = {} /\ lost = {}
  BY DEF Init
<1>2. \A q \in Queries : /\ query[q] = Call("idle", None) /\ query[q] \in Query
                         /\ query[q].pc = "idle" /\ query[q].at = 1
                         /\ query[q].conn = None /\ query[q].answer = None
  <2>1. 0 \in 0..MaxAttempts
    BY TransportAssumption
  <2> QED  BY <1>1, <2>1 DEF Call, Query, Points
<1>3. \A c \in Sockets : /\ sock[c] = NoSocket("none") /\ sock[c] \in Socket
                         /\ sock[c].st = "none"
  BY <1>1, NoSocketType
<1>4. ToSet(pool) = {} /\ IsInjective(pool) /\ pool \in Seq(Sockets) /\ Len(pool) <= MaxConnections
  BY <1>1, TransportAssumption DEF ToSet, IsInjective
<1>5. circuit \in [Transports -> Circuit] /\ CircuitMatchesFailures
  <2>1. [st |-> "closed", failures |-> 0] \in Circuit
    BY DEF Circuit
  <2> QED  BY <1>1, <2>1, TransportAssumption DEF CircuitMatchesFailures
<1>6. TypeOK
  BY <1>1, <1>2, <1>3, <1>4, <1>5 DEF TypeOK
<1>7. OneUser /\ OpenIsHeld /\ OnlyLateSurvives /\ AnswersAreOwn
  BY <1>1, <1>2, <1>3, <1>4
     DEF OneUser, OpenIsHeld, OnlyLateSurvives, AnswersAreOwn, AnswerIsOwn,
         UncaughtIsExplained, Holding
<1>8. \A q \in Queries : QuerySound(q)
  BY <1>1, <1>2 DEF QuerySound, Holding
<1>9. \A c \in Sockets : SocketSound(c)
  BY <1>1, <1>2, <1>3, <1>4, TransportAssumption DEF SocketSound, Holding
<1> QED  BY <1>5, <1>6, <1>7, <1>8, <1>9 DEF TransportInv, SocketsAreAccounted

LEMMA TransportNext == TransportInv /\ [Next]_vars => TransportInv'
<1> SUFFICES ASSUME TransportInv, [Next]_vars
             PROVE  TransportInv'
  OBVIOUS
<1>1. CASE UNCHANGED vars
  <2>1. \A c \in Sockets : Still(c)
    BY <1>1 DEF vars, Still
  <2>2. uncaught' \in Sockets \cup {None} /\ UncaughtIsExplained'
    BY <1>1 DEF vars, TransportInv, SocketsAreAccounted, TypeOK, AnswersAreOwn, UncaughtIsExplained
  <2> QED  BY <1>1, <2>1, <2>2, InvParts, StillKeeps DEF vars
<1>2. CASE Next
  <2>1. uncaught = None
    BY <1>2 DEF Next
  <2>2. ASSUME NEW q \in Queries, NEW plan \in Plans \cup {<<>>}, Ask(q, plan)
        PROVE  TransportInv'
    BY <2>1, <2>2, AskStep
  <2>3. ASSUME NEW q \in Queries, Execution(q)
        PROVE  TransportInv'
    BY <2>1, <2>3, ChooseStep, RefuseStep, StartDohStep, StartDotStep, SendStep,
       UnannouncedStep, TimesOutStep
       DEF Execution
  <2>4. ASSUME NEW q \in Queries, Replies(q)
        PROVE  TransportInv'
    BY <2>1, <2>4, ConnectedStep, DohSteps DEF Replies
  <2>5. ASSUME NEW q \in Queries, Cancel(q)
        PROVE  TransportInv'
    BY <2>1, <2>5, CancelStep
  <2>6. ASSUME NEW c \in Sockets, NEW w \in Queries, NEW tooLarge \in BOOLEAN,
               DataArrives(c, w, tooLarge)
        PROVE  TransportInv'
    BY <2>1, <2>6, DataArrivesStep
  <2>7. ASSUME NEW c \in Sockets, NEW loud \in BOOLEAN, PeerCloses(c, loud)
        PROVE  TransportInv'
    BY <2>1, <2>7, PeerClosesStep
  <2>8. CASE Shutdown
    BY <2>1, <2>8, ShutdownStep
  <2> QED  BY <1>2, <2>2, <2>3, <2>4, <2>5, <2>6, <2>7, <2>8 DEF Next
<1> QED  BY <1>1, <1>2

LEMMA TransportAlways == Spec => []TransportInv
BY TransportInit, TransportNext, PTL DEF Spec

\* A query gets the answer to its own question through timeouts, retries and pooled
\* sockets that owe answers to others, and a listener of DnsOverTlsTransport throws
\* only on a socket on which a request was given up while its answer was due.
THEOREM AnswersReachTheirAsker == Spec => []AnswersAreOwn
<1>1. TransportInv => AnswersAreOwn
  BY DEF TransportInv
<1> QED  BY <1>1, TransportAlways, PTL

\* TransportConnectionPool lends a connection to one query at a time and keeps
\* within its limit, no open socket is out of reach but those it drops, none is
\* opened after shutdown(), and the circuits agree with the failures reported.
THEOREM SocketsStayAccounted == Spec => []SocketsAreAccounted
<1>1. TransportInv => SocketsAreAccounted
  BY DEF TransportInv
<1> QED  BY <1>1, TransportAlways, PTL

-----------------------------------------------------------------------------
(* The host's inductive invariant. *)

\* Who may begin a cycle, by the life of the process.
Quiescent ==
    /\ timer => life = "running"
    /\ life \notin {"running", "stopping"} => cycle = Nothing /\ loop.pc = "off"
    /\ life = "stopping" => loopAborted
    /\ life # "stopping" => \A s \in Signals : stop[s] = "idle"

\* A shutdown that is past its drain runs alone, or has given up waiting.
Drained ==
    \A s \in Signals :
       stop[s] \in {"restoring", "removing", "leaving"} => cycle = Nothing \/ overran

\* A cycle is about to change a link: there is something on record by then.
ChangeIsRecorded ==
    cycle # Nothing =>
       /\ cycle.at \in {"capturing", "changing"} => cycle.link \in Links
       /\ cycle.at = "capturing" => journal = Nothing
       /\ cycle.at = "changing" => journal # Nothing \/ overran

\* What is on record is an original, but for the links another one shadowed.
RecordIsOriginal ==
    journal # Nothing =>
       journal.servers = "original" \/ journal.link \in shadowed \/ overran

\* Whoever is about to remove the record has put its resolvers back.
RemovalIsSafe ==
    (life = "recovering" \/ \E s \in Signals : stop[s] = "removing") /\ journal # Nothing =>
       resolvers[journal.link] = journal.servers \/ overran

HostInv ==
    /\ HostTypeOK /\ Quiescent /\ Drained
    /\ ChangeIsRecorded /\ RecordIsOriginal /\ RemovalIsSafe /\ OriginalIsOnRecord

-----------------------------------------------------------------------------
(* The host's type correctness. *)

LEMMA LoopOffType == LoopOff \in Loop /\ LoopOff.pc = "off"
<1>1. 0 \in 0..MaxLoop
  BY HostAssumption
<1> QED  BY <1>1 DEF LoopOff, Loop

LEMMA HostTypeInit == HostInit => HostTypeOK
BY LoopOffType DEF HostInit, HostTypeOK, Lives, StopPoints

LEMMA HostTypeStart ==
    ASSUME HostTypeOK, Boot \/ StartupRestore \/ Started
    PROVE  HostTypeOK'
<1> USE DEF HostTypeOK, Lives
<1>1. CASE Boot
  BY <1>1 DEF Boot, host
<1>2. CASE StartupRestore
  BY <1>2 DEF StartupRestore, PutBack, Record
<1>3. CASE Started
  <2>1. 1 \in 0..MaxLoop
    BY HostAssumption
  <2>2. [LoopOff EXCEPT !.pc = "between", !.round = 1] \in Loop
    BY <2>1, LoopOffType DEF Loop
  <2> QED  BY <1>3, <2>2 DEF Started
<1> QED  BY <1>1, <1>2, <1>3

LEMMA HostTypeCycle ==
    ASSUME HostTypeOK, ChangeIsRecorded,
           \/ Tick \/ TickEnds \/ ControlCycle \/ Changing
           \/ \E how \in Outcomes : CycleEnds(how)
    PROVE  HostTypeOK'
<1> USE DEF HostTypeOK
<1>1. CASE Tick \/ ControlCycle
  <2>1. \A who \in Callers : [by |-> who, at |-> "deciding", link |-> Nothing] \in Cycle
    BY DEF Cycle
  <2>2. cycle' \in Cycle
    BY <1>1, <2>1 DEF Tick, ControlCycle, Begins, Callers
  <2>3. ticking' \in BOOLEAN
    BY <1>1 DEF Tick, ControlCycle
  <2> QED  BY <1>1, <2>2, <2>3 DEF Tick, ControlCycle, host
<1>2. CASE TickEnds
  BY <1>2 DEF TickEnds, host
<1>3. ASSUME NEW l \in Links, ApplyDnsProvider(l) PROVE HostTypeOK'
  BY <1>3 DEF ApplyDnsProvider, Cycle, host
<1>4. CASE Captured
  <2>1. [link |-> cycle.link, servers |-> resolvers[cycle.link]] \in Record
    BY <1>4 DEF Captured, ChangeIsRecorded, Record
  <2>2. [cycle EXCEPT !.at = "changing"] \in Cycle
    BY <1>4 DEF Captured, Cycle
  <2> QED  BY <1>4, <2>1, <2>2 DEF Captured
<1>5. CASE Changed
  BY <1>5 DEF Changed, ChangeIsRecorded, Cycle
<1>6. CASE CommandFails
  BY <1>6 DEF CommandFails, Cycle, host
<1>7. ASSUME NEW how \in Outcomes, CycleEnds(how) PROVE HostTypeOK'
  BY <1>7 DEF CycleEnds, Loop, host
<1> QED  BY <1>1, <1>2, <1>3, <1>4, <1>5, <1>6, <1>7 DEF Changing

\* The process ends with the type of everything that outlives it.
LEMMA HostTypeEnds ==
    ASSUME HostTypeOK, NEW how \in {"clean", "failed", "crash"}, Ends(how),
           UNCHANGED <<host, overran>>
    PROVE  HostTypeOK'
<1>1. LoopOff \in Loop
  BY LoopOffType
<1> QED  BY <1>1 DEF Ends, HostTypeOK, Lives, StopPoints, host

LEMMA HostTypeLoop ==
    ASSUME HostTypeOK, LoopStep
    PROVE  HostTypeOK'
<1> USE DEF HostTypeOK
<1>1. LoopOff \in Loop
  BY LoopOffType
<1>2. CASE LoopCycles
  BY <1>2 DEF LoopCycles, Begins, LoopGoes, Cycle, Callers, Loop, host
<1>3. CASE LoopAborts
  BY <1>1, <1>3 DEF LoopAborts, LoopGoes, host
<1>4. CASE LoopRefused \/ LoopFails
  BY <1>4, HostTypeEnds DEF LoopRefused, LoopFails
<1>5. CASE LoopContinues
  <2>1. CASE LoopGoes(LoopOff)
    BY <1>1, <1>5, <2>1 DEF LoopContinues, LoopGoes, host
  <2>2. CASE loop.round # MaxLoop
                /\ LoopGoes([LoopOff EXCEPT !.pc = "between", !.round = loop.round + 1])
    <3>1. loop.round + 1 \in 0..MaxLoop
      BY <2>2, HostAssumption DEF Loop
    <3>2. [LoopOff EXCEPT !.pc = "between", !.round = loop.round + 1] \in Loop
      BY <3>1 DEF LoopOff, Loop
    <3> QED  BY <1>5, <2>2, <3>2 DEF LoopContinues, LoopGoes, host
  <2> QED  BY <1>5, <2>1, <2>2 DEF LoopContinues
<1> QED  BY <1>2, <1>3, <1>4, <1>5 DEF LoopStep

LEMMA HostTypeStop ==
    ASSUME HostTypeOK, NEW s \in Signals, Signal(s) \/ StopStep(s)
    PROVE  HostTypeOK'
<1> USE DEF HostTypeOK, StopPoints, StopGoes
<1>1. CASE Signal(s)
  BY <1>1 DEF Signal, Lives, host
<1>2. CASE ControlClosed(s) \/ SchedulerIdle(s) \/ RuntimeIdle(s) \/ RestoreOver(s)
  BY <1>2 DEF ControlClosed, SchedulerIdle, RuntimeIdle, RestoreOver, host
<1>3. CASE DrainTimesOut(s)
  BY <1>3 DEF DrainTimesOut, host
<1>4. CASE Restore(s)
  BY <1>4 DEF Restore, PutBack, Record
<1>5. CASE RemoveRecord(s)
  BY <1>5 DEF RemoveRecord
<1>6. CASE Leave(s)
  BY <1>6, HostTypeEnds DEF Leave
<1> QED  BY <1>1, <1>2, <1>3, <1>4, <1>5, <1>6 DEF StopStep

LEMMA HostTypeStep ==
    ASSUME HostTypeOK, ChangeIsRecorded, [HostNext]_hostVars
    PROVE  HostTypeOK'
<1>1. CASE UNCHANGED hostVars
  BY <1>1 DEF hostVars, HostTypeOK
<1>2. CASE Crash
  BY <1>2, HostTypeEnds DEF Crash
<1> QED  BY <1>1, <1>2, HostTypeStart, HostTypeCycle, HostTypeLoop, HostTypeStop DEF HostNext

-----------------------------------------------------------------------------
(* The life of the process. *)

\* A process that has ended leaves nothing running.
LEMMA EndedIsQuiet ==
    ASSUME NEW how, Ends(how)
    PROVE  Quiescent' /\ Drained'
BY DEF Ends, Quiescent, Drained, LoopOff

LEMMA LifeStep ==
    ASSUME HostTypeOK, Quiescent, Drained, [HostNext]_hostVars
    PROVE  Quiescent' /\ Drained'
<1> USE DEF Quiescent, Drained
<1>1. CASE Boot \/ StartupRestore \/ Started
  BY <1>1 DEF Boot, StartupRestore, Started, LoopOff
<1>2. CASE Tick \/ ControlCycle \/ LoopCycles
  BY <1>2 DEF Tick, ControlCycle, LoopCycles, Begins, LoopGoes, HostTypeOK, Lives, StopPoints
<1>3. CASE TickEnds \/ Changing \/ \E how \in Outcomes : CycleEnds(how)
  <2>1. UNCHANGED <<life, timer, loopAborted, stop, overran>>
    BY <1>3 DEF TickEnds, Changing, ApplyDnsProvider, Captured, Changed, CommandFails,
       CycleEnds
  <2>2. \/ UNCHANGED <<cycle, loop>>
        \/ cycle # Nothing /\ (cycle' = Nothing \/ loop' = loop)
    BY <1>3 DEF TickEnds, Changing, ApplyDnsProvider, Captured, Changed, CommandFails,
       CycleEnds
  <2> QED  BY <2>1, <2>2
<1>4. CASE LoopAborts \/ LoopContinues
  BY <1>4 DEF LoopAborts, LoopContinues, LoopGoes, LoopOff
<1>5. CASE LoopRefused \/ LoopFails \/ Crash \/ \E s \in Signals : Leave(s)
  BY <1>5, EndedIsQuiet DEF LoopRefused, LoopFails, Crash, Leave
<1>6. ASSUME NEW s \in Signals, Signal(s)
      PROVE  Quiescent' /\ Drained'
  BY <1>6 DEF Signal, StopGoes, HostTypeOK
<1>7. ASSUME NEW s \in Signals,
             \/ ControlClosed(s) \/ SchedulerIdle(s) \/ RuntimeIdle(s)
             \/ DrainTimesOut(s) \/ Restore(s) \/ RemoveRecord(s) \/ RestoreOver(s)
      PROVE  Quiescent' /\ Drained'
  <2>1. /\ stop[s] # "idle" /\ life = "stopping"
        /\ UNCHANGED <<life, timer, cycle, loop, loopAborted>>
        /\ overran => overran'
        /\ \E p \in StopPoints :
              /\ stop' = [stop EXCEPT ![s] = p]
              /\ p \in {"restoring", "removing", "leaving"} => cycle = Nothing \/ overran'
    BY <1>7 DEF ControlClosed, SchedulerIdle, RuntimeIdle, DrainTimesOut, Restore,
       RemoveRecord, RestoreOver, StopGoes, StopPoints, HostTypeOK
  <2> QED  BY <2>1 DEF HostTypeOK
<1>8. CASE UNCHANGED hostVars
  BY <1>8 DEF hostVars
<1> QED
  BY <1>1, <1>2, <1>3, <1>4, <1>5, <1>6, <1>7, <1>8 DEF HostNext, LoopStep, StopStep

-----------------------------------------------------------------------------
(* The journal and the resolvers. *)

Recorded == ChangeIsRecorded /\ RecordIsOriginal /\ RemovalIsSafe /\ OriginalIsOnRecord

\* Steps that change neither the resolvers nor the record keep the record true
\* unless they put a cycle before a change or a removal before its time.
LEMMA HostKept ==
    ASSUME Recorded, UNCHANGED host, overran => overran', ChangeIsRecorded',
           life' = "recovering" => life = "recovering",
           \A s \in Signals : stop'[s] = "removing" => stop[s] = "removing"
    PROVE  Recorded'
<1>1. RecordIsOriginal' /\ OriginalIsOnRecord'
  BY DEF Recorded, RecordIsOriginal, OriginalIsOnRecord, host
<1>2. RemovalIsSafe'
  BY DEF Recorded, RemovalIsSafe, host
<1> QED  BY <1>1, <1>2 DEF Recorded

LEMMA RecordedAtRest ==
    ASSUME HostInv,
           \/ Boot \/ Tick \/ TickEnds \/ ControlCycle
           \/ \E l \in Links : ApplyDnsProvider(l)
           \/ CommandFails \/ \E how \in Outcomes : CycleEnds(how)
           \/ LoopStep \/ Crash
           \/ \E s \in Signals : \/ Signal(s) \/ ControlClosed(s) \/ SchedulerIdle(s)
                                 \/ RuntimeIdle(s) \/ DrainTimesOut(s)
                                 \/ RestoreOver(s) \/ Leave(s)
           \/ UNCHANGED hostVars
    PROVE  Recorded'
<1>1. UNCHANGED host /\ (overran => overran')
  <2>1. UNCHANGED host
    BY DEF Boot, Tick, TickEnds, ControlCycle, ApplyDnsProvider, CommandFails, CycleEnds,
       LoopStep, LoopCycles, LoopAborts, LoopRefused, LoopFails, LoopContinues, Crash,
       Signal, ControlClosed, SchedulerIdle, RuntimeIdle, DrainTimesOut, RestoreOver,
       Leave, hostVars, host
  <2>2. overran' = TRUE \/ overran' = overran
    BY DEF Boot, Tick, TickEnds, ControlCycle, ApplyDnsProvider, CommandFails, CycleEnds,
       LoopStep, LoopCycles, LoopAborts, LoopRefused, LoopFails, LoopContinues, Crash,
       Signal, ControlClosed, SchedulerIdle, RuntimeIdle, DrainTimesOut, RestoreOver,
       Leave, hostVars
  <2> QED  BY <2>1, <2>2
<1> DEFINE NoRemoval == /\ life' = "recovering" => life = "recovering"
                        /\ \A s \in Signals : stop'[s] = "removing" => stop[s] = "removing"
<1>2. NoRemoval
  <2>1. stop \in [Signals -> StopPoints]
    BY DEF HostInv, HostTypeOK
  <2>2. CASE \E how \in {"clean", "failed", "crash"} : Ends(how)
    BY <2>2 DEF Ends
  <2>3. ASSUME NEW s \in Signals, NEW p, p # "removing", stop' = [stop EXCEPT ![s] = p],
               life' \in {life, "stopping"}
        PROVE  NoRemoval
    BY <2>1, <2>3
  <2>4. ASSUME NEW s \in Signals,
               \/ Signal(s) \/ ControlClosed(s) \/ SchedulerIdle(s) \/ RuntimeIdle(s)
               \/ DrainTimesOut(s) \/ RestoreOver(s)
        PROVE  NoRemoval
    BY <2>3, <2>4 DEF Signal, ControlClosed, SchedulerIdle, RuntimeIdle, DrainTimesOut,
       RestoreOver, StopGoes
  <2>5. CASE life' \in {life, "created"} /\ stop' = stop
    BY <2>5
  <2> QED
    BY <2>2, <2>4, <2>5 DEF Boot, Tick, TickEnds, ControlCycle, ApplyDnsProvider,
       CommandFails, CycleEnds, LoopStep, LoopCycles, LoopAborts, LoopRefused,
       LoopFails, LoopContinues, LoopGoes, Crash, Leave, hostVars
<1>3. ChangeIsRecorded'
  <2>1. ASSUME NEW l \in Links, ApplyDnsProvider(l)
        PROVE  ChangeIsRecorded'
    BY <2>1 DEF ApplyDnsProvider, host, ChangeIsRecorded, HostInv, HostTypeOK, Cycle
  <2>2. CASE cycle' = Nothing
    BY <2>2 DEF ChangeIsRecorded
  <2>3. CASE Tick \/ ControlCycle \/ LoopCycles
    BY <2>3 DEF Tick, ControlCycle, LoopCycles, Begins, ChangeIsRecorded
  <2>4. CASE CommandFails
    BY <2>4 DEF CommandFails, ChangeIsRecorded, HostInv, HostTypeOK, Cycle
  <2>5. CASE cycle' = cycle
    BY <1>1, <2>5 DEF ChangeIsRecorded, HostInv, host
  <2> QED
    BY <2>1, <2>2, <2>3, <2>4, <2>5 DEF Boot, TickEnds, CycleEnds, LoopStep, LoopAborts,
       LoopRefused, LoopFails, LoopContinues, Crash, Ends, Signal, ControlClosed,
       SchedulerIdle, RuntimeIdle, DrainTimesOut, RestoreOver, Leave, StopGoes, hostVars
<1> QED  BY <1>1, <1>2, <1>3, HostKept DEF HostInv, Recorded

\* The steps of the journal.
LEMMA RecordedByCycle ==
    ASSUME HostInv, Captured \/ Changed
    PROVE  Recorded'
<1>1. /\ cycle # Nothing /\ cycle.link \in Links
      /\ resolvers \in [Links -> {"original", "irp"}]
      /\ \A s \in Signals : stop[s] = "removing" => overran
      /\ life # "recovering"
      /\ UNCHANGED <<life, stop, overran>>
  BY DEF HostInv, HostTypeOK, Drained, Quiescent, ChangeIsRecorded, Captured, Changed
<1>2. CASE Captured
  <2> DEFINE r == [link |-> cycle.link, servers |-> resolvers[cycle.link]]
  <2>1. /\ journal = Nothing /\ journal' = r
        /\ cycle' = [cycle EXCEPT !.at = "changing"] /\ cycle \in Cycle
        /\ UNCHANGED <<resolvers, shadowed>>
    BY <1>2 DEF Captured, HostInv, HostTypeOK, ChangeIsRecorded
  <2>2. r \in Record /\ r # Nothing
    BY <1>1, HostAssumption DEF Record
  <2>3. ChangeIsRecorded'
    BY <1>1, <2>1, <2>2 DEF ChangeIsRecorded, Cycle
  <2>4. \A l \in Links : resolvers[l] # "original" => l \in shadowed \/ overran
    BY <2>1, HostAssumption DEF HostInv, OriginalIsOnRecord, Record
  <2>5. RecordIsOriginal'
    BY <1>1, <2>1, <2>4 DEF RecordIsOriginal
  <2>6. RemovalIsSafe'
    BY <1>1, <2>1 DEF RemovalIsSafe
  <2>7. OriginalIsOnRecord'
    BY <1>1, <2>1, <2>4 DEF OriginalIsOnRecord
  <2> QED  BY <2>3, <2>5, <2>6, <2>7 DEF Recorded
<1>3. CASE Changed
  <2>1. /\ journal # Nothing \/ overran
        /\ resolvers' = [resolvers EXCEPT ![cycle.link] = "irp"]
        /\ shadowed' = IF journal # Nothing /\ journal.link # cycle.link
                         THEN shadowed \cup {cycle.link} ELSE shadowed
        /\ cycle' = [cycle EXCEPT !.at = "deciding"] /\ cycle \in Cycle
        /\ journal' = journal /\ journal \in Record \cup {Nothing}
    BY <1>3 DEF Changed, HostInv, HostTypeOK, ChangeIsRecorded
  <2>2. ChangeIsRecorded'
    BY <2>1 DEF ChangeIsRecorded, Cycle
  <2>3. RecordIsOriginal'
    BY <1>1, <2>1 DEF HostInv, RecordIsOriginal
  <2>4. RemovalIsSafe'
    BY <1>1, <2>1 DEF RemovalIsSafe
  <2>5. OriginalIsOnRecord'
    <3> SUFFICES ASSUME NEW l \in Links, resolvers'[l] # "original", ~overran,
                        l \notin shadowed'
                 PROVE  journal = [link |-> l, servers |-> "original"]
      BY <1>1, <2>1 DEF OriginalIsOnRecord
    <3>1. CASE l = cycle.link
      <4>1. journal \in Record /\ journal.link = l /\ l \notin shadowed
        BY <2>1, <3>1
      <4>2. journal.servers = "original"
        BY <2>1, <4>1 DEF HostInv, RecordIsOriginal
      <4> QED  BY <4>1, <4>2 DEF Record
    <3>2. CASE l # cycle.link
      BY <1>1, <2>1, <3>2 DEF HostInv, OriginalIsOnRecord
    <3> QED  BY <3>1, <3>2
  <2> QED  BY <2>2, <2>3, <2>4, <2>5 DEF Recorded
<1> QED  BY <1>2, <1>3

\* Putting a record back, at startup or at shutdown.
LEMMA RecordedByPutBack ==
    ASSUME HostInv, journal # Nothing, PutBack, cycle' = cycle,
           UNCHANGED <<journal, shadowed, overran>>
    PROVE  Recorded'
<1>1. /\ journal \in Record /\ journal.link \in Links
      /\ resolvers \in [Links -> {"original", "irp"}]
      /\ resolvers' = [resolvers EXCEPT ![journal.link] = journal.servers]
  BY DEF HostInv, HostTypeOK, Record, PutBack
<1>2. ChangeIsRecorded' /\ RecordIsOriginal'
  BY DEF HostInv, ChangeIsRecorded, RecordIsOriginal
<1>3. RemovalIsSafe'
  BY <1>1 DEF RemovalIsSafe
<1>4. OriginalIsOnRecord'
  <2> SUFFICES ASSUME NEW l \in Links, resolvers'[l] # "original"
               PROVE  \/ l \in shadowed \/ overran
                      \/ journal = [link |-> l, servers |-> "original"]
    BY DEF OriginalIsOnRecord
  <2>1. CASE l = journal.link
    BY <1>1, <2>1 DEF HostInv, RecordIsOriginal
  <2>2. CASE l # journal.link
    BY <1>1, <2>2 DEF HostInv, OriginalIsOnRecord
  <2> QED  BY <2>1, <2>2
<1> QED  BY <1>2, <1>3, <1>4 DEF Recorded

\* Removing it afterwards.
LEMMA RecordedByRemoval ==
    ASSUME HostInv, life = "recovering" \/ \E s \in Signals : stop[s] = "removing",
           journal' = Nothing, UNCHANGED <<cycle, resolvers, shadowed, overran>>
    PROVE  Recorded'
<1>1. cycle = Nothing \/ overran
  BY DEF HostInv, Quiescent, Drained
<1>2. ChangeIsRecorded' /\ RecordIsOriginal' /\ RemovalIsSafe'
  BY <1>1 DEF HostInv, ChangeIsRecorded, RecordIsOriginal, RemovalIsSafe
<1>3. OriginalIsOnRecord'
  <2> SUFFICES ASSUME NEW l \in Links, resolvers[l] # "original", ~overran,
                      l \notin shadowed
               PROVE  FALSE
    BY DEF OriginalIsOnRecord
  <2>1. journal = [link |-> l, servers |-> "original"]
    BY DEF HostInv, OriginalIsOnRecord
  <2>2. [link |-> l, servers |-> "original"] \in Record
    BY DEF Record
  <2>3. journal # Nothing /\ journal.link = l /\ journal.servers = "original"
    BY <2>1, <2>2, HostAssumption
  <2> QED  BY <2>3 DEF HostInv, RemovalIsSafe
<1> QED  BY <1>2, <1>3 DEF Recorded

LEMMA RecordedStep ==
    ASSUME HostInv, [HostNext]_hostVars
    PROVE  Recorded'
<1>1. CASE Started
  <2>1. CASE life = "recovering"
    BY <1>1, <2>1, RecordedByRemoval DEF Started
  <2>2. CASE life # "recovering"
    <3>1. /\ UNCHANGED <<host, cycle, overran, stop>> /\ life' = "running"
      BY <1>1, <2>2 DEF Started, host
    <3>2. ChangeIsRecorded'
      BY <3>1 DEF HostInv, ChangeIsRecorded, host
    <3> QED  BY <3>1, <3>2, HostKept DEF HostInv, Recorded
  <2> QED  BY <2>1, <2>2
<1>2. ASSUME StartupRestore \/ \E s \in Signals : Restore(s)
      PROVE  Recorded'
  BY <1>2, RecordedByPutBack DEF StartupRestore, Restore, StopGoes
<1>3. ASSUME NEW s \in Signals, RemoveRecord(s)
      PROVE  Recorded'
  BY <1>3, RecordedByRemoval DEF RemoveRecord, StopGoes
<1> QED
  BY <1>1, <1>2, <1>3, RecordedAtRest, RecordedByCycle DEF HostNext, Changing, StopStep

-----------------------------------------------------------------------------
(* The theorems about the host. *)

LEMMA HostStarts == HostInit => HostInv
<1> SUFFICES ASSUME HostInit PROVE HostInv
  OBVIOUS
<1>1. HostTypeOK /\ loop.pc = "off"
  BY HostTypeInit, LoopOffType DEF HostInit
<1> QED  BY <1>1 DEF HostInit, HostInv, Quiescent, Drained, ChangeIsRecorded,
     RecordIsOriginal, RemovalIsSafe, OriginalIsOnRecord

LEMMA HostInductive == HostInv /\ [HostNext]_hostVars => HostInv'
BY HostTypeStep, LifeStep, RecordedStep DEF HostInv, Recorded

LEMMA HostAlways == HostSpec => []HostInv
BY HostStarts, HostInductive, PTL DEF HostSpec

\* The daemon's host is well formed, and resolvers that were replaced are on
\* record with their originals through crashes, failed restores and restarts.
THEOREM ResolversAreOnRecord == HostSpec => []ResolversInv
<1>1. HostInv => ResolversInv
  BY DEF HostInv, ResolversInv
<1> QED  BY <1>1, HostAlways, PTL

\* No cycle begins before recovery or after a signal, and a clean exit leaves no
\* cycle behind unless its drain ran out of time.
THEOREM OrderlyStop == HostSpec => StopIsOrderly
<1> DEFINE Orderly ==
              /\ cycle = Nothing /\ cycle' # Nothing => life = "running"
              /\ exit' = "clean" /\ life # "down" /\ life' = "down" =>
                    cycle = Nothing \/ overran
<1>1. HostInv /\ [HostNext]_hostVars => Orderly
  <2> SUFFICES ASSUME HostInv, [HostNext]_hostVars PROVE Orderly
    OBVIOUS
  <2>1. ASSUME cycle = Nothing, cycle' # Nothing
        PROVE  life = "running"
    <3>1. Tick \/ ControlCycle \/ LoopCycles
      BY <2>1 DEF HostNext, Boot, StartupRestore, Started, TickEnds, Changing,
         ApplyDnsProvider, Captured, Changed, CommandFails, CycleEnds, LoopStep,
         LoopAborts, LoopRefused, LoopFails, LoopContinues, Crash, Ends, Signal,
         StopStep, ControlClosed, SchedulerIdle, RuntimeIdle, DrainTimesOut, Restore,
         RemoveRecord, RestoreOver, Leave, StopGoes, hostVars
    <3> QED  BY <3>1 DEF Tick, ControlCycle, LoopCycles, HostInv, Quiescent
  <2>2. ASSUME exit' = "clean", life # "down", life' = "down"
        PROVE  cycle = Nothing \/ overran
    <3>1. \E s \in Signals : Leave(s)
      BY <2>2 DEF HostNext, Boot, StartupRestore, Started, Tick, TickEnds, ControlCycle,
         Changing, ApplyDnsProvider, Captured, Changed, CommandFails, CycleEnds,
         LoopStep, LoopCycles, LoopGoes, LoopAborts, LoopRefused, LoopFails,
         LoopContinues, Crash, Ends, Signal, StopStep, ControlClosed, SchedulerIdle,
         RuntimeIdle, DrainTimesOut, Restore, RemoveRecord, RestoreOver, hostVars
    <3> QED  BY <3>1 DEF Leave, HostInv, Drained
  <2> QED  BY <2>1, <2>2
<1> HIDE DEF Orderly
<1>2. HostSpec => [][Orderly]_hostVars
  BY <1>1, HostAlways, PTL DEF HostSpec
<1> QED  BY <1>2 DEF Orderly, StopIsOrderly
=============================================================================
