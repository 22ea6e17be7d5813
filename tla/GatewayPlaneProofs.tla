------------------------- MODULE GatewayPlaneProofs -------------------------
(***************************************************************************)
(* Proofs about the gateway plane, for every set of gateways and of        *)
(* operations and every limit on tunnels.                                  *)
(***************************************************************************)
EXTENDS GatewayPlane, TLAPS

-----------------------------------------------------------------------------
(* The inductive invariant: any number of concurrent operations. *)

\* Whoever waits for a gateway is in its queue, and whoever works on it is first.
Queued(o) ==
    /\ pc[o] = "queued" => \E i \in DOMAIN lock[gw(o)] : lock[gw(o)][i] = o
    /\ Working(o) => lock[gw(o)] # <<>> /\ Head(lock[gw(o)]) = o

\* What an operation works with, and that its undo has given its capacity back.
OpSound(o) ==
    /\ pc[o] \in {"reverifying", "rereaching", "restoring"} => apps[gw(o)] # None
    /\ pc[o] \in Cleaning =>
          /\ undoing[o] # "none" /\ reserved[gw(o)] <= stranded[gw(o)]
          /\ undoing[o] = "rollback" => apps[gw(o)] # None
    /\ pc[o] = "restoring" => undoing[o] = "rollback"
    /\ pc[o] = "unrouting" /\ undoing[o] = "compensate" => plan[o] # None
    /\ pc[o] = "disconnecting" => tear[o] # None
    /\ pc[o] = "establishing" => reserved[gw(o)] <= stranded[gw(o)]
    /\ pc[o] \in Establishing => prev[o] # None
    /\ pc[o] \in {"routing", "reaching", "switching"} => plan[o] # None
    /\ pc[o] = "connecting" => o \in tunnels

PlaneInv ==
    /\ TypeOK /\ CapacityIsBacked
    /\ \A o \in Ops : Queued(o) /\ OpSound(o)

-----------------------------------------------------------------------------
(* The inductive invariant: one operation at a time. *)

Busy(o) == pc[o] \notin {"idle", "done"}

\* The tunnel of an operation and the one the control plane manages.
TunnelSound(o) ==
    /\ pc[o] = "configuring" => managed = None
    /\ pc[o] = "connecting" => managed = o /\ runtime = {}
    /\ pc[o] \in {"verifying", "routing", "reaching", "switching"} =>
          managed = o /\ o \in runtime
    /\ pc[o] \in {"reaching", "switching"} => routed
    /\ pc[o] = "rereaching" => apps[gw(o)].tunnel = managed /\ managed \in runtime
    /\ pc[o] = "disconnecting" => tear[o] = managed

\* A live tunnel has its interface, and its route unless it is being made or undone.
Unroutable == {"verifying", "routing", "failing", "unrouting", "tearing", "disconnecting"}

SerialInv ==
    /\ \A o, x \in Ops : Busy(o) /\ Busy(x) => o = x
    /\ \A t \in runtime : managed = t /\ iface = t
    /\ \A o \in Ops : TunnelSound(o)
    /\ runtime # {} /\ (\A o \in Ops : pc[o] \notin Unroutable) => routed

-----------------------------------------------------------------------------
(* The step of one operation, seen from the others. *)

\* An operation that may go on: it works, or has come to the head of its queue.
Acts(o) == Working(o) \/ (pc[o] = "queued" /\ Admitted(o))

LEMMA ActorFirst ==
    ASSUME PlaneInv, NEW o \in Ops, Acts(o)
    PROVE  /\ gw(o) \in Gateways /\ pc[o] \notin {"idle", "done"}
           /\ lock[gw(o)] \in Seq(Ops) /\ lock[gw(o)] # <<>> /\ Head(lock[gw(o)]) = o
           /\ \A x \in Ops \ {o} : Working(x) => gw(x) # gw(o)
<1>1. /\ pc[o] \notin {"idle", "done"} /\ call[o] \in Call
      /\ call[o] # None
  BY DEF PlaneInv, TypeOK, Acts, Working
<1>2. gw(o) \in Gateways /\ lock[gw(o)] \in Seq(Ops)
  BY <1>1 DEF gw, Call, PlaneInv, TypeOK
<1>3. lock[gw(o)] # <<>> /\ Head(lock[gw(o)]) = o
  <2>1. CASE Working(o)
    BY <2>1 DEF PlaneInv, Queued
  <2>2. CASE pc[o] = "queued" /\ Admitted(o)
    BY <1>2, <2>2 DEF PlaneInv, Queued, Admitted
  <2> QED  BY <2>1, <2>2 DEF Acts
<1>4. \A x \in Ops \ {o} : Working(x) => gw(x) # gw(o)
  BY <1>3 DEF PlaneInv, Queued
<1> QED  BY <1>1, <1>2, <1>3, <1>4

LEMMA TailKeeps ==
    ASSUME NEW s \in Seq(Ops), s # <<>>, NEW x \in Ops, x # Head(s),
           NEW i \in DOMAIN s, s[i] = x
    PROVE  \E j \in DOMAIN Tail(s) : Tail(s)[j] = x
<1>1. i \in 1..Len(s) /\ i # 1 /\ Len(s) \in Nat
  OBVIOUS
<1>2. Tail(s) \in Seq(Ops) /\ Len(Tail(s)) = Len(s) - 1
      /\ \A j \in 1..(Len(s) - 1) : Tail(s)[j] = s[j + 1]
  OBVIOUS
<1>3. i - 1 \in 1..(Len(s) - 1) /\ s[(i - 1) + 1] = x
  BY <1>1
<1>4. i - 1 \in DOMAIN Tail(s) /\ Tail(s)[i - 1] = x
  BY <1>1, <1>2, <1>3
<1> QED  BY <1>4

\* What a step of o does to the plane: it stays within its own gateway.
OwnMove(o) ==
    /\ call' = call /\ tunnels \subseteq tunnels'
    /\ \A x \in Ops \ {o} :
          /\ \/ pc'[x] = pc[x]
             \/ pc[x] = "routing" /\ pc'[x] \in {"reaching", "failing"}
          /\ prev'[x] = prev[x] /\ plan'[x] = plan[x]
          /\ undoing'[x] = undoing[x] /\ tear'[x] = tear[x]
    /\ \A g \in Gateways \ {gw(o)} :
          apps'[g] = apps[g] /\ reserved'[g] = reserved[g] /\ stranded'[g] = stranded[g]
    /\ \/ lock' = lock /\ pc'[o] \notin {"idle", "queued", "done"}
       \/ Dequeue(o) /\ pc'[o] = "done"

\* What it has to see to for itself.
OwnSound(o) ==
    /\ OpSound(o)
    /\ reserved[gw(o)] <= stranded[gw(o)] + 1
    /\ apps[gw(o)] = None /\ pc[o] \notin Establishing =>
          reserved[gw(o)] <= stranded[gw(o)]

LEMMA ActorSound ==
    ASSUME PlaneInv, NEW o \in Ops, Acts(o)
    PROVE  /\ OwnSound(o) /\ TypeOK
           /\ reserved[gw(o)] \in Nat /\ stranded[gw(o)] \in Nat
           /\ reserved[gw(o)] <= stranded[gw(o)] + 1
<1>1. /\ gw(o) \in Gateways /\ reserved[gw(o)] \in Nat /\ stranded[gw(o)] \in Nat
      /\ \A x \in Ops \ {o} : Working(x) => gw(x) # gw(o)
  BY ActorFirst DEF PlaneInv, TypeOK
<1>2. \A x \in Ops : pc[x] \in Establishing /\ gw(x) = gw(o) => x = o
  BY <1>1 DEF Working, Establishing
<1> QED  BY <1>1, <1>2 DEF PlaneInv, CapacityIsBacked, Backed, OwnSound

LEMMA OwnMoveKeeps ==
    ASSUME PlaneInv, NEW o \in Ops, Acts(o), OwnMove(o), OwnSound(o)', TypeOK'
    PROVE  PlaneInv'
<1>0. /\ gw(o) \in Gateways /\ pc[o] \notin {"idle", "done"} /\ TypeOK
      /\ lock[gw(o)] \in Seq(Ops) /\ lock[gw(o)] # <<>> /\ Head(lock[gw(o)]) = o
      /\ \A x \in Ops \ {o} : Working(x) => gw(x) # gw(o)
  BY ActorFirst DEF PlaneInv
<1>1. \A x \in Ops : gw(x)' = gw(x)
  BY DEF OwnMove, gw
<1>2. \A x \in Ops \ {o} : pc[x] # "idle" => gw(x) \in Gateways
  BY DEF PlaneInv, TypeOK, gw, Call
<1>3. ASSUME NEW x \in Ops \ {o}
      PROVE  OpSound(x)'
  <2>1. OpSound(x) /\ prev'[x] = prev[x] /\ plan'[x] = plan[x]
        /\ undoing'[x] = undoing[x] /\ tear'[x] = tear[x] /\ tunnels \subseteq tunnels'
    BY DEF PlaneInv, OwnMove
  <2>2. pc'[x] \in {"idle", "queued", "done"} => OpSound(x)'
    BY DEF OpSound, Cleaning, Establishing
  <2>3. CASE pc'[x] = pc[x] /\ pc[x] \notin {"idle", "queued", "done"}
    <3>1. /\ apps'[gw(x)] = apps[gw(x)] /\ reserved'[gw(x)] = reserved[gw(x)]
          /\ stranded'[gw(x)] = stranded[gw(x)]
      BY <1>0, <1>2, <2>3 DEF Working, OwnMove
    <3> QED  BY <1>1, <2>1, <2>3, <3>1 DEF OpSound
  <2>4. CASE pc[x] = "routing" /\ pc'[x] \in {"reaching", "failing"}
    BY <2>1, <2>4 DEF OpSound, Cleaning, Establishing
  <2> QED  BY <2>2, <2>3, <2>4 DEF OwnMove
<1>4. ASSUME NEW x \in Ops
      PROVE  Queued(x)'
  <2>1. CASE x = o
    <3>1. CASE lock' = lock /\ pc'[o] \notin {"idle", "queued", "done"}
      BY <1>0, <1>1, <2>1, <3>1 DEF Queued
    <3>2. CASE pc'[o] = "done"
      BY <2>1, <3>2 DEF Queued, Working
    <3> QED  BY <3>1, <3>2 DEF OwnMove
  <2>2. CASE x # o
    <3>1. Queued(x) /\ (pc'[x] = "queued" <=> pc[x] = "queued") /\ (Working(x)' <=> Working(x))
      BY <2>2 DEF PlaneInv, OwnMove, Working
    <3>2. CASE pc[x] \in {"idle", "done"}
      BY <3>1, <3>2 DEF Queued, Working
    <3>3. CASE pc[x] \notin {"idle", "done"} /\ lock'[gw(x)] = lock[gw(x)]
      BY <1>1, <3>1, <3>3 DEF Queued
    <3>4. CASE pc[x] \notin {"idle", "done"} /\ lock'[gw(x)] # lock[gw(x)]
      <4>1. Dequeue(o) /\ gw(x) \in Gateways
        BY <1>2, <2>2, <3>4 DEF OwnMove
      <4>2. gw(x) = gw(o) /\ lock'[gw(x)] = Tail(lock[gw(x)])
        BY <1>0, <3>4, <4>1 DEF Dequeue, TypeOK
      <4>3. pc[x] = "queued" /\ ~Working(x)
        BY <1>0, <2>2, <3>4, <4>2 DEF Working
      <4>4. PICK i \in DOMAIN lock[gw(x)] : lock[gw(x)][i] = x
        BY <3>1, <4>3 DEF Queued
      <4>5. \E j \in DOMAIN Tail(lock[gw(x)]) : Tail(lock[gw(x)])[j] = x
        BY <1>0, <2>2, <4>2, <4>4, TailKeeps
      <4> QED  BY <1>1, <3>1, <4>2, <4>3, <4>5 DEF Queued
    <3> QED  BY <3>2, <3>3, <3>4
  <2> QED  BY <2>1, <2>2
<1>5. ASSUME NEW g \in Gateways
      PROVE  reserved'[g] <= stranded'[g] + 1 /\ (~Backed(g)' => reserved'[g] <= stranded'[g])
  <2>1. CASE g = gw(o)
    BY <1>1, <2>1 DEF OwnSound, Backed
  <2>2. CASE g # gw(o)
    <3>1. apps'[g] = apps[g] /\ reserved'[g] = reserved[g] /\ stranded'[g] = stranded[g]
      BY <2>2 DEF OwnMove
    <3>2. \A x \in Ops : pc[x] \in Establishing /\ gw(x) = g => pc'[x] \in Establishing
      BY <2>2 DEF OwnMove, Establishing
    <3> QED  BY <1>1, <3>1, <3>2 DEF PlaneInv, CapacityIsBacked, Backed
  <2> QED  BY <2>1, <2>2
<1>6. CapacityIsBacked'
  BY <1>5 DEF CapacityIsBacked
<1> QED  BY <1>3, <1>4, <1>6 DEF PlaneInv, OwnSound

-----------------------------------------------------------------------------
(* Every step is such a move. *)

Results == {"none", "refused", "reused", "established", "failed", "stranded",
            "rolledback", "incomplete"}

\* Where a step leaves the operation and its queue.
LEMMA FinishEnds ==
    ASSUME PlaneInv, NEW o \in Ops, Acts(o),
           NEW r \in Results, Finish(o, r)
    PROVE  /\ pc' \in [Ops -> Points] /\ pc'[o] = "done"
           /\ \A x \in Ops \ {o} : pc'[x] = pc[x]
           /\ result' \in [Ops -> Results]
           /\ result'[o] = r
           /\ Dequeue(o) /\ lock' \in [Gateways -> Seq(Ops)]
<1>1. gw(o) \in Gateways /\ lock[gw(o)] \in Seq(Ops) /\ lock[gw(o)] # <<>>
  BY ActorFirst
<1>2. Tail(lock[gw(o)]) \in Seq(Ops)
  BY <1>1
<1>3. Dequeue(o) /\ lock' \in [Gateways -> Seq(Ops)]
  BY <1>1, <1>2 DEF Finish, Dequeue, PlaneInv, TypeOK
<1>4. /\ pc' \in [Ops -> Points] /\ pc'[o] = "done"
      /\ \A x \in Ops \ {o} : pc'[x] = pc[x]
  BY DEF Finish, Goto, PlaneInv, TypeOK, Points
<1> QED  BY <1>3, <1>4 DEF Finish, PlaneInv, TypeOK, Results

LEMMA GotoGoes ==
    ASSUME PlaneInv, NEW o \in Ops, NEW p \in Points, Goto(o, p)
    PROVE  /\ pc' \in [Ops -> Points] /\ pc'[o] = p
           /\ \A x \in Ops \ {o} : pc'[x] = pc[x]
  BY DEF Goto, PlaneInv, TypeOK

\* A step that changes nothing but where the operation is and how it ended.
LEMMA RefuseMoves ==
    ASSUME PlaneInv, NEW o \in Ops, Refuse(o)
    PROVE  Acts(o) /\ TypeOK' /\ OwnMove(o) /\ OwnSound(o)'
<1>1. Acts(o) /\ Finish(o, "refused")
  BY DEF Refuse, Acts
<1>2. /\ gw(o) \in Gateways /\ gw(o)' = gw(o) /\ pc[o] \notin {"idle", "done"}
      /\ pc[o] \notin Establishing
  BY <1>1, ActorFirst DEF Refuse, gw, Establishing
<1>3. /\ pc' \in [Ops -> Points] /\ pc'[o] = "done"
      /\ \A x \in Ops \ {o} : pc'[x] = pc[x]
      /\ result' \in [Ops -> Results]
      /\ Dequeue(o) /\ lock' \in [Gateways -> Seq(Ops)]
  BY <1>1, FinishEnds DEF Results
<1>4. TypeOK'
  BY <1>2, <1>3 DEF Refuse, PlaneInv, TypeOK, Results, tunnelVars, routeVars
<1>5. OwnMove(o)
  BY <1>3 DEF Refuse, OwnMove, tunnelVars
<1>6. OwnSound(o)'
  BY <1>1, <1>2, <1>3, ActorSound DEF Refuse, OwnSound, OpSound, Cleaning, Establishing
<1> QED  BY <1>1, <1>4, <1>5, <1>6

LEMMA ReleaseGives ==
    ASSUME PlaneInv, NEW o \in Ops, Acts(o), Release(gw(o))
    PROVE  /\ reserved' \in [Gateways -> Nat] /\ reserved'[gw(o)] <= stranded[gw(o)]
           /\ \A g \in Gateways \ {gw(o)} : reserved'[g] = reserved[g]
<1>1. gw(o) \in Gateways /\ reserved \in [Gateways -> Nat]
  BY ActorFirst, ActorSound DEF TypeOK
<1>2. /\ reserved[gw(o)] \in Nat /\ stranded[gw(o)] \in Nat
      /\ reserved[gw(o)] <= stranded[gw(o)] + 1
  BY ActorSound
<1>3. reserved' = [reserved EXCEPT ![gw(o)] =
                      IF reserved[gw(o)] > 0 THEN reserved[gw(o)] - 1 ELSE reserved[gw(o)]]
  BY DEF Release
<1> QED  BY <1>1, <1>2, <1>3

LEMMA RollbackExistingMoves ==
    ASSUME PlaneInv, NEW o \in Ops, Acts(o), RollbackExisting(o)
    PROVE  /\ pc' \in [Ops -> Points] /\ pc'[o] \in {"restoring", "unrouting"}
           /\ \A x \in Ops \ {o} : pc'[x] = pc[x] /\ undoing'[x] = undoing[x]
           /\ undoing' \in [Ops -> {"none", "rollback", "compensate"}]
           /\ undoing'[o] = "rollback" /\ errs' \in [Ops -> BOOLEAN]
           /\ reserved' \in [Gateways -> Nat] /\ reserved'[gw(o)] <= stranded[gw(o)]
           /\ \A g \in Gateways \ {gw(o)} : reserved'[g] = reserved[g]
<1>1. ReleaseThrows(gw(o)) \in BOOLEAN
  BY DEF ReleaseThrows
<1>2. \A p \in {"restoring", "unrouting"} : p \in Points
  BY DEF Points, Cleaning
<1>3. PICK p \in {"restoring", "unrouting"} : Goto(o, p)
  BY DEF RollbackExisting
<1>4. /\ pc' \in [Ops -> Points] /\ pc'[o] = p
      /\ \A x \in Ops \ {o} : pc'[x] = pc[x]
  BY <1>2, <1>3, GotoGoes
<1>5. /\ \A x \in Ops \ {o} : undoing'[x] = undoing[x]
      /\ undoing' \in [Ops -> {"none", "rollback", "compensate"}]
      /\ undoing'[o] = "rollback" /\ errs' \in [Ops -> BOOLEAN]
  BY <1>1 DEF RollbackExisting, PlaneInv, TypeOK
<1> QED  BY <1>4, <1>5, ReleaseGives DEF RollbackExisting

\* A step that is the start of a rollback of the recorded application.
LEMMA RollbackExistingSound ==
    ASSUME PlaneInv, NEW o \in Ops, Acts(o), RollbackExisting(o), apps[gw(o)] # None,
           UNCHANGED <<call, prev, plan, tear, result, lock, apps, tunnelVars, routeVars,
                       source, stranded>>
    PROVE  TypeOK' /\ OwnMove(o) /\ OwnSound(o)'
<1>1. gw(o) \in Gateways /\ TypeOK /\ pc[o] \notin {"idle", "done"} /\ OwnSound(o)
  BY ActorFirst, ActorSound
<1>2. /\ pc' \in [Ops -> Points] /\ pc'[o] \in {"restoring", "unrouting"}
      /\ \A x \in Ops \ {o} : pc'[x] = pc[x] /\ undoing'[x] = undoing[x]
      /\ undoing' \in [Ops -> {"none", "rollback", "compensate"}]
      /\ undoing'[o] = "rollback" /\ errs' \in [Ops -> BOOLEAN]
      /\ reserved' \in [Gateways -> Nat] /\ reserved'[gw(o)] <= stranded[gw(o)]
      /\ \A g \in Gateways \ {gw(o)} : reserved'[g] = reserved[g]
  BY RollbackExistingMoves
<1>3. UNCHANGED <<call, prev, plan, tear, result, lock, apps, tunnels, managed, runtime,
                  iface, transition, journal, before, routed, source, stranded>>
  BY DEF tunnelVars, routeVars
<1>4. TypeOK'
  <2>1. \A x \in Ops : pc'[x] = "idle" <=> call'[x] = None
    BY <1>1, <1>2, <1>3 DEF TypeOK
  <2> QED  BY <1>1, <1>2, <1>3, <2>1 DEF TypeOK
<1>5. OwnMove(o)
  BY <1>2, <1>3 DEF OwnMove
<1>6. gw(o)' = gw(o)
  BY <1>3 DEF gw
<1>7. reserved'[gw(o)] <= stranded[gw(o)] + 1
  BY <1>1, <1>2 DEF TypeOK
<1>8. OwnSound(o)'
  BY <1>1, <1>2, <1>3, <1>6, <1>7 DEF OwnSound, OpSound, Cleaning, Establishing
<1> QED  BY <1>4, <1>5, <1>8

LEMMA ApplyStartMoves ==
    ASSUME PlaneInv, NEW o \in Ops, ApplyStart(o)
    PROVE  Acts(o) /\ TypeOK' /\ OwnMove(o) /\ OwnSound(o)'
<1>1. Acts(o)
  BY DEF ApplyStart, Acts
<1>2. /\ gw(o) \in Gateways /\ gw(o)' = gw(o) /\ pc[o] \notin {"idle", "done"}
      /\ pc[o] \notin Establishing /\ OwnSound(o)
  BY <1>1, ActorFirst, ActorSound DEF ApplyStart, local, gw, Establishing
<1>3. PICK p \in {"reverifying", "establishing"} :
         Goto(o, p) /\ (p = "reverifying" <=> apps[gw(o)] # None)
  BY DEF ApplyStart
<1>4. /\ pc' \in [Ops -> Points] /\ pc'[o] = p
      /\ \A x \in Ops \ {o} : pc'[x] = pc[x]
  BY <1>3, GotoGoes DEF Points
<1>5. TypeOK'
  BY <1>2, <1>3, <1>4 DEF ApplyStart, PlaneInv, TypeOK, local, tunnelVars, routeVars
<1>6. OwnMove(o)
  BY <1>3, <1>4 DEF ApplyStart, OwnMove, local, tunnelVars
<1>7. reserved[gw(o)] \in Nat /\ stranded[gw(o)] \in Nat
  BY <1>1, ActorSound
<1>8. OwnSound(o)'
  BY <1>2, <1>3, <1>4, <1>7 DEF ApplyStart, local, OwnSound, OpSound, Cleaning, Establishing
<1> QED  BY <1>1, <1>5, <1>6, <1>8

LEMMA ReverifiedMoves ==
    ASSUME PlaneInv, NEW o \in Ops, NEW b \in BOOLEAN, Reverified(o, b)
    PROVE  Acts(o) /\ TypeOK' /\ OwnMove(o) /\ OwnSound(o)'
<1>1. Acts(o)
  BY DEF Reverified, Acts, Working
<1>2. /\ gw(o) \in Gateways /\ gw(o)' = gw(o) /\ pc[o] \notin {"idle", "done"}
      /\ pc[o] \notin Establishing /\ OwnSound(o) /\ apps[gw(o)] # None
  BY <1>1, ActorFirst, ActorSound DEF Reverified, gw, Establishing, OwnSound, OpSound
<1>3. CASE b
  <2>1. /\ pc' \in [Ops -> Points] /\ pc'[o] = "rereaching"
        /\ \A x \in Ops \ {o} : pc'[x] = pc[x]
    BY <1>3, GotoGoes DEF Points, Reverified
  <2>2. TypeOK'
    BY <1>2, <1>3, <2>1 DEF Reverified, PlaneInv, TypeOK, tunnelVars, routeVars
  <2>3. OwnMove(o)
    BY <1>3, <2>1 DEF Reverified, OwnMove, tunnelVars
  <2>4. OwnSound(o)'
    BY <1>2, <1>3, <2>1 DEF Reverified, OwnSound, OpSound, Cleaning, Establishing
  <2> QED  BY <1>1, <2>2, <2>3, <2>4
<1>4. CASE ~b
  <2>1. RollbackExisting(o) /\ UNCHANGED <<result, lock>>
    BY <1>4 DEF Reverified
  <2> QED  BY <1>1, <1>2, <2>1, RollbackExistingSound DEF Reverified
<1> QED  BY <1>3, <1>4

LEMMA RereachedMoves ==
    ASSUME PlaneInv, NEW o \in Ops, NEW outcome \in {"reachable", "unreachable", "threw"},
           Rereached(o, outcome)
    PROVE  Acts(o) /\ TypeOK' /\ OwnMove(o) /\ OwnSound(o)'
<1>1. Acts(o)
  BY DEF Rereached, Acts, Working
<1>2. /\ gw(o) \in Gateways /\ gw(o)' = gw(o) /\ pc[o] \notin {"idle", "done"}
      /\ pc[o] \notin Establishing /\ OwnSound(o) /\ apps[gw(o)] # None
  BY <1>1, ActorFirst, ActorSound DEF Rereached, gw, Establishing, OwnSound, OpSound
<1>3. CASE outcome # "unreachable"
  <2>1. PICK r \in {"reused", "refused"} : Finish(o, r)
    BY <1>3 DEF Rereached
  <2>2. /\ pc' \in [Ops -> Points] /\ pc'[o] = "done"
        /\ \A x \in Ops \ {o} : pc'[x] = pc[x]
        /\ result' \in [Ops -> Results] /\ Dequeue(o) /\ lock' \in [Gateways -> Seq(Ops)]
    BY <1>1, <2>1, FinishEnds DEF Results
  <2>3. UNCHANGED <<undoing, errs, reserved>>
    BY <1>3 DEF Rereached
  <2>4. TypeOK'
    BY <1>2, <2>2, <2>3 DEF Rereached, PlaneInv, TypeOK, Results, tunnelVars, routeVars
  <2>5. OwnMove(o)
    BY <2>2, <2>3 DEF Rereached, OwnMove, tunnelVars
  <2>6. OwnSound(o)'
    BY <1>2, <2>2, <2>3 DEF Rereached, OwnSound, OpSound, Cleaning, Establishing
  <2> QED  BY <1>1, <2>4, <2>5, <2>6
<1>4. CASE outcome = "unreachable"
  <2>1. RollbackExisting(o) /\ UNCHANGED <<result, lock>>
    BY <1>4 DEF Rereached
  <2> QED  BY <1>1, <1>2, <2>1, RollbackExistingSound DEF Rereached
<1> QED  BY <1>3, <1>4

Exits == {"full", "unsupported", "begun"}

LEMMA EstablishStartMoves ==
    ASSUME PlaneInv, NEW o \in Ops, NEW exit \in Exits, EstablishStart(o, exit)
    PROVE  Acts(o) /\ TypeOK' /\ OwnMove(o) /\ OwnSound(o)'
<1>1. Acts(o)
  BY DEF EstablishStart, Acts, Working
<1>2. /\ gw(o) \in Gateways /\ gw(o)' = gw(o) /\ pc[o] \notin {"idle", "done"}
      /\ OwnSound(o) /\ source # None /\ TypeOK
      /\ reserved[gw(o)] <= stranded[gw(o)]
  BY <1>1, ActorFirst, ActorSound, GatewaySets
     DEF EstablishStart, gw, OwnSound, OpSound, TypeOK, Sources
<1>3. /\ source \in Sources /\ prev \in [Ops -> Sources \cup {None}]
      /\ reserved \in [Gateways -> Nat] /\ stranded \in [Gateways -> Nat]
  BY <1>2 DEF TypeOK
<1>4. CASE exit # "begun"
  <2>1. PICK r \in {"refused", "stranded"} : Finish(o, r)
    BY <1>4 DEF EstablishStart, Exits
  <2>2. /\ pc' \in [Ops -> Points] /\ pc'[o] = "done"
        /\ \A x \in Ops \ {o} : pc'[x] = pc[x]
        /\ result' \in [Ops -> Results] /\ Dequeue(o) /\ lock' \in [Gateways -> Seq(Ops)]
    BY <1>1, <2>1, FinishEnds DEF Results
  <2>3. /\ reserved' \in [Gateways -> Nat] /\ stranded' \in [Gateways -> Nat]
        /\ reserved'[gw(o)] <= stranded'[gw(o)]
        /\ \A g \in Gateways \ {gw(o)} :
              reserved'[g] = reserved[g] /\ stranded'[g] = stranded[g]
    <3>1. \/ UNCHANGED <<reserved, stranded>>
          \/ /\ reserved' = [reserved EXCEPT ![gw(o)] = @ + 1]
             /\ stranded' = [stranded EXCEPT ![gw(o)] = @ + 1]
      BY <1>4 DEF EstablishStart, Exits
    <3> QED  BY <1>2, <1>3, <3>1
  <2>4. UNCHANGED prev
    BY <1>4 DEF EstablishStart, Exits
  <2>5. TypeOK'
    BY <1>2, <2>2, <2>3, <2>4 DEF EstablishStart, TypeOK, Results, tunnelVars, routeVars
  <2>6. OwnMove(o)
    BY <2>2, <2>3, <2>4 DEF EstablishStart, OwnMove, tunnelVars
  <2>7. reserved'[gw(o)] <= stranded'[gw(o)] + 1
    BY <1>2, <2>3
  <2>8. OwnSound(o)'
    BY <1>2, <2>2, <2>3, <2>7 DEF OwnSound, OpSound, Cleaning, Establishing
  <2> QED  BY <1>1, <2>5, <2>6, <2>8
<1>5. CASE exit = "begun"
  <2>1. PICK p \in {"failing", "configuring"} : Goto(o, p)
    BY <1>5 DEF EstablishStart
  <2>2. /\ pc' \in [Ops -> Points] /\ pc'[o] = p
        /\ \A x \in Ops \ {o} : pc'[x] = pc[x]
    BY <2>1, GotoGoes DEF Points, Establishing
  <2>3. /\ reserved' = [reserved EXCEPT ![gw(o)] = @ + 1]
        /\ prev' = [prev EXCEPT ![o] = source]
        /\ UNCHANGED <<result, lock, stranded>>
    BY <1>5 DEF EstablishStart
  <2>4. /\ reserved' \in [Gateways -> Nat] /\ reserved'[gw(o)] <= stranded[gw(o)] + 1
        /\ \A g \in Gateways \ {gw(o)} : reserved'[g] = reserved[g]
    BY <1>2, <1>3, <2>3
  <2>5. /\ prev' \in [Ops -> Sources \cup {None}] /\ prev'[o] # None
        /\ \A x \in Ops \ {o} : prev'[x] = prev[x]
    BY <1>2, <1>3, <2>3
  <2>6. TypeOK'
    BY <1>2, <2>2, <2>3, <2>4, <2>5 DEF EstablishStart, TypeOK, tunnelVars, routeVars
  <2>7. OwnMove(o)
    BY <2>2, <2>3, <2>4, <2>5 DEF EstablishStart, OwnMove, tunnelVars
  <2>8. OwnSound(o)'
    BY <1>2, <2>2, <2>3, <2>4, <2>5 DEF OwnSound, OpSound, Cleaning, Establishing
  <2> QED  BY <1>1, <2>6, <2>7, <2>8
<1> QED  BY <1>4, <1>5 DEF Exits

\* The steps of an establishment that stay within it.
LEMMA WithinMoves ==
    ASSUME PlaneInv, NEW o \in Ops, NEW ok \in BOOLEAN, NEW left \in BOOLEAN,
           Configured(o, ok) \/ Connected(o, ok, left) \/ Verified(o, ok)
    PROVE  Acts(o) /\ TypeOK' /\ OwnMove(o) /\ OwnSound(o)'
<1>1. Acts(o)
  BY DEF Configured, Connected, Verified, Acts, Working
<1>2. /\ gw(o) \in Gateways /\ gw(o)' = gw(o) /\ pc[o] \in Establishing \ {"failing"}
      /\ pc[o] \notin {"idle", "done"} /\ OwnSound(o) /\ TypeOK
      /\ reserved[gw(o)] \in Nat /\ stranded[gw(o)] \in Nat
  BY <1>1, ActorFirst, ActorSound
     DEF Configured, Connected, Verified, gw, local, Establishing
<1>3. PICK p \in Establishing : Goto(o, p)
  BY DEF Configured, Connected, Verified, Establishing
<1>4. /\ pc' \in [Ops -> Points] /\ pc'[o] = p
      /\ \A x \in Ops \ {o} : pc'[x] = pc[x]
  BY <1>3, GotoGoes DEF Points
<1>5. pc'[o] \notin {"idle", "queued", "done"}
  BY <1>4 DEF Establishing
<1>6. CASE Configured(o, ok)
  <2>1. pc'[o] \in {"connecting", "failing"} /\ (pc'[o] = "connecting" => o \in tunnels')
    BY <1>2, <1>6 DEF Configured, Goto, TypeOK
  <2>2. TypeOK'
    BY <1>2, <1>4, <1>5, <1>6 DEF Configured, TypeOK, local, routeVars
  <2>3. OwnMove(o)
    BY <1>4, <1>5, <1>6 DEF Configured, OwnMove, local
  <2>4. OwnSound(o)'
    BY <1>2, <1>4, <1>6, <2>1
       DEF Configured, local, OwnSound, OpSound, Cleaning, Establishing
  <2> QED  BY <1>1, <2>2, <2>3, <2>4
<1>7. CASE Connected(o, ok, left)
  <2>1. pc'[o] \in {"verifying", "failing"} /\ o \in tunnels
    BY <1>2, <1>7 DEF Connected, Goto, TypeOK, OwnSound, OpSound
  <2>2. TypeOK'
    BY <1>2, <1>4, <1>5, <1>7, <2>1 DEF Connected, TypeOK, local, routeVars
  <2>3. OwnMove(o)
    BY <1>4, <1>5, <1>7 DEF Connected, OwnMove, local
  <2>4. OwnSound(o)'
    BY <1>2, <1>4, <1>7, <2>1
       DEF Connected, local, OwnSound, OpSound, Cleaning, Establishing
  <2> QED  BY <1>1, <2>2, <2>3, <2>4
<1>8. CASE Verified(o, ok)
  <2>1. /\ pc'[o] \in {"routing", "failing"}
        /\ plan' \in [Ops -> Ops \cup {None}] /\ transition' \in Ops \cup {None}
        /\ pc'[o] = "routing" => plan'[o] # None
        /\ \A x \in Ops \ {o} : plan'[x] = plan[x]
    <3>1. transition \in Ops \cup {None} /\ plan \in [Ops -> Ops \cup {None}]
          /\ pc \in [Ops -> Points] /\ o # None
      BY <1>2, GatewaySets DEF TypeOK
    <3>2. CASE ok
      <4>1. PICK owner \in Ops : /\ plan' = [plan EXCEPT ![o] = owner]
                                 /\ transition' = owner /\ Goto(o, "routing")
        BY <1>8, <3>1, <3>2 DEF Verified
      <4>2. owner # None
        BY GatewaySets
      <4> QED  BY <3>1, <4>1, <4>2 DEF Goto
    <3>3. CASE ~ok
      BY <1>2, <1>8, <3>1, <3>3 DEF Verified, Goto, OwnSound, OpSound
    <3> QED  BY <3>2, <3>3
  <2>2. TypeOK'
    BY <1>2, <1>4, <1>5, <1>8, <2>1 DEF Verified, TypeOK, tunnelVars
  <2>3. OwnMove(o)
    BY <1>4, <1>5, <1>8, <2>1 DEF Verified, OwnMove, tunnelVars
  <2>4. OwnSound(o)'
    BY <1>2, <1>4, <1>8, <2>1 DEF Verified, OwnSound, OpSound, Cleaning, Establishing
  <2> QED  BY <1>1, <2>2, <2>3, <2>4
<1> QED  BY <1>6, <1>7, <1>8

\* A commit takes every operation that awaited its plan along.
LEMMA RoutedMoves ==
    ASSUME PlaneInv, NEW o \in Ops, NEW ok \in BOOLEAN, NEW left \in BOOLEAN,
           Routed(o, ok, left)
    PROVE  Acts(o) /\ TypeOK' /\ OwnMove(o) /\ OwnSound(o)'
<1>1. Acts(o)
  BY DEF Routed, Acts, Working
<1>2. /\ gw(o) \in Gateways /\ gw(o)' = gw(o) /\ OwnSound(o) /\ TypeOK
      /\ reserved[gw(o)] \in Nat /\ stranded[gw(o)] \in Nat /\ pc[o] = "routing"
  BY <1>1, ActorFirst, ActorSound DEF Routed, gw, local
<1>3. /\ pc' \in [Ops -> Points] /\ pc'[o] \in {"reaching", "failing"}
      /\ \A x \in Ops : \/ pc'[x] = pc[x]
                        \/ pc[x] = "routing" /\ pc'[x] \in {"reaching", "failing"}
  BY <1>2 DEF Routed, TypeOK, Points, Establishing
<1>4. transition' = None /\ journal' \subseteq Ops /\ routed' \in BOOLEAN
      /\ before' \in [Ops -> BOOLEAN]
  <2>1. journal \subseteq Ops /\ routed \in BOOLEAN /\ before \in [Ops -> BOOLEAN]
    BY <1>2 DEF TypeOK
  <2>2. \/ /\ journal' = journal \cup {o} /\ routed' = TRUE
           /\ before' = [before EXCEPT ![o] = routed]
        \/ UNCHANGED <<journal, before, routed>>
    BY DEF Routed
  <2>3. before' \in [Ops -> BOOLEAN]
    BY <2>1, <2>2
  <2>4. journal' \subseteq Ops /\ routed' \in BOOLEAN
    BY <2>1, <2>2
  <2> QED  BY <2>3, <2>4 DEF Routed
<1>5. TypeOK'
  <2>1. call' = call /\ \A x \in Ops : pc'[x] = "idle" <=> call[x] = None
    BY <1>2, <1>3 DEF Routed, TypeOK, local
  <2>2. UNCHANGED <<call, prev, plan, undoing, tear, errs, result, lock, apps, reserved,
                    stranded, tunnels, managed, runtime, iface, source>>
    BY DEF Routed, local, tunnelVars
  <2> QED  BY <1>2, <1>3, <1>4, <2>1, <2>2 DEF TypeOK
<1>6. OwnMove(o)
  BY <1>3 DEF Routed, OwnMove, local, tunnelVars
<1>7. OwnSound(o)'
  BY <1>2, <1>3 DEF Routed, local, OwnSound, OpSound, Cleaning, Establishing
<1> QED  BY <1>1, <1>5, <1>6, <1>7

LEMMA EstablishMoves ==
    ASSUME PlaneInv, NEW o \in Ops, Acts(o), Establish(o), prev[o] # None, plan[o] # None
    PROVE  /\ pc' \in [Ops -> Points] /\ pc'[o] = "done"
           /\ \A x \in Ops \ {o} : pc'[x] = pc[x]
           /\ result' \in [Ops -> Results] /\ Dequeue(o)
           /\ lock' \in [Gateways -> Seq(Ops)]
           /\ apps' \in [Gateways -> Application \cup {None}] /\ apps'[gw(o)] # None
           /\ \A g \in Gateways \ {gw(o)} : apps'[g] = apps[g]
<1>1. gw(o) \in Gateways /\ TypeOK
  BY ActorFirst, ActorSound
<1>2. PICK r \in Application : apps' = [apps EXCEPT ![gw(o)] = r]
  BY <1>1 DEF Establish, TypeOK, Application
<1>3. r # None
  BY NoneIsNoRecord
<1>4. /\ apps' \in [Gateways -> Application \cup {None}] /\ apps'[gw(o)] # None
      /\ \A g \in Gateways \ {gw(o)} : apps'[g] = apps[g]
  BY <1>1, <1>2, <1>3 DEF TypeOK
<1>5. Finish(o, "established")
  BY DEF Establish
<1> QED  BY <1>4, <1>5, FinishEnds DEF Results

\* The end of an establishment: reached, and switched.
LEMMA ReachedMoves ==
    ASSUME PlaneInv, NEW o \in Ops, NEW b \in BOOLEAN,
           NEW how \in {"switched", "rejected", "late"},
           Reached(o, b) \/ Switched(o, how)
    PROVE  Acts(o) /\ TypeOK' /\ OwnMove(o) /\ OwnSound(o)'
<1>1. Acts(o)
  BY DEF Reached, Switched, Acts, Working
<1>2. /\ gw(o) \in Gateways /\ gw(o)' = gw(o) /\ OwnSound(o) /\ TypeOK
      /\ pc[o] \in Establishing /\ prev[o] # None /\ plan[o] # None
      /\ pc[o] \notin {"idle", "done"}
      /\ reserved[gw(o)] \in Nat /\ stranded[gw(o)] \in Nat
  BY <1>1, ActorFirst, ActorSound DEF Reached, Switched, gw, OwnSound, OpSound, Establishing
<1>3. source' \in Sources
  <2>1. source \in Sources /\ gw(o) \in Sources
    BY <1>2 DEF TypeOK, Sources
  <2> QED  BY <2>1 DEF Reached, Switched
<1>4. UNCHANGED <<call, prev, plan, undoing, tear, errs, reserved, stranded, tunnels,
                  managed, runtime, iface, transition, journal, before, routed>>
  BY DEF Reached, Switched, tunnelVars, routeVars
<1>5. CASE Establish(o)
  <2>1. /\ pc' \in [Ops -> Points] /\ pc'[o] = "done"
        /\ \A x \in Ops \ {o} : pc'[x] = pc[x]
        /\ result' \in [Ops -> Results] /\ Dequeue(o)
        /\ lock' \in [Gateways -> Seq(Ops)]
        /\ apps' \in [Gateways -> Application \cup {None}] /\ apps'[gw(o)] # None
        /\ \A g \in Gateways \ {gw(o)} : apps'[g] = apps[g]
    BY <1>1, <1>2, <1>5, EstablishMoves
  <2>2. TypeOK'
    BY <1>2, <1>3, <1>4, <2>1 DEF TypeOK, Results
  <2>3. OwnMove(o)
    BY <1>4, <2>1 DEF OwnMove
  <2>4. OwnSound(o)'
    BY <1>2, <1>4, <2>1 DEF OwnSound, OpSound, Cleaning, Establishing
  <2> QED  BY <1>1, <2>2, <2>3, <2>4
<1>6. CASE ~Establish(o)
  <2>1. PICK p \in {"switching", "failing"} : Goto(o, p) /\ UNCHANGED <<result, lock, apps>>
    BY <1>6 DEF Reached, Switched
  <2>2. /\ pc' \in [Ops -> Points] /\ pc'[o] = p
        /\ \A x \in Ops \ {o} : pc'[x] = pc[x]
    BY <2>1, GotoGoes DEF Points, Establishing
  <2>3. TypeOK'
    BY <1>2, <1>3, <1>4, <2>1, <2>2 DEF TypeOK
  <2>4. OwnMove(o)
    BY <1>4, <2>1, <2>2 DEF OwnMove
  <2>5. OwnSound(o)'
    BY <1>2, <1>4, <2>1, <2>2 DEF OwnSound, OpSound, Cleaning, Establishing
  <2> QED  BY <1>1, <2>3, <2>4, <2>5
<1> QED  BY <1>5, <1>6

\* The start of an undo.
LEMMA CompensateStartMoves ==
    ASSUME PlaneInv, NEW o \in Ops, CompensateStart(o)
    PROVE  Acts(o) /\ TypeOK' /\ OwnMove(o) /\ OwnSound(o)'
<1>1. Acts(o)
  BY DEF CompensateStart, Acts, Working
<1>2. /\ gw(o) \in Gateways /\ gw(o)' = gw(o) /\ OwnSound(o) /\ TypeOK
      /\ pc[o] = "failing"
  BY <1>1, ActorFirst, ActorSound DEF CompensateStart, gw
<1>3. PICK p \in {"unrouting", "tearing"} : Goto(o, p) /\ (p = "unrouting" => plan[o] # None)
  BY DEF CompensateStart
<1>4. /\ pc' \in [Ops -> Points] /\ pc'[o] = p
      /\ \A x \in Ops \ {o} : pc'[x] = pc[x]
  BY <1>3, GotoGoes DEF Points, Cleaning
<1>5. /\ reserved' \in [Gateways -> Nat] /\ reserved'[gw(o)] <= stranded[gw(o)]
      /\ \A g \in Gateways \ {gw(o)} : reserved'[g] = reserved[g]
  BY <1>1, ReleaseGives DEF CompensateStart
<1>6. /\ undoing' \in [Ops -> {"none", "rollback", "compensate"}]
      /\ undoing'[o] = "compensate" /\ errs' \in [Ops -> BOOLEAN]
      /\ \A x \in Ops \ {o} : undoing'[x] = undoing[x]
  BY <1>2 DEF CompensateStart, TypeOK, ReleaseThrows
<1>7. TypeOK'
  BY <1>2, <1>4, <1>5, <1>6 DEF CompensateStart, TypeOK, tunnelVars, routeVars
<1>8. OwnMove(o)
  BY <1>4, <1>5, <1>6 DEF CompensateStart, OwnMove, tunnelVars
<1>9. reserved'[gw(o)] <= stranded[gw(o)] + 1
  BY <1>2, <1>5 DEF TypeOK
<1>10. OwnSound(o)'
  BY <1>2, <1>3, <1>4, <1>5, <1>6, <1>9
     DEF CompensateStart, OwnSound, OpSound, Cleaning, Establishing
<1> QED  BY <1>1, <1>7, <1>8, <1>10

LEMMA RollbackStartMoves ==
    ASSUME PlaneInv, NEW o \in Ops, RollbackStart(o)
    PROVE  Acts(o) /\ TypeOK' /\ OwnMove(o) /\ OwnSound(o)'
<1>1. Acts(o)
  BY DEF RollbackStart, Acts
<1>2. /\ gw(o) \in Gateways /\ gw(o)' = gw(o) /\ pc[o] \notin {"idle", "done"}
      /\ pc[o] \notin Establishing /\ OwnSound(o) /\ TypeOK
  BY <1>1, ActorFirst, ActorSound DEF RollbackStart, gw, Establishing
<1>3. CASE apps[gw(o)] = None
  <2>1. Finish(o, "rolledback") /\ UNCHANGED <<undoing, errs, reserved>>
    BY <1>3 DEF RollbackStart
  <2>2. /\ pc' \in [Ops -> Points] /\ pc'[o] = "done"
        /\ \A x \in Ops \ {o} : pc'[x] = pc[x]
        /\ result' \in [Ops -> Results] /\ Dequeue(o) /\ lock' \in [Gateways -> Seq(Ops)]
    BY <1>1, <2>1, FinishEnds DEF Results
  <2>3. TypeOK'
    BY <1>2, <2>1, <2>2 DEF RollbackStart, TypeOK, Results, tunnelVars, routeVars
  <2>4. OwnMove(o)
    BY <2>1, <2>2 DEF RollbackStart, OwnMove, tunnelVars
  <2>5. OwnSound(o)'
    BY <1>2, <2>1, <2>2 DEF RollbackStart, OwnSound, OpSound, Cleaning, Establishing
  <2> QED  BY <1>1, <2>3, <2>4, <2>5
<1>4. CASE apps[gw(o)] # None
  <2>1. RollbackExisting(o) /\ UNCHANGED <<result, lock>>
    BY <1>4 DEF RollbackStart
  <2> QED  BY <1>1, <1>2, <1>4, <2>1, RollbackExistingSound DEF RollbackStart
<1> QED  BY <1>3, <1>4

\* The steps of an undo, its source and its route.
LEMMA UndoStepMoves ==
    ASSUME PlaneInv, NEW o \in Ops, NEW b \in BOOLEAN,
           NEW how \in {"switched", "rejected", "late"},
           Restored(o, how) \/ Unrouted(o, b)
    PROVE  Acts(o) /\ TypeOK' /\ OwnMove(o) /\ OwnSound(o)'
<1>1. Acts(o)
  BY DEF Restored, Unrouted, Acts, Working
<1>2. /\ gw(o) \in Gateways /\ gw(o)' = gw(o) /\ OwnSound(o) /\ TypeOK
      /\ pc[o] \in {"restoring", "unrouting"}
  BY <1>1, ActorFirst, ActorSound DEF Restored, Unrouted, gw
<1>3. PICK p \in {"unrouting", "tearing"} :
         Goto(o, p) /\ (p = "unrouting" => pc[o] = "restoring")
  BY DEF Restored, Unrouted
<1>4. /\ pc' \in [Ops -> Points] /\ pc'[o] = p
      /\ \A x \in Ops \ {o} : pc'[x] = pc[x]
  BY <1>3, GotoGoes DEF Points, Cleaning
<1>5. UNCHANGED <<call, prev, plan, undoing, tear, result, lock, apps, reserved,
                  stranded, tunnels, managed, runtime, iface, transition, before>>
  BY DEF Restored, Unrouted, tunnelVars, routeVars
<1>6. errs' \in [Ops -> BOOLEAN]
  <2>1. PICK e \in BOOLEAN : errs' = [errs EXCEPT ![o] = @ \/ e]
    <3>1. (how # "switched") \in BOOLEAN /\ (~b) \in BOOLEAN
      OBVIOUS
    <3> QED  BY <3>1 DEF Restored, Unrouted
  <2> QED  BY <1>2, <2>1 DEF TypeOK
<1>7. source' \in Sources
  <2>1. CASE Restored(o, how)
    <3>1. apps[gw(o)] \in Application
      BY <1>2, <2>1 DEF Restored, OwnSound, OpSound, TypeOK
    <3> QED  BY <1>2, <2>1, <3>1 DEF Restored, TypeOK, Application
  <2>2. CASE Unrouted(o, b)
    BY <1>2, <2>2 DEF Unrouted, TypeOK
  <2> QED  BY <2>1, <2>2
<1>8. journal' \subseteq Ops /\ routed' \in BOOLEAN
  <2>1. CASE Restored(o, how)
    BY <1>2, <2>1 DEF Restored, routeVars, TypeOK
  <2>2. CASE Unrouted(o, b)
    <3>1. b => PlanOf(o) \in Ops
      BY <1>2, <2>2 DEF Unrouted, TypeOK
    <3>2. /\ journal' \subseteq journal
          /\ routed' = (IF b THEN before[PlanOf(o)] ELSE routed)
      BY <2>2 DEF Unrouted
    <3>3. before \in [Ops -> BOOLEAN] /\ routed \in BOOLEAN /\ journal \subseteq Ops
      BY <1>2 DEF TypeOK
    <3> HIDE DEF PlanOf
    <3>4. routed' \in BOOLEAN
      BY <3>1, <3>2, <3>3
    <3> QED  BY <3>2, <3>3, <3>4
  <2> QED  BY <2>1, <2>2
<1>9. TypeOK'
  BY <1>2, <1>4, <1>5, <1>6, <1>7, <1>8 DEF TypeOK
<1>10. OwnMove(o)
  BY <1>4, <1>5 DEF OwnMove
<1>11. OwnSound(o)'
  BY <1>2, <1>3, <1>4, <1>5 DEF OwnSound, OpSound, Cleaning, Establishing
<1> QED  BY <1>1, <1>9, <1>10, <1>11

\* Its end: it drops the application or keeps it, and ends or goes on.
LEMMA EndUndoMoves ==
    ASSUME PlaneInv, NEW o \in Ops, Acts(o), NEW failed \in BOOLEAN, EndUndo(o, failed),
           pc[o] \in {"tearing", "disconnecting"}
    PROVE  /\ pc' \in [Ops -> Points] /\ pc'[o] \in {"done", "establishing"}
           /\ \A x \in Ops \ {o} : pc'[x] = pc[x]
           /\ errs' \in [Ops -> BOOLEAN]
           /\ result' \in [Ops -> Results] /\ lock' \in [Gateways -> Seq(Ops)]
           /\ apps' \in [Gateways -> Application \cup {None}]
           /\ \A g \in Gateways \ {gw(o)} : apps'[g] = apps[g]
           /\ \/ lock' = lock /\ pc'[o] = "establishing"
              \/ Dequeue(o) /\ pc'[o] = "done"
<1>1. gw(o) \in Gateways /\ TypeOK
  BY ActorFirst, ActorSound
<1>2. errs' \in [Ops -> BOOLEAN]
  BY <1>1 DEF EndUndo, TypeOK
<1>3. /\ apps' \in [Gateways -> Application \cup {None}]
      /\ \A g \in Gateways \ {gw(o)} : apps'[g] = apps[g]
  BY <1>1 DEF EndUndo, TypeOK
<1>4. CASE Goto(o, "establishing") /\ UNCHANGED <<result, lock>>
  <2>1. /\ pc' \in [Ops -> Points] /\ pc'[o] = "establishing"
        /\ \A x \in Ops \ {o} : pc'[x] = pc[x]
    BY <1>4, GotoGoes DEF Points
  <2> QED  BY <1>1, <1>2, <1>3, <1>4, <2>1 DEF TypeOK, Results
<1>5. CASE \E r \in Results : Finish(o, r)
  BY <1>2, <1>3, <1>5, FinishEnds
<1>6. \/ Goto(o, "establishing") /\ UNCHANGED <<result, lock>>
      \/ \E r \in Results : Finish(o, r)
  BY DEF EndUndo, Results
<1> QED  BY <1>4, <1>5, <1>6

LEMMA TeardownMoves ==
    ASSUME PlaneInv, NEW o \in Ops, NEW deleted \in BOOLEAN,
           TeardownStart(o) \/ TeardownDone(o, deleted)
    PROVE  Acts(o) /\ TypeOK' /\ OwnMove(o) /\ OwnSound(o)'
<1>1. Acts(o)
  BY DEF TeardownStart, TeardownDone, Acts, Working
<1>2. /\ gw(o) \in Gateways /\ gw(o)' = gw(o) /\ OwnSound(o) /\ TypeOK
      /\ pc[o] \in {"tearing", "disconnecting"}
  BY <1>1, ActorFirst, ActorSound DEF TeardownStart, TeardownDone, gw
<1>3. /\ undoing[o] # "none" /\ reserved[gw(o)] <= stranded[gw(o)]
  BY <1>2 DEF OwnSound, OpSound, Cleaning
<1>4. UNCHANGED <<call, prev, plan, undoing, reserved, stranded, tunnels, transition,
                  journal, before, source>>
  BY DEF TeardownStart, TeardownDone, tunnelVars, routeVars
<1>5. /\ runtime' \subseteq tunnels' /\ managed' \in tunnels' \cup {None}
      /\ iface' \in tunnels' \cup {None} /\ routed' \in BOOLEAN
      /\ tear' \in [Ops -> Ops \cup {None}]
      /\ \A x \in Ops \ {o} : tear'[x] = tear[x]
  <2>1. CASE TeardownStart(o)
    BY <1>2, <2>1 DEF TeardownStart, TypeOK, tunnelVars, routeVars
  <2>2. CASE TeardownDone(o, deleted)
    BY <1>2, <2>2 DEF TeardownDone, TypeOK
  <2> QED  BY <2>1, <2>2
<1>6. CASE \E f \in BOOLEAN : EndUndo(o, f)
  <2>1. /\ pc' \in [Ops -> Points] /\ pc'[o] \in {"done", "establishing"}
        /\ \A x \in Ops \ {o} : pc'[x] = pc[x]
        /\ errs' \in [Ops -> BOOLEAN]
        /\ result' \in [Ops -> Results] /\ lock' \in [Gateways -> Seq(Ops)]
        /\ apps' \in [Gateways -> Application \cup {None}]
        /\ \A g \in Gateways \ {gw(o)} : apps'[g] = apps[g]
        /\ \/ lock' = lock /\ pc'[o] = "establishing"
           \/ Dequeue(o) /\ pc'[o] = "done"
    BY <1>1, <1>2, <1>6, EndUndoMoves
  <2>2. TypeOK'
    BY <1>2, <1>4, <1>5, <2>1 DEF TypeOK, Results
  <2>3. OwnMove(o)
    BY <1>4, <1>5, <2>1 DEF OwnMove
  <2>4. OwnSound(o)'
    BY <1>2, <1>3, <1>4, <2>1 DEF OwnSound, OpSound, Cleaning, Establishing
  <2> QED  BY <1>1, <2>2, <2>3, <2>4
<1>7. CASE Goto(o, "disconnecting") /\ TeardownStart(o) /\ managed # None
           /\ UNCHANGED <<errs, apps, result, lock>>
           /\ tear' = [tear EXCEPT ![o] = managed]
  <2>1. /\ pc' \in [Ops -> Points] /\ pc'[o] = "disconnecting"
        /\ \A x \in Ops \ {o} : pc'[x] = pc[x]
    BY <1>7, GotoGoes DEF Points, Cleaning
  <2>2. tear'[o] # None
    BY <1>2, <1>7 DEF TypeOK
  <2>3. TypeOK'
    <3>1. \A x \in Ops : pc'[x] = "idle" <=> call'[x] = None
      BY <1>2, <1>4, <2>1 DEF TypeOK
    <3> QED  BY <1>2, <1>4, <1>5, <1>7, <2>1, <3>1 DEF TypeOK
  <2>4. OwnMove(o)
    BY <1>4, <1>5, <1>7, <2>1 DEF OwnMove
  <2>5. OwnSound(o)'
    BY <1>2, <1>3, <1>4, <1>7, <2>1, <2>2 DEF OwnSound, OpSound, Cleaning, Establishing
  <2> QED  BY <1>1, <2>3, <2>4, <2>5
<1>8. \/ \E f \in BOOLEAN : EndUndo(o, f)
      \/ /\ Goto(o, "disconnecting") /\ TeardownStart(o) /\ managed # None
         /\ UNCHANGED <<errs, apps, result, lock>>
         /\ tear' = [tear EXCEPT ![o] = managed]
  BY DEF TeardownStart, TeardownDone
<1> QED  BY <1>6, <1>7, <1>8

\* A call goes to the end of the queue of its gateway.
LEMMA InvokeKeeps ==
    ASSUME PlaneInv, NEW o \in Ops, NEW c \in Call, Invoke(o, c)
    PROVE  PlaneInv'
<1>1. /\ c.gateway \in Gateways /\ c # None /\ TypeOK /\ pc[o] = "idle"
  BY NoneIsNoRecord DEF Call, Invoke, PlaneInv
<1>2. /\ pc' \in [Ops -> Points] /\ pc'[o] = "queued"
      /\ \A x \in Ops \ {o} : pc'[x] = pc[x]
  BY GotoGoes DEF Invoke, Points
<1>3. /\ call' \in [Ops -> Call \cup {None}] /\ call'[o] = c
      /\ \A x \in Ops \ {o} : call'[x] = call[x]
  BY <1>1 DEF Invoke, TypeOK
<1>4. /\ lock' = [lock EXCEPT ![c.gateway] = Append(@, o)]
      /\ lock \in [Gateways -> Seq(Ops)]
  BY <1>1 DEF Invoke, Enqueue, TypeOK
<1>5. UNCHANGED <<prev, plan, undoing, tear, errs, result, apps, reserved, stranded,
                  tunnels, managed, runtime, iface, transition, journal, before, routed, source>>
  BY DEF Invoke, tunnelVars, routeVars
<1>6. TypeOK'
  <2>1. lock' \in [Gateways -> Seq(Ops)]
    BY <1>1, <1>4
  <2>2. \A x \in Ops : pc'[x] = "idle" <=> call'[x] = None
    BY <1>1, <1>2, <1>3 DEF TypeOK
  <2> QED  BY <1>1, <1>2, <1>3, <1>5, <2>1, <2>2 DEF TypeOK
<1>7. \A x \in Ops \ {o} : gw(x)' = gw(x)
  BY <1>3 DEF gw
<1>8. ASSUME NEW x \in Ops \ {o}
      PROVE  Queued(x)' /\ OpSound(x)'
  <2>1. OpSound(x)'
    BY <1>2, <1>5, <1>7 DEF PlaneInv, OpSound
  <2>2. Queued(x) /\ pc'[x] = pc[x] /\ gw(x)' = gw(x)
    BY <1>2, <1>7 DEF PlaneInv
  <2>3. CASE pc[x] \in {"idle", "done"}
    BY <2>1, <2>2, <2>3 DEF Queued, Working
  <2>4. CASE pc[x] \notin {"idle", "done"}
    <3>1. gw(x) \in Gateways /\ lock[gw(x)] \in Seq(Ops)
      BY <1>1, <2>4 DEF TypeOK, gw, Call
    <3>2. \/ lock'[gw(x)] = lock[gw(x)]
          \/ lock'[gw(x)] = Append(lock[gw(x)], o)
      BY <1>4, <3>1
    <3>3. CASE lock'[gw(x)] = lock[gw(x)]
      BY <2>1, <2>2, <3>3 DEF Queued, Working
    <3>4. CASE lock'[gw(x)] = Append(lock[gw(x)], o)
      <4>1. \A i \in DOMAIN lock[gw(x)] :
               i \in DOMAIN lock'[gw(x)] /\ lock'[gw(x)][i] = lock[gw(x)][i]
        BY <3>1, <3>4
      <4>2. lock[gw(x)] # <<>> =>
               lock'[gw(x)] # <<>> /\ Head(lock'[gw(x)]) = Head(lock[gw(x)])
        BY <3>1, <3>4
      <4> QED  BY <2>1, <2>2, <4>1, <4>2 DEF Queued, Working
    <3> QED  BY <3>2, <3>3, <3>4
  <2> QED  BY <2>1, <2>3, <2>4
<1>9. Queued(o)' /\ OpSound(o)'
  <2>1. gw(o)' = c.gateway
    BY <1>3 DEF gw
  <2>2. lock'[c.gateway] = Append(lock[c.gateway], o) /\ lock[c.gateway] \in Seq(Ops)
    BY <1>1, <1>4
  <2>3. \E i \in DOMAIN lock'[c.gateway] : lock'[c.gateway][i] = o
    <3>1. Len(lock[c.gateway]) + 1 \in DOMAIN lock'[c.gateway]
          /\ lock'[c.gateway][Len(lock[c.gateway]) + 1] = o
      BY <2>2
    <3> QED  BY <3>1
  <2>4. Queued(o)'
    BY <1>2, <2>1, <2>3 DEF Queued, Working
  <2> QED  BY <1>2, <2>4 DEF OpSound, Cleaning, Establishing
<1>10. CapacityIsBacked'
  <2>1. \A x \in Ops : pc[x] \in Establishing => pc'[x] \in Establishing /\ gw(x)' = gw(x)
    BY <1>1, <1>2, <1>7 DEF Establishing
  <2> QED  BY <1>5, <2>1 DEF PlaneInv, CapacityIsBacked, Backed
<1> QED  BY <1>6, <1>8, <1>9, <1>10 DEF PlaneInv

LEMMA OpStepMoves ==
    ASSUME PlaneInv, NEW o \in Ops, OpStep(o)
    PROVE  Acts(o) /\ TypeOK' /\ OwnMove(o) /\ OwnSound(o)'
<1>1. CASE Refuse(o) \/ ApplyStart(o) \/ CompensateStart(o) \/ RollbackStart(o)
  BY <1>1, RefuseMoves, ApplyStartMoves, CompensateStartMoves, RollbackStartMoves
<1>2. CASE TeardownStart(o) \/ \E b \in BOOLEAN : TeardownDone(o, b)
  <2>1. TRUE \in BOOLEAN
    OBVIOUS
  <2> QED  BY <1>2, <2>1, TeardownMoves
<1>3. CASE (\E b \in BOOLEAN : Reverified(o, b)) \/ \E exit \in Exits : EstablishStart(o, exit)
  BY <1>3, ReverifiedMoves, EstablishStartMoves
<1>4. CASE \E b \in BOOLEAN : Configured(o, b) \/ Verified(o, b)
  BY <1>4, WithinMoves
<1>5. CASE \E ok, left \in BOOLEAN : Connected(o, ok, left) \/ Routed(o, ok, left)
  BY <1>5, WithinMoves, RoutedMoves
<1>6. CASE (\E b \in BOOLEAN : Reached(o, b))
           \/ \E how \in {"switched", "rejected", "late"} : Switched(o, how)
  BY <1>6, ReachedMoves
<1>7. CASE (\E b \in BOOLEAN : Unrouted(o, b))
           \/ \E how \in {"switched", "rejected", "late"} : Restored(o, how)
  BY <1>7, UndoStepMoves
<1>8. CASE \E outcome \in {"reachable", "unreachable", "threw"} : Rereached(o, outcome)
  BY <1>8, RereachedMoves
<1> QED  BY <1>1, <1>2, <1>3, <1>4, <1>5, <1>6, <1>7, <1>8 DEF OpStep, Exits

-----------------------------------------------------------------------------
(* The theorems, however operations interleave. *)

LEMMA PlaneStep == PlaneInv /\ [Next]_vars => PlaneInv'
<1> SUFFICES ASSUME PlaneInv, [Next]_vars
             PROVE  PlaneInv'
  OBVIOUS
<1>1. CASE \E o \in Ops : OpStep(o)
  BY <1>1, OpStepMoves, OwnMoveKeeps
<1>2. CASE \E o \in Ops : \E c \in Call : Invoke(o, c)
  BY <1>2, InvokeKeeps
<1>3. CASE UNCHANGED vars
  <2>1. UNCHANGED <<pc, call, prev, plan, undoing, tear, errs, result, lock, apps, reserved,
                    stranded, tunnels, managed, runtime, iface, transition, journal, before,
                    routed, source>>
    BY <1>3 DEF vars, local, tunnelVars, routeVars
  <2>2. TypeOK' /\ CapacityIsBacked'
    BY <2>1 DEF PlaneInv, TypeOK, CapacityIsBacked, Backed, gw
  <2>3. \A o \in Ops : Queued(o)' /\ OpSound(o)'
    BY <2>1 DEF PlaneInv, Queued, OpSound, Working, gw
  <2> QED  BY <2>2, <2>3 DEF PlaneInv
<1> QED  BY <1>1, <1>2, <1>3 DEF Next

LEMMA PlaneInit == Init => PlaneInv
<1> SUFFICES ASSUME Init
             PROVE  PlaneInv
  OBVIOUS
<1>1. \A o \in Ops : pc[o] = "idle"
  BY DEF Init
<1>2. TypeOK
  <2>1. \A g \in Gateways : lock[g] \in Seq(Ops)
    BY DEF Init
  <2>2. lock \in [Gateways -> Seq(Ops)] /\ 0 \in Nat
    BY <2>1 DEF Init
  <2> QED  BY <2>2 DEF Init, TypeOK, Points, Sources
<1>3. CapacityIsBacked
  BY DEF Init, CapacityIsBacked
<1>4. \A o \in Ops : Queued(o) /\ OpSound(o)
  BY <1>1 DEF Queued, Working, OpSound, Cleaning, Establishing
<1> QED  BY <1>2, <1>3, <1>4 DEF PlaneInv

LEMMA PlaneInductive == Spec => []PlaneInv
<1> QED  BY PlaneInit, PlaneStep, PTL DEF Spec

\* Capacity leaks only where an establishment throws between its reservation and
\* its compensating try: no other unit is reserved twice, or left reserved without
\* an application or an establishment, however many operations run.
THEOREM CapacityNeverLeaks == Spec => []CapacityIsBacked
<1>1. PlaneInv => CapacityIsBacked
  BY DEF PlaneInv
<1> QED  BY <1>1, PlaneInductive, PTL

-----------------------------------------------------------------------------
(* The steps, one operation at a time. *)

LiveTunnel == \A t \in runtime : managed = t /\ iface = t

\* What a step of the only busy operation has to see to.
OwnTunnel(o) ==
    /\ LiveTunnel /\ TunnelSound(o)
    /\ runtime # {} /\ pc[o] \notin Unroutable => routed

\* A receipt the step of o gives.
Receipt(o) ==
    pc'[o] = "done" /\ result'[o] \in {"established", "reused"} =>
       /\ apps'[gw(o)] # None
       /\ managed' = apps'[gw(o)].tunnel /\ apps'[gw(o)].tunnel \in runtime'
       /\ iface' = apps'[gw(o)].tunnel
       /\ routed'

LEMMA AloneFacts ==
    ASSUME PlaneInv, SerialInv, NEW o \in Ops, Acts(o)
    PROVE  /\ OwnTunnel(o) /\ TypeOK
           /\ pc \in [Ops -> Points] /\ pc[o] \notin {"idle", "done"}
           /\ \A x \in Ops \ {o} : pc[x] \in {"idle", "done"}
           /\ managed = None => runtime = {}
<1>1. TypeOK /\ pc[o] \notin {"idle", "done"}
  BY ActorFirst DEF PlaneInv
<1>2. \A x \in Ops \ {o} : pc[x] \in {"idle", "done"}
  BY <1>1 DEF SerialInv, Busy
<1>3. managed = None => runtime = {}
  BY <1>1, GatewaySets DEF SerialInv, TypeOK
<1>4. OwnTunnel(o)
  BY <1>2 DEF SerialInv, OwnTunnel, LiveTunnel, Unroutable
<1> QED  BY <1>1, <1>2, <1>3, <1>4 DEF TypeOK

LEMMA OwnTunnelKeeps ==
    ASSUME PlaneInv, SerialInv, NEW o \in Ops, Acts(o), OwnMove(o), OwnTunnel(o)'
    PROVE  SerialInv'
<1>1. \A x \in Ops \ {o} : pc'[x] \in {"idle", "done"}
  BY AloneFacts DEF OwnMove
<1>2. \A x \in Ops \ {o} : TunnelSound(x)'
  BY <1>1 DEF TunnelSound
<1>3. TunnelSound(o)' /\ LiveTunnel'
  BY DEF OwnTunnel
<1>4. runtime' # {} /\ (\A x \in Ops : pc'[x] \notin Unroutable) => routed'
  BY DEF OwnTunnel
<1> QED  BY <1>1, <1>2, <1>3, <1>4 DEF SerialInv, Busy, LiveTunnel, Unroutable

\* The steps that leave tunnel and route alone and give no receipt.
LEMMA QuietTunnel ==
    ASSUME PlaneInv, SerialInv, NEW o \in Ops, NEW b \in BOOLEAN,
           NEW how \in {"switched", "rejected", "late"}, NEW exit \in Exits,
           \/ Refuse(o) \/ ApplyStart(o) \/ EstablishStart(o, exit) \/ CompensateStart(o)
           \/ RollbackStart(o) \/ Reverified(o, b) \/ Restored(o, how)
    PROVE  OwnTunnel(o)' /\ Receipt(o)
<1>1. Acts(o)
  BY DEF Refuse, ApplyStart, EstablishStart, CompensateStart, RollbackStart, Reverified,
     Restored, Acts, Working
<1>2. /\ OwnTunnel(o) /\ TypeOK /\ pc \in [Ops -> Points]
      /\ managed = None => runtime = {}
  BY <1>1, AloneFacts
<1>3. UNCHANGED <<call, apps, tunnels, managed, runtime, iface, routed>>
  BY DEF Refuse, ApplyStart, EstablishStart, CompensateStart, RollbackStart, Reverified,
     Restored, local, tunnelVars, routeVars
<1>4. LiveTunnel'
  BY <1>2, <1>3 DEF OwnTunnel, LiveTunnel
<1>5. gw(o)' = gw(o)
  BY <1>3 DEF gw
<1>6. CASE \/ Refuse(o)
           \/ RollbackStart(o) /\ apps[gw(o)] = None
           \/ EstablishStart(o, exit) /\ exit # "begun"
  <2>1. PICK r \in {"refused", "rolledback", "stranded"} : Finish(o, r)
    BY <1>6 DEF Refuse, RollbackStart, EstablishStart, Exits
  <2>2. pc'[o] = "done" /\ result'[o] \notin {"established", "reused"}
    BY <1>1, <2>1, FinishEnds DEF Results
  <2>3. pc[o] \notin Unroutable
    BY <1>6 DEF Refuse, RollbackStart, EstablishStart, Unroutable
  <2> QED  BY <1>2, <1>3, <1>4, <2>2, <2>3 DEF OwnTunnel, TunnelSound, Receipt
<1>7. CASE ApplyStart(o) \/ Restored(o, how) \/ CompensateStart(o)
           \/ (EstablishStart(o, exit) /\ exit = "begun")
  <2>1. PICK p \in {"reverifying", "establishing", "unrouting", "tearing", "failing",
                    "configuring"} :
           /\ Goto(o, p)
           /\ p \in {"reverifying", "establishing"} => pc[o] = "queued"
           /\ p = "configuring" => pc[o] = "establishing" /\ ~ConnectRefused
    BY <1>7 DEF ApplyStart, Restored, CompensateStart, EstablishStart
  <2>2. pc'[o] = p
    BY <1>2, <2>1 DEF Goto
  <2>3. p = "configuring" => managed' = None
    BY <1>3, <2>1 DEF ConnectRefused
  <2>4. TunnelSound(o)'
    BY <2>2, <2>3 DEF TunnelSound
  <2>5. runtime' # {} /\ pc'[o] \notin Unroutable => routed'
    BY <1>2, <1>3, <2>1, <2>2 DEF OwnTunnel, Unroutable
  <2> QED  BY <1>4, <2>2, <2>4, <2>5 DEF OwnTunnel, Receipt
<1>8. CASE Reverified(o, b) /\ b
  <2>1. pc[o] = "reverifying" /\ pc'[o] = "rereaching" /\ MayBeHealthy(apps[gw(o)].tunnel)
    BY <1>2, <1>8 DEF Reverified, Goto
  <2>2. apps[gw(o)].tunnel = managed /\ managed \in runtime
    BY <2>1 DEF MayBeHealthy
  <2>3. TunnelSound(o)'
    BY <1>3, <1>5, <2>1, <2>2 DEF TunnelSound
  <2>4. routed'
    BY <1>2, <1>3, <2>1, <2>2 DEF OwnTunnel, Unroutable
  <2> QED  BY <1>4, <2>1, <2>3, <2>4 DEF OwnTunnel, Receipt
<1>9. CASE \/ RollbackStart(o) /\ apps[gw(o)] # None
           \/ Reverified(o, b) /\ ~b
  <2>1. RollbackExisting(o) /\ pc[o] \in {"queued", "reverifying"}
    BY <1>9 DEF RollbackStart, Reverified
  <2>2. pc'[o] \in {"restoring", "unrouting"}
    BY <1>1, <2>1, RollbackExistingMoves
  <2> QED  BY <1>2, <1>3, <1>4, <2>1, <2>2
           DEF OwnTunnel, TunnelSound, Receipt, Unroutable
<1> QED  BY <1>6, <1>7, <1>8, <1>9

\* A tunnel is made, connected and verified.
LEMMA MakingTunnel ==
    ASSUME PlaneInv, SerialInv, NEW o \in Ops, NEW ok \in BOOLEAN, NEW left \in BOOLEAN,
           Configured(o, ok) \/ Connected(o, ok, left) \/ Verified(o, ok)
    PROVE  OwnTunnel(o)' /\ Receipt(o)
<1>1. Acts(o)
  BY DEF Configured, Connected, Verified, Acts, Working
<1>2. /\ OwnTunnel(o) /\ pc \in [Ops -> Points]
      /\ managed = None => runtime = {}
  BY <1>1, AloneFacts
<1>3. CASE Configured(o, ok)
  <2>1. runtime = {} /\ runtime' = {}
    BY <1>2, <1>3 DEF Configured, OwnTunnel, TunnelSound
  <2>2. pc'[o] = "failing" \/ (pc'[o] = "connecting" /\ managed' = o)
    BY <1>2, <1>3 DEF Configured, Goto
  <2> QED  BY <2>1, <2>2 DEF OwnTunnel, LiveTunnel, TunnelSound, Receipt
<1>4. CASE Connected(o, ok, left)
  <2>1. runtime = {} /\ managed = o /\ managed' = managed
    BY <1>2, <1>4 DEF Connected, OwnTunnel, TunnelSound
  <2>2. \/ pc'[o] = "failing" /\ runtime' = {}
        \/ pc'[o] = "verifying" /\ runtime' = {o} /\ iface' = o
    BY <1>2, <1>4, <2>1 DEF Connected, Goto
  <2> QED  BY <2>1, <2>2 DEF OwnTunnel, LiveTunnel, TunnelSound, Unroutable, Receipt
<1>5. CASE Verified(o, ok)
  <2>1. managed = o /\ o \in runtime /\ UNCHANGED <<managed, runtime, iface>>
    BY <1>2, <1>5 DEF Verified, OwnTunnel, TunnelSound, tunnelVars
  <2>2. pc'[o] \in {"routing", "failing"}
    BY <1>2, <1>5 DEF Verified, Goto
  <2> QED  BY <1>2, <2>1, <2>2 DEF OwnTunnel, LiveTunnel, TunnelSound, Unroutable, Receipt
<1> QED  BY <1>3, <1>4, <1>5

\* A route is made through it, and a receipt given.
LEMMA UsingTunnel ==
    ASSUME PlaneInv, SerialInv, NEW o \in Ops, NEW ok \in BOOLEAN, NEW left \in BOOLEAN,
           NEW how \in {"switched", "rejected", "late"},
           NEW outcome \in {"reachable", "unreachable", "threw"},
           \/ Routed(o, ok, left) \/ Reached(o, ok) \/ Switched(o, how)
           \/ Rereached(o, outcome)
    PROVE  OwnTunnel(o)' /\ Receipt(o)
<1>1. Acts(o)
  BY DEF Routed, Reached, Switched, Rereached, Acts, Working
<1>2. /\ OwnTunnel(o) /\ pc \in [Ops -> Points] /\ TypeOK /\ gw(o) \in Gateways
      /\ managed = None => runtime = {}
  BY <1>1, AloneFacts, ActorFirst
<1>3. UNCHANGED <<call, managed, runtime, iface>>
  BY DEF Routed, Reached, Switched, Rereached, local, tunnelVars
<1>4. LiveTunnel' /\ gw(o)' = gw(o)
  BY <1>2, <1>3 DEF OwnTunnel, LiveTunnel, gw
<1>5. CASE Routed(o, ok, left)
  <2>1. managed = o /\ o \in runtime
    BY <1>2, <1>5 DEF Routed, OwnTunnel, TunnelSound
  <2>2. pc'[o] = "failing" \/ (pc'[o] = "reaching" /\ routed')
    BY <1>2, <1>5 DEF Routed
  <2> QED  BY <1>3, <1>4, <2>1, <2>2 DEF OwnTunnel, TunnelSound, Unroutable, Receipt
<1>6. CASE Reached(o, ok) \/ Switched(o, how)
  <2>1. managed = o /\ o \in runtime /\ iface = o /\ routed /\ routed' = routed
    BY <1>2, <1>6
       DEF Reached, Switched, OwnTunnel, LiveTunnel, TunnelSound, routeVars
  <2>2. CASE Establish(o)
    <3>1. pc'[o] = "done"
      BY <1>2, <2>2 DEF Establish, Finish, Goto
    <3>2. apps'[gw(o)] # None /\ apps'[gw(o)].tunnel = o
      <4>1. apps'[gw(o)] # None
        <5>1. prev[o] # None /\ plan[o] # None
          BY <1>6 DEF PlaneInv, OpSound, Reached, Switched, Establishing
        <5> QED  BY <1>1, <2>2, <5>1, EstablishMoves
      <4>2. apps'[gw(o)] = [tunnel |-> o, plan |-> plan[o], prev |-> prev[o]]
        BY <1>2, <2>2 DEF Establish, TypeOK
      <4> QED  BY <4>1, <4>2
    <3> QED  BY <1>3, <1>4, <2>1, <3>1, <3>2
             DEF OwnTunnel, TunnelSound, Receipt
  <2>3. CASE ~Establish(o)
    <3>1. pc'[o] \in {"switching", "failing"}
      BY <1>2, <1>6, <2>3 DEF Reached, Switched, Goto
    <3> QED  BY <1>3, <1>4, <2>1, <3>1 DEF OwnTunnel, TunnelSound, Receipt
  <2> QED  BY <2>2, <2>3
<1>7. CASE Rereached(o, outcome)
  <2>1. /\ apps[gw(o)].tunnel = managed /\ managed \in runtime /\ iface = managed
        /\ apps[gw(o)] # None /\ apps' = apps /\ routed /\ routed' = routed
    BY <1>2, <1>7
       DEF Rereached, OwnTunnel, LiveTunnel, TunnelSound, Unroutable, PlaneInv, OpSound,
           routeVars
  <2>2. pc'[o] \in {"done", "restoring", "unrouting"}
    BY <1>2, <1>7 DEF Rereached, RollbackExisting, Finish, Goto
  <2> QED  BY <1>3, <1>4, <2>1, <2>2 DEF OwnTunnel, TunnelSound, Receipt
<1> QED  BY <1>5, <1>6, <1>7

\* Route and tunnel are undone.
LEMMA UndoingTunnel ==
    ASSUME PlaneInv, SerialInv, NEW o \in Ops, NEW b \in BOOLEAN,
           Unrouted(o, b) \/ TeardownStart(o) \/ TeardownDone(o, b)
    PROVE  OwnTunnel(o)' /\ Receipt(o)
<1>1. Acts(o)
  BY DEF Unrouted, TeardownStart, TeardownDone, Acts, Working
<1>2. /\ OwnTunnel(o) /\ pc \in [Ops -> Points] /\ TypeOK
      /\ \A x \in Ops \ {o} : pc[x] \in {"idle", "done"}
      /\ managed = None => runtime = {}
  BY <1>1, AloneFacts
<1>3. ASSUME NEW f \in BOOLEAN, EndUndo(o, f), runtime' = {}
      PROVE  OwnTunnel(o)' /\ Receipt(o)
  <2>1. CASE Goto(o, "establishing")
    <3>1. pc'[o] = "establishing"
      BY <1>2, <2>1 DEF Goto
    <3> QED  BY <1>3, <3>1 DEF OwnTunnel, LiveTunnel, TunnelSound, Receipt
  <2>2. CASE \E r \in {"failed", "incomplete", "rolledback"} : Finish(o, r)
    <3>1. pc'[o] = "done" /\ result'[o] \notin {"established", "reused"}
      BY <1>2, <2>2 DEF Finish, Goto, TypeOK
    <3> QED  BY <1>3, <3>1 DEF OwnTunnel, LiveTunnel, TunnelSound, Receipt
  <2> QED  BY <1>3, <2>1, <2>2 DEF EndUndo
<1>4. CASE Unrouted(o, b)
  <2>1. pc'[o] = "tearing" /\ UNCHANGED <<managed, runtime, iface>>
    BY <1>2, <1>4 DEF Unrouted, Goto, tunnelVars
  <2> QED  BY <1>2, <2>1 DEF OwnTunnel, LiveTunnel, TunnelSound, Unroutable, Receipt
<1>5. CASE TeardownStart(o)
  <2>1. UNCHANGED <<managed, runtime, iface>> /\ pc[o] = "tearing"
    BY <1>5 DEF TeardownStart, tunnelVars
  <2>2. CASE managed = None
    BY <1>2, <1>3, <1>5, <2>1, <2>2 DEF TeardownStart
  <2>3. CASE managed # None
    <3>1. ~TunnelLocked(managed)
      BY <1>2, <2>1, <2>3 DEF TunnelLocked, TypeOK
    <3>2. pc'[o] = "disconnecting" /\ tear'[o] = managed
      BY <1>2, <1>5, <2>3, <3>1 DEF TeardownStart, Goto, TypeOK
    <3> QED  BY <1>2, <2>1, <3>2 DEF OwnTunnel, LiveTunnel, TunnelSound, Unroutable, Receipt
  <2> QED  BY <2>2, <2>3
<1>6. CASE TeardownDone(o, b)
  <2>1. runtime' = {}
    BY <1>2, <1>6 DEF TeardownDone, OwnTunnel, LiveTunnel, TunnelSound
  <2>2. \E f \in BOOLEAN : EndUndo(o, f)
    BY <1>6 DEF TeardownDone
  <2> QED  BY <1>3, <2>1, <2>2
<1> QED  BY <1>4, <1>5, <1>6

LEMMA OpStepTunnel ==
    ASSUME PlaneInv, SerialInv, NEW o \in Ops, OpStep(o)
    PROVE  OwnTunnel(o)' /\ Receipt(o)
<1> DEFINE How == {"switched", "rejected", "late"}
           Outcome == {"reachable", "unreachable", "threw"}
<1>1. TRUE \in BOOLEAN /\ "late" \in How /\ "threw" \in Outcome /\ "full" \in Exits
  BY DEF Exits
<1>2. CASE \/ Refuse(o) \/ ApplyStart(o) \/ CompensateStart(o) \/ RollbackStart(o)
           \/ \E b \in BOOLEAN : Reverified(o, b)
           \/ \E exit \in Exits : EstablishStart(o, exit)
           \/ \E how \in How : Restored(o, how)
  BY <1>1, <1>2, QuietTunnel
<1>3. CASE \/ \E b \in BOOLEAN : Configured(o, b) \/ Verified(o, b)
           \/ \E ok, left \in BOOLEAN : Connected(o, ok, left)
  BY <1>3, MakingTunnel
<1>4. CASE \/ \E ok, left \in BOOLEAN : Routed(o, ok, left)
           \/ \E b \in BOOLEAN : Reached(o, b)
           \/ \E how \in How : Switched(o, how)
           \/ \E outcome \in Outcome : Rereached(o, outcome)
  BY <1>1, <1>4, UsingTunnel
<1>5. CASE \/ TeardownStart(o)
           \/ \E b \in BOOLEAN : Unrouted(o, b) \/ TeardownDone(o, b)
  BY <1>1, <1>5, UndoingTunnel
<1> QED  BY <1>2, <1>3, <1>4, <1>5 DEF OpStep, Exits

-----------------------------------------------------------------------------
(* The theorems for one operation at a time. *)

LEMMA SerialStep ==
    ASSUME Serial
    PROVE  PlaneInv /\ SerialInv /\ [Next]_vars => SerialInv'
<1> SUFFICES ASSUME PlaneInv, SerialInv, [Next]_vars
             PROVE  SerialInv'
  OBVIOUS
<1>1. CASE \E o \in Ops : OpStep(o)
  BY <1>1, OpStepMoves, OpStepTunnel, OwnTunnelKeeps
<1>2. ASSUME NEW o \in Ops, NEW c \in Call, Invoke(o, c)
      PROVE  SerialInv'
  <2>1. \A x \in Ops : pc[x] \in {"idle", "done"}
    BY <1>2 DEF Invoke
  <2>2. pc'[o] = "queued" /\ \A x \in Ops \ {o} : pc'[x] = pc[x]
    BY <1>2, GotoGoes DEF Invoke, Points
  <2>3. UNCHANGED <<managed, runtime, iface, routed>>
    BY <1>2 DEF Invoke, tunnelVars, routeVars
  <2>4. \A x \in Ops : TunnelSound(x)'
    BY <2>1, <2>2 DEF TunnelSound
  <2>5. runtime # {} => routed
    BY <2>1 DEF SerialInv, Unroutable
  <2> QED  BY <2>1, <2>2, <2>3, <2>4, <2>5 DEF SerialInv, Busy
<1>3. CASE UNCHANGED vars
  BY <1>3 DEF SerialInv, Busy, TunnelSound, gw, vars, local, tunnelVars, routeVars
<1> QED  BY <1>1, <1>2, <1>3 DEF Next

LEMMA SerialInductive ==
    ASSUME Serial
    PROVE  Spec => []SerialInv
<1>1. Init => SerialInv
  BY DEF Init, SerialInv, Busy, TunnelSound
<1>2. PlaneInv /\ SerialInv /\ [Next]_vars => SerialInv'
  BY SerialStep
<1> QED  BY <1>1, <1>2, PlaneInductive, PTL DEF Spec

\* Operated one call at a time, the plane loses no live tunnel over every failure
\* of an establishment or of its undo, and no unit of capacity but where an
\* establishment throws before its compensating try.
THEOREM NothingIsLost ==
    ASSUME Serial
    PROVE  Spec => []NothingLeaks
<1>1. PlaneInv /\ SerialInv => NothingLeaks
  BY DEF PlaneInv, SerialInv, NothingLeaks, LiveTunnelIsManaged
<1> QED  BY <1>1, PlaneInductive, SerialInductive, PTL

\* Operated one call at a time, a receipt is true when it is given.
THEOREM ReceiptsAreTrue ==
    ASSUME Serial
    PROVE  Spec => ReceiptIsTrue
<1> DEFINE A == \A o \in Ops :
          pc[o] # "done" /\ pc'[o] = "done" /\ result'[o] \in {"established", "reused"}
          => LET a == apps'[gw(o)] IN
             /\ a # None
             /\ managed' = a.tunnel /\ a.tunnel \in runtime' /\ iface' = a.tunnel
             /\ routed'
<1>1. PlaneInv /\ SerialInv /\ [Next]_vars => A
  <2> SUFFICES ASSUME PlaneInv, SerialInv, [Next]_vars, NEW o \in Ops,
                      pc[o] # "done", pc'[o] = "done",
                      result'[o] \in {"established", "reused"}
               PROVE  Receipt(o)
    BY DEF Receipt
  <2>1. CASE \E x \in Ops : OpStep(x)
    <3>1. PICK x \in Ops : OpStep(x)
      BY <2>1
    <3>2. x = o
      BY <3>1, OpStepMoves DEF OwnMove
    <3> QED  BY <3>1, <3>2, OpStepTunnel
  <2>2. CASE \E x \in Ops : \E c \in Call : Invoke(x, c)
    BY <2>2, GotoGoes DEF Invoke, Points
  <2>3. CASE UNCHANGED vars
    BY <2>3 DEF vars
  <2> QED  BY <2>1, <2>2, <2>3 DEF Next
<1> HIDE DEF A
<1>2. Spec => [][A]_vars
  BY <1>1, PlaneInductive, SerialInductive, PTL DEF Spec
<1> QED  BY <1>2 DEF A, ReceiptIsTrue
=============================================================================
