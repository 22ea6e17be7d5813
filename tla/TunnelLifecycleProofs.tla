------------------------ MODULE TunnelLifecycleProofs ------------------------
(***************************************************************************)
(* Proofs about the tunnel's lifecycle, for every number of calls,         *)
(* attempts, connections and abandoned pieces of work.                     *)
(***************************************************************************)
EXTENDS TunnelLifecycle, WellFoundedInduction, TLAPS

-----------------------------------------------------------------------------
(* The inductive invariant. *)

\* An establish() that takes its tunnel back works outside the lock.
RollingBack == {"undoing", "unmaking", "unrolled"}
Alone == \A o \in Ops : op[o].pc \notin RollingBack

\* A recorded connection is up, and nobody is still taking it down.
Live == \E c \in links \cap up : c \notin ending

\* A call and the tunnel it works on.
OpSound(o) ==
    /\ op[o].conn \in 0..made
    /\ op[o].pc = "rotating" => op[o].sw = "delete"
    /\ op[o].pc \in {"retrying", "cleaning"} => op[o].try < MaxAttempts
    /\ op[o].pc \in {"leaving", "tidying", "destroying"} => tunnel # "connected"
    /\ op[o].pc = "creating" =>
          /\ tunnel = "gone" /\ ~locked
          /\ \A p \in Ops : op[p].pc = "creating" => p = o
    /\ op[o].pc \in {"establishing", "checking"} /\ tunnel # "gone" /\ Alone => Live

\* An enable deletes the table first, and has put the drop back before its rules.
SwitchSound(k, g, t) ==
    /\ k.pc \in Switching \ {"disabling"} =>
          k.sw # "drop" /\ (k.sw \in {"rules", "ok"} => t = "drop")
    /\ k.pc = "disabling" => g # "on"

\* No connection has a number that was not given out.
Numbered ==
    /\ made \in 0..MaxConns /\ orphans \subseteq 1..MaxConns
    /\ links \subseteq 1..made /\ up \subseteq 1..made /\ ending \subseteq 1..made

GuardSound ==
    guard # "lost" =>
       /\ strays \cap SwitchSteps = {}
       /\ \A o \in Ops : SwitchSound(op[o], guard, table)

ConnectedLive ==
    tunnel = "connected" /\ Alone
       /\ (\A o \in Ops : op[o].pc \notin {"retrying", "cleaning"}) => Live

TunnelInv ==
    /\ TypeOK /\ LockMatchesOperation /\ Numbered
    /\ UpIsKnown /\ FailClosed
    /\ \A o \in Ops : OpSound(o)
    /\ GuardSound /\ ConnectedLive

-----------------------------------------------------------------------------
(* getConnection() and the points of an operation. *)

LEMMA LeastOf ==
    ASSUME NEW S \in SUBSET Nat, S # {}
    PROVE  \E c \in S : \A d \in S : c <= d
<1> DEFINE R == {ss \in Nat \X Nat : ss[1] < ss[2]}
<1>1. IsWellFoundedOn(R, Nat)
  BY NatLessThanWellFounded, Zenon DEF OpToRel
<1>2. \A x, y \in Nat : <<x, y>> \in R <=> x < y
  OBVIOUS
<1> HIDE DEF R
<1>3. PICK c \in S : \A d \in S : ~ (<<d, c>> \in R)
  BY <1>1, WFMin, Zenon
<1>4. ASSUME NEW d \in S PROVE c <= d
  <2>1. c \in Nat /\ d \in Nat /\ ~ (<<d, c>> \in R)
    BY <1>3
  <2>2. ~ (d < c)
    BY <1>2, <2>1
  <2> QED  BY <2>1, <2>2
<1> QED  BY <1>4

\* getConnection answers with a recorded connection, or with none.
LEMMA FirstType ==
    ASSUME TypeOK
    PROVE  First \in links \cup {0} /\ First \in 0..MaxConns
<1>1. links \subseteq 1..MaxConns /\ MaxConns \in Nat
  BY LifecycleAssumption DEF TypeOK
<1>2. CASE links = {}
  BY <1>1, <1>2 DEF First
<1>3. CASE links # {}
  <2>1. \E c \in links : \A d \in links : c <= d
    BY <1>1, <1>3, LeastOf
  <2>2. First \in links
    BY <1>3, <2>1, Zenon DEF First
  <2> QED  BY <1>1, <2>2
<1> QED  BY <1>2, <1>3

LEMMA StatesAre ==
    States = {"gone", "configured", "preparing", "connecting", "establishing", "connected",
              "disconnecting", "disconnected", "failed", "destroyed"}
BY DEF States, allowedTransitions

LEMMA FreshType == Fresh \in Op /\ Fresh.pc = "idle"
BY StatesAre, LifecycleAssumption DEF Fresh, Op, Kinds, Points, SwitchSteps

\* The last point of a call.
LEMMA RejectedType ==
    ASSUME TypeOK, NEW k \in Op
    PROVE  /\ Rejected(k) \in Op /\ Rejected(k).pc \in {"undoing", "done"}
           /\ Rejected(k).conn \in links \cup {0}
<1>1. Fresh \in Op /\ First \in 0..MaxConns /\ First \in links \cup {0} /\ Fresh.conn = 0
  BY FreshType, FirstType DEF Fresh
<1> HIDE DEF Fresh, First
<1>2. CASE k.kind = "establish"
  <2> DEFINE m == [Fresh EXCEPT !.pc = "undoing", !.conn = First]
  <2>1. m \in Op /\ m.pc = "undoing" /\ m.conn = First
    BY <1>1 DEF Op, Points
  <2> HIDE DEF m
  <2> QED  BY <1>1, <1>2, <2>1 DEF Rejected, m
<1>3. CASE k.kind # "establish"
  <2> DEFINE m == [Fresh EXCEPT !.pc = "done"]
  <2>1. m \in Op /\ m.pc = "done" /\ m.conn = 0
    BY <1>1 DEF Op, Points
  <2> HIDE DEF m
  <2> QED  BY <1>1, <1>3, <2>1 DEF Rejected, m
<1> QED  BY <1>2, <1>3

LEMMA EndedType ==
    LET k == [Fresh EXCEPT !.pc = "done"] IN k \in Op /\ k.pc = "done" /\ k.conn = 0
<1>1. Fresh \in Op /\ Fresh.conn = 0
  BY FreshType DEF Fresh
<1> HIDE DEF Fresh
<1> QED  BY <1>1 DEF Op, Points

-----------------------------------------------------------------------------
(* The effects of one step of an operation o, which becomes k. *)

HostTyped ==
    /\ Numbered
    /\ table \in {"absent", "open", "drop"}
    /\ strays \subseteq SwitchSteps \cup {"connect"}
    /\ guard \in {"off", "on", "undone", "lost"}

\* The lock is taken by who finds it free, and given up by who leaves.
LockMove(o, k) ==
    \/ op[o].pc \in Inside /\ k.pc \in Inside /\ locked' = locked
    \/ op[o].pc \in Inside /\ k.pc \notin Inside /\ locked' = FALSE
    \/ op[o].pc \notin Inside /\ k.pc \notin Inside /\ locked' = locked
    \/ /\ op[o].pc \notin Inside /\ k.pc \in Inside
       /\ ~locked /\ locked' = TRUE /\ tunnel # "gone"

\* The firewall changes at the hands of an operation that has the kill switch.
SwitchMove(o, k) ==
    guard' # "lost" =>
       /\ guard # "lost" /\ strays' \cap SwitchSteps = {}
       /\ table' = table \/ op[o].pc \in Switching
       /\ guard' = guard \/ op[o].pc \in Inside
       /\ SwitchSound(k, guard', table')
       /\ guard' = "on" =>
             \/ table' = "drop"
             \/ k.pc \in Switching /\ k.sw # "ok"
             \/ guard = "on" /\ table' = table /\ op[o].pc \notin Switching

\* A step keeps the connections, takes one away, rolls back or makes one.
ConnMove(o, k) ==
    \/ /\ UNCHANGED <<links, up, ending>> /\ op[o].pc \notin RollingBack
       /\ tunnel' = "connected" =>
             \/ tunnel = "connected" /\ op[o].pc \notin {"retrying", "cleaning"}
             \/ op[o].pc = "checking" /\ tunnel # "gone"
       /\ k.pc \in {"establishing", "checking"} =>
             op[o].pc \in {"establishing", "checking"} /\ tunnel' = tunnel
    \/ /\ op[o].pc \in Inside /\ k.pc \notin {"establishing", "checking"}
       /\ tunnel' # "connected" \/ k.pc \in {"retrying", "cleaning"}
    \/ /\ op[o].pc \notin Inside /\ k.pc \notin Inside
       /\ k.pc \in RollingBack \/ tunnel' = "gone"
    \/ Live'

OwnMove(o, k) ==
    /\ op[o].pc \in Inside \cup {"creating"} \/ tunnel' \in {tunnel, "gone"}
    /\ tunnel' \in States
    /\ k.conn \in 0..made' /\ made' >= made
    /\ k.pc # "creating"
    /\ k.pc = "rotating" => k.sw = "delete"
    /\ k.pc \in {"retrying", "cleaning"} => k.try < MaxAttempts
    /\ k.pc \in {"leaving", "tidying", "destroying"} => tunnel' # "connected"

LEMMA StepInv ==
    ASSUME TunnelInv, NEW o \in Ops, NEW k \in Op, op' = [op EXCEPT ![o] = k],
           HostTyped', UpIsKnown', OwnMove(o, k), LockMove(o, k), SwitchMove(o, k),
           ConnMove(o, k)
    PROVE  TunnelInv'
<1>1. /\ op' \in [Ops -> Op] /\ op'[o] = k /\ op[o] \in Op
      /\ \A p \in Ops : p # o => op'[p] = op[p]
  BY DEF TunnelInv, TypeOK
<1>2. TypeOK'
  <2>1. locked' \in BOOLEAN /\ tunnel' \in States
    BY DEF TunnelInv, TypeOK, LockMove, OwnMove
  <2>2. /\ made' \in 0..MaxConns /\ orphans' \subseteq 1..MaxConns
        /\ links' \subseteq 1..made' /\ up' \subseteq 1..made' /\ ending' \subseteq 1..made'
    BY DEF HostTyped, Numbered
  <2>3. 1..made' \subseteq 1..MaxConns
    BY <2>2, LifecycleAssumption
  <2> QED  BY <1>1, <2>1, <2>2, <2>3 DEF TypeOK, HostTyped
<1>3. LockMatchesOperation'
  BY <1>1 DEF TunnelInv, TypeOK, LockMatchesOperation, LockMove
<1>4. ASSUME NEW p \in Ops, p # o, op[p].pc \in Inside PROVE op[o].pc \notin Inside
  BY <1>4 DEF TunnelInv, LockMatchesOperation
<1>5. ASSUME NEW p \in Ops, p # o, op[p].pc \in Inside PROVE locked
  BY <1>5 DEF TunnelInv, LockMatchesOperation
<1>6. FailClosed'
  <2> SUFFICES ASSUME guard' = "on"
               PROVE  \/ table' = "drop"
                      \/ \E p \in Ops : op'[p].pc \in Switching /\ op'[p].sw # "ok"
    BY DEF FailClosed
  <2>1. CASE guard = "on" /\ table' = table /\ op[o].pc \notin Switching
    BY <1>1, <2>1 DEF TunnelInv, FailClosed
  <2> QED  BY <1>1, <2>1 DEF SwitchMove
<1>7. GuardSound'
  <2> SUFFICES ASSUME guard' # "lost"
               PROVE  /\ strays' \cap SwitchSteps = {}
                      /\ \A p \in Ops : SwitchSound(op'[p], guard', table')
    BY DEF GuardSound
  <2>1. /\ strays' \cap SwitchSteps = {} /\ SwitchSound(k, guard', table')
        /\ guard # "lost"
        /\ guard' = guard \/ op[o].pc \in Inside
        /\ table' = table \/ op[o].pc \in Switching
    BY DEF SwitchMove
  <2>2. ASSUME NEW p \in Ops, p # o PROVE SwitchSound(op[p], guard', table')
    <3>1. SwitchSound(op[p], guard, table)
      BY <2>1 DEF TunnelInv, GuardSound
    <3>2. CASE op[p].pc \in Switching
      <4>1. op[p].pc \in Inside
        BY <3>2 DEF Switching, Inside
      <4>2. op[o].pc \notin Inside /\ op[o].pc \notin Switching
        BY <1>4, <2>2, <4>1 DEF Switching, Inside
      <4> QED  BY <2>1, <3>1, <4>2
    <3>3. CASE op[p].pc \notin Switching
      BY <3>3 DEF SwitchSound, Switching
    <3> QED  BY <3>2, <3>3
  <2> QED  BY <1>1, <2>1, <2>2
<1>8. Alone' /\ op[o].pc \notin RollingBack => Alone
  BY <1>1 DEF Alone
<1>9. UNCHANGED <<links, up, ending>> => Live' = Live
  BY DEF Live
<1>10. ASSUME NEW p \in Ops PROVE OpSound(p)'
  <2>0. made \in Nat /\ made' \in Nat /\ made' >= made
    BY LifecycleAssumption DEF TunnelInv, Numbered, HostTyped, OwnMove
  <2>1. CASE p = o
    <3>1. k.pc \in {"establishing", "checking"} /\ tunnel' # "gone" /\ Alone' => Live'
      <4> SUFFICES ASSUME k.pc \in {"establishing", "checking"}, tunnel' # "gone", Alone'
                   PROVE  Live'
        OBVIOUS
      <4>1. CASE /\ UNCHANGED <<links, up, ending>> /\ op[o].pc \notin RollingBack
                 /\ op[o].pc \in {"establishing", "checking"} /\ tunnel' = tunnel
        <5>1. Alone
          BY <1>8, <4>1
        <5>2. Live
          BY <4>1, <5>1 DEF TunnelInv, OpSound
        <5> QED  BY <1>9, <4>1, <5>2
      <4> QED  BY <4>1 DEF ConnMove, Inside
    <3> QED  BY <1>1, <2>1, <3>1 DEF OpSound, OwnMove
  <2>2. CASE p # o
    <3>1. op'[p] = op[p] /\ OpSound(p)
      BY <1>1, <2>2 DEF TunnelInv
    <3>2. op[p].pc \in {"leaving", "tidying", "destroying"} => tunnel' # "connected"
      <4> SUFFICES ASSUME op[p].pc \in {"leaving", "tidying", "destroying"}
                   PROVE  tunnel' # "connected"
        OBVIOUS
      <4>1. op[p].pc \in Inside
        BY DEF Inside
      <4>2. op[o].pc \notin Inside /\ locked
        BY <1>4, <1>5, <2>2, <4>1
      <4>3. op[o].pc # "creating"
        BY <4>2 DEF TunnelInv, OpSound
      <4>4. tunnel' \in {tunnel, "gone"}
        BY <4>2, <4>3 DEF OwnMove
      <4> QED  BY <3>1, <4>4 DEF OpSound
    <3>3. op[p].pc = "creating" =>
             /\ tunnel' = "gone" /\ ~locked'
             /\ \A q \in Ops : op'[q].pc = "creating" => q = p
      <4> SUFFICES ASSUME op[p].pc = "creating"
                   PROVE  /\ tunnel' = "gone" /\ ~locked'
                          /\ \A q \in Ops : op'[q].pc = "creating" => q = p
        OBVIOUS
      <4>1. /\ tunnel = "gone" /\ ~locked /\ op[o].pc # "creating"
            /\ \A q \in Ops : op[q].pc = "creating" => q = p
        BY <2>2, <3>1 DEF OpSound
      <4>2. op[o].pc \notin Inside
        BY <4>1 DEF TunnelInv, LockMatchesOperation
      <4>3. tunnel' = "gone" /\ ~locked'
        BY <4>1, <4>2 DEF OwnMove, LockMove
      <4> QED  BY <1>1, <4>1, <4>3 DEF OwnMove
    <3>4. op[p].pc \in {"establishing", "checking"} /\ tunnel' # "gone" /\ Alone' => Live'
      <4> SUFFICES ASSUME op[p].pc \in {"establishing", "checking"}, tunnel' # "gone", Alone'
                   PROVE  Live'
        OBVIOUS
      <4>1. op[p].pc \in Inside
        BY DEF Inside
      <4>2. op[o].pc \notin Inside /\ locked
        BY <1>4, <1>5, <2>2, <4>1
      <4>3. op[o].pc # "creating"
        BY <4>2 DEF TunnelInv, OpSound
      <4>4. tunnel' = tunnel
        BY <4>2, <4>3 DEF OwnMove
      <4>5. k.pc \notin RollingBack
        BY <1>1 DEF Alone
      <4>6. CASE UNCHANGED <<links, up, ending>> /\ op[o].pc \notin RollingBack
        <5>1. Alone
          BY <1>8, <4>6
        <5>2. Live
          BY <3>1, <4>4, <5>1 DEF OpSound
        <5> QED  BY <1>9, <4>6, <5>2
      <4> QED  BY <4>2, <4>5, <4>6 DEF ConnMove
    <3>5. op[p].conn \in 0..made'
      BY <2>0, <3>1 DEF OpSound
    <3> QED  BY <3>1, <3>2, <3>3, <3>4, <3>5 DEF OpSound
  <2> QED  BY <2>1, <2>2
<1>11. ConnectedLive'
  <2> SUFFICES ASSUME tunnel' = "connected", Alone',
                      \A p \in Ops : op'[p].pc \notin {"retrying", "cleaning"}
               PROVE  Live'
    BY DEF ConnectedLive
  <2>1. CASE /\ UNCHANGED <<links, up, ending>> /\ op[o].pc \notin RollingBack
             /\ tunnel = "connected" /\ op[o].pc \notin {"retrying", "cleaning"}
    <3>1. Alone /\ \A p \in Ops : op[p].pc \notin {"retrying", "cleaning"}
      BY <1>1, <1>8, <2>1
    <3>2. Live
      BY <2>1, <3>1 DEF TunnelInv, ConnectedLive
    <3> QED  BY <1>9, <2>1, <3>2
  <2>2. CASE /\ UNCHANGED <<links, up, ending>> /\ op[o].pc \notin RollingBack
             /\ op[o].pc = "checking" /\ tunnel # "gone"
    <3>1. Alone
      BY <1>8, <2>2
    <3>2. Live
      BY <2>2, <3>1 DEF TunnelInv, OpSound
    <3> QED  BY <1>9, <2>2, <3>2
  <2>3. k.pc \notin RollingBack /\ k.pc \notin {"retrying", "cleaning"}
    BY <1>1 DEF Alone
  <2> QED  BY <2>1, <2>2, <2>3 DEF ConnMove
<1> QED  BY <1>2, <1>3, <1>6, <1>7, <1>10, <1>11 DEF TunnelInv, HostTyped

-----------------------------------------------------------------------------
(* Steps that leave the kill switch, or are the end of an operation. *)

\* The firewall is left alone, and the lifecycle's confidence in it can only drop.
LeavesSwitch(o) ==
    \/ guard' = "lost"
    \/ /\ guard # "lost" /\ strays' \cap SwitchSteps = {} /\ table' = table
       /\ \/ guard' \in {"off", "undone"} /\ op[o].pc \in Inside
          \/ guard' = "on" /\ table = "drop" /\ op[o].pc \in Inside
          \/ guard' = guard /\ op[o].pc \notin Switching

LEMMA QuietSwitch ==
    ASSUME NEW o \in Ops, NEW k \in Op, LeavesSwitch(o),
           k.pc \in Switching => k.pc # "disabling" /\ k.sw = "delete"
    PROVE  SwitchMove(o, k)
BY DEF LeavesSwitch, SwitchMove, SwitchSound, Switching

LEMMA QuietLeaves ==
    ASSUME TunnelInv, UNCHANGED switch
    PROVE  /\ table' = table /\ strays' = strays /\ guard' = guard
           /\ Numbered' => HostTyped'
           /\ \A o \in Ops : op[o].pc \notin Switching => LeavesSwitch(o)
<1>1. table' = table /\ strays' = strays /\ guard' = guard
  BY DEF switch
<1>2. guard = "lost" \/ strays \cap SwitchSteps = {}
  BY DEF TunnelInv, GuardSound
<1> QED  BY <1>1, <1>2 DEF LeavesSwitch, TunnelInv, TypeOK, HostTyped

LEMMA QuietProvider ==
    ASSUME TunnelInv, UNCHANGED provider
    PROVE  /\ UNCHANGED <<links, up, ending>> /\ made' = made /\ made \in Nat
           /\ Numbered' /\ UpIsKnown'
<1>1. UNCHANGED <<links, made, up, ending, orphans>>
  BY DEF provider
<1> QED  BY <1>1, LifecycleAssumption DEF TunnelInv, Numbered, UpIsKnown

\* What RejectedType and FirstType say of a step of a sound tunnel.
LEMMA ConnRange ==
    ASSUME TunnelInv
    PROVE  /\ made \in Nat /\ links \subseteq 1..made
           /\ \A c \in links \cup {0} : c \in 0..made
           /\ \A o \in Ops : op[o].conn \in 0..made
<1>1. made \in Nat /\ links \subseteq 1..made
  BY LifecycleAssumption DEF TunnelInv, Numbered
<1>2. \A c \in links \cup {0} : c \in 0..made
  BY <1>1
<1>3. \A o \in Ops : op[o].conn \in 0..made
  BY DEF TunnelInv, OpSound
<1> QED  BY <1>1, <1>2, <1>3

\* A step of an operation that touches neither the provider nor the firewall.
LEMMA PlainInv ==
    ASSUME TunnelInv, NEW o \in Ops, NEW k \in Op, op' = [op EXCEPT ![o] = k],
           UNCHANGED <<provider, switch>>, OwnMove(o, k), LockMove(o, k),
           op[o].pc \notin Switching \cup RollingBack,
           k.pc \in Switching => k.pc # "disabling" /\ k.sw = "delete",
           k.pc \in {"establishing", "checking"} =>
              op[o].pc \in {"establishing", "checking"} /\ tunnel' = tunnel,
           tunnel' = "connected" =>
              tunnel = "connected" /\ op[o].pc \notin {"retrying", "cleaning"}
    PROVE  TunnelInv'
<1>1. HostTyped' /\ UpIsKnown' /\ SwitchMove(o, k)
  BY QuietLeaves, QuietProvider, QuietSwitch
<1>2. ConnMove(o, k)
  BY QuietProvider DEF ConnMove
<1> QED  BY <1>1, <1>2, StepInv

\* connect()'s catch never leaves a connected tunnel.
LEMMA ThrowsShape ==
    ASSUME TunnelInv, NEW o \in Ops, op[o].pc \in Inside, ConnectThrows(o),
           made' \in Nat, made' >= made
    PROVE  \E k \in Op :
              /\ op' = [op EXCEPT ![o] = k] /\ OwnMove(o, k) /\ LockMove(o, k)
              /\ tunnel' # "connected"
              /\ k.pc \in {"reenabling", "undoing", "done"}
              /\ k.pc = "reenabling" => k.sw = "delete"
<1>1. TypeOK /\ op[o] \in Op /\ tunnel \in States
  BY DEF TunnelInv, TypeOK
<1>0. \A c \in 0..made : c \in 0..made'
  BY ConnRange
<1>2. tunnel' \in States /\ tunnel' # "connected"
  BY <1>1, StatesAre DEF ConnectThrows
<1>3. CASE op[o].armed
  <2> DEFINE k == [op[o] EXCEPT !.pc = "reenabling", !.sw = "delete"]
  <2>1. op' = [op EXCEPT ![o] = k] /\ locked' = locked
    BY <1>3 DEF ConnectThrows
  <2>2. k \in Op /\ k.pc = "reenabling" /\ k.sw = "delete" /\ k.conn = op[o].conn
    BY <1>1 DEF Op, Points, Inside, SwitchSteps
  <2> HIDE DEF k
  <2>3. OwnMove(o, k) /\ LockMove(o, k)
    BY <1>0, <1>2, <2>1, <2>2, ConnRange DEF OwnMove, LockMove, Inside
  <2> QED  BY <1>2, <2>1, <2>2, <2>3
<1>4. CASE ~op[o].armed
  <2> DEFINE k == Rejected(op[o])
  <2>1. op' = [op EXCEPT ![o] = k] /\ locked' = FALSE
    BY <1>4 DEF ConnectThrows, Rejects
  <2>2. k \in Op /\ k.pc \in {"undoing", "done"} /\ k.conn \in links \cup {0}
    BY <1>1, RejectedType
  <2> HIDE DEF k
  <2>3. OwnMove(o, k) /\ LockMove(o, k)
    BY <1>0, <1>2, <2>1, <2>2, ConnRange DEF OwnMove, LockMove, Inside
  <2> QED  BY <1>2, <2>1, <2>2, <2>3
<1> QED  BY <1>3, <1>4

\* An attempt fails, or connect() throws.
LEMMA FailInv ==
    ASSUME TunnelInv, NEW o \in Ops, op[o].pc \in Inside,
           ConnectThrows(o) \/ \E retryable \in BOOLEAN : AttemptFails(o, retryable),
           HostTyped', UpIsKnown', LeavesSwitch(o), made' >= made
    PROVE  TunnelInv'
<1>1. TypeOK /\ op[o] \in Op /\ made' \in Nat
  BY LifecycleAssumption DEF TunnelInv, TypeOK, HostTyped, Numbered
<1>2. CASE ConnectThrows(o)
  <2>1. PICK k \in Op :
           /\ op' = [op EXCEPT ![o] = k] /\ OwnMove(o, k) /\ LockMove(o, k)
           /\ tunnel' # "connected"
           /\ k.pc \in {"reenabling", "undoing", "done"}
           /\ k.pc = "reenabling" => k.sw = "delete"
    BY <1>1, <1>2, ThrowsShape
  <2>2. SwitchMove(o, k)
    BY <2>1, QuietSwitch DEF Switching
  <2>3. ConnMove(o, k)
    BY <2>1 DEF ConnMove
  <2> QED  BY <2>1, <2>2, <2>3, StepInv
<1>3. CASE /\ MayRetry(o) /\ UNCHANGED <<tunnel, locked>>
           /\ op' = [op EXCEPT ![o] = [@ EXCEPT !.pc = "retrying", !.conn = First]]
  <2> DEFINE k == [op[o] EXCEPT !.pc = "retrying", !.conn = First]
  <2>1. op' = [op EXCEPT ![o] = k] /\ tunnel' = tunnel /\ locked' = locked
    BY <1>3
  <2>2. First \in 0..MaxConns /\ First \in 0..made'
    BY <1>1, FirstType, ConnRange
  <2> HIDE DEF First
  <2>3. k \in Op /\ k.pc = "retrying" /\ k.try = op[o].try /\ k.conn = First
    BY <1>1, <2>2 DEF Op, Points, Inside
  <2> HIDE DEF k
  <2>4. OwnMove(o, k) /\ LockMove(o, k)
    BY <1>1, <1>3, <2>1, <2>2, <2>3 DEF OwnMove, LockMove, MayRetry, Inside, TypeOK
  <2>5. SwitchMove(o, k)
    BY <2>3, QuietSwitch DEF Switching
  <2>6. ConnMove(o, k)
    BY <2>3 DEF ConnMove
  <2> QED  BY <2>1, <2>3, <2>4, <2>5, <2>6, StepInv
<1> QED  BY <1>2, <1>3 DEF AttemptFails

\* A call rejects and the tunnel keeps its state.
LEMMA RejectInv ==
    ASSUME TunnelInv, NEW o \in Ops, op[o].pc \in Inside, Rejects(o), tunnel' = tunnel,
           HostTyped', UpIsKnown', LeavesSwitch(o), made' >= made,
           \/ tunnel # "connected"
           \/ /\ UNCHANGED <<links, up, ending>>
              /\ op[o].pc \notin {"retrying", "cleaning"}
    PROVE  TunnelInv'
<1> DEFINE k == Rejected(op[o])
<1>1. /\ TypeOK /\ op[o] \in Op /\ tunnel \in States
      /\ op' = [op EXCEPT ![o] = k] /\ locked' = FALSE
  BY DEF TunnelInv, TypeOK, Rejects
<1>2. /\ k \in Op /\ k.pc \in {"undoing", "done"} /\ k.conn \in links \cup {0}
      /\ made' \in Nat
  BY <1>1, RejectedType, LifecycleAssumption DEF HostTyped, Numbered
<1> HIDE DEF k
<1>3. OwnMove(o, k) /\ LockMove(o, k)
  BY <1>1, <1>2, ConnRange DEF OwnMove, LockMove, Inside
<1>4. SwitchMove(o, k)
  BY <1>2, QuietSwitch DEF Switching
<1>5. ConnMove(o, k)
  BY <1>2 DEF ConnMove, RollingBack, Inside
<1> QED  BY <1>1, <1>2, <1>3, <1>4, <1>5, StepInv

-----------------------------------------------------------------------------
(* Calls and the lock. *)

LEMMA CallInv ==
    ASSUME TunnelInv, NEW o \in Ops, NEW kind \in Kinds, Call(o, kind)
    PROVE  TunnelInv'
<1>1. /\ op[o] \in Op /\ op[o].pc = "idle" /\ tunnel \in States /\ op[o].conn \in 0..made
      /\ UNCHANGED <<tunnel, locked>> /\ UNCHANGED <<provider, switch>>
  BY ConnRange DEF Call, At, TunnelInv, TypeOK
<1>2. PICK pc \in {"creating", "locking"} :
         /\ op' = [op EXCEPT ![o] = [@ EXCEPT !.kind = kind, !.pc = pc]]
         /\ pc = "creating" => tunnel = "gone" /\ \A p \in Ops : op[p].pc = "idle"
  BY DEF Call, At
<1> DEFINE k == [op[o] EXCEPT !.kind = kind, !.pc = pc]
<1>3. op' = [op EXCEPT ![o] = k]
  BY <1>2
<1>4. k \in Op /\ k.pc = pc /\ k.conn = op[o].conn
  BY <1>1 DEF Op, Points
<1> HIDE DEF k
<1>5. CASE pc = "locking"
  <2>1. OwnMove(o, k) /\ LockMove(o, k)
    BY <1>1, <1>4, <1>5, QuietProvider DEF OwnMove, LockMove, Inside
  <2> QED  BY <1>1, <1>3, <1>4, <1>5, <2>1, PlainInv DEF Switching, RollingBack
<1>6. CASE pc = "creating"
  <2>1. /\ op' \in [Ops -> Op] /\ op'[o] = k /\ k.pc = "creating"
        /\ \A p \in Ops : p # o => op'[p] = op[p] /\ op[p].pc = "idle"
        /\ tunnel = "gone"
    BY <1>2, <1>3, <1>4, <1>6 DEF TunnelInv, TypeOK
  <2>2. locked = FALSE /\ locked' = FALSE
    BY <1>1, <1>2, <1>6 DEF TypeOK, TunnelInv, LockMatchesOperation, Inside
  <2>3. UNCHANGED <<links, made, up, ending, orphans, table, strays, guard>>
    BY <1>1 DEF provider, switch
  <2>4. TypeOK' /\ Numbered' /\ UpIsKnown'
    BY <1>1, <2>1, <2>3 DEF TunnelInv, TypeOK, Numbered, UpIsKnown
  <2>5. LockMatchesOperation'
    <3>1. \A p \in Ops : op'[p].pc \notin Inside
      BY <1>1, <2>1 DEF Inside
    <3> QED  BY <2>2, <3>1 DEF LockMatchesOperation
  <2>6. FailClosed' /\ GuardSound'
    <3>1. \A p \in Ops : op[p].pc \notin Switching /\ op'[p].pc \notin Switching
      BY <1>1, <2>1 DEF Switching
    <3> QED  BY <2>3, <3>1 DEF TunnelInv, FailClosed, GuardSound, SwitchSound, Switching
  <2>7. ASSUME NEW p \in Ops PROVE OpSound(p)'
    BY <1>1, <1>4, <2>1, <2>2, <2>3, ConnRange DEF OpSound
  <2>8. ConnectedLive'
    BY <1>1, <2>1 DEF ConnectedLive
  <2> QED  BY <2>4, <2>5, <2>6, <2>7, <2>8 DEF TunnelInv
<1> QED  BY <1>5, <1>6

LEMMA LockInv ==
    ASSUME TunnelInv, NEW o \in Ops, Created(o) \/ Lock(o) \/ LockRejects(o) \/ Rotated(o)
    PROVE  TunnelInv'
<1>1. /\ op[o] \in Op /\ tunnel \in States /\ UNCHANGED <<provider, switch>> /\ TypeOK
      /\ op[o].conn \in 0..made /\ made \in Nat /\ links \subseteq 1..made
      /\ First \in 0..made /\ First \in 0..MaxConns
  BY ConnRange, FirstType DEF Created, Lock, LockRejects, Rotated, TunnelInv, TypeOK
<1> HIDE DEF First
<1>2. CASE Created(o)
  <2> DEFINE k == [op[o] EXCEPT !.pc = "locking"]
  <2>1. /\ op' = [op EXCEPT ![o] = k] /\ tunnel' = "configured" /\ locked' = locked
        /\ op[o].pc = "creating"
    BY <1>2 DEF Created, Goes, At
  <2>2. k \in Op /\ k.pc = "locking" /\ k.conn = op[o].conn
    BY <1>1 DEF Op, Points
  <2> HIDE DEF k
  <2>3. OwnMove(o, k) /\ LockMove(o, k)
    BY <1>1, <2>1, <2>2, StatesAre, QuietProvider DEF OwnMove, LockMove, Inside
  <2> QED  BY <1>1, <2>1, <2>2, <2>3, PlainInv DEF Switching, RollingBack
<1>3. CASE Lock(o)
  <2> DEFINE f == FirstStep(o)
             k == [op[o] EXCEPT !.pc = f, !.sw = "delete", !.seen = tunnel,
                                !.conn = First, !.armed = FALSE]
  <2>1. /\ op' = [op EXCEPT ![o] = k] /\ UNCHANGED tunnel /\ ~locked /\ locked' = TRUE
        /\ op[o].pc = "locking" /\ tunnel # "gone"
    BY <1>3 DEF Lock, At, LockFree
  <2>2. f \in {"closing", "rotating", "validating"}
    BY DEF FirstStep
  <2> HIDE DEF f
  <2>3. k \in Op /\ k.pc = f /\ k.conn = First /\ k.sw = "delete"
    BY <1>1, <2>2 DEF Op, Points, Inside, SwitchSteps
  <2> HIDE DEF k
  <2>4. OwnMove(o, k)
    BY <1>1, <2>1, <2>2, <2>3, QuietProvider DEF OwnMove
  <2>5. LockMove(o, k)
    BY <2>1, <2>2, <2>3 DEF LockMove, Inside
  <2> QED  BY <1>1, <2>1, <2>2, <2>3, <2>4, <2>5, PlainInv DEF Switching, RollingBack
<1>4. CASE LockRejects(o)
  <2> DEFINE k == Rejected(op[o])
  <2>1. op' = [op EXCEPT ![o] = k] /\ UNCHANGED <<tunnel, locked>> /\ op[o].pc = "locking"
    BY <1>4 DEF LockRejects, At
  <2>2. k \in Op /\ k.pc \in {"undoing", "done"} /\ k.conn \in 0..made
    BY <1>1, RejectedType, ConnRange
  <2> HIDE DEF k
  <2>3. OwnMove(o, k) /\ LockMove(o, k)
    BY <1>1, <2>1, <2>2, QuietProvider DEF OwnMove, LockMove, Inside
  <2> QED  BY <1>1, <2>1, <2>2, <2>3, PlainInv DEF Switching, RollingBack
<1>5. CASE Rotated(o)
  <2>1. PICK f \in {"closing", "validating"} :
           op' = [op EXCEPT ![o] = [@ EXCEPT !.kind = "reconnect", !.seen = tunnel,
                                             !.conn = First, !.pc = f]]
    BY <1>5 DEF Rotated
  <2> DEFINE k == [op[o] EXCEPT !.kind = "reconnect", !.seen = tunnel, !.conn = First,
                                !.pc = f]
  <2>2. op' = [op EXCEPT ![o] = k] /\ UNCHANGED <<tunnel, locked>> /\ op[o].pc = "rotating"
    BY <1>5, <2>1 DEF Rotated, At
  <2>3. k \in Op /\ k.pc = f /\ k.conn = First /\ k.sw = "delete"
    <3>1. op[o].sw = "delete"
      BY <2>2 DEF TunnelInv, OpSound
    <3> QED  BY <1>1, <3>1 DEF Op, Points, Inside, Kinds
  <2> HIDE DEF k
  <2>4. OwnMove(o, k) /\ LockMove(o, k)
    BY <1>1, <2>2, <2>3, QuietProvider DEF OwnMove, LockMove, Inside
  <2> QED  BY <1>1, <2>2, <2>3, <2>4, PlainInv DEF Switching, RollingBack
<1> QED  BY <1>2, <1>3, <1>4, <1>5

-----------------------------------------------------------------------------
(* connect(). *)

\* A failure beside the provider and the firewall.
LEMMA QuietFailInv ==
    ASSUME TunnelInv, NEW o \in Ops, op[o].pc \in Inside \ Switching,
           UNCHANGED <<provider, switch>>,
           ConnectThrows(o) \/ \E retryable \in BOOLEAN : AttemptFails(o, retryable)
    PROVE  TunnelInv'
BY FailInv, QuietLeaves, QuietProvider

LEMMA ConnectQuietInv ==
    ASSUME TunnelInv, NEW o \in Ops,
           \/ Unprepared(o) \/ RetryCleanupFails(o) \/ RotateRejects(o)
           \/ \E retryable \in BOOLEAN : ConnectFails(o, retryable) \/ Unhealthy(o, retryable)
    PROVE  TunnelInv'
<1>1. CASE Unprepared(o)
  BY <1>1, QuietFailInv DEF Unprepared, Inside, Switching
<1>2. CASE RetryCleanupFails(o)
  BY <1>2, QuietFailInv DEF RetryCleanupFails, At, Inside, Switching
<1>3. ASSUME NEW retryable \in BOOLEAN,
             ConnectFails(o, retryable) \/ Unhealthy(o, retryable)
      PROVE  TunnelInv'
  BY <1>3, QuietFailInv DEF ConnectFails, Unhealthy, At, Inside, Switching
<1>4. CASE RotateRejects(o)
  <2>1. /\ op[o].pc = "rotating" /\ Rejects(o) /\ UNCHANGED <<tunnel, provider, switch>>
    BY <1>4 DEF RotateRejects, At
  <2>2. HostTyped' /\ UpIsKnown' /\ LeavesSwitch(o) /\ made' >= made
    BY <2>1, QuietLeaves, QuietProvider DEF Switching
  <2> QED  BY <2>1, <2>2, QuietProvider, RejectInv DEF Inside
<1> QED  BY <1>1, <1>2, <1>3, <1>4

LEMMA ConnectPlainInv ==
    ASSUME TunnelInv, NEW o \in Ops,
           Validated(o) \/ Prepared(o) \/ Established(o) \/ RetryCleaned(o)
    PROVE  TunnelInv'
<1>1. /\ op[o] \in Op /\ tunnel \in States /\ UNCHANGED <<provider, switch>> /\ TypeOK
      /\ op[o].conn \in 0..made /\ made' = made /\ made \in Nat
  BY ConnRange, QuietProvider
     DEF Validated, Prepared, Established, RetryCleaned, TunnelInv, TypeOK
<1>2. CASE Validated(o)
  <2>1. CASE ConnectThrows(o)
    BY <1>1, <1>2, <2>1, QuietFailInv DEF Validated, At, Inside, Switching
  <2>2. CASE /\ op' = [op EXCEPT ![o] = [@ EXCEPT !.pc = "preparing", !.seen = "gone",
                                                  !.conn = 0]]
             /\ tunnel' \in {"connecting", "preparing"} /\ UNCHANGED locked
    <3> DEFINE k == [op[o] EXCEPT !.pc = "preparing", !.seen = "gone", !.conn = 0]
    <3>1. op' = [op EXCEPT ![o] = k] /\ op[o].pc = "validating"
      BY <1>2, <2>2 DEF Validated, At
    <3>2. 0 \in 0..MaxConns /\ "gone" \in States
      BY StatesAre, LifecycleAssumption
    <3>3. k \in Op /\ k.pc = "preparing" /\ k.conn = 0
      BY <1>1, <3>2 DEF Op, Points, Inside
    <3> HIDE DEF k
    <3>4. OwnMove(o, k)
      BY <1>1, <2>2, <3>1, <3>3, StatesAre DEF OwnMove, Inside
    <3>5. LockMove(o, k)
      BY <2>2, <3>1, <3>3 DEF LockMove, Inside
    <3> QED  BY <1>1, <2>2, <3>1, <3>3, <3>4, <3>5, PlainInv DEF Switching, RollingBack
  <2> QED  BY <1>2, <2>1, <2>2 DEF Validated
<1>3. CASE Prepared(o)
  <2> DEFINE k == [op[o] EXCEPT !.pc = "enabling", !.sw = "delete"]
  <2>1. /\ op' = [op EXCEPT ![o] = k] /\ op[o].pc = "preparing"
        /\ UNCHANGED <<tunnel, locked>>
    BY <1>3 DEF Prepared, At
  <2>2. k \in Op /\ k.pc = "enabling" /\ k.sw = "delete" /\ k.conn = op[o].conn
    BY <1>1 DEF Op, Points, Inside, SwitchSteps
  <2> HIDE DEF k
  <2>3. OwnMove(o, k)
    BY <1>1, <2>1, <2>2 DEF OwnMove
  <2>4. LockMove(o, k)
    BY <2>1, <2>2 DEF LockMove, Inside
  <2> QED  BY <1>1, <2>1, <2>2, <2>3, <2>4, PlainInv DEF Switching, RollingBack
<1>4. CASE Established(o)
  <2> DEFINE k == [op[o] EXCEPT !.pc = "checking"]
  <2>1. /\ op' = [op EXCEPT ![o] = k] /\ op[o].pc = "establishing"
        /\ UNCHANGED <<tunnel, locked>>
    BY <1>4 DEF Established, Goes, At
  <2>2. k \in Op /\ k.pc = "checking" /\ k.conn = op[o].conn
    BY <1>1 DEF Op, Points, Inside
  <2> HIDE DEF k
  <2>3. OwnMove(o, k)
    BY <1>1, <2>1, <2>2 DEF OwnMove
  <2>4. LockMove(o, k)
    BY <2>1, <2>2 DEF LockMove, Inside
  <2> QED  BY <1>1, <2>1, <2>2, <2>3, <2>4, PlainInv DEF Switching, RollingBack
<1>5. CASE RetryCleaned(o)
  <2> DEFINE k == [op[o] EXCEPT !.pc = "connecting", !.try = op[o].try + 1]
  <2>1. /\ op' = [op EXCEPT ![o] = k] /\ op[o].pc = "cleaning"
        /\ tunnel' = "connecting" /\ locked' = locked
    BY <1>5 DEF RetryCleaned, At
  <2>2. op[o].try \in 0..MaxAttempts /\ op[o].try < MaxAttempts
    BY <1>1, <2>1 DEF TunnelInv, OpSound, Op
  <2>3. op[o].try + 1 \in 0..MaxAttempts
    BY <2>2, LifecycleAssumption
  <2>4. k \in Op /\ k.pc = "connecting" /\ k.conn = op[o].conn
    BY <1>1, <2>3 DEF Op, Points, Inside
  <2> HIDE DEF k
  <2>5. OwnMove(o, k)
    BY <1>1, <2>1, <2>4, StatesAre DEF OwnMove, Inside
  <2>6. LockMove(o, k)
    BY <2>1, <2>4 DEF LockMove, Inside
  <2> QED  BY <1>1, <2>1, <2>4, <2>5, <2>6, PlainInv DEF Switching, RollingBack
<1> QED  BY <1>2, <1>3, <1>4, <1>5

LEMMA EnabledInv ==
    ASSUME TunnelInv, NEW o \in Ops, Enabled(o)
    PROVE  TunnelInv'
<1>1. /\ op[o] \in Op /\ tunnel \in States /\ UNCHANGED provider /\ TypeOK
      /\ op[o].conn \in 0..made /\ op[o].pc = "enabling" /\ op[o].sw = "ok"
      /\ UNCHANGED <<locked, table, strays>> /\ guard' \in {"on", "lost"}
      /\ guard = "lost" => guard' = "lost"
  BY ConnRange DEF Enabled, At, Guard, TunnelInv, TypeOK
<1>2. PICK f \in {"reenabling", "connecting"} :
         op' = [op EXCEPT ![o] = [@ EXCEPT !.armed = TRUE, !.try = 1, !.sw = "delete", !.pc = f]]
  BY DEF Enabled
<1> DEFINE k == [op[o] EXCEPT !.armed = TRUE, !.try = 1, !.sw = "delete", !.pc = f]
<1>3. op' = [op EXCEPT ![o] = k] /\ 1 \in 0..MaxAttempts
  BY <1>2, LifecycleAssumption
<1>4. k \in Op /\ k.pc = f /\ k.sw = "delete" /\ k.conn = op[o].conn
  BY <1>1, <1>3 DEF Op, Points, Inside, SwitchSteps
<1> HIDE DEF k
<1>5. tunnel' \in {"gone", "connecting"}
  BY DEF Enabled
<1>6. OwnMove(o, k)
  BY <1>1, <1>4, <1>5, StatesAre, QuietProvider DEF OwnMove, Inside
<1>7. LockMove(o, k)
  BY <1>1, <1>4 DEF LockMove, Inside
<1>8. guard # "lost" => strays \cap SwitchSteps = {} /\ table = "drop"
  BY <1>1 DEF TunnelInv, GuardSound, SwitchSound, Switching
<1>9. LeavesSwitch(o)
  BY <1>1, <1>8 DEF LeavesSwitch, Inside
<1>10. SwitchMove(o, k)
  BY <1>4, <1>9, QuietSwitch DEF Switching
<1>11. ConnMove(o, k)
  BY <1>1, <1>4, <1>5 DEF ConnMove, Inside
<1>12. HostTyped' /\ UpIsKnown'
  BY <1>1, QuietProvider DEF HostTyped, TypeOK
<1> QED  BY <1>3, <1>4, <1>6, <1>7, <1>10, <1>11, <1>12, StepInv

LEMMA ConnectsInv ==
    ASSUME TunnelInv, NEW o \in Ops, Connects(o)
    PROVE  TunnelInv'
<1>1. /\ op[o] \in Op /\ tunnel \in States /\ TypeOK /\ op[o].conn \in 0..made
      /\ op[o].pc = "connecting" /\ made \in Nat /\ made < MaxConns /\ made' = made + 1
      /\ links' = links \cup {made + 1} /\ up' = up \cup {made + 1}
      /\ UNCHANGED <<ending, orphans, switch>>
  BY ConnRange DEF Connects, At, TunnelInv, TypeOK
<1>2. /\ made + 1 \in 0..MaxConns /\ 1..made \subseteq 1..(made + 1)
      /\ made + 1 \in 1..(made + 1) /\ made + 1 \notin 1..made
  BY <1>1, LifecycleAssumption
<1>3. Numbered' /\ UpIsKnown'
  BY <1>1, <1>2 DEF TunnelInv, Numbered, UpIsKnown
<1>4. HostTyped' /\ LeavesSwitch(o) /\ made' >= made /\ made' \in Nat
  BY <1>1, <1>3, QuietLeaves DEF Switching
<1>5. CASE AttemptFails(o, FALSE)
  BY <1>1, <1>3, <1>4, <1>5, FailInv DEF Inside
<1>6. CASE tunnel' = "establishing" /\ Goes(o, "establishing") /\ UNCHANGED locked
  <2> DEFINE k == [op[o] EXCEPT !.pc = "establishing"]
  <2>1. op' = [op EXCEPT ![o] = k]
    BY <1>6 DEF Goes
  <2>2. k \in Op /\ k.pc = "establishing" /\ k.conn = op[o].conn
    BY <1>1 DEF Op, Points, Inside
  <2> HIDE DEF k
  <2>3. OwnMove(o, k)
    BY <1>1, <1>4, <1>6, <2>2, StatesAre DEF OwnMove, Inside
  <2>4. LockMove(o, k)
    BY <1>1, <1>6, <2>2 DEF LockMove, Inside
  <2>5. SwitchMove(o, k)
    BY <1>4, <2>2, QuietSwitch DEF Switching
  <2>6. ConnMove(o, k)
    BY <1>1, <1>2 DEF ConnMove, Live, TunnelInv, Numbered
  <2> QED  BY <1>3, <1>4, <2>1, <2>2, <2>3, <2>4, <2>5, <2>6, StepInv
<1> QED  BY <1>5, <1>6 DEF Connects

LEMMA ConnectTimesOutInv ==
    ASSUME TunnelInv, NEW o \in Ops, ConnectTimesOut(o)
    PROVE  TunnelInv'
<1>1. /\ op[o].pc = "connecting" /\ AttemptFails(o, TRUE)
      /\ strays' = strays \cup {"connect"} /\ UNCHANGED <<table, guard>>
      /\ UNCHANGED provider /\ TypeOK
  BY DEF ConnectTimesOut, At, TunnelInv
<1>2. HostTyped' /\ UpIsKnown' /\ made' >= made
  BY <1>1, QuietProvider DEF HostTyped, TypeOK
<1>3. guard # "lost" => strays' \cap SwitchSteps = {}
  BY <1>1 DEF TunnelInv, GuardSound, SwitchSteps
<1>4. LeavesSwitch(o)
  BY <1>1, <1>3 DEF LeavesSwitch, Switching
<1> QED  BY <1>1, <1>2, <1>4, FailInv DEF Inside

LEMMA HealthyInv ==
    ASSUME TunnelInv, NEW o \in Ops, Healthy(o)
    PROVE  TunnelInv'
<1>1. /\ op[o] \in Op /\ tunnel \in States /\ TypeOK /\ op[o].conn \in 0..made
      /\ op[o].pc = "checking" /\ UNCHANGED provider /\ UNCHANGED <<table, strays>>
  BY ConnRange DEF Healthy, At, TunnelInv, TypeOK
<1>2. CASE tunnel = "gone" /\ AttemptFails(o, FALSE) /\ UNCHANGED guard
  <2>1. UNCHANGED switch
    BY <1>1, <1>2 DEF switch
  <2> QED  BY <1>1, <1>2, <2>1, QuietFailInv DEF Inside, Switching
<1>3. CASE /\ tunnel # "gone" /\ tunnel' = "connected" /\ Guard("off") /\ UNCHANGED locked
           /\ op' = [op EXCEPT ![o] = [@ EXCEPT !.pc = "disabling", !.sw = "drop"]]
  <2> DEFINE k == [op[o] EXCEPT !.pc = "disabling", !.sw = "drop"]
  <2>1. op' = [op EXCEPT ![o] = k]
    BY <1>3
  <2>2. k \in Op /\ k.pc = "disabling" /\ k.conn = op[o].conn
    BY <1>1 DEF Op, Points, Inside, SwitchSteps
  <2> HIDE DEF k
  <2>3. OwnMove(o, k)
    BY <1>1, <1>3, <2>2, StatesAre, QuietProvider DEF OwnMove, Inside
  <2>4. LockMove(o, k)
    BY <1>1, <1>3, <2>2 DEF LockMove, Inside
  <2>5. guard # "lost" => strays \cap SwitchSteps = {}
    BY DEF TunnelInv, GuardSound
  <2>6. SwitchMove(o, k)
    BY <1>1, <1>3, <2>2, <2>5 DEF SwitchMove, SwitchSound, Switching, Inside, Guard
  <2>7. ConnMove(o, k)
    BY <1>1, <1>3, <2>2, QuietProvider DEF ConnMove, RollingBack
  <2>8. HostTyped' /\ UpIsKnown'
    BY <1>1, <1>3, QuietProvider DEF HostTyped, TypeOK, Guard
  <2> QED  BY <2>1, <2>2, <2>3, <2>4, <2>6, <2>7, <2>8, StepInv
<1> QED  BY <1>2, <1>3 DEF Healthy

LEMMA DisabledInv ==
    ASSUME TunnelInv, NEW o \in Ops, Disabled(o)
    PROVE  TunnelInv'
<1> DEFINE k == [Fresh EXCEPT !.pc = "done"]
<1>1. /\ tunnel \in States /\ TypeOK /\ op[o].pc = "disabling" /\ op[o].sw = "ok"
      /\ op' = [op EXCEPT ![o] = k] /\ locked' = FALSE /\ tunnel' = tunnel
      /\ UNCHANGED <<provider, switch>>
  BY DEF Disabled, Ends, At, TunnelInv, TypeOK
<1>2. k \in Op /\ k.pc = "done" /\ k.conn = 0
  BY EndedType
<1> HIDE DEF k
<1>3. OwnMove(o, k)
  BY <1>1, <1>2, QuietProvider DEF OwnMove
<1>4. LockMove(o, k)
  BY <1>1, <1>2 DEF LockMove, Inside
<1>5. HostTyped' /\ UpIsKnown' /\ table' = table /\ strays' = strays /\ guard' = guard
  BY <1>1, QuietLeaves, QuietProvider
<1>6. guard # "lost" => strays \cap SwitchSteps = {} /\ guard # "on"
  BY <1>1 DEF TunnelInv, GuardSound, SwitchSound, Switching
<1>7. SwitchMove(o, k)
  BY <1>2, <1>5, <1>6 DEF SwitchMove, SwitchSound, Switching
<1>8. ConnMove(o, k)
  BY <1>1, <1>2, QuietProvider DEF ConnMove, RollingBack
<1> QED  BY <1>1, <1>2, <1>3, <1>4, <1>5, <1>7, <1>8, StepInv

-----------------------------------------------------------------------------
(* A connection is taken down: for a retry, to disconnect, or to roll back. *)

\* The disconnect of the recorded connection answers.
LEMMA TakenDown ==
    ASSUME TunnelInv, NEW o \in Ops, op[o].pc \notin Switching,
           Forget(op[o].conn), up' = up \ {op[o].conn},
           UNCHANGED <<made, ending, orphans, switch>>
    PROVE  HostTyped' /\ UpIsKnown' /\ LeavesSwitch(o) /\ made' = made /\ made \in Nat
<1>1. Numbered' /\ UpIsKnown'
  BY DEF TunnelInv, Numbered, UpIsKnown, Forget
<1> QED  BY <1>1, QuietLeaves, ConnRange

LEMMA RetryInv ==
    ASSUME TunnelInv, NEW o \in Ops,
           RetryDisconnected(o) \/ \E late \in BOOLEAN : RetryDisconnectFails(o, late)
    PROVE  TunnelInv'
<1>1. /\ op[o] \in Op /\ tunnel \in States /\ TypeOK /\ op[o].conn \in 0..made
      /\ op[o].pc = "retrying" /\ op[o].try < MaxAttempts /\ made \in Nat
      /\ made \in 0..MaxConns /\ Forget(op[o].conn) /\ UNCHANGED <<made, switch>>
  BY ConnRange DEF RetryDisconnected, RetryDisconnectFails, At, TunnelInv, TypeOK, OpSound
<1>2. CASE RetryDisconnected(o)
  <2> DEFINE k == [op[o] EXCEPT !.pc = "cleaning", !.conn = 0]
  <2>1. /\ op' = [op EXCEPT ![o] = k] /\ up' = up \ {op[o].conn}
        /\ UNCHANGED <<tunnel, locked, ending, orphans>>
    BY <1>2 DEF RetryDisconnected
  <2>2. 0 \in 0..MaxConns
    BY LifecycleAssumption
  <2>3. k \in Op /\ k.pc = "cleaning" /\ k.conn = 0 /\ k.try = op[o].try
    BY <1>1, <2>2 DEF Op, Points, Inside
  <2> HIDE DEF k
  <2>4. HostTyped' /\ UpIsKnown' /\ LeavesSwitch(o)
    BY <1>1, <2>1, TakenDown DEF Switching
  <2>5. OwnMove(o, k)
    BY <1>1, <2>1, <2>3 DEF OwnMove
  <2>6. LockMove(o, k)
    BY <1>1, <2>1, <2>3 DEF LockMove, Inside
  <2>7. SwitchMove(o, k)
    BY <2>3, <2>4, QuietSwitch DEF Switching
  <2>8. ConnMove(o, k)
    BY <1>1, <2>3 DEF ConnMove, Inside
  <2> QED  BY <2>1, <2>3, <2>4, <2>5, <2>6, <2>7, <2>8, StepInv
<1>3. ASSUME NEW late \in BOOLEAN, RetryDisconnectFails(o, late)
      PROVE  TunnelInv'
  <2>1. /\ op[o].conn # 0 /\ ConnectThrows(o) /\ up' = up
        /\ orphans' = orphans \cup {op[o].conn}
        /\ ending' \in {ending, ending \cup {op[o].conn}}
    BY <1>3 DEF RetryDisconnectFails
  <2>2. op[o].conn \in 1..made /\ op[o].conn \in 1..MaxConns
    BY <1>1, <2>1, LifecycleAssumption
  <2>3. Numbered' /\ UpIsKnown'
    BY <1>1, <2>1, <2>2 DEF TunnelInv, Numbered, UpIsKnown, Forget
  <2>4. HostTyped' /\ LeavesSwitch(o)
    BY <1>1, <2>3, QuietLeaves DEF Switching
  <2> QED  BY <1>1, <2>1, <2>3, <2>4, FailInv DEF Inside
<1> QED  BY <1>2, <1>3

\* establish() rolls back, outside the lock.
LEMMA UndoInv ==
    ASSUME TunnelInv, NEW o \in Ops, Undone(o) \/ Unmade(o) \/ UndoFails(o)
    PROVE  TunnelInv'
<1>1. /\ op[o] \in Op /\ tunnel \in States /\ TypeOK /\ op[o].conn \in 0..made
      /\ op[o].pc \in {"undoing", "unmaking"} /\ UNCHANGED switch /\ locked' = locked
  BY ConnRange DEF Undone, Unmade, UndoFails, At, TunnelInv, TypeOK
<1>2. ASSUME NEW k \in Op, op' = [op EXCEPT ![o] = k], k.conn \in 0..made', made' >= made,
             \/ k.pc \in {"unmaking", "unrolled"} /\ tunnel' = tunnel
             \/ k.pc = "done" /\ tunnel' = "gone",
             HostTyped', UpIsKnown', LeavesSwitch(o)
      PROVE  TunnelInv'
  <2>1. OwnMove(o, k)
    BY <1>1, <1>2, StatesAre DEF OwnMove
  <2>2. LockMove(o, k)
    BY <1>1, <1>2 DEF LockMove, Inside
  <2>3. SwitchMove(o, k)
    BY <1>2, QuietSwitch DEF Switching
  <2>4. ConnMove(o, k)
    BY <1>1, <1>2 DEF ConnMove, Inside, RollingBack
  <2> QED  BY <1>2, <2>1, <2>2, <2>3, <2>4, StepInv
<1>3. CASE Undone(o)
  <2> DEFINE k == [op[o] EXCEPT !.pc = "unmaking", !.conn = 0]
  <2>1. /\ op' = [op EXCEPT ![o] = k] /\ Forget(op[o].conn) /\ up' = up \ {op[o].conn}
        /\ UNCHANGED <<tunnel, made, ending, orphans>>
    BY <1>3 DEF Undone
  <2>2. 0 \in 0..MaxConns
    BY LifecycleAssumption
  <2>3. k \in Op /\ k.pc = "unmaking" /\ k.conn = 0
    BY <1>1, <2>2 DEF Op, Points
  <2> HIDE DEF k
  <2>4. /\ HostTyped' /\ UpIsKnown' /\ LeavesSwitch(o)
        /\ made' = made /\ made \in Nat
    BY <1>1, <2>1, TakenDown DEF Switching
  <2>5. 0 \in 0..made' /\ made' >= made
    BY <2>4
  <2> QED  BY <1>2, <2>1, <2>3, <2>4, <2>5
<1>4. CASE Unmade(o)
  <2> DEFINE k == [Fresh EXCEPT !.pc = "done"]
  <2>1. op' = [op EXCEPT ![o] = k] /\ tunnel' = "gone" /\ UNCHANGED provider
    BY <1>4 DEF Unmade, Ends
  <2>2. k \in Op /\ k.pc = "done" /\ k.conn = 0
    BY EndedType
  <2> HIDE DEF k
  <2>3. /\ HostTyped' /\ UpIsKnown' /\ LeavesSwitch(o) /\ made' = made /\ made \in Nat
    BY <1>1, <2>1, QuietLeaves, QuietProvider DEF Switching
  <2>4. 0 \in 0..made' /\ made' >= made
    BY <2>3
  <2> QED  BY <1>2, <2>1, <2>2, <2>3, <2>4
<1>5. CASE UndoFails(o)
  <2> DEFINE k == [op[o] EXCEPT !.pc = "unrolled"]
  <2>1. op' = [op EXCEPT ![o] = k] /\ tunnel' = tunnel /\ UNCHANGED provider
    BY <1>5 DEF UndoFails, Goes
  <2>2. k \in Op /\ k.pc = "unrolled" /\ k.conn = op[o].conn
    BY <1>1 DEF Op, Points
  <2> HIDE DEF k
  <2>3. /\ HostTyped' /\ UpIsKnown' /\ LeavesSwitch(o) /\ made' = made /\ made \in Nat
    BY <1>1, <2>1, QuietLeaves, QuietProvider DEF Switching
  <2>4. k.conn \in 0..made' /\ made' >= made
    BY <1>1, <2>2, <2>3
  <2> QED  BY <1>2, <2>1, <2>2, <2>3, <2>4
<1> QED  BY <1>3, <1>4, <1>5

-----------------------------------------------------------------------------
(* disconnect(). *)

LEMMA ClosedInv ==
    ASSUME TunnelInv, NEW o \in Ops, Closed(o)
    PROVE  TunnelInv'
<1>1. /\ op[o] \in Op /\ tunnel \in States /\ UNCHANGED provider /\ TypeOK
      /\ op[o].conn \in 0..made /\ op[o].pc = "closing" /\ op[o].sw = "ok"
      /\ UNCHANGED <<table, strays>> /\ guard' \in {"on", "lost"}
      /\ guard = "lost" => guard' = "lost"
      /\ made' = made /\ made \in Nat
  BY ConnRange, QuietProvider DEF Closed, At, Guard, TunnelInv, TypeOK
<1>2. guard # "lost" => strays \cap SwitchSteps = {} /\ table = "drop"
  BY <1>1 DEF TunnelInv, GuardSound, SwitchSound, Switching
<1>3. LeavesSwitch(o) /\ made' >= made
  BY <1>1, <1>2 DEF LeavesSwitch, Inside
<1>4. HostTyped' /\ UpIsKnown'
  BY <1>1, QuietProvider DEF HostTyped, TypeOK
<1>5. CASE Rejects(o) /\ UNCHANGED tunnel
  BY <1>1, <1>3, <1>4, <1>5, QuietProvider, RejectInv DEF Inside
<1>6. CASE /\ tunnel' = "disconnecting" /\ UNCHANGED locked
           /\ op' = [op EXCEPT ![o] = [@ EXCEPT !.pc = "leaving", !.seen = "gone"]]
  <2> DEFINE k == [op[o] EXCEPT !.pc = "leaving", !.seen = "gone"]
  <2>1. op' = [op EXCEPT ![o] = k]
    BY <1>6
  <2>2. k \in Op /\ k.pc = "leaving" /\ k.conn = op[o].conn
    BY <1>1, StatesAre DEF Op, Points, Inside
  <2> HIDE DEF k
  <2>3. OwnMove(o, k)
    BY <1>1, <1>6, <2>2, StatesAre DEF OwnMove, Inside
  <2>4. LockMove(o, k)
    BY <1>1, <1>6, <2>2 DEF LockMove, Inside
  <2>5. SwitchMove(o, k)
    BY <1>3, <2>2, QuietSwitch DEF Switching
  <2>6. ConnMove(o, k)
    BY <1>1, <1>6, <2>2 DEF ConnMove, Inside
  <2> QED  BY <1>4, <2>1, <2>2, <2>3, <2>4, <2>5, <2>6, StepInv
<1> QED  BY <1>5, <1>6 DEF Closed

LEMMA LeftInv ==
    ASSUME TunnelInv, NEW o \in Ops, Left(o) \/ \E late \in BOOLEAN : LeavingFails(o, late)
    PROVE  TunnelInv'
<1>1. /\ op[o] \in Op /\ tunnel \in States /\ TypeOK /\ op[o].conn \in 0..made
      /\ op[o].pc = "leaving" /\ tunnel # "connected" /\ made \in Nat
      /\ UNCHANGED <<tunnel, made, orphans, switch>>
  BY ConnRange DEF Left, LeavingFails, At, TunnelInv, TypeOK, OpSound
<1>2. CASE Left(o)
  <2> DEFINE k == [op[o] EXCEPT !.pc = "tidying", !.conn = 0]
  <2>1. /\ op' = [op EXCEPT ![o] = k] /\ Forget(op[o].conn) /\ up' = up \ {op[o].conn}
        /\ UNCHANGED <<locked, ending>>
    BY <1>2 DEF Left
  <2>2. 0 \in 0..MaxConns
    BY LifecycleAssumption
  <2>3. k \in Op /\ k.pc = "tidying" /\ k.conn = 0
    BY <1>1, <2>2 DEF Op, Points, Inside
  <2> HIDE DEF k
  <2>4. HostTyped' /\ UpIsKnown' /\ LeavesSwitch(o)
    BY <1>1, <2>1, TakenDown DEF Switching
  <2>5. OwnMove(o, k)
    BY <1>1, <2>1, <2>3 DEF OwnMove
  <2>6. LockMove(o, k)
    BY <1>1, <2>1, <2>3 DEF LockMove, Inside
  <2>7. SwitchMove(o, k)
    BY <2>3, <2>4, QuietSwitch DEF Switching
  <2>8. ConnMove(o, k)
    BY <1>1, <2>3 DEF ConnMove, Inside
  <2> QED  BY <2>1, <2>3, <2>4, <2>5, <2>6, <2>7, <2>8, StepInv
<1>3. ASSUME NEW late \in BOOLEAN, LeavingFails(o, late)
      PROVE  TunnelInv'
  <2>1. /\ op[o].conn # 0 /\ Rejects(o) /\ UNCHANGED <<links, up>>
        /\ ending' \in {ending, ending \cup {op[o].conn}}
    BY <1>3 DEF LeavingFails
  <2>2. op[o].conn \in 1..made
    BY <1>1, <2>1
  <2>3. Numbered' /\ UpIsKnown'
    BY <1>1, <2>1, <2>2 DEF TunnelInv, Numbered, UpIsKnown
  <2>4. HostTyped' /\ LeavesSwitch(o) /\ made' >= made
    BY <1>1, <2>3, QuietLeaves DEF Switching
  <2> QED  BY <1>1, <2>1, <2>3, <2>4, RejectInv DEF Inside
<1> QED  BY <1>2, <1>3

LEMMA TidiedInv ==
    ASSUME TunnelInv, NEW o \in Ops, Tidied(o) \/ Destroyed(o) \/ TidyingFails(o)
    PROVE  TunnelInv'
<1>1. /\ op[o] \in Op /\ tunnel \in States /\ TypeOK /\ op[o].conn \in 0..made
      /\ op[o].pc \in {"tidying", "destroying"} /\ tunnel # "connected"
      /\ made' = made /\ made \in Nat /\ UNCHANGED <<provider, switch>>
  BY ConnRange, QuietProvider
     DEF Tidied, Destroyed, TidyingFails, At, TunnelInv, TypeOK, OpSound
<1>2. HostTyped' /\ UpIsKnown' /\ LeavesSwitch(o) /\ made' >= made
  BY <1>1, QuietLeaves, QuietProvider DEF Switching
<1>3. CASE Rejects(o) /\ UNCHANGED tunnel
  BY <1>1, <1>2, <1>3, RejectInv DEF Inside
<1>4. ASSUME NEW k \in Op, op' = [op EXCEPT ![o] = k], k.conn \in 0..made,
             tunnel' \in {"disconnected", "destroyed"},
             \/ k.pc = "destroying" /\ locked' = locked
             \/ k.pc \in {"locking", "done"} /\ locked' = FALSE
      PROVE  TunnelInv'
  <2>1. OwnMove(o, k)
    BY <1>1, <1>2, <1>4, StatesAre DEF OwnMove, Inside
  <2>2. LockMove(o, k)
    BY <1>1, <1>4 DEF LockMove, Inside
  <2> QED  BY <1>1, <1>4, <2>1, <2>2, PlainInv DEF Switching, RollingBack
<1>5. CASE Ends(o) /\ locked' = FALSE /\ tunnel' \in {"disconnected", "destroyed"}
  <2> DEFINE k == [Fresh EXCEPT !.pc = "done"]
  <2>1. op' = [op EXCEPT ![o] = k]
    BY <1>5 DEF Ends
  <2>2. k \in Op /\ k.pc = "done" /\ k.conn = 0
    BY EndedType
  <2> HIDE DEF k
  <2>3. 0 \in 0..made
    BY <1>1
  <2> QED  BY <1>4, <1>5, <2>1, <2>2, <2>3
<1>6. CASE Goes(o, "destroying") /\ UNCHANGED locked /\ tunnel' = "disconnected"
  <2> DEFINE k == [op[o] EXCEPT !.pc = "destroying"]
  <2>1. op' = [op EXCEPT ![o] = k]
    BY <1>6 DEF Goes
  <2>2. k \in Op /\ k.pc = "destroying" /\ k.conn = op[o].conn
    BY <1>1 DEF Op, Points, Inside
  <2> HIDE DEF k
  <2> QED  BY <1>1, <1>4, <1>6, <2>1, <2>2
<1>7. CASE /\ op' = [op EXCEPT ![o] = [@ EXCEPT !.kind = "connect", !.pc = "locking"]]
           /\ locked' = FALSE /\ tunnel' = "disconnected"
  <2> DEFINE k == [op[o] EXCEPT !.kind = "connect", !.pc = "locking"]
  <2>1. op' = [op EXCEPT ![o] = k]
    BY <1>7
  <2>2. k \in Op /\ k.pc = "locking" /\ k.conn = op[o].conn
    BY <1>1 DEF Op, Points, Kinds
  <2> HIDE DEF k
  <2> QED  BY <1>1, <1>4, <1>7, <2>1, <2>2
<1> QED  BY <1>3, <1>5, <1>6, <1>7 DEF Tidied, Destroyed, TidyingFails

-----------------------------------------------------------------------------
(* The kill switch. *)

\* One nft command never leads past the drop, except to delete or to undo.
LEMMA CommandSound ==
    ASSUME NEW step \in SwitchSteps, NEW next \in SwitchSteps \cup {"ok", "bad"},
           table \in {"absent", "open", "drop"}, Command(step, next)
    PROVE  /\ table' \in {"absent", "open", "drop"}
           /\ next # "drop"
           /\ /\ step # "drop"
              /\ step \in {"rules", "ok"} => table = "drop"
              /\ next \in {"rules", "ok"}
              => table' = "drop"
BY DEF Command, Effect, AfterCommand, AfterFailure, SwitchSteps

LEMMA RunsInv ==
    ASSUME TunnelInv, NEW o \in Ops, Runs(o)
    PROVE  TunnelInv'
<1>1. /\ op[o] \in Op /\ tunnel \in States /\ TypeOK /\ op[o].conn \in 0..made
      /\ op[o].pc \in Switching /\ op[o].sw \in SwitchSteps
      /\ UNCHANGED <<tunnel, locked, provider, strays, guard>>
  BY ConnRange DEF Runs, TunnelInv, TypeOK
<1>2. PICK next \in SwitchSteps \cup {"ok", "bad"} :
         /\ Command(op[o].sw, next)
         /\ op' = [op EXCEPT ![o] = [@ EXCEPT !.sw = next]]
  BY DEF Runs
<1> DEFINE k == [op[o] EXCEPT !.sw = next]
<1>3. op' = [op EXCEPT ![o] = k]
  BY <1>2
<1>4. k \in Op /\ k.pc = op[o].pc /\ k.conn = op[o].conn /\ k.sw = next
  BY <1>1 DEF Op
<1> HIDE DEF k
<1>5. table \in {"absent", "open", "drop"}
  BY <1>1 DEF TypeOK
<1>6. /\ table' \in {"absent", "open", "drop"} /\ next # "drop"
      /\ /\ op[o].sw # "drop"
         /\ op[o].sw \in {"rules", "ok"} => table = "drop"
         /\ next \in {"rules", "ok"}
         => table' = "drop"
  BY <1>1, <1>2, <1>5, CommandSound
<1>7. OwnMove(o, k)
  BY <1>1, <1>4, QuietProvider DEF OwnMove, Switching
<1>8. LockMove(o, k)
  BY <1>1, <1>4 DEF LockMove, Switching, Inside
<1>9. guard # "lost" => strays \cap SwitchSteps = {} /\ SwitchSound(op[o], guard, table)
  BY DEF TunnelInv, GuardSound
<1>10. guard # "lost" => SwitchSound(k, guard, table')
  BY <1>4, <1>6, <1>9 DEF SwitchSound
<1>11. SwitchMove(o, k)
  <2> SUFFICES ASSUME guard # "lost"
               PROVE  guard = "on" => table' = "drop" \/ k.sw # "ok"
    BY <1>1, <1>4, <1>9, <1>10 DEF SwitchMove
  <2> QED  BY <1>1, <1>4, <1>10 DEF SwitchSound
<1>12. ConnMove(o, k)
  BY <1>1, <1>4, QuietProvider DEF ConnMove, Switching, RollingBack
<1>13. HostTyped' /\ UpIsKnown'
  BY <1>1, <1>6, QuietProvider DEF HostTyped, TypeOK
<1> QED  BY <1>3, <1>4, <1>7, <1>8, <1>11, <1>12, <1>13, StepInv

LEMMA SwitchEndsInv ==
    ASSUME TunnelInv, NEW o \in Ops,
           SwitchFails(o) \/ Reenabled(o) \/ SwitchTimesOut(o)
    PROVE  TunnelInv'
<1>1. /\ op[o] \in Op /\ TypeOK /\ op[o].pc \in Switching /\ op[o].pc \in Inside
      /\ op[o].pc \notin {"retrying", "cleaning"}
      /\ UNCHANGED <<provider, table>>
  BY DEF SwitchFails, Reenabled, SwitchTimesOut, At, TunnelInv, TypeOK, Switching, Inside
<1>2. /\ UNCHANGED <<links, up, ending>> /\ made' >= made /\ Numbered' /\ UpIsKnown'
  BY <1>1, QuietProvider
<1>3. \/ ConnectThrows(o)
      \/ AttemptFails(o, TRUE)
      \/ Rejects(o) /\ UNCHANGED tunnel
  BY DEF SwitchFails, Reenabled, SwitchTimesOut, At
<1>4. guard # "lost" => strays \cap SwitchSteps = {} /\ SwitchSound(op[o], guard, table)
  BY DEF TunnelInv, GuardSound
<1>5. LeavesSwitch(o) /\ HostTyped'
  <2>1. CASE SwitchFails(o)
    BY <1>1, <1>2, <1>4, <2>1 DEF SwitchFails, Guard, LeavesSwitch, HostTyped, TypeOK
  <2>2. CASE Reenabled(o)
    <3>1. guard # "lost" => table = "drop"
      BY <1>4, <2>2 DEF Reenabled, At, SwitchSound, Switching
    <3> QED  BY <1>1, <1>2, <1>4, <2>2, <3>1
             DEF Reenabled, Guard, LeavesSwitch, HostTyped, TypeOK
  <2>3. CASE SwitchTimesOut(o)
    BY <1>1, <1>2, <2>3 DEF SwitchTimesOut, LeavesSwitch, HostTyped, TypeOK
  <2> QED  BY <2>1, <2>2, <2>3
<1>6. CASE Rejects(o) /\ UNCHANGED tunnel
  BY <1>1, <1>2, <1>5, <1>6, RejectInv
<1> QED  BY <1>1, <1>2, <1>3, <1>5, <1>6, FailInv

-----------------------------------------------------------------------------
(* What was abandoned goes on. *)

LEMMA HostInv ==
    ASSUME TunnelInv, UNCHANGED <<tunnel, locked, op, guard>>, HostTyped', UpIsKnown',
           made' >= made, Live => Live',
           guard # "lost" => table' = table /\ strays' \cap SwitchSteps = {}
    PROVE  TunnelInv'
<1>1. made \in Nat /\ made' \in 0..MaxConns /\ 1..made' \subseteq 1..MaxConns
  BY ConnRange, LifecycleAssumption DEF HostTyped, Numbered
<1>2. TypeOK'
  BY <1>1 DEF TunnelInv, TypeOK, HostTyped, Numbered
<1>3. LockMatchesOperation'
  BY DEF TunnelInv, LockMatchesOperation
<1>4. FailClosed' /\ GuardSound'
  BY DEF TunnelInv, FailClosed, GuardSound
<1>5. Alone' = Alone
  BY DEF Alone
<1>6. ASSUME NEW o \in Ops PROVE OpSound(o)'
  <2>1. op[o].conn \in 0..made'
    BY <1>1, ConnRange
  <2> QED  BY <1>5, <2>1 DEF TunnelInv, OpSound
<1>7. ConnectedLive'
  BY <1>5 DEF TunnelInv, ConnectedLive
<1> QED  BY <1>2, <1>3, <1>4, <1>6, <1>7 DEF TunnelInv, HostTyped

LEMMA AbandonedInv ==
    ASSUME TunnelInv,
           \/ \E step \in SwitchSteps : StrayCommand(step)
           \/ LateConnect
           \/ \E c \in ending : LateDisconnect(c)
    PROVE  TunnelInv'
<1>1. TypeOK /\ made \in Nat /\ (guard # "lost" => strays \cap SwitchSteps = {})
  BY ConnRange DEF TunnelInv, GuardSound
<1>2. ASSUME NEW step \in SwitchSteps, StrayCommand(step)
      PROVE  TunnelInv'
  <2>1. /\ step \in strays /\ UNCHANGED <<tunnel, locked, op, provider, guard>>
        /\ \E next \in SwitchSteps \cup {"ok", "bad"} :
              /\ Command(step, next)
              /\ strays' = (strays \ {step}) \cup ({next} \cap SwitchSteps)
    BY <1>2 DEF StrayCommand
  <2>2. guard = "lost"
    BY <1>1, <2>1
  <2>3. table' \in {"absent", "open", "drop"}
    BY <1>1, <2>1, CommandSound DEF TypeOK
  <2>4. HostTyped' /\ UpIsKnown'
    BY <1>1, <2>1, <2>3, QuietProvider DEF HostTyped, TypeOK
  <2>5. Live => Live'
    BY <2>1, QuietProvider DEF Live
  <2> QED  BY <1>1, <2>1, <2>2, <2>4, <2>5, QuietProvider, HostInv
<1>3. CASE LateConnect
  <2>1. /\ made < MaxConns /\ made' = made + 1 /\ up' = up \cup {made + 1}
        /\ orphans' = orphans \cup {made + 1} /\ strays' = strays \ {"connect"}
        /\ UNCHANGED <<tunnel, locked, op, links, ending, table, guard>>
    BY <1>3 DEF LateConnect
  <2>2. made + 1 \in 1..MaxConns /\ 1..made \subseteq 1..(made + 1) /\ made + 1 \in 1..(made + 1)
    BY <1>1, <2>1, LifecycleAssumption
  <2>3. HostTyped' /\ UpIsKnown'
    BY <1>1, <2>1, <2>2, LifecycleAssumption
       DEF TunnelInv, Numbered, HostTyped, TypeOK, UpIsKnown
  <2>4. Live => Live'
    BY <2>1 DEF Live
  <2>5. made' >= made /\ (guard # "lost" => strays' \cap SwitchSteps = {})
    BY <1>1, <2>1
  <2> QED  BY <2>1, <2>3, <2>4, <2>5, HostInv
<1>4. ASSUME NEW c \in ending, LateDisconnect(c)
      PROVE  TunnelInv'
  <2>1. /\ ending' = ending \ {c} /\ up' = up \ {c}
        /\ UNCHANGED <<tunnel, locked, op, links, made, orphans, switch>>
    BY <1>4 DEF LateDisconnect
  <2>2. Numbered' /\ UpIsKnown'
    BY <2>1 DEF TunnelInv, Numbered, UpIsKnown
  <2>3. Live => Live'
    BY <2>1 DEF Live
  <2>4. /\ HostTyped' /\ made' >= made /\ guard' = guard /\ table' = table
        /\ strays' = strays
    BY <1>1, <2>1, <2>2, QuietLeaves
  <2> QED  BY <1>1, <2>1, <2>2, <2>3, <2>4, HostInv
<1> QED  BY <1>2, <1>3, <1>4

-----------------------------------------------------------------------------
(* The theorems. *)

LEMMA TunnelInit == Init => TunnelInv
<1> SUFFICES ASSUME Init PROVE TunnelInv
  OBVIOUS
<1>1. /\ op \in [Ops -> Op] /\ \A o \in Ops : op[o] = Fresh
      /\ Fresh.pc = "idle" /\ Fresh.conn = 0
      /\ tunnel \in {"gone", "configured"} /\ locked = FALSE
      /\ links = {} /\ made = 0 /\ up = {} /\ ending = {} /\ orphans = {}
      /\ table = "absent" /\ strays = {} /\ guard = "off"
  BY FreshType DEF Init, Fresh
<1> HIDE DEF Fresh
<1>2. TypeOK /\ Numbered
  <2>1. 0 \in 0..MaxConns /\ "gone" \in States /\ "configured" \in States
    BY StatesAre, LifecycleAssumption
  <2> QED  BY <1>1, <2>1 DEF TypeOK, Numbered
<1>3. LockMatchesOperation
  BY <1>1 DEF LockMatchesOperation, Inside
<1>4. UpIsKnown /\ FailClosed /\ GuardSound /\ ConnectedLive
  BY <1>1 DEF UpIsKnown, FailClosed, GuardSound, ConnectedLive, SwitchSound, Switching
<1>5. \A o \in Ops : OpSound(o)
  BY <1>1 DEF OpSound
<1> QED  BY <1>2, <1>3, <1>4, <1>5 DEF TunnelInv

LEMMA TunnelInductive == TunnelInv /\ [Next]_vars => TunnelInv'
<1> SUFFICES ASSUME TunnelInv, [Next]_vars PROVE TunnelInv'
  OBVIOUS
<1>1. CASE UNCHANGED vars
  <2>1. UNCHANGED <<tunnel, locked, op, provider, switch>>
    BY <1>1 DEF vars, provider, switch
  <2>2. /\ HostTyped' /\ UpIsKnown' /\ made' >= made /\ guard' = guard /\ table' = table
        /\ strays' = strays /\ UNCHANGED <<links, up, ending>>
    BY <2>1, QuietLeaves, QuietProvider
  <2> QED  BY <2>1, <2>2, HostInv DEF Live, TunnelInv, GuardSound
<1>2. ASSUME NEW o \in Ops, NEW kind \in Kinds, Call(o, kind) PROVE TunnelInv'
  BY <1>2, CallInv
<1>3. ASSUME NEW o \in Ops, ConnectStep(o) PROVE TunnelInv'
  BY <1>3, LockInv, ConnectQuietInv, ConnectPlainInv, EnabledInv, ConnectsInv,
     ConnectTimesOutInv, HealthyInv, DisabledInv, RetryInv DEF ConnectStep
<1>4. ASSUME NEW o \in Ops, DisconnectStep(o) PROVE TunnelInv'
  BY <1>4, ClosedInv, LeftInv, TidiedInv, UndoInv DEF DisconnectStep
<1>5. ASSUME NEW o \in Ops, SwitchStep(o) PROVE TunnelInv'
  BY <1>5, RunsInv, SwitchEndsInv DEF SwitchStep
<1>6. ASSUME \/ \E step \in SwitchSteps : StrayCommand(step)
             \/ LateConnect
             \/ \E c \in ending : LateDisconnect(c)
      PROVE  TunnelInv'
  BY <1>6, AbandonedInv
<1> QED  BY <1>1, <1>2, <1>3, <1>4, <1>5, <1>6 DEF Next

LEMMA TunnelAlways == Spec => []TunnelInv
BY TunnelInit, TunnelInductive, PTL DEF Spec

\* From the enable of connect() or disconnect() until a connection was verified,
\* over retries, failed safety actions, rollbacks and later calls, the firewall
\* drops, but for an enable under way and what the history variable names.
THEOREM AlwaysFailClosed == Spec => []FailClosed
<1>1. TunnelInv => FailClosed
  BY DEF TunnelInv
<1> QED  BY <1>1, TunnelAlways, PTL

\* However many calls meet, whatever is retried, late or rolled back beside the
\* lock: one operation at a time, no connection that is up is out of sight but
\* for the orphans named, and a connected tunnel at rest has one that is up.
THEOREM ConnectionsAlwaysAccounted == Spec => []ConnectionsAreAccounted
<1>1. ASSUME TunnelInv PROVE ConnectedIsUp
  <2> SUFFICES ASSUME tunnel = "connected",
                      \A o \in Ops : op[o].pc \in {"idle", "locking", "done"}
               PROVE  links \cap up # {}
    BY DEF ConnectedIsUp
  <2>1. Alone /\ \A o \in Ops : op[o].pc \notin {"retrying", "cleaning"}
    BY DEF Alone, RollingBack
  <2>2. Live
    BY <1>1, <2>1 DEF TunnelInv, ConnectedLive
  <2> QED  BY <2>2 DEF Live
<1>2. TunnelInv => ConnectionsAreAccounted
  BY <1>1 DEF TunnelInv, ConnectionsAreAccounted
<1> QED  BY <1>2, TunnelAlways, PTL
=============================================================================
