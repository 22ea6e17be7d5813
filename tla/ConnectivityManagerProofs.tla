--------------------- MODULE ConnectivityManagerProofs ---------------------
(***************************************************************************)
(* Proofs about the connectivity manager, for every set of sources and of  *)
(* calls and every retry count.                                            *)
(***************************************************************************)
EXTENDS ConnectivityManager, TLAPS

-----------------------------------------------------------------------------
(* The inductive invariant. *)

\* A call that has a provider's answer to wait for names its source.
CallSound(k) ==
    /\ k.pc \in Working \cup {"queued", "probing", "listing", "dropping", "reaching"} =>
          k.target \in Sources
    /\ k.pc = "deactivating" => k.prev \in Sources
    /\ k.pc = "dropping" => k.kind \in {"deactivate", "connect"}
    /\ k.pc = "reaching" => k.kind = "connect"

\* A source that is up on the host, or that somebody has taken down meanwhile.
Backed(s) ==
    \/ s \in up
    \/ \E c \in Calls : /\ call[c].kind \in {"deactivate", "connect"}
                        /\ call[c].target = s
                        /\ call[c].pc = "over"

\* The transition under way: its candidate is not the active source before it
\* commits, and its previous source is not the active one after.
WorkSound(c) ==
    /\ call[c].pc \in {"evaluating", "activating", "verifying"} =>
          active # call[c].target
    /\ call[c].pc = "verifying" => Backed(call[c].target)
    /\ call[c].pc = "deactivating" =>
          /\ active \in {call[c].target, None}
          /\ call[c].prev # call[c].target

ActiveSound == active # None => Backed(active) /\ res[active] # "absent"

\* Whoever explains a source that is up will have excused it when it ends.
Explained(s) ==
    \/ s = active \/ s \in excused
    \/ \E c \in Calls : \/ call[c].pc = "verifying" /\ call[c].target = s
                        \/ call[c].pc = "deactivating" /\ call[c].prev = s

ManagerInv ==
    /\ TypeOK /\ OneTransition
    /\ \A c \in Calls : CallSound(call[c])
    /\ \A c \in Calls : WorkSound(c)
    /\ ActiveSound
    /\ \A s \in up : Explained(s)

-----------------------------------------------------------------------------
(* What one call does to itself. *)

RestTyped ==
    /\ registered \subseteq Sources
    /\ res \in [Sources -> States] /\ seen \in [Sources -> Healths]
    /\ forced \in Sources \cup {None} /\ disabled \subseteq Sources
    /\ fails \in [Sources -> 0..RetryCount]
    /\ outside \in 0..MaxOutside

Moves(c, k) == call' = [call EXCEPT ![c] = k] /\ k \in Call /\ CallSound(k)

\* No resource loses its entry.
Kept == \A s \in Sources : res[s] # "absent" => res'[s] # "absent"

LEMMA NoCallType == NoCall \in Call /\ NoCall.pc = "idle"
<1>1. 0 \in 0..(RetryCount - 1)
  BY ConnectivityBounds
<1>2. NoStale \in [Sources -> States]
  BY DEF NoStale, States
<1> HIDE DEF NoStale
<1> QED  BY <1>1, <1>2 DEF NoCall, Call, Kinds, Points, Outcomes

LEMMA EndedType ==
    ASSUME NEW k \in Call, NEW how \in Outcomes
    PROVE  LET e == Ended(k, how) IN
           /\ e \in Call /\ CallSound(e)
           /\ e.pc = "over" /\ e.kind = k.kind /\ e.target = k.target
<1> DEFINE e == Ended(k, how)
<1>1. NoCall \in Call
  BY NoCallType
<1> HIDE DEF NoCall
<1>2. e \in Call /\ e.pc = "over" /\ e.kind = k.kind /\ e.target = k.target
  BY <1>1 DEF Ended, Call, Points
<1> HIDE DEF e
<1>3. CallSound(e)
  BY <1>2 DEF CallSound, Working
<1> QED  BY <1>2, <1>3 DEF e

\* Where the caller of a transition goes on.
LEMMA ResumesShape ==
    ASSUME TypeOK, NEW c \in Calls, CallSound(call[c]), call[c].target \in Sources,
           NEW how \in {"committed", "rejected", "threw"}, Resumes(c, how)
    PROVE  \E k : Moves(c, k) /\ k.pc \in {"starting", "reaching", "over"}
<1> DEFINE k == call[c]
<1>1. k \in Call /\ k.target \in Sources
  BY DEF TypeOK
<1>2. CASE k.kind = "failover" /\ how # "committed" /\ LastRound(c)
  <2>1. call' = [call EXCEPT ![c] = Ended(k, "exhausted")]
    BY <1>2 DEF Resumes, Goes
  <2>2. "exhausted" \in Outcomes
    BY DEF Outcomes
  <2> QED  BY <1>1, <2>1, <2>2, EndedType DEF Moves
<1>3. CASE k.kind = "failover" /\ how # "committed" /\ ~LastRound(c)
  <2> DEFINE n == [k EXCEPT !.pc = "starting", !.round = k.round + 1]
  <2>1. call' = [call EXCEPT ![c] = n]
    BY <1>3 DEF Resumes, Goes
  <2>2. k.round + 1 \in 0..(RetryCount - 1)
    BY <1>1, <1>3, ConnectivityBounds DEF LastRound, Call
  <2>3. n \in Call /\ n.pc = "starting"
    <3> HIDE DEF k
    <3> QED  BY <1>1, <2>2 DEF Call, Points
  <2> HIDE DEF n
  <2>4. CallSound(n)
    BY <2>3 DEF CallSound, Working
  <2> QED  BY <2>1, <2>3, <2>4 DEF Moves
<1>4. CASE k.kind = "connect" /\ how = "committed"
  <2> DEFINE n == [k EXCEPT !.pc = "reaching"]
  <2>1. call' = [call EXCEPT ![c] = n]
    BY <1>4 DEF Resumes, Goes
  <2>2. n \in Call /\ n.pc = "reaching" /\ n.kind = "connect" /\ n.target = k.target
    <3> HIDE DEF k
    <3> QED  BY <1>1, <1>4 DEF Call, Points
  <2> HIDE DEF n
  <2>3. CallSound(n)
    BY <1>1, <2>2 DEF CallSound, Working
  <2> QED  BY <2>1, <2>2, <2>3 DEF Moves
<1>5. CASE ~(k.kind = "failover" /\ how # "committed") /\ ~(k.kind = "connect" /\ how = "committed")
  <2>1. call' = [call EXCEPT ![c] = Ended(k, how)]
    BY <1>5 DEF Resumes, Goes
  <2>2. how \in Outcomes
    BY DEF Outcomes
  <2> QED  BY <1>1, <2>1, <2>2, EndedType DEF Moves
<1> QED  BY <1>2, <1>3, <1>4, <1>5

LEMMA EndsShape ==
    ASSUME TypeOK, NEW c \in Calls, CallSound(call[c]), call[c].target \in Sources,
           NEW how \in {"committed", "rejected", "threw"}, NEW marked \in {0, 1},
           Ends(c, how, marked)
    PROVE  /\ fails' \in [Sources -> 0..RetryCount] /\ lock' = None
           /\ \E k : Moves(c, k) /\ k.pc \in {"starting", "reaching", "over"}
<1>1. \A n \in 0..RetryCount, by \in {0, 1, 2} : MoreFails(n, by) \in 0..RetryCount
  BY ConnectivityBounds DEF MoreFails
<1>2. PICK again \in {0, 1} : FailuresOf(c, how, marked) =
         [fails EXCEPT ![call[c].target] =
             IF how = "committed" THEN 0 ELSE MoreFails(@, marked + again)]
  BY Zenon DEF FailuresOf
<1>3. marked + again \in {0, 1, 2} /\ 0 \in 0..RetryCount
  BY ConnectivityBounds
<1>4. fails' \in [Sources -> 0..RetryCount]
  BY <1>1, <1>2, <1>3 DEF Ends, TypeOK
<1> QED  BY <1>4, ResumesShape DEF Ends

-----------------------------------------------------------------------------
(* What one call does to the others. *)

LEMMA OneWorker ==
    ASSUME OneTransition, NEW c \in Calls, NEW d \in Calls,
           call[c].pc \in Working, call[d].pc \in Working
    PROVE  c = d
BY DEF OneTransition

\* A call that is over stays over, so it goes on backing its source.
LEMMA BackedStays ==
    ASSUME TypeOK, NEW c \in Calls, NEW k, Moves(c, k), call[c].pc # "over",
           NEW s, Backed(s), s \in up => s \in up'
    PROVE  Backed(s)'
BY DEF Backed, Moves, TypeOK

\* A call without the lock moves on.
LEMMA AsideInv ==
    ASSUME ManagerInv, NEW c \in Calls, NEW k, Moves(c, k),
           call[c].pc \notin Working \cup {"over"}, k.pc \notin Working,
           UNCHANGED <<active, lock, up, excused>>, RestTyped', Kept
    PROVE  ManagerInv'
<1>1. /\ call' \in [Calls -> Call] /\ call'[c] = k
      /\ \A d \in Calls : d # c => call'[d] = call[d]
  BY DEF ManagerInv, TypeOK, Moves
<1>2. TypeOK'
  BY <1>1 DEF ManagerInv, TypeOK, RestTyped
<1>3. OneTransition'
  BY <1>1 DEF ManagerInv, OneTransition
<1>4. \A d \in Calls : CallSound(call'[d])
  BY <1>1 DEF ManagerInv, Moves
<1>5. \A s : Backed(s) => Backed(s)'
  BY BackedStays DEF ManagerInv
<1>6. ASSUME NEW d \in Calls PROVE WorkSound(d)'
  <2>1. CASE d = c
    BY <1>1, <2>1 DEF WorkSound, Working
  <2>2. CASE d # c
    BY <1>1, <1>5, <2>2 DEF ManagerInv, WorkSound
  <2> QED  BY <2>1, <2>2
<1>7. ActiveSound'
  BY <1>5 DEF ManagerInv, ActiveSound, TypeOK, Kept
<1>8. \A s \in up' : Explained(s)'
  BY <1>1 DEF ManagerInv, Explained, Working
<1> QED  BY <1>2, <1>3, <1>4, <1>6, <1>7, <1>8 DEF ManagerInv

\* The transition gives up the lock without a commit of its own step.
LEMMA LeavesInv ==
    ASSUME ManagerInv, NEW c \in Calls, NEW k, Moves(c, k), call[c].pc \in Working,
           k.pc \notin Working, lock' = None, active' = active,
           up' \subseteq up, excused \subseteq excused', excused' \subseteq Sources,
           \A s \in up \ up' : call[c].pc = "deactivating" /\ s = call[c].prev,
           call[c].pc = "verifying" => call[c].target \in excused',
           call[c].pc = "deactivating" => call[c].prev \in excused' \/ call[c].prev \notin up',
           RestTyped', Kept
    PROVE  ManagerInv'
<1>1. /\ call' \in [Calls -> Call] /\ call'[c] = k
      /\ \A d \in Calls : d # c => call'[d] = call[d]
  BY DEF ManagerInv, TypeOK, Moves
<1>2. TypeOK'
  BY <1>1 DEF ManagerInv, TypeOK, RestTyped
<1>3. \A d \in Calls : d # c => call[d].pc \notin Working
  BY OneWorker DEF ManagerInv
<1>4. \A d \in Calls : call'[d].pc \notin Working
  BY <1>1, <1>3
<1>5. OneTransition'
  BY <1>4, ConnectivityBounds DEF OneTransition
<1>6. \A d \in Calls : CallSound(call'[d])
  BY <1>1 DEF ManagerInv, Moves
<1>7. \A d \in Calls : WorkSound(d)'
  BY <1>4 DEF WorkSound, Working
<1>8. ActiveSound'
  <2> SUFFICES ASSUME active # None PROVE Backed(active)' /\ res'[active] # "absent"
    BY DEF ActiveSound
  <2>1. Backed(active) /\ res[active] # "absent" /\ active \in Sources
    BY DEF ManagerInv, ActiveSound, TypeOK
  <2>2. active \in up => active \in up'
    BY DEF ManagerInv, WorkSound
  <2>3. call[c].pc # "over"
    BY DEF Working
  <2> QED  BY <2>1, <2>2, <2>3, BackedStays DEF ManagerInv, Kept
<1>9. \A s \in up' : Explained(s)'
  <2> SUFFICES ASSUME NEW s \in up' PROVE s = active \/ s \in excused'
    BY DEF Explained
  <2>1. Explained(s)
    BY DEF ManagerInv
  <2> QED  BY <1>3, <2>1 DEF Explained, Working
<1> QED  BY <1>2, <1>5, <1>6, <1>7, <1>8, <1>9 DEF ManagerInv

\* The candidate becomes the active source.
LEMMA CommitsInv ==
    ASSUME ManagerInv, NEW c \in Calls, NEW k, Moves(c, k), call[c].pc = "verifying",
           active' = call[c].target, up' = up,
           excused \subseteq excused', excused' \subseteq Sources,
           \/ /\ k.pc \notin Working /\ lock' = None
              /\ active # None => active \in excused'
           \/ /\ k.pc = "deactivating" /\ lock' = lock
              /\ k.prev = active /\ k.target = call[c].target,
           RestTyped', res'[call[c].target] # "absent"
    PROVE  ManagerInv'
<1>1. /\ call' \in [Calls -> Call] /\ call'[c] = k
      /\ \A d \in Calls : d # c => call'[d] = call[d]
      /\ call[c].pc \in Working /\ call[c].target \in Sources /\ CallSound(call[c])
  BY DEF ManagerInv, TypeOK, Moves, CallSound, Working
<1>2. TypeOK'
  BY <1>1 DEF ManagerInv, TypeOK, RestTyped
<1>3. \A d \in Calls : d # c => call[d].pc \notin Working
  BY <1>1, OneWorker DEF ManagerInv
<1>4. OneTransition'
  <2>1. CASE k.pc \notin Working /\ lock' = None
    BY <1>1, <1>3, <2>1, ConnectivityBounds DEF OneTransition
  <2>2. CASE k.pc = "deactivating" /\ lock' = lock
    BY <1>1, <1>3, <2>2 DEF OneTransition, ManagerInv, Working
  <2> QED  BY <2>1, <2>2
<1>5. \A d \in Calls : CallSound(call'[d])
  BY <1>1 DEF ManagerInv, Moves
<1>6. PICK t : t = call[c].target /\ active # t /\ Backed(t)
  BY DEF ManagerInv, WorkSound
<1>7. Backed(t)' /\ active' = t /\ res'[t] # "absent"
  BY <1>6, BackedStays DEF ManagerInv
<1>8. ASSUME NEW d \in Calls PROVE WorkSound(d)'
  <2>1. CASE d = c
    BY <1>1, <1>6, <2>1 DEF WorkSound, Working
  <2>2. CASE d # c
    BY <1>1, <1>3, <2>2 DEF WorkSound, Working
  <2> QED  BY <2>1, <2>2
<1>9. ActiveSound'
  BY <1>7 DEF ActiveSound
<1>10. \A s \in up' : Explained(s)'
  <2> SUFFICES ASSUME NEW s \in up PROVE Explained(s)'
    OBVIOUS
  <2>1. Explained(s)
    BY DEF ManagerInv
  <2>2. s = active \/ s \in excused \/ s = call[c].target
    BY <1>3, <2>1 DEF Explained, Working
  <2>3. CASE s = active
    <3>1. active # None
      BY <2>3, ConnectivityBounds DEF ManagerInv, TypeOK
    <3> QED  BY <1>1, <2>3, <3>1 DEF Explained
  <2> QED  BY <2>2, <2>3 DEF Explained
<1> QED  BY <1>2, <1>4, <1>5, <1>8, <1>9, <1>10 DEF ManagerInv

-----------------------------------------------------------------------------
(* Calls beside the lock. *)

LEMMA CapturedType ==
    ASSUME TypeOK
    PROVE  Captured \in [Sources -> States]
BY DEF TypeOK, Captured, States

\* A refresh forgets no resource.
LEMMA RefreshedType ==
    ASSUME TypeOK, NEW c \in Calls, NEW good \in SUBSET Sources, NEW low \in BOOLEAN
    PROVE  /\ Refreshed(c) \in [Sources -> States]
           /\ \A s \in Sources : res[s] # "absent" => Refreshed(c)[s] # "absent"
           /\ RefreshedHealth(c, good, low) \in [Sources -> Healths]
<1>1. call[c].stale \in [Sources -> States]
  BY DEF TypeOK, Call
<1>2. \A s \in Sources : Refreshed(c)[s] =
         IF call[c].stale[s] # "absent" THEN call[c].stale[s] ELSE res[s]
  BY DEF Refreshed
<1>3. Refreshed(c) \in [Sources -> States]
  BY <1>1 DEF Refreshed, TypeOK
<1>4. RefreshedHealth(c, good, low) \in [Sources -> Healths]
  BY DEF RefreshedHealth, TypeOK, Healths
<1> QED  BY <1>2, <1>3, <1>4

\* The calls that begin.
LEMMA SubmitInv ==
    ASSUME ManagerInv, NEW c \in Calls, Submit(c)
    PROVE  ManagerInv'
<1>1. /\ RestTyped /\ call[c].pc \in Points /\ NoCall \in Call
  BY NoCallType DEF ManagerInv, TypeOK, RestTyped, Call
<1>2. ASSUME NEW k, Moves(c, k), call[c].pc = "idle", k.pc \notin Working,
             UNCHANGED <<registered, res, seen, active, forced, disabled, fails, lock,
                         up, excused, outside>>
      PROVE  ManagerInv'
  <2>1. RestTyped' /\ Kept
    BY <1>1, <1>2 DEF RestTyped, Kept
  <2> QED  BY <1>2, <2>1, AsideInv DEF Working
<1> HIDE DEF NoCall
<1>3. ASSUME NEW s \in Sources, NEW bypass \in BOOLEAN, NEW kind \in {"switch", "connect"},
             Switch(c, s, bypass, kind)
      PROVE  ManagerInv'
  <2> DEFINE k == [NoCall EXCEPT !.kind = kind, !.pc = "queued", !.target = s,
                                 !.bypass = bypass]
  <2>1. k \in Call /\ k.pc = "queued" /\ k.target = s
    BY <1>1 DEF Call, Kinds, Points
  <2>2. call' = [call EXCEPT ![c] = k]
    BY <1>3 DEF Switch, Goes
  <2> HIDE DEF k
  <2>3. Moves(c, k) /\ k.pc \notin Working
    BY <2>1, <2>2 DEF Moves, CallSound, Working
  <2> QED  BY <1>2, <1>3, <2>3 DEF Switch
<1>4. CASE Failover(c)
  <2> DEFINE p == IF lock = None THEN "starting" ELSE "joined"
             k == [NoCall EXCEPT !.kind = "failover", !.prev = None, !.bypass = TRUE,
                                 !.pc = p]
  <2>1. p \in {"starting", "joined"}
    OBVIOUS
  <2>2. call' = [call EXCEPT ![c] = k]
    BY <1>4 DEF Failover, Goes
  <2> HIDE DEF p
  <2>3. k \in Call /\ k.pc = p
    BY <1>1, <2>1 DEF Call, Kinds, Points
  <2> HIDE DEF k
  <2>4. Moves(c, k) /\ k.pc \notin Working
    BY <2>1, <2>2, <2>3 DEF Moves, CallSound, Working
  <2> QED  BY <1>2, <1>4, <2>4 DEF Failover
<1>5. ASSUME NEW s \in Sources, NEW kind \in {"recover", "deactivate", "discover"},
             Starts(c, s, kind)
      PROVE  ManagerInv'
  <2>1. PICK p : /\ p \in {"probing", "dropping", "listing"}
                 /\ p = "dropping" => kind = "deactivate"
                 /\ call' = [call EXCEPT ![c] =
                       [NoCall EXCEPT !.kind = kind, !.target = s, !.pc = p]]
    BY <1>5 DEF Starts, Goes
  <2> DEFINE k == [NoCall EXCEPT !.kind = kind, !.target = s, !.pc = p]
  <2>2. k \in Call /\ k.pc = p /\ k.target = s /\ k.kind = kind
    BY <1>1, <2>1 DEF Call, Kinds, Points
  <2>3. call' = [call EXCEPT ![c] = k]
    BY <2>1
  <2> HIDE DEF k
  <2>4. Moves(c, k) /\ k.pc \notin Working
    BY <2>1, <2>2, <2>3 DEF Moves, CallSound, Working
  <2> QED  BY <1>2, <1>5, <2>4 DEF Starts
<1> QED  BY <1>3, <1>4, <1>5 DEF Submit

\* A call that ends without having had the lock.
LEMMA OverInv ==
    ASSUME ManagerInv, NEW c \in Calls, NEW how \in Outcomes, Over(c, how),
           call[c].pc \notin Working \cup {"over"},
           UNCHANGED <<active, lock, up, excused>>, RestTyped', Kept
    PROVE  ManagerInv'
<1>1. call[c] \in Call /\ call' = [call EXCEPT ![c] = Ended(call[c], how)]
  BY DEF ManagerInv, TypeOK, Over, Goes
<1> DEFINE k == Ended(call[c], how)
<1>2. Moves(c, k) /\ k.pc = "over"
  BY <1>1, EndedType DEF Moves
<1> HIDE DEF k
<1> QED  BY <1>2, AsideInv DEF Working

\* The rounds of a failover.
LEMMA FailoverInv ==
    ASSUME ManagerInv, NEW c \in Calls,
           \/ Joined(c) \/ Round(c)
           \/ \E good \in SUBSET Sources, low \in BOOLEAN, hint \in [Sources -> Hints] :
                 Chosen(c, good, low, hint)
    PROVE  ManagerInv'
<1>1. RestTyped /\ call[c] \in Call /\ TypeOK
  BY DEF ManagerInv, TypeOK, RestTyped
<1>2. CASE Joined(c)
  <2>1. RestTyped' /\ Kept
    BY <1>1, <1>2 DEF Joined, RestTyped, Kept
  <2> QED  BY <1>2, <2>1, OverInv DEF Joined, Outcomes, Working
<1>3. CASE Round(c)
  <2> DEFINE k == [call[c] EXCEPT !.pc = "choosing", !.stale = Captured]
  <2>1. call' = [call EXCEPT ![c] = k] /\ call[c].pc = "starting"
    BY <1>3 DEF Round, Goes
  <2>2. Captured \in [Sources -> States]
    BY <1>1, CapturedType
  <2>3. k \in Call /\ k.pc = "choosing"
    BY <1>1, <2>2 DEF Call, Points
  <2> HIDE DEF k
  <2>4. Moves(c, k) /\ k.pc \notin Working
    BY <2>1, <2>3 DEF Moves, CallSound, Working
  <2>5. RestTyped' /\ Kept
    BY <1>1, <1>3 DEF Round, RestTyped, Kept
  <2> QED  BY <1>3, <2>1, <2>4, <2>5, AsideInv DEF Round, Working
<1>4. ASSUME NEW good \in SUBSET Sources, NEW low \in BOOLEAN,
             NEW hint \in [Sources -> Hints], Chosen(c, good, low, hint)
      PROVE  ManagerInv'
  <2>1. /\ call[c].pc = "choosing"
        /\ UNCHANGED <<registered, active, forced, disabled, fails, lock, up, excused,
                       outside>>
        /\ res' = Refreshed(c) /\ seen' = RefreshedHealth(c, good, low)
        /\ \/ Over(c, "threw") \/ Over(c, "exhausted")
           \/ \E s \in Sources :
                 Goes(c, [call[c] EXCEPT !.pc = "queued", !.target = s, !.stale = NoStale])
    BY <1>4 DEF Chosen
  <2>2. RestTyped' /\ Kept
    BY <1>1, <2>1, RefreshedType DEF RestTyped, Kept
  <2>3. CASE Over(c, "threw") \/ Over(c, "exhausted")
    BY <2>1, <2>2, <2>3, OverInv DEF Outcomes, Working
  <2>4. ASSUME NEW s \in Sources,
               Goes(c, [call[c] EXCEPT !.pc = "queued", !.target = s, !.stale = NoStale])
        PROVE  ManagerInv'
    <3> DEFINE k == [call[c] EXCEPT !.pc = "queued", !.target = s, !.stale = NoStale]
    <3>1. NoStale \in [Sources -> States]
      BY DEF NoStale, States
    <3>2. call' = [call EXCEPT ![c] = k]
      BY <2>4 DEF Goes
    <3> HIDE DEF NoStale
    <3>3. k \in Call /\ k.pc = "queued" /\ k.target = s
      BY <1>1, <3>1 DEF Call, Points
    <3> HIDE DEF k
    <3>4. Moves(c, k) /\ k.pc \notin Working
      BY <3>2, <3>3 DEF Moves, CallSound, Working
    <3> QED  BY <2>1, <2>2, <3>4, AsideInv DEF Working
  <2> QED  BY <2>1, <2>3, <2>4
<1> QED  BY <1>2, <1>3, <1>4

\* Recovery, discovery, refusals, and the daemon's look at the destination.
LEMMA AnswerInv ==
    ASSUME ManagerInv, NEW c \in Calls,
           \/ \E ok \in BOOLEAN : Recovered(c, ok) \/ Reached(c, ok)
           \/ \E state \in States \ {"absent"}, health \in Healths :
                 Discovered(c, state, health)
           \/ Rejects(c)
    PROVE  ManagerInv'
<1>1. /\ RestTyped /\ call[c] \in Call /\ CallSound(call[c])
      /\ fails \in [Sources -> 0..RetryCount] /\ 0 \in 0..RetryCount
  BY ConnectivityBounds DEF ManagerInv, TypeOK, RestTyped
<1>2. ASSUME NEW ok \in BOOLEAN, Recovered(c, ok)
      PROVE  ManagerInv'
  <2>1. call[c].pc = "probing" /\ call[c].target \in Sources
    BY <1>1, <1>2 DEF Recovered, CallSound
  <2>2. RestTyped'
    BY <1>1, <1>2, <2>1 DEF Recovered, RestTyped, States, Healths
  <2>3. Kept
    BY <1>1, <1>2, <2>1 DEF Recovered, RestTyped, Kept
  <2> QED  BY <1>2, <2>1, <2>2, <2>3, OverInv DEF Recovered, Outcomes, Working
<1>3. ASSUME NEW state \in States \ {"absent"}, NEW health \in Healths,
             Discovered(c, state, health)
      PROVE  ManagerInv'
  <2>1. call[c].pc = "listing" /\ call[c].target \in Sources
    BY <1>1, <1>3 DEF Discovered, CallSound
  <2>2. RestTyped' /\ Kept
    BY <1>1, <1>3, <2>1 DEF Discovered, RestTyped, Kept
  <2> QED  BY <1>3, <2>1, <2>2, OverInv DEF Discovered, Outcomes, Working
<1>4. CASE Rejects(c)
  <2>1. RestTyped' /\ Kept
    BY <1>1, <1>4 DEF Rejects, RestTyped, Kept
  <2>2. Over(c, "unreachable") \/ Over(c, "threw")
    BY <1>4 DEF Rejects
  <2> QED  BY <1>4, <2>1, <2>2, OverInv DEF Rejects, Outcomes, Working
<1>5. ASSUME NEW ok \in BOOLEAN, Reached(c, ok)
      PROVE  ManagerInv'
  <2>1. call[c].pc = "reaching" /\ call[c].target \in Sources /\ call[c].kind = "connect"
    BY <1>1, <1>5 DEF Reached, CallSound
  <2>2. RestTyped' /\ Kept
    BY <1>1, <1>5 DEF Reached, RestTyped, Kept
  <2>3. CASE Over(c, "connected") \/ Over(c, "unreachable")
    BY <1>5, <2>1, <2>2, <2>3, OverInv DEF Reached, Outcomes, Working
  <2>4. CASE Goes(c, [call[c] EXCEPT !.pc = "dropping"])
    <3> DEFINE k == [call[c] EXCEPT !.pc = "dropping"]
    <3>1. k \in Call /\ k.pc = "dropping" /\ k.target = call[c].target /\ k.kind = "connect"
      BY <1>1, <2>1 DEF Call, Points
    <3>2. call' = [call EXCEPT ![c] = k]
      BY <2>4 DEF Goes
    <3> HIDE DEF k
    <3>3. Moves(c, k) /\ k.pc \notin Working
      BY <2>1, <3>1, <3>2 DEF Moves, CallSound, Working
    <3> QED  BY <1>5, <2>1, <2>2, <3>3, AsideInv DEF Reached, Working
  <2> QED  BY <1>5, <2>3, <2>4 DEF Reached
<1> QED  BY <1>2, <1>3, <1>4, <1>5

-----------------------------------------------------------------------------
(* The transition under the lock. *)

\* A transition takes the lock or goes on with it towards its commit.
LEMMA GoesOnInv ==
    ASSUME ManagerInv, NEW c \in Calls, NEW k, Moves(c, k),
           lock \in {None, c}, lock' = c, active' = active,
           call[c].pc \in {"queued", "evaluating", "activating"},
           k.pc \in {"evaluating", "activating", "verifying"},
           k.target = call[c].target, active # k.target,
           up \subseteq up', up' \subseteq Sources, excused' \subseteq Sources,
           \A s \in up' : \/ s \in up /\ (s \in excused => s \in excused')
                          \/ k.pc = "verifying" /\ s = k.target,
           k.pc = "verifying" => k.target \in up',
           RestTyped', Kept
    PROVE  ManagerInv'
<1>1. /\ call' \in [Calls -> Call] /\ call'[c] = k
      /\ \A d \in Calls : d # c => call'[d] = call[d]
      /\ c # None
  BY ConnectivityBounds DEF ManagerInv, TypeOK, Moves
<1>2. TypeOK'
  BY <1>1 DEF ManagerInv, TypeOK, RestTyped
<1>3. \A d \in Calls : d # c => call[d].pc \notin Working
  BY ConnectivityBounds DEF ManagerInv, OneTransition
<1>4. OneTransition'
  BY <1>1, <1>3 DEF OneTransition, Working
<1>5. \A d \in Calls : CallSound(call'[d])
  BY <1>1 DEF ManagerInv, Moves
<1>6. ASSUME NEW d \in Calls PROVE WorkSound(d)'
  <2>1. CASE d = c
    BY <1>1, <2>1 DEF WorkSound, Backed
  <2>2. CASE d # c
    BY <1>1, <1>3, <2>2 DEF WorkSound, Working
  <2> QED  BY <2>1, <2>2
<1>7. ActiveSound'
  <2>1. \A s : Backed(s) => Backed(s)'
    BY BackedStays DEF ManagerInv
  <2> QED  BY <2>1 DEF ManagerInv, ActiveSound, TypeOK, Kept
<1>8. ASSUME NEW s \in up' PROVE Explained(s)'
  <2>1. CASE k.pc = "verifying" /\ s = k.target
    BY <1>1, <2>1 DEF Explained
  <2>2. CASE s \in up /\ (s \in excused => s \in excused')
    <3>1. Explained(s)
      BY <2>2 DEF ManagerInv
    <3>2. s = active \/ s \in excused
      BY <1>3, <3>1 DEF Explained, Working
    <3> QED  BY <2>2, <3>2 DEF Explained
  <2> QED  BY <2>1, <2>2
<1> QED  BY <1>2, <1>4, <1>5, <1>6, <1>7, <1>8 DEF ManagerInv

LEMMA BeginInv ==
    ASSUME ManagerInv, NEW c \in Calls, Begin(c)
    PROVE  ManagerInv'
<1> DEFINE s == call[c].target
<1>1. /\ RestTyped /\ call[c] \in Call /\ CallSound(call[c]) /\ TypeOK
      /\ call[c].pc = "queued" /\ lock = None /\ s \in Sources
      /\ UNCHANGED <<registered, res, seen, active, forced, disabled, up, excused, outside>>
  BY DEF ManagerInv, TypeOK, RestTyped, Begin, LockFree, CallSound
<1>2. fails' \in [Sources -> 0..RetryCount] => RestTyped' /\ Kept
  BY <1>1 DEF RestTyped, Kept
<1>3. CASE active = s
  <2>1. fails' = fails /\ lock' = lock /\ Resumes(c, "committed")
    BY <1>3 DEF Begin
  <2>2. PICK k : Moves(c, k) /\ k.pc \in {"starting", "reaching", "over"}
    BY <1>1, <2>1, ResumesShape
  <2>3. RestTyped' /\ Kept
    BY <1>1, <1>2, <2>1 DEF RestTyped
  <2> QED  BY <1>1, <2>1, <2>2, <2>3, AsideInv DEF Working
<1>4. CASE active # s /\ (res[s] = "absent" \/ s \notin registered)
  <2>1. Ends(c, "threw", 0)
    BY <1>4 DEF Begin
  <2>2. /\ fails' \in [Sources -> 0..RetryCount] /\ lock' = None
        /\ \E k : Moves(c, k) /\ k.pc \in {"starting", "reaching", "over"}
    BY <1>1, <2>1, EndsShape
  <2>3. PICK k : Moves(c, k) /\ k.pc \in {"starting", "reaching", "over"}
    BY <2>2
  <2> QED  BY <1>1, <1>2, <2>2, <2>3, AsideInv DEF Working
<1>5. CASE active # s /\ ~(res[s] = "absent" \/ s \notin registered)
  <2> DEFINE k == [call[c] EXCEPT !.pc = "evaluating", !.stale = Captured]
  <2>1. lock' = c /\ fails' = fails /\ call' = [call EXCEPT ![c] = k]
    BY <1>5 DEF Begin, Goes
  <2>2. Captured \in [Sources -> States]
    BY <1>1, CapturedType
  <2>3. k \in Call /\ k.pc = "evaluating" /\ k.target = s
    BY <1>1, <2>2 DEF Call, Points, Working
  <2> HIDE DEF k
  <2>4. Moves(c, k)
    BY <1>1, <2>1, <2>3 DEF Moves, CallSound, Working
  <2>5. RestTyped' /\ Kept
    BY <1>1, <1>2, <2>1 DEF RestTyped
  <2>6. up \subseteq Sources /\ excused \subseteq Sources
    BY <1>1 DEF TypeOK
  <2> QED  BY <1>1, <1>5, <2>1, <2>3, <2>4, <2>5, <2>6, GoesOnInv
<1> QED  BY <1>3, <1>4, <1>5

LEMMA EvaluatedInv ==
    ASSUME ManagerInv, NEW c \in Calls, NEW good \in SUBSET Sources, NEW low \in BOOLEAN,
           NEW hint \in [Sources -> Hints], Evaluated(c, good, low, hint)
    PROVE  ManagerInv'
<1>1. /\ RestTyped /\ call[c] \in Call /\ CallSound(call[c]) /\ TypeOK
      /\ call[c].pc = "evaluating" /\ call[c].target \in Sources /\ lock = c
      /\ active # call[c].target
      /\ up \subseteq Sources /\ excused \subseteq Sources
  BY DEF ManagerInv, TypeOK, RestTyped, Evaluated, CallSound, OneTransition, WorkSound,
         Working
<1>2. /\ res' = Refreshed(c) /\ seen' = RefreshedHealth(c, good, low)
      /\ UNCHANGED <<registered, active, forced, disabled, up, excused, outside>>
      /\ \/ Ends(c, "threw", 0) \/ Ends(c, "rejected", 0)
         \/ /\ Goes(c, [call[c] EXCEPT !.pc = "activating", !.stale = NoStale])
            /\ UNCHANGED <<fails, lock>>
  BY DEF Evaluated
<1>3. fails' \in [Sources -> 0..RetryCount] => RestTyped' /\ Kept
  BY <1>1, <1>2, RefreshedType DEF RestTyped, Kept
<1>4. ASSUME NEW how \in {"threw", "rejected"}, Ends(c, how, 0)
      PROVE  ManagerInv'
  <2>1. /\ fails' \in [Sources -> 0..RetryCount] /\ lock' = None
        /\ \E k : Moves(c, k) /\ k.pc \in {"starting", "reaching", "over"}
    BY <1>1, <1>4, EndsShape
  <2>2. PICK k : Moves(c, k) /\ k.pc \in {"starting", "reaching", "over"}
    BY <2>1
  <2>3. call[c].pc \in Working /\ k.pc \notin Working
    BY <1>1, <2>2 DEF Working
  <2>4. up' = up /\ excused' = excused /\ active' = active
    BY <1>2
  <2>5. RestTyped' /\ Kept
    BY <1>3, <2>1
  <2> QED  BY <1>1, <2>1, <2>2, <2>3, <2>4, <2>5, LeavesInv
<1>5. CASE /\ Goes(c, [call[c] EXCEPT !.pc = "activating", !.stale = NoStale])
           /\ UNCHANGED <<fails, lock>>
  <2> DEFINE k == [call[c] EXCEPT !.pc = "activating", !.stale = NoStale]
  <2>1. call' = [call EXCEPT ![c] = k]
    BY <1>5 DEF Goes
  <2>2. NoStale \in [Sources -> States]
    BY DEF NoStale, States
  <2> HIDE DEF NoStale
  <2>3. k \in Call /\ k.pc = "activating" /\ k.target = call[c].target
    BY <1>1, <2>2 DEF Call, Points, Working
  <2> HIDE DEF k
  <2>4. Moves(c, k)
    BY <1>1, <2>1, <2>3 DEF Moves, CallSound, Working
  <2>5. RestTyped' /\ Kept
    BY <1>1, <1>3, <1>5 DEF RestTyped
  <2> QED  BY <1>1, <1>2, <1>5, <2>3, <2>4, <2>5, GoesOnInv
<1> QED  BY <1>2, <1>4, <1>5

LEMMA ActivatedInv ==
    ASSUME ManagerInv, NEW c \in Calls, NEW ok \in BOOLEAN, Activated(c, ok)
    PROVE  ManagerInv'
<1>1. /\ RestTyped /\ call[c] \in Call /\ CallSound(call[c]) /\ TypeOK
      /\ call[c].pc = "activating" /\ call[c].target \in Sources /\ lock = c
      /\ active # call[c].target
      /\ up \subseteq Sources /\ excused \subseteq Sources
  BY DEF ManagerInv, TypeOK, RestTyped, Activated, CallSound, OneTransition, WorkSound,
         Working
<1>2. UNCHANGED <<registered, res, seen, active, forced, disabled, outside>>
  BY DEF Activated
<1>3. fails' \in [Sources -> 0..RetryCount] => RestTyped' /\ Kept
  BY <1>1, <1>2 DEF RestTyped, Kept
<1>4. CASE ~ok
  <2>1. Ends(c, "rejected", 1) /\ UNCHANGED <<up, excused>>
    BY <1>4 DEF Activated
  <2>2. /\ fails' \in [Sources -> 0..RetryCount] /\ lock' = None
        /\ \E k : Moves(c, k) /\ k.pc \in {"starting", "reaching", "over"}
    BY <1>1, <2>1, EndsShape
  <2>3. PICK k : Moves(c, k) /\ k.pc \in {"starting", "reaching", "over"}
    BY <2>2
  <2>4. call[c].pc \in Working /\ k.pc \notin Working
    BY <1>1, <2>3 DEF Working
  <2>5. RestTyped' /\ Kept /\ active' = active
    BY <1>2, <1>3, <2>2
  <2> QED  BY <1>1, <2>1, <2>2, <2>3, <2>4, <2>5, LeavesInv
<1>5. CASE ok
  <2> DEFINE k == [call[c] EXCEPT !.pc = "verifying"]
  <2>1. /\ call' = [call EXCEPT ![c] = k] /\ UNCHANGED <<fails, lock>>
        /\ up' = up \cup {call[c].target} /\ excused' = excused \ {call[c].target}
    BY <1>5 DEF Activated, Goes
  <2>2. k \in Call /\ k.pc = "verifying" /\ k.target = call[c].target
    BY <1>1 DEF Call, Points, Working
  <2> HIDE DEF k
  <2>3. Moves(c, k)
    BY <1>1, <2>1, <2>2 DEF Moves, CallSound, Working
  <2>4. RestTyped' /\ Kept
    BY <1>1, <1>3, <2>1 DEF RestTyped
  <2>5. \A s \in up' : \/ s \in up /\ (s \in excused => s \in excused')
                       \/ k.pc = "verifying" /\ s = k.target
    BY <2>1, <2>2
  <2>6. /\ up \subseteq up' /\ up' \subseteq Sources /\ excused' \subseteq Sources
        /\ k.target \in up' /\ lock' = c /\ active' = active
    BY <1>1, <1>2, <2>1, <2>2
  <2> QED  BY <1>1, <2>2, <2>3, <2>4, <2>5, <2>6, GoesOnInv
<1> QED  BY <1>4, <1>5

LEMMA VerifiedInv ==
    ASSUME ManagerInv, NEW c \in Calls, NEW good \in BOOLEAN, Verified(c, good)
    PROVE  ManagerInv'
<1> DEFINE s == call[c].target
<1>1. /\ RestTyped /\ call[c] \in Call /\ CallSound(call[c]) /\ TypeOK
      /\ call[c].pc = "verifying" /\ s \in Sources
      /\ active \in Sources \cup {None} /\ excused \subseteq Sources
  BY DEF ManagerInv, TypeOK, RestTyped, Verified, CallSound, Working
<1>2. UNCHANGED <<registered, forced, disabled, up, outside>>
  BY DEF Verified
<1>3. ASSUME NEW how \in {"committed", "threw", "rejected"}, NEW marked \in {0, 1},
             Ends(c, how, marked)
      PROVE  /\ fails' \in [Sources -> 0..RetryCount] /\ lock' = None
             /\ \E k : Moves(c, k) /\ k.pc \notin Working
  <2>1. /\ fails' \in [Sources -> 0..RetryCount] /\ lock' = None
        /\ \E k : Moves(c, k) /\ k.pc \in {"starting", "reaching", "over"}
    BY <1>1, <1>3, EndsShape
  <2> QED  BY <2>1 DEF Working
<1>4. CASE Commits(c, good)
  <2> DEFINE p == Previous(c)
             entered == [res EXCEPT ![s] = "available"]
  <2>1. p = active
    BY DEF Previous, ManagerInv, ActiveSound
  <2>2. /\ entered \in [Sources -> States] /\ entered[s] = "available"
        /\ [r \in Sources |-> IF r = p THEN "available" ELSE entered[r]]
             \in [Sources -> States]
    BY <1>1 DEF RestTyped, States
  <2>3. /\ active' = s /\ seen' = [seen EXCEPT ![s] = IF good THEN "good" ELSE "bad"]
        /\ \/ /\ p # None /\ p \notin registered
              /\ res' = entered /\ excused' = excused \cup {p} /\ Ends(c, "threw", 0)
           \/ /\ p # None /\ res' = entered /\ UNCHANGED <<excused, fails, lock>>
              /\ Goes(c, [call[c] EXCEPT !.pc = "deactivating", !.prev = p])
           \/ /\ res' = [r \in Sources |-> IF r = p THEN "available" ELSE entered[r]]
              /\ excused' = excused \cup ({p} \ {None})
              /\ Ends(c, "committed", 0)
    BY <1>4 DEF Commits
  <2> HIDE DEF p, entered
  <2>4. /\ res' \in [Sources -> States] /\ res'[s] # "absent"
    BY <1>1, <2>2, <2>3
  <2>5. fails' \in [Sources -> 0..RetryCount] => RestTyped'
    BY <1>1, <1>2, <2>3, <2>4 DEF RestTyped, Healths
  <2>6. CASE /\ p # None /\ excused' = excused \cup {p} /\ Ends(c, "threw", 0)
    <3>1. PICK k : Moves(c, k) /\ k.pc \notin Working
      BY <1>3, <2>6
    <3>2. fails' \in [Sources -> 0..RetryCount] /\ lock' = None
      BY <1>3, <2>6
    <3>3. excused \subseteq excused' /\ excused' \subseteq Sources /\ active \in excused'
      BY <1>1, <2>1, <2>6
    <3> QED  BY <1>1, <1>2, <2>3, <2>4, <2>5, <3>1, <3>2, <3>3, CommitsInv
  <2>7. CASE /\ p # None /\ UNCHANGED <<excused, fails, lock>>
             /\ Goes(c, [call[c] EXCEPT !.pc = "deactivating", !.prev = p])
    <3> DEFINE k == [call[c] EXCEPT !.pc = "deactivating", !.prev = p]
    <3>1. call' = [call EXCEPT ![c] = k]
      BY <2>7 DEF Goes
    <3>2. k \in Call /\ k.pc = "deactivating" /\ k.prev = active /\ k.target = s
      BY <1>1, <2>1 DEF Call, Points, Working
    <3> HIDE DEF k
    <3>3. Moves(c, k)
      BY <1>1, <2>1, <2>7, <3>1, <3>2 DEF Moves, CallSound, Working
    <3>4. RestTyped'
      BY <1>1, <2>5, <2>7 DEF RestTyped
    <3> QED  BY <1>1, <1>2, <2>3, <2>4, <2>7, <3>2, <3>3, <3>4, CommitsInv
  <2>8. CASE /\ excused' = excused \cup ({p} \ {None})
             /\ Ends(c, "committed", 0)
    <3>1. PICK k : Moves(c, k) /\ k.pc \notin Working
      BY <1>3, <2>8
    <3>2. fails' \in [Sources -> 0..RetryCount] /\ lock' = None
      BY <1>3, <2>8
    <3>3. /\ excused \subseteq excused' /\ excused' \subseteq Sources
          /\ active # None => active \in excused'
      BY <1>1, <2>1, <2>8
    <3> QED  BY <1>1, <1>2, <2>3, <2>4, <2>5, <3>1, <3>2, <3>3, CommitsInv
  <2> QED  BY <2>3, <2>6, <2>7, <2>8
<1>5. CASE /\ excused' = excused \cup {s} /\ Ends(c, "rejected", 1)
           /\ UNCHANGED <<res, seen, active>>
  <2>1. PICK k : Moves(c, k) /\ k.pc \notin Working
    BY <1>3, <1>5
  <2>2. fails' \in [Sources -> 0..RetryCount] /\ lock' = None
    BY <1>3, <1>5
  <2>3. RestTyped' /\ Kept
    BY <1>1, <1>2, <1>5, <2>2 DEF RestTyped, Kept
  <2>4. call[c].pc \in Working
    BY <1>1 DEF Working
  <2> QED  BY <1>1, <1>2, <1>5, <2>1, <2>2, <2>3, <2>4, LeavesInv
<1> QED  BY <1>4, <1>5 DEF Verified

LEMMA DeactivatedInv ==
    ASSUME ManagerInv, NEW c \in Calls, NEW ok \in BOOLEAN, Deactivated(c, ok)
    PROVE  ManagerInv'
<1> DEFINE p == call[c].prev
<1>1. /\ RestTyped /\ CallSound(call[c]) /\ TypeOK /\ excused \subseteq Sources
      /\ call[c].pc = "deactivating" /\ call[c].target \in Sources /\ p \in Sources
  BY DEF ManagerInv, TypeOK, RestTyped, Deactivated, CallSound, Working
<1>2. /\ \/ up' = up \ {p} /\ excused' = excused
         \/ up' = up /\ excused' = excused \cup {p}
      /\ res' = [res EXCEPT ![p] = "available"] /\ Ends(c, "committed", 0)
      /\ UNCHANGED <<registered, seen, active, forced, disabled, outside>>
  BY DEF Deactivated
<1>3. /\ fails' \in [Sources -> 0..RetryCount] /\ lock' = None
      /\ \E k : Moves(c, k) /\ k.pc \in {"starting", "reaching", "over"}
  BY <1>1, <1>2, EndsShape
<1>4. PICK k : Moves(c, k) /\ k.pc \in {"starting", "reaching", "over"}
  BY <1>3
<1>5. RestTyped' /\ Kept
  BY <1>1, <1>2, <1>3 DEF RestTyped, Kept, States
<1>6. call[c].pc \in Working /\ k.pc \notin Working
  BY <1>1, <1>4 DEF Working
<1> QED  BY <1>1, <1>2, <1>3, <1>4, <1>5, <1>6, LeavesInv

LEMMA ThrowsInv ==
    ASSUME ManagerInv, NEW c \in Calls, Throws(c)
    PROVE  ManagerInv'
<1>1. /\ RestTyped /\ CallSound(call[c]) /\ TypeOK /\ excused \subseteq Sources
      /\ call[c].pc \in Working /\ call[c].target \in Sources
      /\ call[c].pc = "deactivating" => call[c].prev \in Sources
  BY DEF ManagerInv, TypeOK, RestTyped, Throws, CallSound
<1>2. /\ excused \subseteq excused' /\ excused' \subseteq Sources
      /\ call[c].pc = "verifying" => call[c].target \in excused'
      /\ call[c].pc = "deactivating" => call[c].prev \in excused'
  BY <1>1 DEF Throws
<1>3. /\ Ends(c, "threw", 0)
      /\ UNCHANGED <<registered, res, seen, active, forced, disabled, up, outside>>
  BY DEF Throws
<1>4. /\ fails' \in [Sources -> 0..RetryCount] /\ lock' = None
      /\ \E k : Moves(c, k) /\ k.pc \in {"starting", "reaching", "over"}
  BY <1>1, <1>3, EndsShape
<1>5. PICK k : Moves(c, k) /\ k.pc \in {"starting", "reaching", "over"}
  BY <1>4
<1>6. RestTyped' /\ Kept
  BY <1>1, <1>3, <1>4 DEF RestTyped, Kept
<1>7. k.pc \notin Working
  BY <1>5 DEF Working
<1> QED  BY <1>1, <1>2, <1>3, <1>4, <1>5, <1>6, <1>7, LeavesInv

-----------------------------------------------------------------------------
(* Deactivation, and what happens outside the calls. *)

LEMMA DroppedInv ==
    ASSUME ManagerInv, NEW c \in Calls, NEW ok \in BOOLEAN, Dropped(c, ok)
    PROVE  ManagerInv'
<1> DEFINE s == call[c].target
           how == IF call[c].kind = "connect" THEN "unreachable" ELSE "done"
           k == Ended(call[c], how)
<1>1. /\ TypeOK /\ call[c] \in Call /\ call[c].pc = "dropping" /\ s \in Sources
      /\ call[c].kind \in {"deactivate", "connect"} /\ how \in Outcomes
  BY DEF ManagerInv, TypeOK, Dropped, CallSound, Outcomes
<1>2. /\ \/ up' = up \ {s} /\ excused' = excused
         \/ up' = up /\ excused' = excused \cup {s}
      /\ active' = (IF active = s THEN None ELSE active)
      /\ call' = [call EXCEPT ![c] = k]
      /\ UNCHANGED <<registered, res, seen, forced, disabled, fails, lock, outside>>
  BY DEF Dropped, Over, Goes
<1> HIDE DEF how
<1>3. /\ k \in Call /\ CallSound(k) /\ k.pc = "over" /\ k.kind = call[c].kind
      /\ k.target = s
  BY <1>1, EndedType
<1> HIDE DEF k
<1>4. /\ call' \in [Calls -> Call] /\ call'[c] = k
      /\ \A d \in Calls : d # c => call'[d] = call[d]
      /\ Moves(c, k)
  BY <1>1, <1>2, <1>3 DEF TypeOK, Moves
<1>5. TypeOK'
  BY <1>1, <1>2, <1>4 DEF TypeOK
<1>6. OneTransition'
  BY <1>1, <1>2, <1>3, <1>4 DEF ManagerInv, OneTransition, Working
<1>7. \A d \in Calls : CallSound(call'[d])
  BY <1>3, <1>4 DEF ManagerInv
<1>8. ASSUME NEW x, Backed(x) PROVE Backed(x)'
  <2>1. CASE x = s
    BY <1>1, <1>3, <1>4, <2>1 DEF Backed
  <2>2. CASE x # s
    BY <1>1, <1>2, <1>4, <1>8, <2>2, BackedStays
  <2> QED  BY <2>1, <2>2
<1>9. ASSUME NEW d \in Calls PROVE WorkSound(d)'
  <2>1. CASE d = c
    BY <1>3, <1>4, <2>1 DEF WorkSound
  <2>2. CASE d # c
    <3>1. call'[d] = call[d] /\ WorkSound(d) /\ CallSound(call[d])
      BY <1>4, <2>2 DEF ManagerInv
    <3>2. call[d].pc \in {"evaluating", "activating", "verifying"} =>
             call[d].target \in Sources
      BY <3>1 DEF CallSound, Working
    <3>3. PICK t : t = call[d].target
      OBVIOUS
    <3>4. Backed(t) => Backed(t)'
      BY <1>8
    <3> QED  BY <1>2, <3>1, <3>2, <3>3, <3>4, ConnectivityBounds DEF WorkSound
  <2> QED  BY <2>1, <2>2
<1>10. ActiveSound'
  <2> SUFFICES ASSUME active' # None PROVE Backed(active)' /\ res'[active'] # "absent"
    BY DEF ActiveSound
  <2>1. PICK a : a = active /\ a = active'
    BY <1>2
  <2>2. Backed(a) /\ res[a] # "absent"
    BY <2>1 DEF ManagerInv, ActiveSound
  <2>3. Backed(a)'
    BY <1>8, <2>2
  <2> QED  BY <1>2, <2>1, <2>2, <2>3
<1>11. ASSUME NEW x \in up' PROVE Explained(x)'
  <2>1. Explained(x)
    BY <1>2, <1>11 DEF ManagerInv
  <2>2. CASE x = active \/ x \in excused
    BY <1>2, <1>11, <2>2 DEF Explained
  <2>3. ASSUME NEW d \in Calls,
               \/ call[d].pc = "verifying" /\ call[d].target = x
               \/ call[d].pc = "deactivating" /\ call[d].prev = x
        PROVE  Explained(x)'
    BY <1>1, <1>4, <2>3 DEF Explained
  <2> QED  BY <2>1, <2>2, <2>3 DEF Explained
<1> QED  BY <1>5, <1>6, <1>7, <1>9, <1>10, <1>11 DEF ManagerInv

\* Registrations and overrides touch neither the calls nor the host.
LEMMA OutsideInv ==
    ASSUME ManagerInv, Outside
    PROVE  ManagerInv'
<1>1. PICK s \in Sources : Unregister(s) \/ Register(s) \/ Override(s)
  BY DEF Outside
<1>2. /\ UNCHANGED <<call, lock, up, fails>> /\ TypeOK
      /\ outside < MaxOutside /\ outside' = outside + 1
  BY <1>1 DEF Outside, Unregister, Register, Override, ManagerInv
<1>3. outside' \in 0..MaxOutside
  BY <1>2, ConnectivityBounds DEF TypeOK
<1>4. /\ \/ active' = active
         \/ active = s /\ active' = None
      /\ active = s /\ active' = active => res' = res
      /\ \A r \in Sources \ {s} : res'[r] = res[r]
      /\ \A x \in up : x = active \/ x \in excused => x = active' \/ x \in excused'
  BY <1>1, <1>2, ConnectivityBounds DEF Unregister, Register, Override, TypeOK
<1>5. TypeOK'
  BY <1>1, <1>2, <1>3 DEF Unregister, Register, Override, TypeOK, States, Healths
<1>6. OneTransition' /\ \A c \in Calls : CallSound(call'[c])
  BY <1>2 DEF ManagerInv, OneTransition
<1>7. \A x : Backed(x) => Backed(x)'
  BY <1>2 DEF Backed
<1>8. ASSUME NEW c \in Calls PROVE WorkSound(c)'
  <2>1. WorkSound(c) /\ CallSound(call[c])
    BY DEF ManagerInv
  <2>2. call[c].pc \in {"evaluating", "activating", "verifying"} =>
           call[c].target # None
    BY <2>1, ConnectivityBounds DEF CallSound, Working
  <2>3. Backed(call[c].target) => Backed(call[c].target)'
    BY <1>2 DEF Backed
  <2> QED  BY <1>2, <1>4, <2>1, <2>2, <2>3 DEF WorkSound
<1>9. ActiveSound'
  <2> SUFFICES ASSUME active' # None PROVE Backed(active)' /\ res'[active'] # "absent"
    BY DEF ActiveSound
  <2>1. active' = active /\ active \in Sources
    BY <1>2, <1>4 DEF TypeOK
  <2>2. PICK a : a = active /\ a = active' /\ a \in Sources
    BY <2>1
  <2>3. Backed(a) /\ res[a] # "absent"
    BY <2>1, <2>2 DEF ManagerInv, ActiveSound
  <2>4. Backed(a)'
    BY <1>7, <2>3
  <2> QED  BY <1>4, <2>1, <2>2, <2>3, <2>4
<1>10. ASSUME NEW x \in up' PROVE Explained(x)'
  BY <1>2, <1>4 DEF ManagerInv, Explained
<1> QED  BY <1>5, <1>6, <1>8, <1>9, <1>10 DEF ManagerInv

-----------------------------------------------------------------------------
(* The theorems. *)

LEMMA ManagerInit == Init => ManagerInv
<1> SUFFICES ASSUME Init PROVE ManagerInv
  OBVIOUS
<1>1. /\ \A c \in Calls : call[c] = NoCall
      /\ call \in [Calls -> Call] /\ NoCall.pc = "idle"
  BY NoCallType DEF Init
<1> HIDE DEF NoCall
<1>2. TypeOK
  BY <1>1, ConnectivityBounds DEF Init, TypeOK, States, Healths
<1>3. OneTransition
  BY <1>1, ConnectivityBounds DEF Init, OneTransition, Working
<1>4. \A c \in Calls : CallSound(call[c]) /\ WorkSound(c)
  BY <1>1 DEF CallSound, WorkSound, Working
<1>5. ActiveSound
  BY <1>2 DEF Init, ActiveSound, Backed, TypeOK
<1>6. \A s \in up : Explained(s)
  BY DEF Init, Explained
<1> QED  BY <1>2, <1>3, <1>4, <1>5, <1>6 DEF ManagerInv

LEMMA StutterInv == ManagerInv /\ UNCHANGED vars => ManagerInv'
BY DEF ManagerInv, TypeOK, OneTransition, WorkSound, ActiveSound, Explained, Backed, vars

LEMMA ManagerInductive == ManagerInv /\ [Next]_vars => ManagerInv'
<1> SUFFICES ASSUME ManagerInv, [Next]_vars PROVE ManagerInv'
  OBVIOUS
<1>1. CASE UNCHANGED vars
  BY <1>1, StutterInv
<1>2. CASE Outside
  BY <1>2, OutsideInv
<1>3. ASSUME NEW c \in Calls, Submit(c) PROVE ManagerInv'
  BY <1>3, SubmitInv
<1>4. ASSUME NEW c \in Calls, Throws(c) PROVE ManagerInv'
  BY <1>4, ThrowsInv
<1>5. ASSUME NEW c \in Calls, Rejects(c) PROVE ManagerInv'
  BY <1>5, AnswerInv
<1>6. ASSUME NEW c \in Calls, Progress(c) PROVE ManagerInv'
  <2>1. CASE Begin(c)
    BY <2>1, BeginInv
  <2>2. CASE Joined(c) \/ Round(c)
    BY <2>2, FailoverInv
  <2>3. ASSUME NEW good \in SUBSET Sources, NEW low \in BOOLEAN,
               NEW hint \in [Sources -> Hints],
               Evaluated(c, good, low, hint) \/ Chosen(c, good, low, hint)
        PROVE  ManagerInv'
    BY <2>3, EvaluatedInv, FailoverInv
  <2>4. ASSUME NEW ok \in BOOLEAN,
               \/ Activated(c, ok) \/ Verified(c, ok) \/ Deactivated(c, ok)
               \/ Recovered(c, ok) \/ Dropped(c, ok) \/ Reached(c, ok)
        PROVE  ManagerInv'
    BY <2>4, ActivatedInv, VerifiedInv, DeactivatedInv, AnswerInv, DroppedInv
  <2>5. ASSUME NEW state \in States \ {"absent"}, NEW health \in Healths,
               Discovered(c, state, health)
        PROVE  ManagerInv'
    BY <2>5, AnswerInv
  <2> QED  BY <1>6, <2>1, <2>2, <2>3, <2>4, <2>5 DEF Progress
<1> QED  BY <1>1, <1>2, <1>3, <1>4, <1>5, <1>6 DEF Next

LEMMA ManagerAlways == Spec => []ManagerInv
BY ManagerInit, ManagerInductive, PTL DEF Spec

\* However calls queue, join, retry, are rejected or refused: the failure
\* counters stay within failoverRetryCount, and one transition at a time holds
\* transitionLock, for exactly as long as it is between its awaits.
THEOREM OneTransitionAtATime == Spec => []TransitionInv
<1>1. ManagerInv => TransitionInv
  BY DEF ManagerInv, TransitionInv
<1> QED  BY <1>1, ManagerAlways, PTL

\* The active source is activated on the host unless somebody deactivated it
\* beside the transition, and no source is left activated for no reason that
\* the code knows.
THEOREM NoSourceUnaccounted == Spec => []SourcesAreAccounted
<1>1. ManagerInv => ActiveIsUp
  BY DEF ManagerInv, ActiveSound, Backed, ActiveIsUp
<1>2. ManagerInv => ResidueIsExplained
  BY DEF ManagerInv, Explained, ResidueIsExplained, Working
<1>3. ManagerInv => SourcesAreAccounted
  BY <1>1, <1>2 DEF SourcesAreAccounted
<1> QED  BY <1>3, ManagerAlways, PTL
=============================================================================
