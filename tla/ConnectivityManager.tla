------------------------ MODULE ConnectivityManager ------------------------
(***************************************************************************)
(* The connectivity manager (packages/connectivity/src/index.ts) and the   *)
(* daemon's device connections over it (apps/daemon/src/index.ts).         *)
(*                                                                         *)
(* Switches queue for one transition lock; failover, recovery, discovery,  *)
(* deactivation and the daemon's connections run beside it.  Every call is *)
(* a member of Calls, and an action is the code between two awaits of it.  *)
(* A source is the one resource of its provider.  Scores, hysteresis,      *)
(* cooldown, flapping and the policy decide which verdict a candidate gets *)
(* and are an input (`hint`); health is good or bad against                *)
(* minimumHealthScore.                                                     *)
(***************************************************************************)
EXTENDS Naturals, FiniteSets

CONSTANTS
    Sources,
    Calls,
    None,
    Start,          \* the source that is active at the start, or None
    NoDeactivate,   \* sources whose provider cannot deactivate
    RetryCount,     \* failoverRetryCount
    MaxOutside      \* bound: registrations and overrides in one behaviour

ASSUME ConnectivityBounds ==
    /\ Start \in Sources \cup {None}
    /\ NoDeactivate \subseteq Sources
    /\ RetryCount \in Nat \ {0}
    /\ MaxOutside \in Nat
    /\ None \notin Sources \cup Calls

VARIABLES
    registered, \* registry: sources with a provider
    res,        \* resources: state of a source, "absent" without an entry
    seen,       \* its cached health
    active,     \* this.active
    forced,     \* this.forced
    disabled,   \* this.disabled
    fails,      \* consecutiveFailures, up to RetryCount
    lock,       \* the call whose transition holds transitionLock
    call,       \* the calls
    up,         \* sources that are activated on the host
    excused,    \* sources whose deactivation failed or was never due
    outside

vars == <<registered, res, seen, active, forced, disabled, fails, lock, call,
          up, excused, outside>>

-----------------------------------------------------------------------------
\* The states of a resource that source() takes for available (available,
\* connected, active, degraded) are not told apart, nor are the others.
States == {"absent", "available", "unavailable"}
Healths == {"none", "good", "bad"}
Hints == {"eligible", "soft", "policy-rejected"}

\* The control points of transitionTo after it has taken the lock.
Working == {"evaluating", "activating", "verifying", "deactivating"}
Points == Working \cup {"idle", "queued", "starting", "choosing", "joined",
                        "probing", "listing", "dropping", "reaching", "over"}
Kinds == {"switch", "failover", "recover", "deactivate", "discover", "connect"}
Outcomes == {"none", "committed", "rejected", "threw", "exhausted", "undefined",
             "done", "connected", "unreachable"}

NoStale == [s \in Sources |-> "absent"]
NoCall == [kind |-> "switch", pc |-> "idle", target |-> None, bypass |-> FALSE,
           round |-> 0, prev |-> None, stale |-> NoStale, outcome |-> "none"]
Call == [kind: Kinds, pc: Points, target: Sources \cup {None}, bypass: BOOLEAN,
         round: 0..(RetryCount - 1), prev: Sources \cup {None},
         stale: [Sources -> States], outcome: Outcomes]

\* After discovery, and perhaps a first activation.
Init ==
    /\ registered = Sources
    /\ res = [s \in Sources |-> "available"]
    /\ active = Start /\ forced = None /\ disabled = {}
    /\ seen = [s \in Sources |-> IF s = active THEN "good" ELSE "none"]
    /\ fails = [s \in Sources |-> 0]
    /\ lock = None
    /\ call = [c \in Calls |-> NoCall]
    /\ up = {active} \ {None} /\ excused = {}
    /\ outside = 0

Goes(c, new) == call' = [call EXCEPT ![c] = new]
Ended(k, how) == [NoCall EXCEPT !.kind = k.kind, !.target = k.target,
                               !.pc = "over", !.outcome = how]
Over(c, how) == Goes(c, Ended(call[c], how))

-----------------------------------------------------------------------------
(* evaluate(). *)

\* refreshHealth reads the resources without cached health before it awaits
\* their providers, and writes them back after.
Captured == [s \in Sources |-> IF seen[s] = "none" THEN res[s] ELSE "absent"]

Refreshed(c) ==
    [s \in Sources |-> IF call[c].stale[s] # "absent" THEN call[c].stale[s] ELSE res[s]]

\* Cached health stays; a low network snapshot pulls every source down.
RefreshedHealth(c, good, low) ==
    [s \in Sources |->
        IF Refreshed(c)[s] = "absent" THEN "none"
        ELSE IF low THEN "bad"
        ELSE IF seen[s] = "none" THEN IF s \in good THEN "good" ELSE "bad"
        ELSE seen[s]]

\* registry.get throws for a resource whose provider is gone.
Orphaned(c) == \E s \in Sources : Refreshed(c)[s] # "absent" /\ s \notin registered

\* The decision about a candidate; `hint` is what scores and policy say of each.
Decision(c, s, health, hint) ==
    IF Refreshed(c)[s] # "available" \/ s \in disabled THEN "missing"
    ELSE IF forced = s THEN IF hint[s] = "policy-rejected" THEN hint[s] ELSE "eligible"
    ELSE IF active = s THEN "current"
    ELSE IF health[s] = "bad" THEN "unhealthy"
    ELSE IF hint[s] # "soft" /\ fails[s] >= RetryCount THEN "failed-recently"
    ELSE hint[s]

-----------------------------------------------------------------------------
(* markFailure, markSuccess, and how a transition ends. *)

MoreFails(n, by) == IF n + by < RetryCount THEN n + by ELSE RetryCount

\* failover() marks a failed attempt once more and goes on to the next round.
FailuresOf(c, how, marked) ==
    LET again == IF call[c].kind = "failover" /\ how # "committed" THEN 1 ELSE 0 IN
    [fails EXCEPT ![call[c].target] =
        IF how = "committed" THEN 0 ELSE MoreFails(@, marked + again)]

LastRound(c) == call[c].round + 1 = RetryCount

\* Where the caller of transitionTo goes on.
Resumes(c, how) ==
    LET k == call[c] IN
    Goes(c, CASE k.kind = "failover" /\ how # "committed" ->
                   IF LastRound(c)
                     THEN Ended(k, "exhausted")
                     ELSE [k EXCEPT !.pc = "starting", !.round = @ + 1]
              [] k.kind = "connect" /\ how = "committed" -> [k EXCEPT !.pc = "reaching"]
              [] OTHER -> Ended(k, how))

\* The transition ends, and transitionLock is cleared whether it resolves or
\* rejects; `marked` is 1 when transitionTo itself marked a failure.
Ends(c, how, marked) ==
    /\ fails' = FailuresOf(c, how, marked)
    /\ lock' = None
    /\ Resumes(c, how)

-----------------------------------------------------------------------------
(* switchSource, transitionTo. *)

Switch(c, s, bypass, kind) ==
    /\ call[c].pc = "idle"
    /\ kind = "connect" => bypass /\ s \in registered /\ res[s] = "available"
    /\ Goes(c, [NoCall EXCEPT !.kind = kind, !.pc = "queued", !.target = s,
                              !.bypass = bypass])
    /\ UNCHANGED <<registered, res, seen, active, forced, disabled, fails, lock,
                   up, excused, outside>>

\* Mutant: the lock is not waited for.
LockIgnored == TRUE

LockFree == lock = None

\* enqueue and transitionTo up to its first await.
Begin(c) ==
    /\ call[c].pc = "queued" /\ LockFree
    /\ LET s == call[c].target IN
       IF active = s THEN fails' = fails /\ UNCHANGED lock /\ Resumes(c, "committed")
       ELSE IF res[s] = "absent" \/ s \notin registered THEN Ends(c, "threw", 0)
       ELSE /\ lock' = c /\ UNCHANGED fails
            /\ Goes(c, [call[c] EXCEPT !.pc = "evaluating", !.stale = Captured])
    /\ UNCHANGED <<registered, res, seen, active, forced, disabled, up, excused,
                   outside>>

Proceeds(c, verdict) ==
    LET mine == forced = call[c].target IN
    /\ verdict # "missing"
    /\ verdict = "eligible" \/ call[c].bypass \/ mine
    /\ verdict \notin {"unhealthy", "failed-recently", "policy-rejected"} \/ mine

Evaluated(c, good, low, hint) ==
    LET health == RefreshedHealth(c, good, low) IN
    /\ call[c].pc = "evaluating"
    /\ res' = Refreshed(c) /\ seen' = health
    /\ IF Orphaned(c) THEN Ends(c, "threw", 0)
       ELSE IF ~Proceeds(c, Decision(c, call[c].target, health, hint))
         THEN Ends(c, "rejected", 0)
         ELSE /\ Goes(c, [call[c] EXCEPT !.pc = "activating", !.stale = NoStale])
              /\ UNCHANGED <<fails, lock>>
    /\ UNCHANGED <<registered, active, forced, disabled, up, excused, outside>>

\* connect() and activate() answer.
Activated(c, ok) ==
    /\ call[c].pc = "activating"
    /\ IF ok THEN /\ up' = up \cup {call[c].target}
                  /\ excused' = excused \ {call[c].target}
                  /\ Goes(c, [call[c] EXCEPT !.pc = "verifying"])
                  /\ UNCHANGED <<fails, lock>>
             ELSE Ends(c, "rejected", 1) /\ UNCHANGED <<up, excused>>
    /\ UNCHANGED <<registered, res, seen, active, forced, disabled, outside>>

\* Mutant: the previous source is looked up after the active one was set.
PreviousLate(c) == None

\* The source to deactivate: the active one, if it still has an entry.
Previous(c) == IF active # None /\ res[active] # "absent" THEN active ELSE None

\* The candidate is healthy, or forced: it becomes the active source.
Commits(c, good) ==
    LET s == call[c].target
        p == Previous(c)
        entered == [res EXCEPT ![s] = "available"]
    IN /\ active' = s
       /\ seen' = [seen EXCEPT ![s] = IF good THEN "good" ELSE "bad"]
       /\ IF p # None /\ p \notin registered
            THEN res' = entered /\ excused' = excused \cup {p} /\ Ends(c, "threw", 0)
          ELSE IF p # None /\ p \notin NoDeactivate
            THEN /\ res' = entered /\ UNCHANGED <<excused, fails, lock>>
                 /\ Goes(c, [call[c] EXCEPT !.pc = "deactivating", !.prev = p])
            ELSE /\ res' = [r \in Sources |-> IF r = p THEN "available" ELSE entered[r]]
                 /\ excused' = excused \cup ({p} \ {None})
                 /\ Ends(c, "committed", 0)

\* getHealth answers.  A candidate that fails verification is rejected, and is
\* left activated on the host.
Verified(c, good) ==
    /\ call[c].pc = "verifying"
    /\ IF good \/ forced = call[c].target
         THEN Commits(c, good)
         ELSE /\ excused' = excused \cup {call[c].target}
              /\ Ends(c, "rejected", 1)
              /\ UNCHANGED <<res, seen, active>>
    /\ UNCHANGED <<registered, forced, disabled, up, outside>>

\* deactivate() of the previous source answers; its result is not looked at.
Deactivated(c, ok) ==
    LET p == call[c].prev IN
    /\ call[c].pc = "deactivating"
    /\ up' = IF ok THEN up \ {p} ELSE up
    /\ excused' = IF ok THEN excused ELSE excused \cup {p}
    /\ res' = [res EXCEPT ![p] = "available"]
    /\ Ends(c, "committed", 0)
    /\ UNCHANGED <<registered, seen, active, forced, disabled, outside>>

\* A provider, the snapshot or the policy rejects: transitionTo rejects, its
\* record keeps the status it had, and no failure is marked.
Throws(c) ==
    /\ call[c].pc \in Working
    /\ excused' = excused \cup
          (CASE call[c].pc = "verifying" -> {call[c].target}
             [] call[c].pc = "deactivating" -> {call[c].prev}
             [] OTHER -> {})
    /\ Ends(c, "threw", 0)
    /\ UNCHANGED <<registered, res, seen, active, forced, disabled, up, outside>>

-----------------------------------------------------------------------------
(* failover. *)

\* A failover beside a transition awaits that transition's lock and resolves
\* with what the lock resolves with: nothing.
Failover(c) ==
    /\ call[c].pc = "idle"
    /\ Goes(c, [NoCall EXCEPT !.kind = "failover", !.prev = None, !.bypass = TRUE,
                              !.pc = IF lock = None THEN "starting" ELSE "joined"])
    /\ UNCHANGED <<registered, res, seen, active, forced, disabled, fails, lock,
                   up, excused, outside>>

Joined(c) ==
    /\ call[c].pc = "joined" /\ lock = None
    /\ Over(c, "undefined")
    /\ UNCHANGED <<registered, res, seen, active, forced, disabled, fails, lock,
                   up, excused, outside>>

\* A round of the loop begins to evaluate, outside the lock.
Round(c) ==
    /\ call[c].pc = "starting"
    /\ Goes(c, [call[c] EXCEPT !.pc = "choosing", !.stale = Captured])
    /\ UNCHANGED <<registered, res, seen, active, forced, disabled, fails, lock,
                   up, excused, outside>>

\* Mutant: the loop goes on when there is no candidate.
ChosenContinues(c, good, low, hint) ==
    LET health == RefreshedHealth(c, good, low)
        candidates == {s \in Sources \ {active} :
            Decision(c, s, health, hint) \in {"eligible", "soft", "failed-recently"}}
    IN /\ call[c].pc = "choosing"
       /\ res' = Refreshed(c) /\ seen' = health
       /\ \/ candidates = {} /\ Goes(c, [call[c] EXCEPT !.pc = "starting", !.stale = NoStale])
          \/ \E s \in candidates :
                   Goes(c, [call[c] EXCEPT !.pc = "queued", !.target = s,
                                           !.stale = NoStale])
       /\ UNCHANGED <<registered, active, forced, disabled, fails, lock, up,
                      excused, outside>>

\* The best candidate that has failed at most `round` times is queued.
Chosen(c, good, low, hint) ==
    LET health == RefreshedHealth(c, good, low)
        candidates == {s \in Sources \ {active} :
            /\ Decision(c, s, health, hint) \in {"eligible", "soft", "failed-recently"}
            /\ fails[s] <= call[c].round}
    IN /\ call[c].pc = "choosing"
       /\ res' = Refreshed(c) /\ seen' = health
       /\ \/ Orphaned(c) /\ Over(c, "threw")
          \/ ~Orphaned(c) /\ candidates = {} /\ Over(c, "exhausted")
          \/ /\ ~Orphaned(c)
             /\ \E s \in candidates :
                   Goes(c, [call[c] EXCEPT !.pc = "queued", !.target = s,
                                           !.stale = NoStale])
       /\ UNCHANGED <<registered, active, forced, disabled, fails, lock, up,
                      excused, outside>>

-----------------------------------------------------------------------------
(* recover, deactivateSource, discoverResources: outside the lock. *)

Starts(c, s, kind) ==
    /\ call[c].pc = "idle" /\ s \in registered
    /\ kind = "recover" => res[s] # "absent"
    /\ kind = "deactivate" => s \notin NoDeactivate
    /\ Goes(c, [NoCall EXCEPT !.kind = kind, !.target = s,
                  !.pc = CASE kind = "recover" -> "probing"
                           [] kind = "deactivate" -> "dropping"
                           [] kind = "discover" -> "listing"])
    /\ UNCHANGED <<registered, res, seen, active, forced, disabled, fails, lock,
                   up, excused, outside>>

Recovered(c, good) ==
    LET s == call[c].target IN
    /\ call[c].pc = "probing"
    /\ res' = [res EXCEPT ![s] = IF good THEN "available" ELSE "unavailable"]
    /\ seen' = [seen EXCEPT ![s] = IF good THEN "good" ELSE "bad"]
    /\ fails' = [fails EXCEPT ![s] = IF good THEN 0 ELSE @]
    /\ Over(c, "done")
    /\ UNCHANGED <<registered, active, forced, disabled, lock, up, excused, outside>>

Discovered(c, state, health) ==
    /\ call[c].pc = "listing"
    /\ res' = [res EXCEPT ![call[c].target] = state]
    /\ seen' = [seen EXCEPT ![call[c].target] = health]
    /\ Over(c, "done")
    /\ UNCHANGED <<registered, active, forced, disabled, fails, lock, up, excused,
                   outside>>

\* deactivate() answers, its result not looked at; the daemon's own
\* deactivation of an unreachable source ends here too.
Dropped(c, ok) ==
    LET s == call[c].target IN
    /\ call[c].pc = "dropping"
    /\ up' = IF ok THEN up \ {s} ELSE up
    /\ excused' = IF ok THEN excused ELSE excused \cup {s}
    /\ active' = IF active = s THEN None ELSE active
    /\ Over(c, IF call[c].kind = "connect" THEN "unreachable" ELSE "done")
    /\ UNCHANGED <<registered, res, seen, forced, disabled, fails, lock, outside>>

\* A provider rejects; the daemon swallows it.
Rejects(c) ==
    /\ call[c].pc \in {"choosing", "probing", "listing", "dropping"}
    /\ Over(c, IF call[c].kind = "connect" THEN "unreachable" ELSE "threw")
    /\ UNCHANGED <<registered, res, seen, active, forced, disabled, fails, lock,
                   up, excused, outside>>

\* connectDeviceSource: the external destination answered, or did not and the
\* source is deactivated.
Reached(c, ok) ==
    /\ call[c].pc = "reaching"
    /\ IF ok THEN Over(c, "connected")
       ELSE IF call[c].target \in registered \ NoDeactivate
         THEN Goes(c, [call[c] EXCEPT !.pc = "dropping"])
         ELSE Over(c, "unreachable")
    /\ UNCHANGED <<registered, res, seen, active, forced, disabled, fails, lock,
                   up, excused, outside>>

-----------------------------------------------------------------------------
(* Registrations and overrides. *)

Unregister(s) ==
    /\ s \in registered
    /\ registered' = registered \ {s}
    /\ res' = [res EXCEPT ![s] = "absent"]
    /\ seen' = [seen EXCEPT ![s] = "none"]
    /\ active' = IF active = s THEN None ELSE active
    /\ excused' = excused \cup {s}
    /\ UNCHANGED <<forced, disabled, fails, lock, call, up>>

Register(s) ==
    /\ s \notin registered
    /\ registered' = registered \cup {s}
    /\ UNCHANGED <<res, seen, active, forced, disabled, fails, lock, call, up, excused>>

Override(s) ==
    /\ res[s] # "absent"
    /\ \/ forced' \in {s, None} /\ UNCHANGED disabled
       \/ disabled' \in {disabled \cup {s}, disabled \ {s}} /\ UNCHANGED forced
    /\ UNCHANGED <<registered, res, seen, active, fails, lock, call, up, excused>>

Outside == /\ outside < MaxOutside
           /\ outside' = outside + 1
           /\ \E s \in Sources : Unregister(s) \/ Register(s) \/ Override(s)

-----------------------------------------------------------------------------
Submit(c) ==
    \/ \E s \in Sources, bypass \in BOOLEAN, kind \in {"switch", "connect"} :
          Switch(c, s, bypass, kind)
    \/ Failover(c)
    \/ \E s \in Sources, kind \in {"recover", "deactivate", "discover"} :
          Starts(c, s, kind)

Progress(c) ==
    \/ Begin(c) \/ Joined(c) \/ Round(c)
    \/ /\ call[c].pc \in {"evaluating", "choosing"}
       /\ \E good \in SUBSET Sources, low \in BOOLEAN, hint \in [Sources -> Hints] :
             Evaluated(c, good, low, hint) \/ Chosen(c, good, low, hint)
    \/ \E ok \in BOOLEAN :
          \/ Activated(c, ok) \/ Verified(c, ok) \/ Deactivated(c, ok)
          \/ Recovered(c, ok) \/ Dropped(c, ok) \/ Reached(c, ok)
    \/ \E state \in States \ {"absent"}, health \in Healths : Discovered(c, state, health)

Next ==
    \/ \E c \in Calls : Submit(c) \/ Progress(c) \/ Throws(c) \/ Rejects(c)
    \/ Outside

Spec == Init /\ [][Next]_vars

\* Providers answer, and the event loop resumes whoever can go on; nobody
\* queues for the lock again and again, so weak fairness is enough.
FairSpec == Spec /\ \A c \in Calls : WF_vars(Progress(c))

-----------------------------------------------------------------------------
(* Properties. *)

\* The type invariant.
TypeOK ==
    /\ registered \subseteq Sources
    /\ res \in [Sources -> States] /\ seen \in [Sources -> Healths]
    /\ active \in Sources \cup {None} /\ forced \in Sources \cup {None}
    /\ disabled \subseteq Sources
    /\ fails \in [Sources -> 0..RetryCount]
    /\ lock \in Calls \cup {None}
    /\ call \in [Calls -> Call]
    /\ up \subseteq Sources /\ excused \subseteq Sources
    /\ outside \in 0..MaxOutside

\* transitionLock is a lock: at most one transition is between its first and its
\* last await, and the lock is held exactly then, whichever way it ends.
OneTransition ==
    \A c \in Calls : call[c].pc \in Working <=> lock = c

\* The failure counters stay within the retry count and at most one transition
\* is between its awaits, whichever call is rejected, waits or is retried.
TransitionInv == TypeOK /\ OneTransition

\* getActiveSource() names a source that is activated on the host, unless
\* deactivateSource or the daemon was deactivating it beside the transition.
ActiveIsUp ==
    active # None /\ active \notin up =>
       \E c \in Calls : /\ call[c].kind \in {"deactivate", "connect"}
                        /\ call[c].target = active
                        /\ call[c].pc = "over"

\* No source is left activated unnoticed: it is the active one, is being
\* switched to or from, or its deactivation was refused, failed, impossible or,
\* after a failed verification, never asked for.
ResidueIsExplained ==
    \A s \in up :
       \/ s = active \/ s \in excused
       \/ \E c \in Calls : call[c].pc \in Working /\ s \in {call[c].target, call[c].prev}

\* What the manager believes and what is activated on the host agree, but for the
\* residues that a named failure explains.
SourcesAreAccounted == ActiveIsUp /\ ResidueIsExplained

\* Every switch, failover, recovery and connection ends.
EveryCallEnds ==
    \A c \in Calls : call[c].pc # "idle" ~> call[c].pc = "over"

-----------------------------------------------------------------------------
(* Claims of the source that the code does not keep. *)

\* "Returns the verified connection outcome - never a merely requested state":
\* a device is reported connected through the source that is active.
ConnectedIsActive ==
    [][\A c \in Calls :
          /\ call[c].outcome # "connected"
          /\ call'[c].outcome = "connected"
          => active' = call[c].target]_vars
=============================================================================
