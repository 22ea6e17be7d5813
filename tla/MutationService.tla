--------------------------- MODULE MutationService ---------------------------
(***************************************************************************)
(* What the privileged mutation boundary promises, without its phases,     *)
(* ports, idempotency keys or caches: a mutation takes effect only while   *)
(* its call owns the resource, at most one call owns a resource, and the   *)
(* verdict of a call tells whether its mutation is still in force.         *)
(***************************************************************************)
CONSTANTS
    Calls,      \* calls of the service
    Resources,
    Nobody      \* the owner of a free resource

VARIABLES
    stage,      \* of each call
    force,      \* what a call has left in the data plane
    verdict,    \* what a decided call says
    owner       \* of each resource

vars == <<stage, force, verdict, owner>>

Forces == {"none", "applied", "superseded"}
Verdicts == {"committed", "failed", "recovered", "claimed", "blocked",
             "cancelled", "timed-out", "interrupted", "threw"}

Init ==
    /\ stage = [c \in Calls |-> "outside"]
    /\ force = [c \in Calls |-> "none"]
    /\ verdict = [c \in Calls |-> "none"]
    /\ owner = [r \in Resources |-> Nobody]

\* Everything but a commit, a failure, an interruption that names its execution,
\* an error and a recovery that is only claimed denies that the mutation is in
\* force.
Truthful(v, f) ==
    f = "applied" =>
       v \in {"committed", "failed", "claimed", "interrupted", "threw"}

Releases(c) == \E r \in Resources :
    owner[r] = c /\ owner' = [owner EXCEPT ![r] = Nobody]

Move(c, to, f, v) ==
    /\ stage' = [stage EXCEPT ![c] = to]
    /\ force' = [force EXCEPT ![c] = f]
    /\ verdict' = [verdict EXCEPT ![c] = v]

-----------------------------------------------------------------------------
\* A call is admitted to a free resource.
Admit(c) ==
    /\ stage[c] = "outside"
    /\ \E r \in Resources : owner[r] = Nobody /\ owner' = [owner EXCEPT ![r] = c]
    /\ Move(c, "working", "none", "none")

\* A call is turned away.
Refuse(c) ==
    /\ stage[c] = "outside"
    /\ UNCHANGED owner
    /\ \E v \in Verdicts : Move(c, "decided", "none", v)

\* The owner of a resource mutates it.
Work(c) ==
    /\ stage[c] = "working"
    /\ UNCHANGED owner
    /\ \E f \in Forces : Move(c, "working", f, "none")

\* The owner gives the resource up, decided or to undo what it did.
Conclude(c) ==
    /\ stage[c] = "working"
    /\ Releases(c)
    /\ \E f \in Forces, v \in Verdicts : Truthful(v, f) /\ Move(c, "decided", f, v)

BackOut(c) ==
    /\ stage[c] = "working"
    /\ Releases(c)
    /\ \E f \in Forces : Move(c, "undoing", f, "none")

\* Undoing never puts the mutation back.
Undo(c) ==
    /\ stage[c] = "undoing"
    /\ UNCHANGED owner
    /\ \E f \in {force[c], "none"} : Move(c, "undoing", f, "none")

Give(c) ==
    /\ stage[c] = "undoing"
    /\ UNCHANGED owner
    /\ \E f \in Forces, v \in Verdicts :
          /\ Truthful(v, f)
          /\ f = "applied" => force[c] = "applied"
          /\ Move(c, "decided", f, v)

\* The verdict has been handed out.
Close(c) ==
    /\ stage[c] = "decided"
    /\ UNCHANGED owner
    /\ Move(c, "outside", "none", "none")

Next == \E c \in Calls :
    Admit(c) \/ Refuse(c) \/ Work(c) \/ Conclude(c) \/ BackOut(c) \/ Undo(c)
    \/ Give(c) \/ Close(c)

Spec == Init /\ [][Next]_vars
=============================================================================
