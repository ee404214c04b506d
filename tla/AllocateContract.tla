-------------------------- MODULE AllocateContract --------------------------
(***************************************************************************)
(* What an allocation promises its caller, whatever happens inside.  It    *)
(* brings containers up one by one.  It reports success only when every    *)
(* container the definition requires is up; it takes containers down only  *)
(* after it has given up, and once it has reported nothing moves any more. *)
(* A deployment that was already on its way when the allocation gave up    *)
(* may still bring its container up.                                       *)
(*                                                                         *)
(* DockerAllocate implements this contract (see DockerAllocate!Contract).  *)
(***************************************************************************)
CONSTANT Container

VARIABLES
    required,   \* the containers the definition asks for
    phase,      \* "building", "undoing", "ready" or "failed"
    up          \* the containers that are running

vars == <<required, phase, up>>

Init ==
    /\ required \in SUBSET Container
    /\ phase = "building"
    /\ up = {}

BringUp(c) ==
    /\ phase \in {"building", "undoing"}
    /\ c \in required \ up
    /\ up' = up \union {c}
    /\ UNCHANGED <<required, phase>>

Commit ==
    /\ phase = "building"
    /\ up = required
    /\ phase' = "ready"
    /\ UNCHANGED <<required, up>>

Abandon ==
    /\ phase = "building"
    /\ phase' = "undoing"
    /\ UNCHANGED <<required, up>>

TakeDown(c) ==
    /\ phase = "undoing"
    /\ c \in up
    /\ up' = up \ {c}
    /\ UNCHANGED <<required, phase>>

\* A failure may be noticed in the very step that brought a container up.
Fail ==
    /\ phase \in {"building", "undoing"}
    /\ phase' = "failed"
    /\ \/ up' = up
       \/ phase = "building" /\ \E c \in required \ up : up' = up \union {c}
    /\ UNCHANGED required

Next ==
    \/ \E c \in Container : BringUp(c) \/ TakeDown(c)
    \/ Commit
    \/ Abandon
    \/ Fail

Spec == Init /\ [][Next]_vars
=============================================================================
