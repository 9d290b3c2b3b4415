------------------------------ MODULE JobLease ------------------------------
(***************************************************************************)
(* What the lock promises the workers of a job.  Among them at most one    *)
(* owns the job, and each time an owner hears from the database it may     *)
(* rely on nobody else being given the job until Window ticks later.  A    *)
(* worker may stop relying on it, or stop owning it, at any time; how the  *)
(* next owner is found is left open.                                       *)
(***************************************************************************)
EXTENDS Integers

CONSTANTS
    Worker,
    Window      \* ticks one confirmation is good for; if there are none, the
                \* lease is worth nothing

VARIABLES
    now,
    owner,      \* the worker that owns the job, as a set of at most one
    until       \* how long each worker may rely on being the only one

leaseVars == <<now, owner, until>>

Relies(w) == until[w] > now

Init ==
    /\ now = 0
    /\ owner = {}
    /\ until = [w \in Worker |-> 0]

Grant(w) ==
    /\ \A v \in Worker : ~Relies(v)
    /\ owner' = {w}
    /\ UNCHANGED <<now, until>>

Confirm(w) ==
    /\ w \in owner \/ Window <= 0
    /\ until' = [until EXCEPT ![w] = now + Window]
    /\ UNCHANGED <<now, owner>>

GiveUp(w) ==
    /\ owner' \in {owner, owner \ {w}}
    /\ until' = [until EXCEPT ![w] = 0]
    /\ UNCHANGED now

Tick ==
    /\ now' = now + 1
    /\ UNCHANGED <<owner, until>>

Next == Tick \/ \E w \in Worker : Grant(w) \/ Confirm(w) \/ GiveUp(w)

Spec == Init /\ [][Next]_leaseVars

-----------------------------------------------------------------------------
(* No two workers rely on the lease at the same time, and one that does    *)
(* owns the job.                                                           *)
OneRelies == \A w \in Worker : Relies(w) => owner = {w}
=============================================================================
