--------------------------- MODULE JobLeaseProofs ---------------------------
(***************************************************************************)
(* The promise of JobLease excludes: whoever relies on the lease owns the  *)
(* job alone.                                                              *)
(***************************************************************************)
EXTENDS JobLease, TLAPS

LeaseTypeOK ==
    /\ now \in Nat
    /\ owner \in SUBSET Worker
    /\ until \in [Worker -> Int]

(* There is one owner at most, and only it can rely on the lease.          *)
LeaseInv ==
    /\ LeaseTypeOK
    /\ \A v, w \in owner : v = w
    /\ OneRelies

(* Every step of the lease keeps its invariant.                            *)
LEMMA LeaseInvStep ==
  ASSUME Window \in Int, LeaseInv, [Next]_leaseVars
  PROVE  LeaseInv'
<1> USE DEF LeaseInv, LeaseTypeOK, OneRelies, Relies
<1>1. CASE Tick
  BY <1>1 DEF Tick
<1>2. ASSUME NEW w \in Worker, Grant(w) PROVE LeaseInv'
  BY <1>2 DEF Grant
<1>3. ASSUME NEW w \in Worker, Confirm(w) PROVE LeaseInv'
  <2>1. /\ LeaseTypeOK' /\ owner' = owner /\ now' = now
        /\ until'[w] = now + Window
        /\ \A v \in Worker \ {w} : until'[v] = until[v]
    BY <1>3 DEF Confirm
  <2>2. CASE w \in owner
    <3>1. owner = {w}
      BY <2>2
    <3>2. QED
      BY <2>1, <3>1
  <2>3. CASE Window <= 0
    BY <2>1, <2>3
  <2>4. QED
    BY <1>3, <2>2, <2>3 DEF Confirm
<1>4. ASSUME NEW w \in Worker, GiveUp(w) PROVE LeaseInv'
  BY <1>4 DEF GiveUp
<1>5. CASE UNCHANGED leaseVars
  BY <1>5 DEF leaseVars
<1>6. QED
  BY <1>1, <1>2, <1>3, <1>4, <1>5 DEF Next

(***************************************************************************)
(* No two workers rely on the lease at once, for every number of workers   *)
(* and every window.  ExclusiveJob implements JobLease, so this is what    *)
(* its invocations get from the lock.                                      *)
(***************************************************************************)
THEOREM LeaseExclusive ==
  ASSUME Window \in Int
  PROVE  Spec => []OneRelies
<1>1. Init => LeaseInv
  BY DEF Init, LeaseInv, LeaseTypeOK, OneRelies, Relies
<1>2. LeaseInv /\ [Next]_leaseVars => LeaseInv'
  BY LeaseInvStep
<1>3. LeaseInv => OneRelies
  BY DEF LeaseInv
<1>4. QED
  BY <1>1, <1>2, <1>3, PTL DEF Spec
=============================================================================
