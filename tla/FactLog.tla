------------------------------- MODULE FactLog -------------------------------
(***************************************************************************)
(* What the submission endpoint promises its clients: facts are recorded   *)
(* at most once per request, and nobody is told something false about it.  *)
(* A client may be told "unknown" at any time; the request may still be    *)
(* recorded afterwards.                                                    *)
(***************************************************************************)
CONSTANT Request

VARIABLES
    recorded,   \* requests whose facts were committed
    refused,    \* requests that will never be
    told        \* what each client has been told

logVars == <<recorded, refused, told>>

Verdict == {"stored", "refused", "unknown"}

Init ==
    /\ recorded = {} /\ refused = {}
    /\ told = [r \in Request |-> "nothing"]

Record(r) ==
    /\ r \notin recorded \cup refused
    /\ recorded' = recorded \cup {r}
    /\ UNCHANGED <<refused, told>>

Refuse(r) ==
    /\ r \notin recorded \cup refused
    /\ refused' = refused \cup {r}
    /\ UNCHANGED <<recorded, told>>

Tell(r, v) ==
    /\ told[r] = "nothing"
    /\ v = "stored" => r \in recorded
    /\ v = "refused" => r \in refused
    /\ told' = [told EXCEPT ![r] = v]
    /\ UNCHANGED <<recorded, refused>>

Next ==
    \E r \in Request :
       Record(r) \/ Refuse(r) \/ (\E v \in Verdict : Tell(r, v))

Spec == Init /\ [][Next]_logVars

-----------------------------------------------------------------------------
(***************************************************************************)
(* What this amounts to: who was told "stored" has the facts recorded, who *)
(* was told "refused" has not, and neither is ever told anything else; so  *)
(* a host that was refused never appears in the table because of it.       *)
(***************************************************************************)
Honest ==
    \A r \in Request :
        /\ told[r] = "stored" => r \in recorded
        /\ told[r] = "refused" => r \notin recorded

WordKept == \A r \in Request : told[r] # "nothing" => told'[r] = told[r]
=============================================================================
