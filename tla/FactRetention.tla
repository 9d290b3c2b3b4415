---------------------------- MODULE FactRetention ----------------------------
(***************************************************************************)
(* What the fact table promises the readers of its history.  A record      *)
(* becomes readable when it is recorded, whole and once, with a date that  *)
(* is not in the future.  It stays readable until it is older than the     *)
(* retention window or Keep newer records of its client have been          *)
(* recorded; from then on it may be forgotten, and if so, for good.  When, *)
(* in which batches and by how many clean-ups is left open.                *)
(***************************************************************************)
EXTENDS Integers, FiniteSets

CONSTANTS
    Window,         \* days a record is kept
    Keep,           \* records of a client that are kept
    Outranks(_, _)  \* whether one record is a newer one of the other's client

VARIABLES
    today,
    recorded,   \* every record there ever was
    readable    \* those not forgotten

retentionVars == <<today, recorded, readable>>

Expired(r) == r.updatedAt < today - Window

Superseded(r) == Cardinality({s \in recorded : Outranks(s, r)}) >= Keep

Init == today = 0 /\ recorded = {} /\ readable = {}

Record(r) ==
    /\ r \notin recorded
    /\ r.updatedAt <= today
    /\ recorded' = recorded \cup {r}
    /\ readable' = readable \cup {r}
    /\ UNCHANGED today

Forget ==
    /\ readable' \subseteq readable
    /\ \A r \in readable \ readable' : Expired(r) \/ Superseded(r)
    /\ UNCHANGED <<today, recorded>>

Tick ==
    /\ today' = today + 1
    /\ UNCHANGED <<recorded, readable>>

Next == (\E r \in recorded' : Record(r)) \/ Forget \/ Tick

Spec == Init /\ [][Next]_retentionVars

-----------------------------------------------------------------------------
(* A record that has been forgotten does not come back.                    *)
ForgottenForGood ==
    [][\A r \in recorded \ readable : r \notin readable']_retentionVars
=============================================================================
