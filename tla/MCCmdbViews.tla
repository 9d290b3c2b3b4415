----------------------------- MODULE MCCmdbViews -----------------------------
(***************************************************************************)
(* Records for the runs of CmdbViews: an ordinary host, and hosts that     *)
(* differ from it in one place.                                            *)
(***************************************************************************)
EXTENDS CmdbViews

Texts4 == {"absent", "", "junk", "10.0.0.5", "10.0.0.5/24", "127.0.0.1",
           "127.0.0.1/8", "::1"}

Object(A, P) == [type : {"object"}, address : A, prefix : P]
String(T) == [type : {"string"}, text : T]
Other == {[type |-> "other"]}
Absent == {[type |-> "absent"]}
Prefixes == {"absent", "", "8", "junk"}
Array(E) == [type |-> "array", elems |-> E]

Ipv4Values ==
    Object({"", "junk", "10.0.0.5", "127.0.0.1"}, Prefixes)
    \cup Object({"absent"}, {"absent"}) \cup Other \cup Absent
    \cup {Array({}), Array(Object({"10.0.0.5"}, {"absent"}))}
    \cup {Array({e}) : e \in String(Texts4)}
    \cup {Array(String({t, "10.0.0.5"})) : t \in {"127.0.0.1", "junk"}}

Ipv6Values ==
    Other \cup Absent
    \cup {Array({e}) : e \in Other \cup String({"", "junk"})
                             \cup Object({"absent", "junk", "fe80::1", "::1"},
                                         Prefixes)}
    \cup {Array(E) : E \in SUBSET String({"fe80::1", "::1", "127.0.0.1"})}

Ordinary ==
    [interfaces |->
        [n \in Name |->
            [device |-> TRUE, macaddress |-> "00:11:22:33:44:55",
             mtu |-> "1500",
             ipv4 |-> [type |-> "object", prefix |-> "24",
                       address |-> IF n = "lo" THEN "127.0.0.1" ELSE "10.0.0.5"],
             ipv6 |-> [type |-> "array", elems |-> {}]]],
     count |-> "1500",
     devices |-> [type |-> "object", sectors |-> "1500",
                  sectorsize |-> "1500", ids |-> "array"]]

Numbers == {"absent", "", "NULL", "1500", "junk"}

MCSystemFacts ==
    {Ordinary, [Ordinary EXCEPT !.interfaces["eth"].device = FALSE]}
    \cup {[Ordinary EXCEPT !.interfaces["eth"].ipv4 = j] : j \in Ipv4Values}
    \cup {[Ordinary EXCEPT !.interfaces["eth"].ipv6 = j] : j \in Ipv6Values}
    \cup {[Ordinary EXCEPT !.interfaces["eth"].macaddress = t] :
            t \in {"absent", "", "junk"}}
    \cup {[Ordinary EXCEPT !.interfaces["eth"].mtu = t] : t \in Numbers}
    \cup {[Ordinary EXCEPT !.count = t] : t \in Numbers}
    \cup {[Ordinary EXCEPT !.devices.sectors = t] : t \in Numbers}
    \cup {[Ordinary EXCEPT !.devices.ids = t] : t \in {"absent", "other"}}
    \cup {[Ordinary EXCEPT !.devices = d] : d \in Other \cup Absent}
=============================================================================
