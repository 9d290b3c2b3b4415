------------------------------- MODULE CmdbViews -------------------------------
(***************************************************************************)
(* The CMDB views over fact_inventory, as PostgreSQL evaluates them: what  *)
(* each lists for the stored records, and when a value it cannot cast      *)
(* fails the whole query.  Records come and go by submissions and          *)
(* clean-ups.                                                              *)
(*                                                                         *)
(* A JSON text is one of a few that stand for all: "absent", "", and what  *)
(* the casts below accept or refuse.  Columns that copy a text and cannot  *)
(* fail are left out.                                                      *)
(***************************************************************************)
EXTENDS Integers, FiniteSets

CONSTANTS
    SystemFacts,   \* the contents of system_facts that records may have
    MaxRows        \* bound on the stored records

VARIABLE
    facts   \* the stored records, each identified with its system_facts

vars == <<facts>>

Name == {"lo", "eth"}

View == {"interfaces", "ipv4", "ipv6", "hardware", "storage", "os"}

Init == facts = {}

-----------------------------------------------------------------------------
(* Casts                                                                   *)

(* SQL values: an inet has a family, a network and a prefix length.        *)
Null == [family |-> 0, net |-> "null", bits |-> 0]
Error == [family |-> 0, net |-> "error", bits |-> 0]
Value == [family |-> 0, net |-> "value", bits |-> 0]

InetOf ==
    [t \in {"10.0.0.5", "10.0.0.5/24", "127.0.0.1", "127.0.0.1/8",
            "fe80::1", "::1"} |->
        [family |-> IF t \in {"fe80::1", "::1"} THEN 6 ELSE 4,
         net  |-> IF t \in {"10.0.0.5", "10.0.0.5/24", "fe80::1"}
                  THEN "host" ELSE "loopback",
         bits |-> CASE t = "10.0.0.5/24" -> 24
                    [] t = "127.0.0.1/8" -> 8
                    [] t \in {"fe80::1", "::1"} -> 128
                    [] OTHER -> 32]]

PrefixOf == [p \in {"8", "24"} |-> IF p = "8" THEN 8 ELSE 24]

Inet(t) == IF t \in DOMAIN InetOf THEN InetOf[t] ELSE Error

SetMaskLen(a, p) ==
    IF a = Error \/ p \notin DOMAIN PrefixOf THEN Error
    ELSE [a EXCEPT !.bits = PrefixOf[p]]

(* NULLIF(NULLIF(text, ''), 'NULL')::integer                               *)
Number(t) ==
    IF t \in {"absent", "", "NULL"} THEN Null
    ELSE IF t = "1500" THEN Value ELSE Error

\* Mutant: the empty text is cast.
MacaddrOfAny(t) ==
    IF t = "absent" THEN Null
    ELSE IF t = "00:11:22:33:44:55" THEN Value ELSE Error

Macaddr(t) ==
    IF t \in {"absent", ""} THEN Null
    ELSE IF t = "00:11:22:33:44:55" THEN Value ELSE Error

\* Mutant: the sibling prefix is not applied.
ObjectAddressAlone(j) ==
    IF j.address \in {"absent", ""} THEN Null ELSE Inet(j.address)

(* An address and its sibling prefix.                                      *)
ObjectAddress(j) ==
    IF j.address \in {"absent", ""} THEN Null
    ELSE IF j.prefix \in {"absent", ""} THEN Inet(j.address)
    ELSE SetMaskLen(Inet(j.address), j.prefix)

TextAddress(t) == IF t \in {"absent", ""} THEN Null ELSE Inet(t)

-----------------------------------------------------------------------------
(* The views                                                               *)

(* Facts with a 'device' key, the interface called lo excepted.            *)
cmdb_host_interfaces_private(S) ==
    {row \in [record : S, name : Name] :
        /\ row.record.interfaces[row.name].device
        /\ row.name # "lo"}

Data(row) == row.record.interfaces[row.name]

cmdb_host_interfaces(S) ==
    {[record |-> row.record, name |-> row.name,
      mac |-> Macaddr(Data(row).macaddress), mtu |-> Number(Data(row).mtu)] :
        row \in cmdb_host_interfaces_private(S)}

(* An object, or an array whose elements are taken as texts: an object in  *)
(* it becomes its JSON text.                                               *)
Addresses4(j) ==
    CASE j.type = "object" -> {ObjectAddress(j)}
      [] j.type = "array" ->
            {TextAddress(IF e.type = "object" THEN "{...}" ELSE e.text) :
                e \in j.elems}
      [] OTHER -> {}

\* Mutant: an inner join.
InnerJoin(A) == A

(* LEFT JOIN: an interface without addresses has a row all the same.       *)
OrNull(A) == IF A = {} THEN {Null} ELSE A

(* addr << 127.0.0.0/8 is strict containment, and false of an IPv6 address. *)
Listed4(a) == a = Null \/ ~(a.family = 4 /\ a.net = "loopback" /\ a.bits > 8)

AddressRows(row, A) ==
    {[record |-> row.record, name |-> row.name, cidr |-> a,
      mac |-> Macaddr(Data(row).macaddress)] : a \in A}

cmdb_host_interface_ipv4_addresses(S) ==
    UNION {AddressRows(row, {a \in OrNull(Addresses4(Data(row).ipv4)) :
                                Listed4(a)}) :
              row \in cmdb_host_interfaces_private(S)}

\* Mutant: the branch for strings is left out of the UNION.
Addresses6Objects(j) ==
    IF j.type # "array" THEN {}
    ELSE {ObjectAddress(e) : e \in {x \in j.elems : x.type = "object"}}

(* The elements are told apart by their type.  The test that the value is  *)
(* an array does not depend on them and gates the scan.                    *)
Addresses6(j) ==
    IF j.type # "array" THEN {}
    ELSE {IF e.type = "object" THEN ObjectAddress(e) ELSE TextAddress(e.text) :
             e \in {x \in j.elems : x.type \in {"object", "string"}}}

\* Mutant: compares the whole inet value, prefix included.
Listed6Exact(a) == a # InetOf["::1"]

(* HOST(addr) IS DISTINCT FROM ::1, of which an IPv4 address is distinct.  *)
Listed6(a) == a = Null \/ ~(a.family = 6 /\ a.net = "loopback")

cmdb_host_interface_ipv6_addresses(S) ==
    UNION {AddressRows(row, {a \in OrNull(Addresses6(Data(row).ipv6)) :
                                Listed6(a)}) :
              row \in cmdb_host_interfaces_private(S)}

(* count stands for the four numbers that are decoded.                     *)
cmdb_host_hardware(S) ==
    {[record |-> r, count |-> Number(r.count)] : r \in S}

DeviceSize(d) ==
    LET sectors == Number(d.sectors)
        size == Number(d.sectorsize)
    IN  IF Error \in {sectors, size} THEN Error
        ELSE IF Null \in {sectors, size} THEN Null ELSE Value

(* An array of links that is none fails; a missing one has no element.     *)
IsFibre(d) == IF d.ids = "other" THEN Error ELSE Value

(* JSONB_EACH of something that is no object fails.                        *)
cmdb_host_storage_devices(S) ==
    UNION {CASE r.devices.type = "object" ->
                  {[record |-> r, size |-> DeviceSize(r.devices),
                    fibre |-> IsFibre(r.devices)]}
             [] r.devices.type = "absent" -> {}
             [] OTHER -> {[record |-> r, size |-> Error, fibre |-> Error]} :
                r \in S}

cmdb_host_os_info(S) == {[record |-> r] : r \in S}

(* A query fails as a whole when one of its values does.                   *)
Fails(v, S) ==
    CASE v = "interfaces" ->
            \E row \in cmdb_host_interfaces(S) : Error \in {row.mac, row.mtu}
      [] v = "ipv4" ->
            \E row \in cmdb_host_interface_ipv4_addresses(S) :
                Error \in {row.cidr, row.mac}
      [] v = "ipv6" ->
            \E row \in cmdb_host_interface_ipv6_addresses(S) :
                Error \in {row.cidr, row.mac}
      [] v = "hardware" ->
            \E row \in cmdb_host_hardware(S) : row.count = Error
      [] v = "storage" ->
            \E row \in cmdb_host_storage_devices(S) :
                Error \in {row.size, row.fibre}
      [] v = "os" -> FALSE

-----------------------------------------------------------------------------
(* The table                                                               *)

\* Mutant: a submission replaces what is stored.
SubmitReplacing(r) == facts' = {r}

Submit(r) ==
    /\ Cardinality(facts) < MaxRows
    /\ facts' = facts \cup {r}

Purge(r) == facts' = facts \ {r}

Next ==
    \/ \E r \in SystemFacts : Submit(r)
    \/ \E r \in facts : Purge(r)

Spec == Init /\ [][Next]_vars

-----------------------------------------------------------------------------
(***************************************************************************)
(* No interface escapes the audit: each has a row in both address views,   *)
(* with a NULL if it has no address, unless all its addresses are loopback *)
(* ones of the view's own family.                                          *)
(***************************************************************************)
InterfacesAudited ==
    \A row \in cmdb_host_interfaces_private(facts) :
        LET Hidden(A, f) == /\ A # {}
                            /\ \A a \in A : a.family = f /\ a.net = "loopback"
            Listed(rows) == \E x \in rows :
                               x.record = row.record /\ x.name = row.name
        IN  /\ \/ Listed(cmdb_host_interface_ipv4_addresses(facts))
               \/ Hidden(Addresses4(Data(row).ipv4), 4)
            /\ \/ Listed(cmdb_host_interface_ipv6_addresses(facts))
               \/ Hidden(Addresses6(Data(row).ipv6), 6)

ValidPrefix(p) == p \in {"absent", ""} \cup DOMAIN PrefixOf

(* The address texts among objects with a valid prefix, or none, and among *)
(* strings: the shapes in which an interface's addresses are submitted.    *)
ObjectTexts(E) ==
    {e.address : e \in {x \in E : x.type = "object" /\ ValidPrefix(x.prefix)}}

StringTexts(E) == {e.text : e \in {x \in E : x.type = "string"}}

Submitted4(j) ==
    IF j.type = "array" THEN StringTexts(j.elems) ELSE ObjectTexts({j})

Submitted6(j) ==
    IF j.type = "array" THEN StringTexts(j.elems) \cup ObjectTexts(j.elems)
    ELSE {}

(***************************************************************************)
(* The filters hide loopback addresses and nothing else: every other valid *)
(* address a host submitted, in whichever shape and family, and beside     *)
(* whatever else, is listed for its interface, while 127.0.0.1 without a   *)
(* prefix of its own and ::1 with any are not.  With the prefix of its     *)
(* network 127.0.0.1/8 escapes the filter against the documentation, and   *)
(* nothing is claimed of it here.                                          *)
(***************************************************************************)
LoopbackAloneHidden ==
    /\ \A x \in cmdb_host_interface_ipv4_addresses(facts) :
          x.cidr # InetOf["127.0.0.1"]
    /\ \A x \in cmdb_host_interface_ipv6_addresses(facts) :
          ~(x.cidr.family = 6 /\ x.cidr.net = "loopback")
    /\ \A row \in cmdb_host_interfaces_private(facts) :
          LET Listed(rows, t) == \E x \in rows :
                                    /\ x.record = row.record /\ x.name = row.name
                                    /\ x.cidr.family = InetOf[t].family
                                    /\ x.cidr.net = "host"
              Hosts == {t \in DOMAIN InetOf : InetOf[t].net = "host"}
          IN  /\ \A t \in Submitted4(Data(row).ipv4) \cap Hosts :
                    Listed(cmdb_host_interface_ipv4_addresses(facts), t)
              /\ \A t \in Submitted6(Data(row).ipv6) \cap Hosts :
                    Listed(cmdb_host_interface_ipv6_addresses(facts), t)

(* Nothing but missing, empty and valid values, in the documented shapes.  *)
Tidy(r) ==
    /\ r.count \in {"absent", "", "NULL", "1500"}
    /\ r.devices.type = "object" =>
          /\ {r.devices.sectors, r.devices.sectorsize}
                \subseteq {"absent", "", "NULL", "1500"}
          /\ r.devices.ids # "other"
    /\ r.devices.type \in {"object", "absent"}
    /\ LET d == r.interfaces["eth"]
           TidyObject(j) == /\ j.address \in {"absent", ""} \cup DOMAIN InetOf
                            /\ ValidPrefix(j.prefix)
           TidyText(t) == t \in {"absent", ""} \cup DOMAIN InetOf
       IN  /\ d.macaddress \in {"absent", "", "00:11:22:33:44:55"}
           /\ d.mtu \in {"absent", "", "NULL", "1500"}
           /\ d.ipv4.type = "object" => TidyObject(d.ipv4)
           /\ d.ipv4.type = "array" =>
                 \A e \in d.ipv4.elems : e.type = "string" /\ TidyText(e.text)
           /\ d.ipv6.type = "array" =>
                 \A e \in d.ipv6.elems :
                    /\ e.type = "object" => TidyObject(e)
                    /\ e.type = "string" => TidyText(e.text)

(***************************************************************************)
(* Missing fields and empty texts are NULLs: as long as every value that   *)
(* is there is valid, every view can be queried.                           *)
(***************************************************************************)
MissingIsNull == (\A r \in facts : Tidy(r)) => \A v \in View : ~Fails(v, facts)

(***************************************************************************)
(* An address in the object form is listed with its own prefix: the mask   *)
(* of the interface is not lost when address and prefix are recombined.    *)
(***************************************************************************)
PrefixKept ==
    \A row \in cmdb_host_interfaces_private(facts) :
        LET j == Data(row).ipv4 IN
        /\ j.type = "object"
        /\ j.address = "10.0.0.5"
        /\ j.prefix \in DOMAIN PrefixOf
        => \E x \in cmdb_host_interface_ipv4_addresses(facts) :
              /\ x.record = row.record /\ x.name = row.name
              /\ x.cidr = [family |-> 4, net |-> "host",
                           bits |-> PrefixOf[j.prefix]]

(***************************************************************************)
(* One bad record fails a view for every host, and only a clean-up that    *)
(* deletes a record heals it: submissions append, so a corrected one does  *)
(* not.                                                                    *)
(***************************************************************************)
HealedByPurgeOnly ==
    [][\A v \in View :
         (Fails(v, facts) /\ ~Fails(v, facts)')
             => \E r \in facts : Fails(v, {r}) /\ facts' = facts \ {r}]_vars

(***************************************************************************)
(* The docstrings of the address views: malformed JSON, invalid addresses  *)
(* included, gives NULL values instead of errors.                          *)
(***************************************************************************)
AddressViewsRobust ==
    (\A r \in facts : r.interfaces["eth"].macaddress # "junk")
        => ~Fails("ipv4", facts) /\ ~Fails("ipv6", facts)
=============================================================================
