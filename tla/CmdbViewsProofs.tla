---------------------------- MODULE CmdbViewsProofs ----------------------------
(***************************************************************************)
(* Proofs about the CMDB views, for every set of records.                  *)
(***************************************************************************)
EXTENDS CmdbViews, TLAPS

(* A set of addresses of an interface fails a view through its rows.       *)
LEMMA AddressRowsFail ==
    ASSUME NEW row, NEW A
    PROVE  (\E x \in AddressRows(row, A) : Error \in {x.cidr, x.mac})
             <=> \E a \in A : Error \in {a, Macaddr(Data(row).macaddress)}
  <1> DEFINE m == Macaddr(Data(row).macaddress)
             R(a) == [record |-> row.record, name |-> row.name, cidr |-> a,
                      mac |-> m]
  <1>1. AddressRows(row, A) = {R(a) : a \in A}
    BY DEF AddressRows
  <1>2. \A a : R(a).cidr = a /\ R(a).mac = m
    OBVIOUS
  <1> HIDE DEF m, R
  <1>3. (\E x \in AddressRows(row, A) : Error \in {x.cidr, x.mac})
          <=> \E a \in A : Error \in {a, m}
    BY <1>1, <1>2
  <1> QED BY <1>3 DEF m

(* An address view fails if an address it keeps does, or a MAC beside one.  *)
LEMMA Ipv4Fails ==
    \A S : Fails("ipv4", S)
             <=> \E row \in cmdb_host_interfaces_private(S) :
                   \E a \in OrNull(Addresses4(Data(row).ipv4)) :
                     Listed4(a) /\ Error \in {a, Macaddr(Data(row).macaddress)}
  <1> TAKE S
  <1> DEFINE Kept(row) == {a \in OrNull(Addresses4(Data(row).ipv4)) : Listed4(a)}
  <1>1. Fails("ipv4", S)
          <=> \E x \in cmdb_host_interface_ipv4_addresses(S) :
                Error \in {x.cidr, x.mac}
    BY DEF Fails
  <1>2. \A x : x \in cmdb_host_interface_ipv4_addresses(S)
          <=> \E row \in cmdb_host_interfaces_private(S) :
                x \in AddressRows(row, Kept(row))
    BY Zenon DEF cmdb_host_interface_ipv4_addresses
  <1>3. \A row : (\E x \in AddressRows(row, Kept(row)) : Error \in {x.cidr, x.mac})
          <=> \E a \in Kept(row) : Error \in {a, Macaddr(Data(row).macaddress)}
    <2> HIDE DEF Kept
    <2> QED BY AddressRowsFail
  <1>4. Fails("ipv4", S)
          <=> \E row \in cmdb_host_interfaces_private(S) :
                \E a \in Kept(row) : Error \in {a, Macaddr(Data(row).macaddress)}
    <2> HIDE DEF Kept
    <2> QED BY <1>1, <1>2, <1>3
  <1> QED BY <1>4

LEMMA Ipv6Fails ==
    \A S : Fails("ipv6", S)
             <=> \E row \in cmdb_host_interfaces_private(S) :
                   \E a \in OrNull(Addresses6(Data(row).ipv6)) :
                     Listed6(a) /\ Error \in {a, Macaddr(Data(row).macaddress)}
  <1> TAKE S
  <1> DEFINE Kept(row) == {a \in OrNull(Addresses6(Data(row).ipv6)) : Listed6(a)}
  <1>1. Fails("ipv6", S)
          <=> \E x \in cmdb_host_interface_ipv6_addresses(S) :
                Error \in {x.cidr, x.mac}
    BY DEF Fails
  <1>2. \A x : x \in cmdb_host_interface_ipv6_addresses(S)
          <=> \E row \in cmdb_host_interfaces_private(S) :
                x \in AddressRows(row, Kept(row))
    BY Zenon DEF cmdb_host_interface_ipv6_addresses
  <1>3. \A row : (\E x \in AddressRows(row, Kept(row)) : Error \in {x.cidr, x.mac})
          <=> \E a \in Kept(row) : Error \in {a, Macaddr(Data(row).macaddress)}
    <2> HIDE DEF Kept
    <2> QED BY AddressRowsFail
  <1>4. Fails("ipv6", S)
          <=> \E row \in cmdb_host_interfaces_private(S) :
                \E a \in Kept(row) : Error \in {a, Macaddr(Data(row).macaddress)}
    <2> HIDE DEF Kept
    <2> QED BY <1>1, <1>2, <1>3
  <1> QED BY <1>4

LEMMA PrivateUnion ==
    \A S : \A row :
        row \in cmdb_host_interfaces_private(S)
          <=> \E r \in S : row \in cmdb_host_interfaces_private({r})
  BY DEF cmdb_host_interfaces_private

(* A view fails for a set of records if it fails for one of them.          *)
THEOREM OneRecordFails ==
    \A v \in View : \A S : Fails(v, S) <=> \E r \in S : Fails(v, {r})
  <1> TAKE v \in View
  <1> TAKE S
  <1>1. CASE v = "interfaces"
    <2> DEFINE Row(row) == [record |-> row.record, name |-> row.name,
                            mac |-> Macaddr(Data(row).macaddress),
                            mtu |-> Number(Data(row).mtu)]
               Bad(row) == Error \in {Row(row).mac, Row(row).mtu}
    <2>1. \A T : Fails("interfaces", T)
                   <=> \E row \in cmdb_host_interfaces_private(T) : Bad(row)
      <3> TAKE T
      <3>1. cmdb_host_interfaces(T)
              = {Row(row) : row \in cmdb_host_interfaces_private(T)}
        BY DEF cmdb_host_interfaces
      <3>2. Fails("interfaces", T)
              <=> \E x \in cmdb_host_interfaces(T) : Error \in {x.mac, x.mtu}
        BY DEF Fails
      <3> HIDE DEF Row
      <3> QED BY <3>1, <3>2
    <2> HIDE DEF Bad
    <2> QED BY <1>1, <2>1, PrivateUnion
  <1>2. CASE v = "ipv4"
    <2> DEFINE Bad(row) ==
                 \E a \in OrNull(Addresses4(Data(row).ipv4)) :
                    Listed4(a) /\ Error \in {a, Macaddr(Data(row).macaddress)}
    <2>1. \A T : Fails("ipv4", T)
                   <=> \E row \in cmdb_host_interfaces_private(T) : Bad(row)
      BY Ipv4Fails
    <2> HIDE DEF Bad
    <2> QED BY <1>2, <2>1, PrivateUnion
  <1>3. CASE v = "ipv6"
    <2> DEFINE Bad(row) ==
                 \E a \in OrNull(Addresses6(Data(row).ipv6)) :
                    Listed6(a) /\ Error \in {a, Macaddr(Data(row).macaddress)}
    <2>1. \A T : Fails("ipv6", T)
                   <=> \E row \in cmdb_host_interfaces_private(T) : Bad(row)
      BY Ipv6Fails
    <2> HIDE DEF Bad
    <2> QED BY <1>3, <2>1, PrivateUnion
  <1>4. CASE v = "hardware"
    <2>1. \A T : Fails("hardware", T) <=> \E r \in T : Number(r.count) = Error
      <3> DEFINE Row(r) == [record |-> r, count |-> Number(r.count)]
      <3> TAKE T
      <3>1. cmdb_host_hardware(T) = {Row(r) : r \in T}
        BY DEF cmdb_host_hardware
      <3>2. Fails("hardware", T)
              <=> \E x \in cmdb_host_hardware(T) : x.count = Error
        BY DEF Fails
      <3>3. \A r : Row(r).count = Number(r.count)
        OBVIOUS
      <3> HIDE DEF Row
      <3> QED BY <3>1, <3>2, <3>3
    <2> QED BY <1>4, <2>1
  <1>5. CASE v = "storage"
    <2> DEFINE Devices(r) == cmdb_host_storage_devices({r})
               Bad(r) == \E x \in Devices(r) : Error \in {x.size, x.fibre}
    <2>1. \A T : Fails("storage", T)
                   <=> \E x \in cmdb_host_storage_devices(T) :
                         Error \in {x.size, x.fibre}
      BY DEF Fails
    <2>2. \A T : \A x : x \in cmdb_host_storage_devices(T)
                          <=> \E r \in T : x \in cmdb_host_storage_devices({r})
      BY Zenon DEF cmdb_host_storage_devices
    <2> QED BY <1>5, <2>1, <2>2
  <1>6. CASE v = "os"
    BY <1>6 DEF Fails
  <1> QED BY <1>1, <1>2, <1>3, <1>4, <1>5, <1>6 DEF View

(***************************************************************************)
(* HealedByPurgeOnly, whatever records there may be and however many: a    *)
(* failing view is healed by deleting a record that fails it, and by       *)
(* nothing else.                                                           *)
(***************************************************************************)
THEOREM HealingByPurge == Spec => HealedByPurgeOnly
  <1>1. ASSUME [Next]_vars, NEW v \in View, Fails(v, facts),
               ~Fails(v, facts)'
        PROVE  \E r \in facts : Fails(v, {r}) /\ facts' = facts \ {r}
    <2>1. ~Fails(v, facts')
      BY <1>1 DEF Fails, View
    <2>2. PICK r \in facts : Fails(v, {r})
      BY <1>1, OneRecordFails
    <2>3. r \notin facts'
      BY <2>1, <2>2, OneRecordFails
    <2>4. \A s \in SystemFacts : Submit(s) => FALSE
      BY <2>3 DEF Submit
    <2>5. \E s \in facts : Purge(s)
      BY <1>1, <2>1, <2>4 DEF Next, vars
    <2>6. PICK s \in facts : Purge(s)
      BY <2>5
    <2>7. s = r
      BY <2>3, <2>6 DEF Purge
    <2> QED BY <2>2, <2>6, <2>7 DEF Purge
  <1>2. [Next]_vars
          => [\A v \in View :
                (Fails(v, facts) /\ ~Fails(v, facts)')
                  => \E r \in facts : Fails(v, {r}) /\ facts' = facts \ {r}]_vars
    BY <1>1
  <1> QED BY <1>2, PTL DEF Spec, HealedByPurgeOnly

Sql == [family : {0, 4, 6}, net : {"null", "error", "host", "loopback"},
        bits : Int]

(* The inets that stand for all.                                           *)
LEMMA InetOfSql ==
    \A t \in DOMAIN InetOf :
        /\ InetOf[t] \in Sql
        /\ InetOf[t].net \in {"host", "loopback"}
        /\ InetOf[t].family \in {4, 6}
  <1> DEFINE family(t) == IF t \in {"fe80::1", "::1"} THEN 6 ELSE 4
             net(t) == IF t \in {"10.0.0.5", "10.0.0.5/24", "fe80::1"}
                       THEN "host" ELSE "loopback"
             bits(t) == CASE t = "10.0.0.5/24" -> 24
                          [] t = "127.0.0.1/8" -> 8
                          [] t \in {"fe80::1", "::1"} -> 128
                          [] OTHER -> 32
  <1>1. \A t : net(t) \in {"host", "loopback"} /\ family(t) \in {4, 6}
    OBVIOUS
  <1>2. \A t : bits(t) \in Int
    OBVIOUS
  <1>3. \A t \in DOMAIN InetOf :
           InetOf[t] = [family |-> family(t), net |-> net(t), bits |-> bits(t)]
    BY DEF InetOf
  <1> HIDE DEF family, net, bits
  <1> QED BY <1>1, <1>2, <1>3 DEF Sql

-----------------------------------------------------------------------------
(* What an interface contributes to the address views                      *)

(* Each address an interface lists has a row of its own.                   *)
LEMMA AddressListed ==
    ASSUME NEW row, NEW A, NEW a \in A
    PROVE  \E x \in AddressRows(row, A) :
              x.record = row.record /\ x.name = row.name /\ x.cidr = a
  <1> DEFINE R(b) == [record |-> row.record, name |-> row.name, cidr |-> b,
                      mac |-> Macaddr(Data(row).macaddress)]
  <1>1. R(a) \in AddressRows(row, A)
    BY DEF AddressRows
  <1>2. R(a).record = row.record /\ R(a).name = row.name /\ R(a).cidr = a
    OBVIOUS
  <1> QED BY <1>1, <1>2

(* An address that the filter lets through is in the IPv4 view.            *)
LEMMA Ipv4Listed ==
    ASSUME NEW S, NEW row \in cmdb_host_interfaces_private(S),
           NEW a \in OrNull(Addresses4(Data(row).ipv4)), Listed4(a)
    PROVE  \E x \in cmdb_host_interface_ipv4_addresses(S) :
              x.record = row.record /\ x.name = row.name /\ x.cidr = a
  <1> DEFINE Kept(i) == {b \in OrNull(Addresses4(Data(i).ipv4)) : Listed4(b)}
  <1>1. a \in Kept(row)
    OBVIOUS
  <1>2. \A x \in AddressRows(row, Kept(row)) :
           x \in cmdb_host_interface_ipv4_addresses(S)
    BY Zenon DEF cmdb_host_interface_ipv4_addresses
  <1> HIDE DEF Kept
  <1> QED BY <1>1, <1>2, AddressListed

(* The same for the IPv6 view.                                             *)
LEMMA Ipv6Listed ==
    ASSUME NEW S, NEW row \in cmdb_host_interfaces_private(S),
           NEW a \in OrNull(Addresses6(Data(row).ipv6)), Listed6(a)
    PROVE  \E x \in cmdb_host_interface_ipv6_addresses(S) :
              x.record = row.record /\ x.name = row.name /\ x.cidr = a
  <1> DEFINE Kept(i) == {b \in OrNull(Addresses6(Data(i).ipv6)) : Listed6(b)}
  <1>1. a \in Kept(row)
    OBVIOUS
  <1>2. \A x \in AddressRows(row, Kept(row)) :
           x \in cmdb_host_interface_ipv6_addresses(S)
    BY Zenon DEF cmdb_host_interface_ipv6_addresses
  <1> HIDE DEF Kept
  <1> QED BY <1>1, <1>2, AddressListed

(* Unless every address is a loopback one of a filter's family, some row   *)
(* passes that filter.                                                     *)
LEMMA SomeAddressListed ==
    ASSUME NEW A
    PROVE  /\ ~(A # {} /\ \A a \in A : a.family = 4 /\ a.net = "loopback")
                 => \E a \in OrNull(A) : Listed4(a)
           /\ ~(A # {} /\ \A a \in A : a.family = 6 /\ a.net = "loopback")
                 => \E a \in OrNull(A) : Listed6(a)
  BY DEF OrNull, Listed4, Listed6

(***************************************************************************)
(* InterfacesAudited for every set of records, well-formed or not: the     *)
(* outer joins leave no interface with a 'device' out of the address       *)
(* views, unless all it has are loopback addresses of the view's family.   *)
(***************************************************************************)
THEOREM NoInterfaceEscapes == Spec => []InterfacesAudited
  <1> DEFINE Hidden(A, f) == /\ A # {}
                             /\ \A a \in A : a.family = f /\ a.net = "loopback"
             Shows(row, rows) == \E x \in rows :
                                   x.record = row.record /\ x.name = row.name
  <1>1. ASSUME NEW row \in cmdb_host_interfaces_private(facts),
               ~Hidden(Addresses4(Data(row).ipv4), 4)
        PROVE  Shows(row, cmdb_host_interface_ipv4_addresses(facts))
    <2>1. PICK a \in OrNull(Addresses4(Data(row).ipv4)) : Listed4(a)
      BY <1>1, SomeAddressListed
    <2> QED BY <2>1, Ipv4Listed
  <1>2. ASSUME NEW row \in cmdb_host_interfaces_private(facts),
               ~Hidden(Addresses6(Data(row).ipv6), 6)
        PROVE  Shows(row, cmdb_host_interface_ipv6_addresses(facts))
    <2>1. PICK a \in OrNull(Addresses6(Data(row).ipv6)) : Listed6(a)
      BY <1>2, SomeAddressListed
    <2> QED BY <2>1, Ipv6Listed
  <1>3. InterfacesAudited
    BY <1>1, <1>2, Zenon DEF InterfacesAudited
  <1> QED BY <1>3, PTL

(***************************************************************************)
(* PrefixKept for every set of records: SET_MASKLEN puts the sibling       *)
(* prefix on the address, and the loopback filter does not drop the row.   *)
(***************************************************************************)
THEOREM PrefixesKept == Spec => []PrefixKept
  <1>1. ASSUME NEW row \in cmdb_host_interfaces_private(facts),
               Data(row).ipv4.type = "object",
               Data(row).ipv4.address = "10.0.0.5",
               Data(row).ipv4.prefix \in DOMAIN PrefixOf
        PROVE  \E x \in cmdb_host_interface_ipv4_addresses(facts) :
                  /\ x.record = row.record /\ x.name = row.name
                  /\ x.cidr = [family |-> 4, net |-> "host",
                               bits |-> PrefixOf[Data(row).ipv4.prefix]]
    <2> DEFINE j == Data(row).ipv4
               a == [family |-> 4, net |-> "host", bits |-> PrefixOf[j.prefix]]
    <2>1. j.prefix \notin {"absent", ""}
      BY <1>1 DEF PrefixOf
    <2>2. Inet(j.address) = [family |-> 4, net |-> "host", bits |-> 32]
      BY <1>1 DEF Inet, InetOf
    <2>3. ObjectAddress(j) = a
      <3>1. ObjectAddress(j) = SetMaskLen(Inet(j.address), j.prefix)
        BY <1>1, <2>1 DEF ObjectAddress
      <3>2. Inet(j.address) # Error
        BY <2>2 DEF Error
      <3>3. SetMaskLen(Inet(j.address), j.prefix)
              = [Inet(j.address) EXCEPT !.bits = PrefixOf[j.prefix]]
        BY <1>1, <3>2 DEF SetMaskLen
      <3>4. \A n : [[family |-> 4, net |-> "host", bits |-> 32]
                        EXCEPT !.bits = n]
                     = [family |-> 4, net |-> "host", bits |-> n]
        OBVIOUS
      <3> QED BY <2>2, <3>1, <3>3, <3>4
    <2>4. Addresses4(j) = {a}
      BY <1>1, <2>3 DEF Addresses4
    <2>5. a \in OrNull(Addresses4(j)) /\ Listed4(a)
      BY <2>4 DEF OrNull, Listed4
    <2> HIDE DEF j, a
    <2>6. \E x \in cmdb_host_interface_ipv4_addresses(facts) :
             x.record = row.record /\ x.name = row.name /\ x.cidr = a
      BY <2>5, Ipv4Listed DEF j
    <2> QED BY <2>6 DEF a, j
  <1>2. PrefixKept
    BY <1>1, Zenon DEF PrefixKept
  <1> QED BY <1>2, PTL

-----------------------------------------------------------------------------
(* What becomes of the valid addresses                                     *)

Hosts == {t \in DOMAIN InetOf : InetOf[t].net = "host"}

(* A host address of t's family.                                           *)
Means(a, t) == a.family = InetOf[t].family /\ a.net = "host"

(* No cast turns a valid address into another one.                         *)
LEMMA HostCasts ==
    ASSUME NEW t \in Hosts
    PROVE  /\ Means(TextAddress(t), t)
           /\ \A j : j.address = t /\ ValidPrefix(j.prefix)
                     => Means(ObjectAddress(j), t)
  <1> DEFINE a == InetOf[t]
  <1>1. /\ t \in DOMAIN InetOf /\ a.net = "host" /\ a \in Sql
        /\ t \notin {"absent", ""}
    <2>1. t \in DOMAIN InetOf
      BY DEF Hosts
    <2>2. t \notin {"absent", ""}
      BY <2>1 DEF InetOf
    <2> QED BY <2>1, <2>2, InetOfSql DEF Hosts
  <1>2. Inet(t) = a /\ a # Error
    <2>1. Inet(t) = a
      BY <1>1 DEF Inet
    <2>2. a.net # Error.net
      BY <1>1 DEF Error
    <2> QED BY <2>1, <2>2
  <1>3. Means(TextAddress(t), t)
    BY <1>1, <1>2 DEF TextAddress, Means
  <1>4. ASSUME NEW j, j.address = t, ValidPrefix(j.prefix)
        PROVE  Means(ObjectAddress(j), t)
    <2>1. CASE j.prefix \in {"absent", ""}
      BY <1>1, <1>2, <1>4, <2>1 DEF ObjectAddress, Means
    <2>2. CASE j.prefix \notin {"absent", ""}
      <3>1. ObjectAddress(j) = [a EXCEPT !.bits = PrefixOf[j.prefix]]
        BY <1>1, <1>2, <1>4, <2>2 DEF ObjectAddress, SetMaskLen, ValidPrefix
      <3>2. \A b \in Sql : \A n : /\ [b EXCEPT !.bits = n].net = b.net
                                  /\ [b EXCEPT !.bits = n].family = b.family
        BY DEF Sql
      <3> HIDE DEF a
      <3>3. /\ ObjectAddress(j).net = a.net
            /\ ObjectAddress(j).family = a.family
        BY <1>1, <3>1, <3>2
      <3> QED BY <1>1, <3>3 DEF Means, a
    <2> QED BY <2>1, <2>2
  <1> QED BY <1>3, <1>4

(* Each reaches the query in one of the shapes it is submitted in.         *)
LEMMA HostAddresses ==
    ASSUME NEW j, NEW t \in Hosts
    PROVE  /\ t \in Submitted4(j) => \E a \in Addresses4(j) : Means(a, t)
           /\ t \in Submitted6(j) => \E a \in Addresses6(j) : Means(a, t)
  <1>1. ASSUME t \in Submitted4(j), j.type = "array"
        PROVE  \E a \in Addresses4(j) : Means(a, t)
    <2>1. PICK e \in j.elems : e.type = "string" /\ e.text = t
      BY <1>1 DEF Submitted4, StringTexts
    <2>2. TextAddress(t) \in Addresses4(j)
      <3> DEFINE T(x) == TextAddress(IF x.type = "object" THEN "{...}" ELSE x.text)
      <3>1. Addresses4(j) = {T(x) : x \in j.elems}
        BY <1>1 DEF Addresses4
      <3>2. T(e) = TextAddress(t)
        BY <2>1
      <3> HIDE DEF T
      <3> QED BY <2>1, <3>1, <3>2
    <2> QED BY <2>2, HostCasts
  <1>2. ASSUME t \in Submitted4(j), j.type # "array"
        PROVE  \E a \in Addresses4(j) : Means(a, t)
    <2>1. j.type = "object" /\ ValidPrefix(j.prefix) /\ j.address = t
      BY <1>2 DEF Submitted4, ObjectTexts
    <2>2. Addresses4(j) = {ObjectAddress(j)}
      BY <2>1 DEF Addresses4
    <2> QED BY <2>1, <2>2, HostCasts
  <1>3. ASSUME t \in Submitted6(j)
        PROVE  \E a \in Addresses6(j) : Means(a, t)
    <2> DEFINE Elems == {x \in j.elems : x.type \in {"object", "string"}}
               A(e) == IF e.type = "object" THEN ObjectAddress(e)
                       ELSE TextAddress(e.text)
    <2>1. j.type = "array" /\ t \in StringTexts(j.elems) \cup ObjectTexts(j.elems)
      BY <1>3 DEF Submitted6
    <2>2. Addresses6(j) = {A(e) : e \in Elems}
      BY <2>1 DEF Addresses6
    <2>3. \E e \in Elems : Means(A(e), t)
      <3>1. CASE t \in StringTexts(j.elems)
        <4>1. PICK e \in j.elems : e.type = "string" /\ e.text = t
          BY <3>1 DEF StringTexts
        <4>2. A(e) = TextAddress(t) /\ e \in Elems
          BY <4>1
        <4> HIDE DEF A, Elems
        <4> QED BY <4>2, HostCasts
      <3>2. CASE t \in ObjectTexts(j.elems)
        <4>1. PICK e \in j.elems :
                e.type = "object" /\ ValidPrefix(e.prefix) /\ e.address = t
          BY <3>2 DEF ObjectTexts
        <4>2. A(e) = ObjectAddress(e) /\ e \in Elems
          BY <4>1
        <4> HIDE DEF A, Elems
        <4> QED BY <4>1, <4>2, HostCasts
      <3> QED BY <2>1, <3>1, <3>2
    <2> HIDE DEF A, Elems
    <2> QED BY <2>2, <2>3
  <1> QED BY <1>1, <1>2, <1>3

(***************************************************************************)
(* LoopbackAloneHidden for every set of records: a host address passes     *)
(* both filters, whatever shape it is submitted in, a loopback address     *)
(* does not pass that of its family, 127.0.0.1/8 excepted.                 *)
(***************************************************************************)
THEOREM HiddenLoopback == Spec => []LoopbackAloneHidden
  <1> DEFINE Shown(row, rows, t) == \E x \in rows :
                                      /\ x.record = row.record /\ x.name = row.name
                                      /\ Means(x.cidr, t)
  <1>1. ASSUME NEW A, NEW t, NEW a \in A, Means(a, t)
        PROVE  a \in OrNull(A) /\ Listed4(a) /\ Listed6(a)
    BY <1>1 DEF OrNull, Listed4, Listed6, Means
  <1>2. ASSUME NEW row \in cmdb_host_interfaces_private(facts),
               NEW t \in Submitted4(Data(row).ipv4) \cap Hosts
        PROVE  Shown(row, cmdb_host_interface_ipv4_addresses(facts), t)
    <2>1. PICK a \in Addresses4(Data(row).ipv4) : Means(a, t)
      BY <1>2, HostAddresses
    <2>2. a \in OrNull(Addresses4(Data(row).ipv4)) /\ Listed4(a)
      BY <1>1, <2>1
    <2> QED BY <2>1, <2>2, Ipv4Listed
  <1>3. ASSUME NEW row \in cmdb_host_interfaces_private(facts),
               NEW t \in Submitted6(Data(row).ipv6) \cap Hosts
        PROVE  Shown(row, cmdb_host_interface_ipv6_addresses(facts), t)
    <2>1. PICK a \in Addresses6(Data(row).ipv6) : Means(a, t)
      BY <1>3, HostAddresses
    <2>2. a \in OrNull(Addresses6(Data(row).ipv6)) /\ Listed6(a)
      BY <1>1, <2>1
    <2> QED BY <2>1, <2>2, Ipv6Listed
  <1>4. \A row : \A A : \A x \in AddressRows(row, A) : x.cidr \in A
    BY DEF AddressRows
  <1>5. ASSUME NEW x \in cmdb_host_interface_ipv4_addresses(facts)
        PROVE  x.cidr # InetOf["127.0.0.1"]
    <2>1. PICK row \in cmdb_host_interfaces_private(facts) :
            x \in AddressRows(row, {a \in OrNull(Addresses4(Data(row).ipv4)) :
                                      Listed4(a)})
      BY <1>5, Zenon DEF cmdb_host_interface_ipv4_addresses
    <2>2. Listed4(x.cidr)
      BY <1>4, <2>1
    <2>3. InetOf["127.0.0.1"] = [family |-> 4, net |-> "loopback", bits |-> 32]
      BY DEF InetOf
    <2>4. ~Listed4(InetOf["127.0.0.1"])
      BY <2>3 DEF Listed4, Null
    <2> QED BY <2>2, <2>4
  <1>6. ASSUME NEW x \in cmdb_host_interface_ipv6_addresses(facts)
        PROVE  ~(x.cidr.family = 6 /\ x.cidr.net = "loopback")
    <2>1. PICK row \in cmdb_host_interfaces_private(facts) :
            x \in AddressRows(row, {a \in OrNull(Addresses6(Data(row).ipv6)) :
                                      Listed6(a)})
      BY <1>6, Zenon DEF cmdb_host_interface_ipv6_addresses
    <2>2. Listed6(x.cidr)
      BY <1>4, <2>1
    <2> QED BY <2>2 DEF Listed6, Null
  <1>7. LoopbackAloneHidden
    BY <1>2, <1>3, <1>5, <1>6, Zenon DEF LoopbackAloneHidden, Means, Hosts
  <1> QED BY <1>7, PTL

-----------------------------------------------------------------------------
(* What the casts make of values that are missing or valid                 *)

Good(a) == a # Error

(* A number, a MAC address, and an address in each of its shapes.          *)
LEMMA NumberGood ==
    \A t \in {"absent", "", "NULL", "1500"} : Good(Number(t))
  BY DEF Good, Number, Null, Value, Error

LEMMA MacaddrGood ==
    \A t \in {"absent", "", "00:11:22:33:44:55"} : Good(Macaddr(t))
  BY DEF Good, Macaddr, Null, Value, Error

LEMMA InetGood == \A t \in DOMAIN InetOf : Good(Inet(t))
  <1> TAKE t \in DOMAIN InetOf
  <1>1. Inet(t).net # Error.net
    BY InetOfSql DEF Inet, Error
  <1> QED BY <1>1 DEF Good

LEMMA TextAddressGood ==
    \A t \in {"absent", ""} \cup DOMAIN InetOf : Good(TextAddress(t))
  BY InetGood DEF Good, TextAddress, Null, Error

LEMMA ObjectAddressGood ==
    ASSUME NEW j, j.address \in {"absent", ""} \cup DOMAIN InetOf,
           ValidPrefix(j.prefix)
    PROVE  Good(ObjectAddress(j))
  <1>1. Good(Null)
    BY DEF Good, Null, Error
  <1>2. CASE j.address \notin {"absent", ""} /\ j.prefix \notin {"absent", ""}
    <2> DEFINE a == InetOf[j.address]
               n == PrefixOf[j.prefix]
    <2>1. Good(Inet(j.address)) /\ Inet(j.address) = a
      BY <1>2, InetGood DEF Inet
    <2>2. ObjectAddress(j) = [a EXCEPT !.bits = n]
      BY <1>2, <2>1 DEF ObjectAddress, SetMaskLen, Good, ValidPrefix
    <2>3. a \in Sql /\ a.net \in {"host", "loopback"}
      BY <1>2, InetOfSql
    <2>4. \A b \in Sql : \A k : [b EXCEPT !.bits = k].net = b.net
      BY DEF Sql
    <2>5. ObjectAddress(j).net # Error.net
      <3> HIDE DEF a, n
      <3> QED BY <2>2, <2>3, <2>4 DEF Error
    <2> QED BY <2>5 DEF Good
  <1>3. CASE j.address \in {"absent", ""} \/ j.prefix \in {"absent", ""}
    BY <1>1, <1>3, InetGood DEF ObjectAddress, Good
  <1> QED BY <1>2, <1>3

(* The rows of tidy records are those of their interface eth.              *)
LEMMA TidyRows ==
    ASSUME NEW S, \A r \in S : Tidy(r),
           NEW row \in cmdb_host_interfaces_private(S)
    PROVE  Tidy(row.record) /\ Data(row) = row.record.interfaces["eth"]
  <1>1. row \in [record : S, name : Name] /\ row.name # "lo"
    BY DEF cmdb_host_interfaces_private
  <1>2. row.record \in S /\ row.name = "eth"
    BY <1>1 DEF Name
  <1> QED BY <1>2 DEF Data

LEMMA TidyAddresses4 ==
    ASSUME NEW r, Tidy(r)
    PROVE  \A a \in Addresses4(r.interfaces["eth"].ipv4) : Good(a)
  <1> DEFINE j == r.interfaces["eth"].ipv4
  <1>1. CASE j.type = "object"
    <2>1. Good(ObjectAddress(j))
      BY <1>1, ObjectAddressGood DEF Tidy
    <2>2. Addresses4(j) = {ObjectAddress(j)}
      BY <1>1 DEF Addresses4
    <2> QED BY <2>1, <2>2
  <1>2. CASE j.type = "array"
    <2>1. ASSUME NEW e \in j.elems
          PROVE  /\ e.type = "string"
                 /\ e.text \in {"absent", ""} \cup DOMAIN InetOf
      BY <1>2 DEF Tidy
    <2>2. Addresses4(j)
            = {TextAddress(IF e.type = "object" THEN "{...}" ELSE e.text) :
                 e \in j.elems}
      BY <1>2 DEF Addresses4
    <2>3. \A e \in j.elems :
            Good(TextAddress(IF e.type = "object" THEN "{...}" ELSE e.text))
      <3> TAKE e \in j.elems
      <3>1. (IF e.type = "object" THEN "{...}" ELSE e.text) = e.text
        BY <2>1
      <3> HIDE DEF j
      <3> QED BY <2>1, <3>1, TextAddressGood
    <2> HIDE DEF j
    <2> QED BY <2>2, <2>3 DEF j
  <1>3. CASE j.type \notin {"object", "array"}
    BY <1>3 DEF Addresses4
  <1> QED BY <1>1, <1>2, <1>3

LEMMA TidyAddresses6 ==
    ASSUME NEW r, Tidy(r)
    PROVE  \A a \in Addresses6(r.interfaces["eth"].ipv6) : Good(a)
  <1> DEFINE j == r.interfaces["eth"].ipv6
             Elems == {x \in j.elems : x.type \in {"object", "string"}}
             A(e) == IF e.type = "object" THEN ObjectAddress(e)
                     ELSE TextAddress(e.text)
  <1>1. CASE j.type = "array"
    <2>1. Addresses6(j) = {A(e) : e \in Elems}
      BY <1>1 DEF Addresses6
    <2>2. ASSUME NEW e \in Elems PROVE Good(A(e))
      <3>1. CASE e.type = "object"
        BY <1>1, <3>1, ObjectAddressGood DEF Tidy
      <3>2. CASE e.type # "object"
        <4>1. e.type = "string"
          BY <2>2, <3>2
        <4>2. e.text \in {"absent", ""} \cup DOMAIN InetOf
          BY <1>1, <4>1 DEF Tidy
        <4> QED BY <3>2, <4>2, TextAddressGood
      <3> QED BY <3>1, <3>2
    <2> HIDE DEF j, Elems, A
    <2> QED BY <2>1, <2>2 DEF j
  <1>2. CASE j.type # "array"
    BY <1>2 DEF Addresses6
  <1> QED BY <1>1, <1>2

(***************************************************************************)
(* MissingIsNull for every set of records: a field that is missing or      *)
(* empty is cast to NULL in every view, and a well-formed address, with or *)
(* without its prefix, to an inet, so that no query fails.                 *)
(***************************************************************************)
THEOREM MissingNeverFails == Spec => []MissingIsNull
  <1>1. ASSUME \A r \in facts : Tidy(r), NEW v \in View
        PROVE  ~Fails(v, facts)
    <2>1. ASSUME NEW row \in cmdb_host_interfaces_private(facts)
          PROVE  /\ Good(Macaddr(Data(row).macaddress))
                 /\ Good(Number(Data(row).mtu))
                 /\ \A a \in OrNull(Addresses4(Data(row).ipv4)) : Good(a)
                 /\ \A a \in OrNull(Addresses6(Data(row).ipv6)) : Good(a)
      <3>1. Tidy(row.record) /\ Data(row) = row.record.interfaces["eth"]
        BY <1>1, TidyRows
      <3>2. Good(Macaddr(Data(row).macaddress))
        BY <3>1, MacaddrGood DEF Tidy
      <3>3. Good(Number(Data(row).mtu))
        BY <3>1, NumberGood DEF Tidy
      <3>4. Good(Null)
        BY DEF Good, Null, Error
      <3> QED BY <3>1, <3>2, <3>3, <3>4, TidyAddresses4, TidyAddresses6
              DEF OrNull
    <2>2. CASE v = "interfaces"
      <3> DEFINE Row(row) == [record |-> row.record, name |-> row.name,
                              mac |-> Macaddr(Data(row).macaddress),
                              mtu |-> Number(Data(row).mtu)]
      <3>1. cmdb_host_interfaces(facts)
              = {Row(row) : row \in cmdb_host_interfaces_private(facts)}
        BY DEF cmdb_host_interfaces
      <3>2. \A row \in cmdb_host_interfaces_private(facts) :
               Error \notin {Row(row).mac, Row(row).mtu}
        BY <2>1 DEF Good
      <3> HIDE DEF Row
      <3> QED BY <2>2, <3>1, <3>2 DEF Fails
    <2>3. CASE v = "ipv4"
      BY <2>1, <2>3, Ipv4Fails DEF Good
    <2>4. CASE v = "ipv6"
      BY <2>1, <2>4, Ipv6Fails DEF Good
    <2>5. CASE v = "hardware"
      <3>1. \A r \in facts : Good(Number(r.count))
        BY <1>1, NumberGood DEF Tidy
      <3>2. \A x \in cmdb_host_hardware(facts) : x.count # Error
        BY <3>1 DEF cmdb_host_hardware, Good
      <3> QED BY <2>5, <3>2 DEF Fails
    <2>6. CASE v = "storage"
      <3>1. ASSUME NEW r \in facts, NEW x \in cmdb_host_storage_devices({r})
            PROVE  Error \notin {x.size, x.fibre}
        <4> DEFINE d == r.devices
                   row == [record |-> r, size |-> DeviceSize(d),
                           fibre |-> IsFibre(d)]
        <4>1. Tidy(r)
          BY <1>1
        <4>2. CASE d.type = "object"
          <5>1. x = row
            BY <3>1, <4>2, Zenon DEF cmdb_host_storage_devices
          <5>2. Good(DeviceSize(d))
            BY <4>1, <4>2, NumberGood
               DEF Tidy, DeviceSize, Good, Null, Value, Error
          <5>3. Good(IsFibre(d))
            BY <4>1, <4>2 DEF Tidy, IsFibre, Good, Value, Error
          <5> QED BY <5>1, <5>2, <5>3 DEF Good
        <4>3. CASE d.type = "absent"
          BY <3>1, <4>3 DEF cmdb_host_storage_devices
        <4> QED BY <4>1, <4>2, <4>3 DEF Tidy
      <3>2. ASSUME NEW r \in facts PROVE ~Fails("storage", {r})
        BY <3>1 DEF Fails
      <3> QED BY <2>6, <3>2, OneRecordFails DEF View
    <2>7. CASE v = "os"
      BY <2>7 DEF Fails
    <2> QED BY <2>2, <2>3, <2>4, <2>5, <2>6, <2>7 DEF View
  <1>2. MissingIsNull
    BY <1>1 DEF MissingIsNull
  <1> QED BY <1>2, PTL
=============================================================================
