--------------------------- MODULE LinkInterfaces ---------------------------
(***************************************************************************)
(* How tlink finds its two devices (runtime/init.go): CheckInterfaces      *)
(* takes nic.st and nic.gw as interface names, and when either of the two  *)
(* does not exist FindInterfaces takes both as IPv4 addresses.             *)
(*                                                                         *)
(* FindInterfaces replaces an address in t.NIC by the name of its          *)
(* interface while it goes through all the addresses of the host, and      *)
(* compares the later addresses with what it has already replaced.  An     *)
(* address that is not IPv4 compares as the string "<nil>".                *)
(*                                                                         *)
(* Tlink goes on where this ends, with Start or with StartFails.           *)
(***************************************************************************)
EXTENDS Naturals, Sequences

CONSTANTS Names,       \* names of interfaces
          Addresses,   \* IPv4 addresses
          NoIPv4,      \* what To4().String() gives for an IPv6 address
          MaxAddresses \* bound on the addresses of the host

ASSUME NamesAssumption ==
  /\ Names \cap Addresses = {}
  /\ NoIPv4 \notin Names \cup Addresses
ASSUME MaxAddressesAssumption == MaxAddresses \in Nat

\* A host: its interfaces, and its addresses in the order net.Interfaces and
\* Addrs list them, each with its interface.
Bindings == [name : Names, ip : Addresses \cup {NoIPv4}]

Hosts == UNION {[1 .. n -> Bindings] : n \in 0 .. MaxAddresses}

VARIABLES host,    \* the addresses of the host
          ifaces,  \* the names of its interfaces
          conf,    \* nic of the configuration file
          nic,     \* t.NIC
          next,    \* the address FindInterfaces looks at
          lookup   \* "check", "find", "ok", "error", "panic"

lookupVars == <<host, ifaces, conf, nic, next, lookup>>

\* What a configuration file may say of a device; "" when the key is absent.
NicValues == Names \cup Addresses \cup {""}

\* An empty file: yaml.Unmarshal leaves the pointer nil and no error.
NoConf == [st |-> "", gw |-> "", nil |-> TRUE]

Confs == [st : NicValues, gw : NicValues, nil : {FALSE}] \cup {NoConf}

LookupInit ==
  /\ host \in Hosts
  /\ ifaces \in SUBSET Names
  /\ \A i \in DOMAIN host : host[i].name \in ifaces
  /\ conf \in Confs
  /\ nic = conf
  /\ next = 1
  /\ lookup = "check"

\* Mutant: one interface that exists is enough.
CheckInterfacesEither ==
  /\ lookup = "check"
  /\ ~conf.nil
  /\ lookup' = IF nic.st \in ifaces \/ nic.gw \in ifaces THEN "ok" ELSE "find"
  /\ UNCHANGED <<host, ifaces, conf, nic, next>>

CheckInterfaces ==
  /\ lookup = "check"
  /\ ~conf.nil
  /\ lookup' = IF nic.st \in ifaces /\ nic.gw \in ifaces THEN "ok" ELSE "find"
  /\ UNCHANGED <<host, ifaces, conf, nic, next>>

\* t.NIC is read through a nil pointer.
CheckNil ==
  /\ lookup = "check"
  /\ conf.nil
  /\ lookup' = "panic"
  /\ UNCHANGED <<host, ifaces, conf, nic, next>>

\* One turn of the loop over the addresses.
FindAddress ==
  /\ lookup = "find"
  /\ next <= Len(host)
  /\ LET addr == host[next] IN
       nic' = [nic EXCEPT !.gw = IF addr.ip = @ THEN addr.name ELSE @,
                          !.st = IF addr.ip = @ THEN addr.name ELSE @]
  /\ next' = next + 1
  /\ UNCHANGED <<host, ifaces, conf, lookup>>

\* net.Interfaces or Addrs fails.
FindFails ==
  /\ lookup = "find"
  /\ lookup' = "error"
  /\ UNCHANGED <<host, ifaces, conf, nic, next>>

\* A device whose name did not change was not found.
FindResult ==
  /\ lookup = "find"
  /\ next > Len(host)
  /\ lookup' = IF nic.st = conf.st \/ nic.gw = conf.gw THEN "error" ELSE "ok"
  /\ UNCHANGED <<host, ifaces, conf, nic, next>>

LookupNext ==
  CheckInterfaces \/ CheckNil \/ FindAddress \/ FindFails \/ FindResult

LookupSpec == LookupInit /\ [][LookupNext]_lookupVars
-----------------------------------------------------------------------------
\* The types of the variables.  A successful InitTrunks hands Run two
\* interfaces of the host; until then t.NIC may hold anything of the file.
LookupTypeOK ==
  /\ nic.st \in NicValues /\ nic.gw \in NicValues
  /\ next \in 1 .. Len(host) + 1
  /\ lookup \in {"check", "find", "ok", "error", "panic"}
  /\ lookup = "ok" => nic.st \in ifaces /\ nic.gw \in ifaces

\* The interface that carries an address: the first one, when several do.
CarrierOf(ip) ==
  LET carriers == {i \in DOMAIN host : host[i].ip = ip}
  IN host[CHOOSE i \in carriers : \A j \in carriers : i <= j].name

Carried(ip) == \E i \in DOMAIN host : host[i].ip = ip

\* The devices are those the file names or, when it gives addresses, the
\* first interfaces that carry these; and InitTrunks fails in every other case.
DevicesAsConfigured ==
  lookup = "ok" =>
    \/ nic = conf /\ {conf.st, conf.gw} \subseteq ifaces
    \/ /\ Carried(conf.st) /\ nic.st = CarrierOf(conf.st)
       /\ Carried(conf.gw) /\ nic.gw = CarrierOf(conf.gw)

\* FindInterfaces settles each device once: a name it has found stays.
FoundStays ==
  [][ /\ nic.st # conf.st => nic'.st = nic.st
      /\ nic.gw # conf.gw => nic'.gw = nic.gw ]_lookupVars
=============================================================================
