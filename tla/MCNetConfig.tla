---------------------------- MODULE MCNetConfig ----------------------------
(* Three address objects: two IPv4 and an IPv6 address may stand beside each *)
(* other; addresses of 8 bits, with prefixes at both ends and beyond.        *)
EXTENDS NetConfig

Addr(type, addr, prefix, origin) ==
  [valid |-> TRUE, type |-> type, addr |-> addr, prefix |-> prefix, origin |-> origin]

Leased == Addr("IPv4", "10", 3, "dhcp")
Fixed == Addr("IPv4", "192", 9, "static")
Local == Addr("IPv4", "169", 0, "linkLocal")
Global6 == Addr("IPv6", "2001", 64, "slaac")
Garbled == [Leased EXCEPT !.valid = FALSE]

MCAddresses == {Leased, Fixed, Local, Global6, Garbled}

Dns(type, n) == [type |-> type, n |-> n]

(* One name is cut by both answers, the other by one of them.                *)
LongName == <<"a", "b", "c", "d">>
ShortName == <<"a", "b">>

MCProperties ==
  [dhcp |-> {"both", "none", None}, acceptRa |-> {TRUE, FALSE}, mac |-> {"m"},
   hostName |-> {LongName, None}, domainName |-> {ShortName}, gateway |-> {"g", None},
   gateway6 |-> {"g6", None}, nameservers |-> {<<Dns("IPv4", 1), Dns("IPv6", 1), Dns("IPv4", 2)>>}]

BaseProps ==
  [dhcp |-> "both", acceptRa |-> TRUE, mac |-> "m", hostName |-> LongName, domainName |-> ShortName,
   gateway |-> "g", gateway6 |-> None,
   nameservers |-> <<Dns("IPv4", 1), Dns("IPv6", 1), Dns("IPv4", 2)>>]

World(dhcp, a) == [props |-> [BaseProps EXCEPT !.dhcp = dhcp], addrs |-> a]

MCWorlds == {
  World("both", <<Leased, Local, Global6>>),
  World("v4v6stateless", <<Local, Fixed, None>>),
  World("none", <<None, Local, None>>)}
=============================================================================
