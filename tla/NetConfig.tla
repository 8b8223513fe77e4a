----------------------------- MODULE NetConfig -----------------------------
(***************************************************************************)
(* The BMC's network configuration for the host: each of the three SMIF    *)
(* commands queries the network service with a D-Bus call for every        *)
(* property, one for the paths of the addresses, and one for each address, *)
(* and makes its answer of what it has got.                                *)
(*                                                                         *)
(* Between the calls the configuration changes: addresses come and go with *)
(* DHCP and router advertisements.  The three answers are three snapshots, *)
(* none of them atomic.                                                    *)
(***************************************************************************)
EXTENDS Integers, Sequences, SequencesExt

CONSTANTS
  Paths,        \* how many address objects there may be, in the mapper's order
  Addresses,    \* what an address object may say
  Properties,   \* the interface's properties, each with its possible values
  Worlds,       \* configurations to begin with
  Width,        \* bits of an IPv4 address (32)
  MaxDns,       \* name servers in an answer (3)
  MaxV6,        \* IPv6 addresses in an answer (12)
  Characters,   \* what names are made of
  HostNameRoom, DomainNameRoom,   \* characters in an IPv4Config answer (62, 192)
  NicNameRoom, NicDomainRoom,     \* and in a NicConfig answer (49, 127)
  MaxChanges,   \* bound on changes and on calls that fail
  None          \* no value: not there, or not readable

ASSUME BoundsAssumption == Paths \in Nat /\ Width \in Nat /\ MaxChanges \in Nat

ASSUME WorldsAssumption ==
  /\ \A a \in Addresses : a.addr # None /\ a.prefix \in Nat
  /\ \A w \in Worlds : w.addrs \in [1..Paths -> Addresses \cup {None}]

Name == Seq(Characters)

NameProperties == {"hostName", "domainName"}

ASSUME RoomsAssumption ==
  /\ HostNameRoom \in Nat /\ NicNameRoom \in 0..HostNameRoom
  /\ DomainNameRoom \in Nat /\ NicDomainRoom \in 0..DomainNameRoom

ASSUME NamesAssumption ==
  /\ \A p \in NameProperties \cap DOMAIN Properties : Properties[p] \subseteq Name \cup {None}
  /\ \A w \in Worlds : /\ NameProperties \subseteq DOMAIN w.props
                       /\ \A p \in NameProperties : w.props[p] \in Name \cup {None}

VARIABLES
  props,        \* the interface's properties
  addrs,        \* its address objects
  changes,      \* changes and failed calls so far
  daemon,       \* where the daemon is: its command, the calls left, its cfg
  answer,       \* the answer that this step gives to the host
  lasting,      \* history: addresses unchanged and readable since the query began,
                \* if the interface is readable
  current,      \* history: what address objects have said since then
  quiet,        \* history: nothing has changed or failed since then
  told          \* history: the answers since the last change or failure

world == <<props, addrs>>
history == <<lasting, current, quiet, told>>
netVars == <<world, changes, daemon, answer, history>>

Commands == {"IPv4Config", "NicConfig", "IPv6Config"}

(* The calls of queryNetworkConfig(), in their order.                        *)
Reads == <<"dhcp", "acceptRa", "mac", "hostName", "domainName", "gateway",
           "gateway6", "nameservers">>

NoConfig ==
  [present |-> FALSE, haveV4 |-> FALSE, v4Dhcp |-> FALSE, v4addr |-> None, v4mask |-> None,
   v6Dhcp |-> FALSE, v6addrs |-> <<>>, acceptRa |-> FALSE, mac |-> None, hostName |-> <<>>,
   domainName |-> <<>>, gateway |-> None, gateway6 |-> None, nameservers |-> <<>>]

Idle == [at |-> "idle", command |-> None, left |-> <<>>, cfg |-> NoConfig]

-----------------------------------------------------------------------------
(* The network service. *)

Disturb ==
  /\ changes < MaxChanges /\ changes' = changes + 1
  /\ quiet' = FALSE
  /\ told' = [c \in Commands |-> None]

ChangeProperty(p, v) ==
  /\ v # props[p] /\ props' = [props EXCEPT ![p] = v]
  /\ Disturb
  /\ answer' = None
  /\ UNCHANGED <<addrs, daemon, lasting, current>>

ChangeAddress(i, a) ==
  /\ a # addrs[i] /\ addrs' = [addrs EXCEPT ![i] = a]
  /\ Disturb
  /\ lasting' = lasting \ {i}
  /\ current' = current \cup {a}
  /\ answer' = None
  /\ UNCHANGED <<props, daemon>>

-----------------------------------------------------------------------------
(* queryNetworkConfig(). *)

Query(c) ==
  /\ daemon.at = "idle"
  /\ daemon' = [at |-> "read", command |-> c, left |-> Reads, cfg |-> NoConfig]
  /\ lasting' = {i \in 1..Paths : addrs[i] # None}
  /\ current' = {addrs[i] : i \in 1..Paths}
  /\ quiet' = TRUE
  /\ answer' = None
  /\ UNCHANGED <<world, changes, told>>

WithDhcp(cfg, conf) ==
  [cfg EXCEPT !.present = TRUE,
              !.v4Dhcp = conf \in {"both", "v4", "v4v6stateless"},
              !.v6Dhcp = conf \in {"both", "v6"}]

(* A value that cannot be read or parsed leaves the default.                 *)
Applied(cfg, p, v) ==
  IF v = None THEN cfg
  ELSE IF p = "dhcp" THEN WithDhcp(cfg, v)
  ELSE [cfg EXCEPT ![p] = v]

(* Without the first property there is no interface, and no more calls.      *)
AfterRead(v) ==
  LET p == Head(daemon.left)
      gone == p = "dhcp" /\ v = None
  IN [daemon EXCEPT !.cfg = Applied(@, p, v),
                    !.left = IF gone THEN <<>> ELSE Tail(@),
                    !.at = IF gone THEN "done" ELSE IF Tail(daemon.left) = <<>> THEN "paths" ELSE "read"]

ReadableStill == lasting' = IF daemon'.at = "done" THEN {} ELSE lasting

ReadProperty ==
  /\ daemon.at = "read"
  /\ daemon' = AfterRead(props[Head(daemon.left)])
  /\ ReadableStill
  /\ answer' = None
  /\ UNCHANGED <<world, changes, current, quiet, told>>

ReadFails ==
  /\ daemon.at = "read"
  /\ daemon' = AfterRead(None)
  /\ ReadableStill
  /\ Disturb
  /\ answer' = None
  /\ UNCHANGED <<world, current>>

Listed ==
  LET listed[i \in 0..Paths] ==
        IF i = 0 THEN <<>>
        ELSE IF addrs[i] = None THEN listed[i - 1] ELSE Append(listed[i - 1], i)
  IN listed[Paths]

(* getIpPaths(). *)
GetPaths ==
  /\ daemon.at = "paths"
  /\ daemon' = [daemon EXCEPT !.at = "addresses", !.left = Listed]
  /\ answer' = None
  /\ UNCHANGED <<world, changes, history>>

GetPathsFails ==
  /\ daemon.at = "paths"
  /\ daemon' = [daemon EXCEPT !.at = "addresses", !.left = <<>>]
  /\ Disturb
  /\ lasting' = {}
  /\ answer' = None
  /\ UNCHANGED <<world, current>>

PowersOf2 ==
  LET power[i \in 0..Width] == IF i = 0 THEN 1 ELSE 2 * power[i - 1]
  IN power

(* prefixToMask4(). *)
Mask(prefix) ==
  PowersOf2[Width] - PowersOf2[Width - (IF prefix > Width THEN Width ELSE prefix)]

Usable(a, type) == a.valid /\ a.type = type

Routable(a) == a.origin # "linkLocal"

(* Faulty WithV4: whether it is from DHCP stays as configured. *)
WithV4Configured(cfg, a) ==
  IF cfg.haveV4 /\ ~Routable(a) THEN cfg
  ELSE [cfg EXCEPT !.haveV4 = TRUE, !.v4addr = a.addr, !.v4mask = Mask(a.prefix)]

(* Faulty WithV4: the last address. *)
WithV4Last(cfg, a) ==
  [cfg EXCEPT !.haveV4 = TRUE, !.v4addr = a.addr, !.v4mask = Mask(a.prefix),
              !.v4Dhcp = a.origin = "dhcp"]

(* A routable address replaces the one before, be that routable or not.      *)
WithV4(cfg, a) ==
  IF cfg.haveV4 /\ ~Routable(a) THEN cfg
  ELSE [cfg EXCEPT !.haveV4 = TRUE, !.v4addr = a.addr, !.v4mask = Mask(a.prefix),
                   !.v4Dhcp = a.origin = "dhcp"]

WithV6(cfg, a) ==
  [cfg EXCEPT !.v6addrs = Append(@, [addr |-> a.addr, prefix |-> a.prefix, origin |-> a.origin])]

(* Not there any more, an address that cannot be parsed, or of another type. *)
WithAddress(cfg, a) ==
  IF a = None THEN cfg
  ELSE CASE Usable(a, "IPv4") -> WithV4(cfg, a)
         [] Usable(a, "IPv6") -> WithV6(cfg, a)
         [] OTHER -> cfg

(* An address that has gone since the paths were read is skipped.            *)
ReadAddress ==
  /\ daemon.at = "addresses" /\ daemon.left # <<>>
  /\ daemon' = [daemon EXCEPT !.left = Tail(@), !.cfg = WithAddress(@, addrs[Head(daemon.left)])]
  /\ answer' = None
  /\ UNCHANGED <<world, changes, history>>

AddressFails ==
  /\ daemon.at = "addresses" /\ daemon.left # <<>>
  /\ daemon' = [daemon EXCEPT !.left = Tail(@)]
  /\ Disturb
  /\ lasting' = lasting \ {Head(daemon.left)}
  /\ answer' = None
  /\ UNCHANGED <<world, current>>

-----------------------------------------------------------------------------
(* handleIPv4Config(), handleNicConfig() and handleIPv6Config(). *)

Truncated(s, n) == SubSeq(s, 1, IF Len(s) < n THEN Len(s) ELSE n)

DnsOf(cfg, type) == SelectSeq(cfg.nameservers, LAMBDA s : s.type = type)

V6Enabled(cfg) == cfg.v6addrs # <<>> \/ cfg.acceptRa \/ cfg.v6Dhcp

(* The names, each cut to the room that the answer has for it.               *)
HostNames(cfg, host, domain) ==
  [hostName |-> Truncated(cfg.hostName, host), domainName |-> Truncated(cfg.domainName, domain)]

NoV4 == [addr |-> None, mask |-> 0, gateway |-> None, dhcp |-> FALSE, dns |-> <<>>]

V4Part(cfg) ==
  IF ~cfg.haveV4 THEN NoV4
  ELSE [addr |-> cfg.v4addr, mask |-> cfg.v4mask, gateway |-> cfg.gateway,
        dhcp |-> cfg.v4Dhcp, dns |-> Truncated(DnsOf(cfg, "IPv4"), MaxDns)]

(* With an address, the gateway counts as known.                             *)
Status4(cfg) == IF cfg.haveV4 THEN {"ipAddr", "gateway"} ELSE {}

(* IPv4 is enabled here even without an address.                             *)
IPv4Config(cfg) ==
  [v4 |-> V4Part(cfg),
   enabled |-> {"v4"} \cup (IF V6Enabled(cfg) THEN {"v6"} ELSE {}),
   status |-> Status4(cfg) \cup (IF cfg.haveV4 /\ DnsOf(cfg, "IPv4") # <<>> THEN {"dns"} ELSE {}),
   names |-> HostNames(cfg, HostNameRoom, DomainNameRoom)]

(* Nothing here says whether there is a name server.                         *)
NicConfig(cfg) ==
  [v4 |-> V4Part(cfg), status |-> Status4(cfg), mac |-> cfg.mac,
   names |-> HostNames(cfg, NicNameRoom, NicDomainRoom)]

V6Part(cfg) ==
  [stateful |-> cfg.v6Dhcp, stateless |-> cfg.acceptRa, gateway |-> cfg.gateway6,
   addrs |-> Truncated(cfg.v6addrs, MaxV6), dns |-> Truncated(DnsOf(cfg, "IPv6"), MaxDns)]

(* Faulty IPv6Config: only addresses count. *)
IPv6ConfigAddresses(cfg) ==
  [enabled |-> (IF cfg.haveV4 THEN {"v4"} ELSE {}) \cup (IF cfg.v6addrs # <<>> THEN {"v6"} ELSE {}),
   v6 |-> V6Part(cfg)]

(* IPv4 is enabled here if there is an address.                              *)
IPv6Config(cfg) ==
  [enabled |-> (IF cfg.haveV4 THEN {"v4"} ELSE {}) \cup (IF V6Enabled(cfg) THEN {"v6"} ELSE {}),
   v6 |-> V6Part(cfg)]

Message(c, cfg) ==
  CASE c = "IPv4Config" -> IPv4Config(cfg)
    [] c = "NicConfig"  -> NicConfig(cfg)
    [] c = "IPv6Config" -> IPv6Config(cfg)

Finished == daemon.at = "done" \/ (daemon.at = "addresses" /\ daemon.left = <<>>)

Respond ==
  /\ Finished
  /\ answer' = Message(daemon.command, daemon.cfg)
  /\ told' = IF quiet THEN [told EXCEPT ![daemon.command] = answer'] ELSE told
  /\ daemon' = Idle
  /\ UNCHANGED <<world, changes, lasting, current, quiet>>

-----------------------------------------------------------------------------
NetInit ==
  /\ \E w \in Worlds : props = w.props /\ addrs = w.addrs
  /\ changes = 0 /\ daemon = Idle /\ answer = None
  /\ lasting = {} /\ current = {} /\ quiet = TRUE
  /\ told = [c \in Commands |-> None]

Network ==
  \/ \E p \in DOMAIN Properties : \E v \in Properties[p] : ChangeProperty(p, v)
  \/ \E i \in 1..Paths, a \in Addresses \cup {None} : ChangeAddress(i, a)

NetNext ==
  \/ Network
  \/ \E c \in Commands : Query(c)
  \/ ReadProperty \/ ReadFails
  \/ GetPaths \/ GetPathsFails
  \/ ReadAddress \/ AddressFails
  \/ Respond

NetSpec == NetInit /\ [][NetNext]_netVars

-----------------------------------------------------------------------------
(* Properties. *)

HasV4 == answer # None /\ "v4" \in DOMAIN answer /\ answer.v4.addr # None

(* The host is given a routable address if the interface has one all the     *)
(* time the query takes, whatever comes and goes beside it: never one that   *)
(* is of use on the link only, and never none.                               *)
RoutablePreferred ==
  answer # None /\ "v4" \in DOMAIN answer =>
    ((\E i \in lasting : Usable(addrs[i], "IPv4") /\ Routable(addrs[i]))
       => HasV4 /\ \E a \in current \ {None} : /\ Usable(a, "IPv4") /\ Routable(a)
                                             /\ answer.v4.addr = a.addr)

(* The mask, and whether it is from DHCP, are those of the address that the  *)
(* answer gives, not of another one the query met, or of the configuration.  *)
OwnParameters ==
  HasV4 => \E a \in current \ {None} :
             /\ Usable(a, "IPv4") /\ answer.v4.addr = a.addr
             /\ answer.v4.dhcp = (a.origin = "dhcp")
             /\ \A b \in 0..(Width - 1) :
                  (answer.v4.mask \div PowersOf2[b]) % 2 = IF b >= Width - a.prefix THEN 1 ELSE 0

(* What the answers say of the same thing is the same, if nothing changed or *)
(* failed while they were made: the address and what belongs to it, which    *)
(* of them are there, whether IPv6 is enabled, and the names, as far as the  *)
(* shorter answer has room for them.  IPv4Config has IPv4 enabled always, so *)
(* it is whether an address is given that IPv6Config agrees with.            *)
AnswersAgree ==
  LET v4config == told["IPv4Config"]
      nic == told["NicConfig"]
      v6config == told["IPv6Config"]
  IN /\ v4config # None /\ nic # None =>
          /\ v4config.v4 = nic.v4
          /\ v4config.status \ {"dns"} = nic.status
          /\ nic.names = HostNames(v4config.names, NicNameRoom, NicDomainRoom)
     /\ v4config # None /\ v6config # None =>
          /\ "v6" \in v4config.enabled <=> "v6" \in v6config.enabled
          /\ v4config.v4.addr # None <=> "v4" \in v6config.enabled
     /\ nic # None /\ v6config # None =>
          nic.status # {} <=> "v4" \in v6config.enabled
=============================================================================
