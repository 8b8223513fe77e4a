\* Two changes or failures: one within a query and one between two, or two
\* within one.
SPECIFICATION NetSpec
CONSTANTS
  Paths = 3
  Width = 8
  MaxDns = 1
  MaxV6 = 1
  Characters = {"a", "b", "c", "d"}
  HostNameRoom = 3
  DomainNameRoom = 3
  NicNameRoom = 2
  NicDomainRoom = 1
  MaxChanges = 2
  None = None
  Addresses <- MCAddresses
  Properties <- MCProperties
  Worlds <- MCWorlds
INVARIANTS
  RoutablePreferred
  
  AnswersAgree
