SPECIFICATION Spec
CONSTANTS
  Groups <- OneGroup
  Numbers = {n1, n2}
  Strings = {s1}
  Addresses <- CloseAddresses
  Hosts = {h1}
  Nil = Nil
  Usual = n1
  Empty = Empty
  Missing = Missing
  MaxFailures = 1
  MaxCommands = 3
INVARIANTS
  ServerIsSetByAddress
CHECK_DEADLOCK FALSE
