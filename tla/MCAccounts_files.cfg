SPECIFICATION Spec
CONSTANTS
  r1 = r1
  r2 = r2
  r3 = r3
  x1 = x1
  x2 = x2
  Addrs = {"a", "b", "v6"}
  Users = {"alice", "bob", " bob"}
  Salts = {"salt", "s,t"}
  Keys = {"k1", "k2"}
  Colon = {"v6"}
  Comma = {"s,t"}
  Trim <- Trimmed
  None = None
  Mangled = Mangled
  Commands = {r1, r2, r3}
  Servers <- ThreeCommands
  Identity <- ThreeIdentities
  Clients = {x1}
  Files <- AnyFiles
INVARIANTS
  TypeOK
  ReadersSeeWholeFiles
  RegisteredSigns
PROPERTIES
  ImplementsStore
CHECK_DEADLOCK FALSE
