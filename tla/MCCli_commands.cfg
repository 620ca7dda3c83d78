SPECIFICATION Spec
CONSTANTS
  Servers = {"p", "a", "v"}
  DefaultServer = "p"
  Users = {"", "alice", "bob", " bob", "b:b"}
  Salts = {"", "s1", "s2", "s,t"}
  Keys = {"", "k1", "k2", "d1"}
  r1 = r1
  r2 = r2
  Randoms = {r1, r2}
  Colon = {"v", "b:b"}
  Comma = {"s,t"}
  Trim <- Trimmed
  Mangled = Mangled
  Derived <- DerivedKeys
  None = None
  Bad = Bad
  Flags <- SomeFlags
  Envs <- SomeEnvs
  Files <- SomeFiles
  MaxRegisters = 2
SYMMETRY RandomsAlike
INVARIANTS
  TypeOK
  NamedServersOnly
  SignsAsTold
  RegisteredIsUsed
  EnvSignsLikeFile
CHECK_DEADLOCK FALSE
