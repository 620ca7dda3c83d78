---------------------------- MODULE AccountStore ----------------------------
(***************************************************************************)
(* What the accounts file promises (README.md, "Credentials"): a map from  *)
(* servers to accounts.  A register command either leaves it alone or, in  *)
(* one step, gives all its servers its account and keeps every other       *)
(* entry: of the map as it is, or, when another command changed it in the  *)
(* meantime, of the map as it was at some moment before.  What a client    *)
(* loads is that map, unless a line of the file keeps it from reading on.  *)
(***************************************************************************)
EXTENDS Sequences

CONSTANTS Addrs, AccountValues, Commands, None

\* A command's servers, and the account a server gets from it; None when the
\* file has no form for it.
CONSTANTS serversOf(_), accountOf(_, _)

VARIABLES
  file,     \* the map the file records, and whether a line blocks its readers
  loaded,   \* the accounts a client gets
  log,      \* the commands that registered, in order
  past,     \* all that file has been
  stale     \* the commands that registered on an outdated file

vars == <<file, loaded, log, past, stale>>

IsMap(map) == \E D \in SUBSET Addrs : map \in [D -> AccountValues]

Readable == IsMap(loaded) /\ (~file.blocked => loaded = file.map)

Init ==
  /\ \E D \in SUBSET Addrs : file \in [map : [D -> AccountValues], blocked : BOOLEAN]
  /\ Readable
  /\ log = <<>>
  /\ past = {file}
  /\ stale = {}

\* The servers that have an entry of r after its registration.
Entered(r) == {s \in serversOf(r) : accountOf(r, s) # None}

Registered(r, map) ==
  [s \in (DOMAIN map \ serversOf(r)) \cup Entered(r) |->
     IF s \in serversOf(r) THEN accountOf(r, s) ELSE map[s]]

\* A line that blocks the readers goes only with an entry that is replaced.
Register(r, base) ==
  /\ \E b \in BOOLEAN :
       /\ b => base.blocked
       /\ file' = [map |-> Registered(r, base.map), blocked |-> b]
  /\ Readable'
  /\ log' = Append(log, r)
  /\ past' = past \cup {file'}

Next ==
  \E r \in Commands :
    \/ Register(r, file) /\ UNCHANGED stale
    \/ stale' = stale \cup {r} /\ \E base \in past : Register(r, base)

Spec == Init /\ [][Next]_vars

============================================================================
