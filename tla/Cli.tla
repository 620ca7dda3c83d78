-------------------------------- MODULE Cli --------------------------------
(***************************************************************************)
(* The command line (cmd/gyzor/main.go, register.go): one gyzor command    *)
(* after the other, run by a user who sets flags, environment variables    *)
(* and the servers file.  Where the servers and the signing identity of a  *)
(* request come from, what register and genkey draw, save and print, and   *)
(* the exit codes.                                                         *)
(*                                                                         *)
(* A command is one step: commands that overlap are the subject of         *)
(* Accounts, where the accounts file is shown to be the map that it is     *)
(* here.  What the servers answer is the subject of PyzorClient.           *)
(***************************************************************************)
EXTENDS Integers, SequencesExt

CONSTANTS
  Servers,        \* host:port of servers
  DefaultServer,  \* public.pyzor.org
  Users, Salts, Keys,  \* names and hex strings; "" among them
  Randoms,        \* what crypto/rand may still give, as salt or key
  Colon,          \* names with a colon (of a server: in the host), or a server with a
                  \* first #: no line of the accounts file can hold them
  Comma,          \* salts with a comma
  Trim,           \* Trim[n]: name n without the blanks that LoadAccounts trims
  Mangled,        \* a key that was split at the wrong comma
  Derived,        \* Derived[s]: the key of salt s and the passphrase
  None,           \* no flag, no comma in a key, no file
  Bad,            \* a malformed entry or setting
  Flags,          \* the flags that a command may have
  Envs,           \* the environments that the user may set
  Files,          \* the servers files that the user may write
  MaxRegisters    \* how often register may succeed

\* The value of --key: a key, or a salt and a key with a comma between them.
KeyValue == [salt : Salts \cup Randoms \cup {None}, key : Keys \cup Randoms]
Plain(k) == [salt |-> None, key |-> k]
NoKey == Plain("")

\* A list of servers, as a set: neither the order nor a repetition in it tells
\* two commands apart.
ServerLists == SUBSET (Servers \cup {Bad})

\* Options with a value from a flag or a variable; {}, "" and NoKey: empty.
Options == {"home", "servers", "user", "key", "salt"}
Setting == [home : BOOLEAN, servers : ServerLists, user : Users,
            key : KeyValue, salt : Salts \cup Randoms]
Environment == [home : BOOLEAN, servers : ServerLists, user : Users,
                key : KeyValue, salt : Salts \cup Randoms, passphrase : BOOLEAN]
CommandLine == [op : {"check", "report", "revoke", "ping", "serve", "digest", "genkey",
                      "register", "other"},
                home : BOOLEAN \cup {None}, servers : ServerLists \cup {None},
                user : Users \cup {None}, key : KeyValue \cup {None},
                salt : Salts \cup Randoms \cup {None}]

Account == [user : Users \cup {"anonymous"}, salt : Salts \cup Randoms,
            key : KeyValue \cup {Mangled}]
Anonymous == [user |-> "anonymous", salt |-> "", key |-> NoKey]

ASSUME CliAssumption ==
  /\ DefaultServer \in Servers
  /\ "" \in Users \cap Salts \cap Keys /\ "" \notin Randoms
  /\ \A u \in Users : Trim[u] \in Users
  /\ \A s \in Salts : Trim[s] \in Salts
  /\ \A k \in Keys : Trim[k] \in Keys
  /\ \A r \in Randoms : Trim[r] = r
  /\ Derived \in [Randoms -> Keys] /\ MaxRegisters \in Nat
  /\ {None, Bad} \cap (Servers \cup Users \cup Salts \cup Keys \cup Randoms \cup Colon) = {}
  /\ None \notin Account
  /\ Flags \subseteq CommandLine /\ Envs \subseteq Environment
  /\ Files \subseteq ServerLists \cup {None}

VARIABLES
  env,       \* the environment variables
  file,      \* the servers file: what its lines name, or None
  accounts,  \* the accounts file as LoadAccounts returns it
  drawn,     \* the random values drawn so far
  out,       \* the command that just ended: its settings, exit code, requests
  saved      \* what register commands saved, and printed, for which servers (history)

vars == <<env, file, accounts, drawn, out, saved>>

----------------------------------------------------------------------------
\* flag > environment; a flag that is given and empty hides the environment.
Given(f) == [o \in Options |-> IF f[o] = None THEN env[o] ELSE f[o]]

\* run: a --key in two parts is split if there is no salt.
Split(c) ==
  IF c.salt = "" /\ c.key.salt # None
  THEN [c EXCEPT !.salt = c.key.salt, !.key = Plain(c.key.key)]
  ELSE c

\* Mutant of buildAccount: half an identity is none.
buildAccountLenient(op, c) ==
  IF op = "register" \/ c.user = "" \/ c.key = NoKey THEN None
  ELSE [user |-> c.user, salt |-> c.salt, key |-> c.key]

buildAccount(op, c) ==
  CASE op = "register" \/ (c.user = "" /\ c.key = NoKey) -> None
    [] op # "register" /\ (c.user = "") # (c.key = NoKey) -> Bad
    [] OTHER -> [user |-> c.user, salt |-> c.salt, key |-> c.key]

\* Mutant of parseServersArg: a malformed entry is skipped.
parseServersArgLenient(list) == list \ {Bad}

parseServersArg(list) == IF Bad \in list THEN Bad ELSE list

\* Mutant of LoadServers: malformed lines are not skipped.
LoadServersAll(lines) ==
  IF lines = None \/ lines = {} THEN {DefaultServer} ELSE lines

\* Lines that are no host:port are skipped (a bracketed IPv6 address among them, but
\* not one without brackets that begins like host:port); a missing or empty file
\* means the public server.
LoadServers(lines) ==
  LET found == IF lines = None THEN {} ELSE lines \ {Bad}
  IN IF found = {} THEN {DefaultServer} ELSE found

\* buildClient and New.  Without a home directory no file is read.
ServersOf(c) ==
  IF c.servers # {} THEN parseServersArg(c.servers)
  ELSE LoadServers(IF c.home THEN file ELSE None)

account(acc, c, s) ==
  IF acc # None THEN acc
  ELSE IF c.home /\ s \in DOMAIN accounts THEN accounts[s]
  ELSE Anonymous

\* serialize: a request of the client to each server, signed.
Requests(op, acc, c) ==
  {[server |-> s, op |-> op, user |-> account(acc, c, s).user, key |-> account(acc, c, s).key] :
     s \in ServersOf(c)}

\* GenKey: a salt and a key, both random, or the key derived from the salt.
GenKey(passphrase) ==
  LET fresh == Randoms \ drawn
  IN IF passphrase
     THEN {[salt |-> s, key |-> Plain(Derived[s])] : s \in fresh}
     ELSE [salt : fresh, key : {Plain(k) : k \in fresh}]

\* The account that LoadAccounts finds on the line that accountLine wrote: the fields
\* trimmed, the salt up to its first comma; None with a colon too many, or when
\* salt and key are both empty.
parsedLine(s, acc) ==
  LET parsed == [user |-> Trim[acc.user], salt |-> Trim[acc.salt],
                 key |-> IF acc.salt \in Comma THEN Mangled
                         ELSE [acc.key EXCEPT !.key = Trim[@]]]
  IN IF \/ {s, acc.user, acc.salt, acc.key.salt, acc.key.key} \cap Colon # {}
        \/ parsed.salt = "" /\ parsed.key = NoKey
     THEN None
     ELSE parsed

\* Mutant of SaveAccount: a server that has an entry keeps it.
SaveAccountOnce(servers, acc) ==
  LET entered == {s \in servers : parsedLine(s, acc) # None}
  IN [s \in DOMAIN accounts \cup entered |->
        IF s \in DOMAIN accounts THEN accounts[s] ELSE parsedLine(s, acc)]

\* The entries of the servers are replaced, or lost if their lines cannot be read
\* back.
SaveAccount(servers, acc) ==
  LET entered == {s \in servers : parsedLine(s, acc) # None}
  IN [s \in (DOMAIN accounts \ servers) \cup entered |->
        IF s \in servers THEN parsedLine(s, acc) ELSE accounts[s]]

Ends(f, exit, sent) ==
  out' = [op |-> f.op, given |-> Given(f), exit |-> exit, sent |-> sent]

----------------------------------------------------------------------------
Init ==
  /\ env \in Envs
  /\ file \in Files
  /\ accounts = <<>>
  /\ drawn = {}
  /\ out = None
  /\ saved = <<>>

\* Between two commands the user changes the environment, writes the servers
\* file, or does nothing.
SetEnv ==
  /\ out # None
  /\ env' \in Envs
  /\ out' = None
  /\ UNCHANGED <<file, accounts, drawn, saved>>

WriteServers ==
  /\ out # None
  /\ file' \in Files
  /\ out' = None
  /\ UNCHANGED <<env, accounts, drawn, saved>>

\* The user puts the lines that register printed last into the environment.
Export ==
  /\ out # None /\ saved # <<>>
  /\ env' = [o \in DOMAIN env |->
               IF o \in DOMAIN Last(saved).lines THEN Last(saved).lines[o] ELSE env[o]]
  /\ out' = None
  /\ UNCHANGED <<file, accounts, drawn, saved>>

\* What run refuses: half an identity, a malformed list of servers.
Refused(f) ==
  LET c == Split(Given(f))
  IN buildAccount(f.op, c) = Bad \/ ServersOf(c) = Bad

UsageError(f) ==
  /\ f.op # "genkey" /\ Refused(f)
  /\ Ends(f, 2, {})
  /\ UNCHANGED <<env, file, accounts, drawn, saved>>

\* Standard input cannot be read or holds more than maxBody; an unknown command.
BadInput(f) ==
  /\ f.op \in {"check", "report", "revoke", "digest", "other"} /\ ~Refused(f)
  /\ Ends(f, 2, {})
  /\ UNCHANGED <<env, file, accounts, drawn, saved>>

\* check, report, revoke and ping, with any outcome; the requests of serve are
\* those that its handlers will send.
Operate(f) ==
  LET c == Split(Given(f))
  IN /\ f.op \in {"check", "report", "revoke", "ping", "serve"} /\ ~Refused(f)
     /\ \E exit \in 0 .. 1 : Ends(f, exit, Requests(f.op, buildAccount(f.op, c), c))
     /\ UNCHANGED <<env, file, accounts, drawn, saved>>

\* runServe ends before it serves: no token where one is needed or no listener (2),
\* or an address that it cannot listen on (1).
ServeRefused(f) ==
  /\ f.op = "serve" /\ ~Refused(f)
  /\ \E exit \in 1 .. 2 : Ends(f, exit, {})
  /\ UNCHANGED <<env, file, accounts, drawn, saved>>

PrintDigest(f) ==
  /\ f.op = "digest" /\ ~Refused(f)
  /\ Ends(f, 0, {})
  /\ UNCHANGED <<env, file, accounts, drawn, saved>>

runGenkey(f) ==
  /\ f.op = "genkey"
  /\ \E g \in GenKey(env.passphrase) : drawn' = drawn \cup ({g.salt, g.key.key} \cap Randoms)
  /\ Ends(f, 0, {})
  /\ UNCHANGED <<env, file, accounts, saved>>

\* No random numbers, or no way to save the file.
NotSaved(f) ==
  /\ f.op \in {"genkey", "register"}
  /\ f.op = "register" => ~Refused(f) /\ Given(f).user # ""
  /\ Ends(f, 1, {})
  /\ UNCHANGED <<env, file, accounts, drawn, saved>>

NoUser(f) ==
  /\ f.op = "register" /\ ~Refused(f) /\ Given(f).user = ""
  /\ Ends(f, 2, {})
  /\ UNCHANGED <<env, file, accounts, drawn, saved>>

\* Mutant of Lines: the key as the accounts file has it.
LinesOfFile(acc) ==
  [user |-> acc.user, salt |-> acc.salt, key |-> [salt |-> acc.salt, key |-> acc.key.key]]

\* The GYZOR_ lines of an identity.
Lines(acc) == [user |-> acc.user, salt |-> acc.salt, key |-> acc.key]

\* What runRegister may save: the key that was given, or a fresh one.
Identities(c) ==
  IF c.key # NoKey
  THEN {[user |-> c.user, salt |-> c.salt, key |-> c.key]}
  ELSE {[user |-> c.user, salt |-> g.salt, key |-> g.key] : g \in GenKey(env.passphrase)}

runRegister(f) ==
  LET c == Split(Given(f))
  IN /\ f.op = "register" /\ ~Refused(f) /\ c.user # "" /\ c.home
     /\ Len(saved) < MaxRegisters
     /\ \E acc \in Identities(c) :
          /\ accounts' = SaveAccount(ServersOf(c), acc)
          /\ drawn' = drawn \cup ({acc.salt, acc.key.key} \cap Randoms)
          /\ saved' = Append(saved, [servers |-> ServersOf(c), acc |-> acc,
                                     lines |-> Lines(acc)])
     /\ Ends(f, 0, {})
     /\ UNCHANGED <<env, file>>

run(f) ==
  /\ out = None
  /\ \/ UsageError(f)
     \/ BadInput(f)
     \/ Operate(f)
     \/ ServeRefused(f)
     \/ PrintDigest(f)
     \/ runGenkey(f)
     \/ NotSaved(f)
     \/ NoUser(f)
     \/ runRegister(f)

Next ==
  \/ SetEnv
  \/ WriteServers
  \/ Export
  \/ \E f \in Flags : run(f)

Spec == Init /\ [][Next]_vars

----------------------------------------------------------------------------
\* Type correctness; the accounts file has no entry that it cannot hold.
TypeOK ==
  /\ env \in Environment
  /\ file \in Files
  /\ DOMAIN accounts \subseteq Servers \ Colon /\ Range(accounts) \subseteq Account
  /\ drawn \subseteq Randoms
  /\ out # None =>
       /\ out.given \in Setting /\ out.exit \in 0 .. 2
       /\ out.sent \subseteq [server : Servers, op : {"check", "report", "revoke", "ping", "serve"},
                              user : Users \cup {"anonymous"}, key : KeyValue \cup {Mangled}]
  /\ Len(saved) \in 0 .. MaxRegisters

(***************************************************************************)
(* "An explicit but invalid --servers value is an error, not a silent      *)
(* fallback to a different destination" (README.md:97): whoever names      *)
(* servers, by flag or variable, asks those and all of those, or none.     *)
(***************************************************************************)
NamedServersOnly ==
  out # None /\ out.given.servers # {} /\ out.sent # {} =>
    {w.server : w \in out.sent} = out.given.servers

\* Settings that name an identity: a user, a key, or both.  (A --key in two
\* parts of which the second is empty names none.)
Explicit(c) == c.user # "" \/ c.key.key # ""

(***************************************************************************)
(* Half an identity is never "a silent fallback to anonymous"              *)
(* (main.go:182): a command that was told a user or a key signs with this  *)
(* user and this key at every server, in whatever form the key was given,  *)
(* or sends nothing.  (A key in two parts beside a salt is not split.)     *)
(***************************************************************************)
SignsAsTold ==
  out # None =>
    LET c == out.given
    IN Explicit(c) /\ (c.salt = "" \/ c.key.salt = None) =>
         \A w \in out.sent : w.user = c.user /\ w.key = Plain(c.key.key)

\* The names survive the way through the accounts file.
Writable(s, acc) ==
  /\ {s, acc.user, acc.salt, acc.key.salt, acc.key.key} \cap Colon = {}
  /\ acc.salt \notin Comma
  /\ \A n \in {acc.user, acc.salt, acc.key.key} : Trim[n] = n

(***************************************************************************)
(* "so later runs sign automatically" (README.md:107): whatever commands   *)
(* lie between, a command without an identity of its own signs to each     *)
(* server with what the last register command for that server issued, if   *)
(* its names survive the file.                                             *)
(***************************************************************************)
RegisteredIsUsed ==
  out # None /\ ~Explicit(out.given) /\ out.given.home =>
    \A w \in out.sent :
      LET issues == {k \in DOMAIN saved : w.server \in saved[k].servers}
          last == saved[Max(issues)].acc
      IN issues # {} /\ Writable(w.server, last) => w.user = last.user /\ w.key = last.key

(***************************************************************************)
(* The lines that register prints are there to be used "instead of the     *)
(* file" (register.go:59): in the environment they make the requests that  *)
(* the saved account makes, after run has parsed them again.               *)
(***************************************************************************)
EnvSignsLikeFile ==
  out # None /\ saved # <<>> =>
    LET c == out.given
    IN [user |-> c.user, salt |-> c.salt, key |-> c.key] = Last(saved).lines =>
         \A w \in out.sent : w.user = Last(saved).acc.user /\ w.key = Last(saved).acc.key

============================================================================
