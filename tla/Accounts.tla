------------------------------ MODULE Accounts ------------------------------
(***************************************************************************)
(* The accounts file: register commands (cmd/gyzor/register.go, SaveAccount *)
(* and writeFileAtomic in pyzor/account.go) that rewrite it, each a process *)
(* that may be killed at any moment, and clients that load it meanwhile    *)
(* (LoadAccounts in pyzor/client.go).                                      *)
(*                                                                         *)
(* The file system is external: the path "accounts" names a file, rename   *)
(* makes it name another, and who has opened a file keeps reading that     *)
(* one.  A killed process leaves what it wrote; power failures, which may  *)
(* lose data that was never synced, are not modelled.                      *)
(*                                                                         *)
(* A file is the sequence of its non-blank lines, and a line is what the   *)
(* two parsers make of it: the address accountAddrOfLine finds, and the    *)
(* account LoadAccounts finds.                                             *)
(***************************************************************************)
EXTENDS Integers, Sequences, FiniteSetsExt

CONSTANTS
  Addrs,     \* host:port of the servers
  Users, Salts, Keys,
  Colon,     \* names with a colon (of an address: in the host), which the parsers
             \* split, and addresses with a first #, which makes a line a comment
  Comma,     \* salts with a comma
  Trim,      \* Trim[n]: name n after the parser has trimmed the blanks around the fields
  None,      \* no address, no account, no file
  Mangled,   \* a key that was split at the wrong comma
  Commands,  \* the register commands; each runs once
  Servers,   \* Servers[r]: the sequence of servers r registers
  Identity,  \* Identity[r]: the account r registers
  Clients,   \* the processes that load the file; each loads it once
  Files      \* the contents the file may have at first (None: no file)

Account == [user : Users, salt : Salts, key : Keys \cup {Mangled}]

\* long: more than bufio.Scanner takes (64 KiB).  Where LoadAccounts finds an
\* account, accountAddrOfLine finds the address.
Line == {l \in [addr : Addrs \cup {None}, acc : Account \cup {None}, long : BOOLEAN] :
           l.addr = None => l.acc = None}

ASSUME AccountsAssumption ==
  /\ None \notin Addrs \cup Account \cup Commands \cup {"old"} /\ "old" \notin Commands
  /\ Servers \in [Commands -> Seq(Addrs) \ {<<>>}]
  /\ Identity \in [Commands -> [user : Users, salt : Salts, key : Keys]]
  /\ \A u \in Users : Trim[u] \in Users
  /\ \A t \in Salts : Trim[t] \in Salts
  /\ \A k \in Keys : Trim[k] \in Keys
  /\ \A f \in Files : f = None \/ f \in Seq(Line)

VARIABLES
  path,     \* the file that the path names: None, "old", or the command that wrote it
  content,  \* content[f]: the lines of file f
  temps,    \* the temporary files in the directory
  cmd,      \* cmd[r]: where command r is, the lines it is to write, and the file
            \* they are based on (history)
  cl,       \* cl[x]: where client x is, the file it opened, the lines it read
  renamed,  \* the commands that renamed their file, in order (history)
  stale     \* those whose rename replaced another file than they had read (history)

vars == <<path, content, temps, cmd, cl, renamed, stale>>

----------------------------------------------------------------------------
\* The account that LoadAccounts finds on the line of acc: the fields are trimmed,
\* and a comma in the salt ends it there.
parsedAccount(acc) ==
  [user |-> Trim[acc.user], salt |-> Trim[acc.salt],
   key |-> IF acc.salt \in Comma THEN Mangled ELSE Trim[acc.key]]

\* accountLine: with a colon too many the line does not split in four.
accountLine(s, acc) ==
  IF {s, acc.user, acc.salt, acc.key} \cap Colon # {}
  THEN [addr |-> None, acc |-> None, long |-> FALSE]
  ELSE [addr |-> s, acc |-> parsedAccount(acc), long |-> FALSE]

\* Mutants of newLines: the new lines come first and nothing is dropped; the
\* old lines are lost.
newLinesFirst(old, servers, acc) ==
  [i \in DOMAIN servers |-> accountLine(servers[i], acc)] \o old

newLinesOnly(old, servers, acc) ==
  [i \in DOMAIN servers |-> accountLine(servers[i], acc)]

\* SaveAccount: the lines kept from the old file, then one line per server.
newLines(old, servers, acc) ==
  LET kept[n \in 0 .. Len(old)] ==
        IF n = 0 THEN <<>>
        ELSE IF old[n].addr \in Range(servers) THEN kept[n - 1]
        ELSE Append(kept[n - 1], old[n])
  IN kept[Len(old)] \o [i \in DOMAIN servers |-> accountLine(servers[i], acc)]

\* The accounts on the lines in I: a line without one is skipped, and the last
\* line of an address wins.
entries(lines, I) ==
  LET good == {i \in I : lines[i].acc # None}
  IN [s \in {lines[i].addr : i \in good} |-> lines[Max({i \in good : lines[i].addr = s})].acc]

\* LoadAccounts: the scanner stops at a line that is too long.
scanned(lines) == {i \in DOMAIN lines : \A j \in 1 .. i : ~lines[j].long}

LoadAccounts(lines) == entries(lines, scanned(lines))

readable(lines) == [i \in scanned(lines) |-> lines[i]]

LinesAt(f) == IF f = None THEN <<>> ELSE content[f]

Running(r) == cmd[r].pc \in {"create", "write", "rename", "remove"}

----------------------------------------------------------------------------
Init ==
  /\ \E f \in Files :
       /\ path = IF f = None THEN None ELSE "old"
       /\ content = [g \in {"old"} \cup Commands |-> IF g = "old" /\ f # None THEN f ELSE <<>>]
  /\ temps = {}
  /\ cmd = [r \in Commands |-> [pc |-> "start", lines |-> <<>>, base |-> None]]
  /\ cl = [x \in Clients |-> [pc |-> "start", file |-> None, got |-> <<>>]]
  /\ renamed = <<>>
  /\ stale = {}

\* ReadFile and the lines to write.  A missing file reads as an empty one.
Read(r) ==
  /\ cmd[r].pc = "start"
  /\ cmd' = [cmd EXCEPT ![r] =
               [pc |-> "create", base |-> path,
                lines |-> newLines(LinesAt(path), Servers[r], Identity[r])]]
  /\ UNCHANGED <<path, content, temps, cl, renamed, stale>>

\* The command gives up before it has a temporary file: no user, no random key,
\* no directory, an unreadable file.
Refuse(r) ==
  /\ cmd[r].pc \in {"start", "create"}
  /\ cmd' = [cmd EXCEPT ![r].pc = "failed"]
  /\ UNCHANGED <<path, content, temps, cl, renamed, stale>>

\* Mutant of CreateTemp: the accounts file itself is opened for writing.
CreateInPlace(r) ==
  /\ cmd[r].pc = "create"
  /\ path' = r
  /\ cmd' = [cmd EXCEPT ![r].pc = "write"]
  /\ UNCHANGED <<content, temps, cl, renamed, stale>>

CreateTemp(r) ==
  /\ cmd[r].pc = "create"
  /\ temps' = temps \cup {r}
  /\ cmd' = [cmd EXCEPT ![r].pc = "write"]
  /\ UNCHANGED <<path, content, cl, renamed, stale>>

\* tmp.Write, one line at a time; then Close.
Write(r) ==
  /\ cmd[r].pc = "write"
  /\ IF content[r] = cmd[r].lines
     THEN /\ cmd' = [cmd EXCEPT ![r].pc = "rename"]
          /\ UNCHANGED content
     ELSE /\ content' = [content EXCEPT ![r] = SubSeq(cmd[r].lines, 1, Len(@) + 1)]
          /\ UNCHANGED cmd
  /\ UNCHANGED <<path, temps, cl, renamed, stale>>

Rename(r) ==
  /\ cmd[r].pc = "rename"
  /\ path' = r
  /\ temps' = temps \ {r}
  /\ renamed' = Append(renamed, r)
  /\ stale' = IF path = cmd[r].base THEN stale ELSE stale \cup {r}
  /\ cmd' = [cmd EXCEPT ![r].pc = "done"]
  /\ UNCHANGED <<content, cl>>

\* Mutant of WriteFails: no deferred Remove.
WriteFailsLeaves(r) ==
  /\ cmd[r].pc \in {"write", "rename"}
  /\ cmd' = [cmd EXCEPT ![r].pc = "failed"]
  /\ UNCHANGED <<path, content, temps, cl, renamed, stale>>

\* Chmod, Write, Close or Rename failed: on to the deferred Remove.
WriteFails(r) ==
  /\ cmd[r].pc \in {"write", "rename"}
  /\ cmd' = [cmd EXCEPT ![r].pc = "remove"]
  /\ UNCHANGED <<path, content, temps, cl, renamed, stale>>

Remove(r) ==
  /\ cmd[r].pc = "remove"
  /\ temps' = temps \ {r}
  /\ cmd' = [cmd EXCEPT ![r].pc = "failed"]
  /\ UNCHANGED <<path, content, cl, renamed, stale>>

\* The process is killed.
Kill(r) ==
  /\ Running(r)
  /\ cmd' = [cmd EXCEPT ![r].pc = "killed"]
  /\ UNCHANGED <<path, content, temps, cl, renamed, stale>>

----------------------------------------------------------------------------
\* LoadAccounts opens the file; without one there are no accounts.
Open(x) ==
  /\ cl[x].pc = "start"
  /\ cl' = [cl EXCEPT ![x].pc = IF path = None THEN "loaded" ELSE "scan", ![x].file = path]
  /\ UNCHANGED <<path, content, temps, cmd, renamed, stale>>

\* The scanner reads the next line; at the end of the file, or at a line that is
\* too long for it (its error is dropped), the accounts are loaded.
Scan(x) ==
  /\ cl[x].pc = "scan"
  /\ LET lines == content[cl[x].file]
         n == Len(cl[x].got) + 1
     IN cl' = IF n \in DOMAIN lines /\ ~lines[n].long
              THEN [cl EXCEPT ![x].got = Append(@, lines[n])]
              ELSE [cl EXCEPT ![x].pc = "loaded"]
  /\ UNCHANGED <<path, content, temps, cmd, renamed, stale>>

CommandStep(r) ==
  \/ Read(r)
  \/ Refuse(r)
  \/ CreateTemp(r)
  \/ Write(r)
  \/ Rename(r)
  \/ WriteFails(r)
  \/ Remove(r)
  \/ Kill(r)

ClientStep(x) ==
  \/ Open(x)
  \/ Scan(x)

Next ==
  \/ \E r \in Commands : CommandStep(r)
  \/ \E x \in Clients : ClientStep(x)

Spec == Init /\ [][Next]_vars

----------------------------------------------------------------------------
\* Type correctness of the directory, the commands and the clients; a command
\* that has ended by itself, however it ended, leaves no temporary file behind.
TypeOK ==
  /\ path \in {None, "old"} \cup Commands
  /\ content \in [{"old"} \cup Commands -> Seq(Line)]
  /\ temps \subseteq {r \in Commands : cmd[r].pc \notin {"done", "failed"}}
  /\ cmd \in [Commands -> [pc : {"start", "create", "write", "rename", "remove", "done",
                                 "failed", "killed"}, lines : Seq(Line),
                          base : {None, "old"} \cup Commands]]
  /\ cl \in [Clients -> [pc : {"start", "scan", "loaded"},
                         file : {None, "old"} \cup Commands, got : Seq(Line)]]
  /\ renamed \in Seq(Commands) /\ stale \subseteq Range(renamed)

(***************************************************************************)
(* "a reader never observes a half-written accounts file" (account.go:186) *)
(* and "an interrupted save never truncates a working accounts file"       *)
(* (account.go:121): what a client has loaded is what the scanner gives of *)
(* one complete file, that is, of its lines up to the first that is too    *)
(* long: of the file as it was first, or of all the lines of a command     *)
(* that got as far as the rename, wherever commands were killed or failed  *)
(* and whoever renamed while it read.                                      *)
(***************************************************************************)
ReadersSeeWholeFiles ==
  \A x \in Clients :
    cl[x].pc = "loaded" =>
      \/ cl[x].file \in {None, "old"} /\ cl[x].got = readable(LinesAt(cl[x].file))
      \/ cl[x].file \in Range(renamed) /\ cl[x].got = readable(cmd[cl[x].file].lines)

\* Accounts that the next client run will sign with.
Loaded == LoadAccounts(LinesAt(path))

\* The names of the account and the server survive the way through the file.
Writable(s, r) ==
  LET acc == Identity[r]
  IN /\ {s, acc.user, acc.salt, acc.key} \cap Colon = {}
     /\ acc.salt \notin Comma
     /\ \A n \in {acc.user, acc.salt, acc.key} : Trim[n] = n

\* Nobody reads past a line that is longer than the scanner's buffer.
blocks(lines) == \E i \in DOMAIN lines : lines[i].long

Blocked == blocks(LinesAt(path))

\* The k-th rename registered s, and none after it.
LastFor(k, s) ==
  /\ s \in Range(Servers[renamed[k]])
  /\ \A j \in k + 1 .. Len(renamed) : s \notin Range(Servers[renamed[j]])

Signs(k, s) == s \in DOMAIN Loaded /\ Loaded[s] = Identity[renamed[k]]

\* The file of one of the commands k + 1 .. n is based on one from before the k-th
\* rename.
Outrun(k, n) ==
  \E j \in k + 1 .. n : cmd[renamed[j]].base \notin {renamed[i] : i \in k .. j - 1}

(***************************************************************************)
(* "saves the identity ... for every configured server, so later runs sign *)
(* automatically" (README.md:107): a server that a command registered, and *)
(* no later one, is loaded with that command's account, whatever clients   *)
(* read, commands are killed or fail, and the file held.  The exceptions   *)
(* are the code's: names that do not survive the file, a line too long to  *)
(* be scanned, and a later command that had read the file before this      *)
(* one's rename and so wrote it back without this account.                 *)
(***************************************************************************)
RegisteredSigns ==
  ~Blocked => \A k \in DOMAIN renamed, s \in Addrs :
    LastFor(k, s) /\ Writable(s, renamed[k]) => Signs(k, s) \/ Outrun(k, Len(renamed))

\* What README.md:107 says, without the exceptions.
RegisteredSignsAlways ==
  \A k \in DOMAIN renamed, s \in Addrs : LastFor(k, s) => Signs(k, s)

\* The same file seen as the map it promises to be.
serversOf(r) == Range(Servers[r])

accountOf(r, s) == accountLine(s, Identity[r]).acc

recorded(f) ==
  [map |-> entries(LinesAt(f), DOMAIN LinesAt(f)), blocked |-> blocks(LinesAt(f))]

Store == INSTANCE AccountStore WITH
           file <- recorded(path),
           loaded <- Loaded,
           log <- renamed,
           past <- {recorded(f) : f \in {"old"} \cup Range(renamed)},
           AccountValues <- Account

(***************************************************************************)
(* The commands implement AccountStore: every interleaving of their steps, *)
(* kills and failures with each other and with loading clients changes the *)
(* map of accounts only by a whole registration, at the rename, which      *)
(* keeps the entries of all other servers ("re-registering a server        *)
(* replaces its entry", README.md:109): those of the moment when it read   *)
(* the file, which a command that ran meanwhile makes outdated.            *)
(***************************************************************************)
ImplementsStore == Store!Spec

============================================================================
