----------------------------- MODULE CliProofs -----------------------------
(***************************************************************************)
(* The command line, for any servers, users, keys, flags, environments and *)
(* files, and any number of register commands.                             *)
(***************************************************************************)
EXTENDS Cli, WellFoundedInduction, TLAPS

----------------------------------------------------------------------------
(* What the parts of run return *)

\* An option comes from the flag or from the environment.
LEMMA GivenType ==
  ASSUME NEW f \in Flags, env \in Environment
  PROVE  Given(f) \in Setting
<1>1. f \in CommandLine
  BY CliAssumption
<1> QED
  BY <1>1 DEF Given, Options, Setting, Environment, CommandLine

LEMMA PlainType ==
  ASSUME NEW k \in Keys \cup Randoms
  PROVE  Plain(k) \in KeyValue /\ Plain(k).salt = None /\ Plain(k).key = k
BY DEF Plain, KeyValue

LEMMA NoKeyType == NoKey \in KeyValue /\ NoKey.salt = None /\ NoKey.key = ""
BY PlainType, CliAssumption DEF NoKey

\* A key is Plain when it is in one part.
LEMMA OnePart ==
  ASSUME NEW k \in KeyValue, k.salt = None
  PROVE  k = Plain(k.key)
BY DEF Plain, KeyValue

\* After the split only a salt that was given stands beside a key in two parts.
LEMMA SplitType ==
  ASSUME NEW c \in Setting
  PROVE  /\ Split(c) \in Setting
         /\ Split(c).user = c.user /\ Split(c).servers = c.servers /\ Split(c).home = c.home
         /\ Split(c).key.key = c.key.key
         /\ Split(c).salt = "" => Split(c).key.salt = None
         /\ c.salt = "" \/ c.key.salt = None => Split(c).key = Plain(c.key.key)
         /\ c.salt # "" \/ c.key.salt = None => Split(c) = c
<1>1. c.key \in KeyValue /\ c.key.salt \in Salts \cup Randoms \cup {None}
      /\ c.key.key \in Keys \cup Randoms
  BY DEF Setting, KeyValue
<1>2. Plain(c.key.key) \in KeyValue /\ Plain(c.key.key).salt = None
      /\ Plain(c.key.key).key = c.key.key
  BY <1>1, PlainType
<1>3. CASE c.salt = "" /\ c.key.salt # None
  <2>1. Split(c) = [c EXCEPT !.salt = c.key.salt, !.key = Plain(c.key.key)]
    BY <1>3 DEF Split
  <2>2. c.key.salt \in Salts \cup Randoms
    BY <1>1, <1>3
  <2> QED
    BY <2>1, <2>2, <1>2, <1>3 DEF Setting
<1>4. CASE ~(c.salt = "" /\ c.key.salt # None)
  <2>1. Split(c) = c
    BY <1>4 DEF Split
  <2>2. c.key.salt = None => c.key = Plain(c.key.key)
    BY <1>1, OnePart
  <2> QED
    BY <2>1, <2>2, <1>4
<1> QED
  BY <1>3, <1>4

\* A client that run builds has servers only, those that were named if any were.
LEMMA ServersOfType ==
  ASSUME NEW c \in Setting, file \in Files, ServersOf(c) # Bad
  PROVE  /\ ServersOf(c) \subseteq Servers
         /\ c.servers # {} => ServersOf(c) = c.servers
<1>1. CASE c.servers # {}
  <2>1. ServersOf(c) = parseServersArg(c.servers)
    BY <1>1 DEF ServersOf
  <2>2. Bad \notin c.servers /\ ServersOf(c) = c.servers
    BY <2>1 DEF parseServersArg
  <2> QED
    BY <2>2 DEF Setting, ServerLists
<1>2. CASE c.servers = {}
  <2>1. \A lines \in ServerLists \cup {None} : LoadServers(lines) \subseteq Servers
    BY CliAssumption DEF LoadServers, ServerLists
  <2>2. (IF c.home THEN file ELSE None) \in ServerLists \cup {None}
    BY CliAssumption
  <2> QED
    BY <1>2, <2>1, <2>2 DEF ServersOf
<1> QED
  BY <1>1, <1>2

LEMMA AnonymousType == Anonymous \in Account
BY NoKeyType, CliAssumption DEF Anonymous, Account

\* An account is built from a user and a key, or from neither.
LEMMA BuiltAccount ==
  ASSUME NEW op, NEW c \in Setting, buildAccount(op, c) # Bad, op # "register"
  PROVE  \/ /\ buildAccount(op, c) = None
            /\ c.user = "" /\ c.key = NoKey
         \/ /\ buildAccount(op, c) = [user |-> c.user, salt |-> c.salt, key |-> c.key]
            /\ buildAccount(op, c) \in Account
            /\ buildAccount(op, c) # None
            /\ c.user # "" /\ c.key # NoKey
<1>1. [user |-> c.user, salt |-> c.salt, key |-> c.key] \in Account
  BY DEF Setting, Account
<1> QED
  BY <1>1, CliAssumption DEF buildAccount

\* What the client signs with.
LEMMA AccountType ==
  ASSUME Range(accounts) \subseteq Account, NEW acc \in Account \cup {None}, NEW c, NEW s
  PROVE  account(acc, c, s) \in Account
BY AnonymousType DEF account, Range

LEMMA GenKeyType ==
  ASSUME NEW passphrase, NEW g \in GenKey(passphrase)
  PROVE  /\ g.salt \in Randoms
         /\ g.key \in KeyValue /\ g.key.salt = None
<1>1. \A k \in Keys \cup Randoms : Plain(k) \in KeyValue /\ Plain(k).salt = None
  BY PlainType
<1>2. CASE passphrase
  <2>1. PICK s \in Randoms \ drawn : g = [salt |-> s, key |-> Plain(Derived[s])]
    BY <1>2 DEF GenKey
  <2>2. Derived[s] \in Keys
    BY CliAssumption
  <2> QED
    BY <1>1, <2>1, <2>2
<1>3. CASE ~passphrase
  <2>1. g \in [salt : Randoms \ drawn, key : {Plain(k) : k \in Randoms \ drawn}]
    BY <1>3 DEF GenKey
  <2> QED
    BY <1>1, <2>1
<1> QED
  BY <1>2, <1>3

----------------------------------------------------------------------------
(* What holds of every state *)

Identity == [user : Users, salt : Salts \cup Randoms, key : KeyValue]
Issue == [servers : SUBSET Servers, acc : Identity, lines : Identity]

\* A saved identity is one that run does not split when it reads it again, and not
\* empty.
Whole(acc) ==
  /\ acc.user # ""
  /\ acc.salt = "" => acc.key.salt = None /\ acc.key # NoKey

SavedInv ==
  /\ saved \in Seq(Issue)
  /\ \A k \in DOMAIN saved : saved[k].lines = Lines(saved[k].acc) /\ Whole(saved[k].acc)

\* The last command that issued an identity for a server has its entry.
EntryInv ==
  \A k \in DOMAIN saved, s \in Servers :
    /\ s \in saved[k].servers /\ (\A j \in DOMAIN saved : j > k => s \notin saved[j].servers)
    /\ Writable(s, saved[k].acc)
    => s \in DOMAIN accounts /\ accounts[s] = saved[k].acc

\* The requests of the command that just ended are those of its settings, of
\* the servers file and of the accounts file as they still are.
SentInv ==
  out # None /\ out.sent # {} =>
    LET c == Split(out.given)
    IN /\ out.op \in {"check", "report", "revoke", "ping", "serve"}
       /\ buildAccount(out.op, c) # Bad /\ ServersOf(c) # Bad
       /\ out.sent = Requests(out.op, buildAccount(out.op, c), c)

CliInv == TypeOK /\ SavedInv /\ EntryInv /\ SentInv

LEMMA InitHolds == Init => CliInv
<1> SUFFICES ASSUME Init PROVE CliInv
  OBVIOUS
<1>1. DOMAIN accounts = {} /\ DOMAIN saved = {} /\ Len(saved) = 0 /\ saved \in Seq(Issue)
  BY DEF Init
<1>2. Range(accounts) = {}
  BY <1>1 DEF Range
<1>3. env \in Environment /\ Len(saved) \in 0 .. MaxRegisters
  <2>1. MaxRegisters \in Nat /\ Envs \subseteq Environment
    BY CliAssumption
  <2> QED
    BY <1>1, <2>1 DEF Init
<1>4. TypeOK
  BY <1>1, <1>2, <1>3 DEF Init, TypeOK
<1> QED
  BY <1>1, <1>4 DEF Init, CliInv, SavedInv, EntryInv, SentInv

\* Between two commands: no command's requests are left to explain.
LEMMA ShellStep ==
  ASSUME CliInv, env' \in Environment, file' \in Files, out' = None,
         UNCHANGED <<accounts, drawn, saved>>
  PROVE  CliInv'
<1>1. TypeOK'
  BY DEF CliInv, TypeOK
<1>2. SavedInv' /\ EntryInv'
  BY DEF CliInv, SavedInv, EntryInv
<1>3. SentInv'
  BY DEF SentInv
<1> QED
  BY <1>1, <1>2, <1>3 DEF CliInv

\* A command that sends nothing and saves nothing.
LEMMA SilentStep ==
  ASSUME CliInv, NEW f \in Flags, NEW exit \in 0 .. 2, Ends(f, exit, {}),
         UNCHANGED <<env, file, accounts, saved>>, drawn' \subseteq Randoms
  PROVE  CliInv'
<1>1. Given(f) \in Setting
  BY GivenType DEF CliInv, TypeOK
<1>2. out' = [op |-> f.op, given |-> Given(f), exit |-> exit, sent |-> {}]
  BY DEF Ends
<1>3. out'.given \in Setting /\ out'.exit \in 0 .. 2 /\ out'.sent = {}
  BY <1>1, <1>2
<1>4. TypeOK'
  BY <1>3 DEF CliInv, TypeOK
<1>5. SavedInv' /\ EntryInv'
  BY DEF CliInv, SavedInv, EntryInv
<1>6. SentInv'
  BY <1>3 DEF SentInv
<1> QED
  BY <1>4, <1>5, <1>6 DEF CliInv

Sent == [server : Servers, op : {"check", "report", "revoke", "ping", "serve"},
         user : Users \cup {"anonymous"}, key : KeyValue \cup {Mangled}]

\* Every request goes to a server, signed by an account.
LEMMA RequestsType ==
  ASSUME Range(accounts) \subseteq Account, file \in Files,
         NEW op \in {"check", "report", "revoke", "ping", "serve"}, NEW c \in Setting,
         buildAccount(op, c) # Bad, ServersOf(c) # Bad
  PROVE  Requests(op, buildAccount(op, c), c) \subseteq Sent
<1> DEFINE acc == buildAccount(op, c)
<1>1. acc \in Account \cup {None}
  BY BuiltAccount
<1>2. ServersOf(c) \subseteq Servers
  BY ServersOfType
<1>3. \A s \in ServersOf(c) : account(acc, c, s) \in Account
  <2> HIDE DEF acc
  <2> QED
    BY <1>1, AccountType
<1> HIDE DEF acc
<1>4. ASSUME NEW s \in ServersOf(c)
      PROVE  [server |-> s, op |-> op, user |-> account(acc, c, s).user,
              key |-> account(acc, c, s).key] \in Sent
  BY <1>2, <1>3, <1>4 DEF Sent, Account
<1>5. Requests(op, acc, c) \subseteq Sent
  BY <1>4 DEF Requests
<1> QED
  BY <1>5 DEF acc

LEMMA OperateStep ==
  ASSUME CliInv, NEW f \in Flags, Operate(f)
  PROVE  CliInv'
<1> DEFINE c == Split(Given(f))
<1>1. Given(f) \in Setting /\ c \in Setting
  BY GivenType, SplitType DEF CliInv, TypeOK
<1> DEFINE reqs == Requests(f.op, buildAccount(f.op, c), c)
<1>2. f.op \in {"check", "report", "revoke", "ping", "serve"}
      /\ buildAccount(f.op, c) # Bad /\ ServersOf(c) # Bad
  BY DEF Operate, Refused
<1>3. PICK exit \in 0 .. 1 :
        out' = [op |-> f.op, given |-> Given(f), exit |-> exit, sent |-> reqs]
  BY DEF Operate, Ends
<1>4. UNCHANGED <<env, file, accounts, drawn, saved>>
  BY DEF Operate
<1>5. reqs \subseteq Sent
  <2> HIDE DEF c
  <2> QED
    BY <1>1, <1>2, RequestsType DEF CliInv, TypeOK
<1>6. out'.op = f.op /\ out'.given = Given(f) /\ out'.exit \in 0 .. 2 /\ out'.sent = reqs
  <2> HIDE DEF reqs
  <2> QED
    BY <1>3
<1>7. TypeOK'
  <2> HIDE DEF reqs
  <2> QED
    BY <1>1, <1>4, <1>5, <1>6 DEF CliInv, TypeOK, Sent
<1>8. SavedInv' /\ EntryInv'
  BY <1>4 DEF CliInv, SavedInv, EntryInv
<1>9. SentInv'
  <2>1. Requests(f.op, buildAccount(f.op, c), c)' = reqs /\ ServersOf(c)' = ServersOf(c)
        /\ c' = c
    BY <1>4 DEF Requests, ServersOf, account, Given
  <2> QED
    BY <2>1, <1>2, <1>6 DEF SentInv, Requests
<1> QED
  BY <1>7, <1>8, <1>9 DEF CliInv

\* A command that sends nothing may end in any way: serve that does not serve.
LEMMA ServeRefusedStep ==
  ASSUME CliInv, NEW f \in Flags, ServeRefused(f)
  PROVE  CliInv'
<1>1. PICK exit \in 1 .. 2 : Ends(f, exit, {})
  BY DEF ServeRefused
<1>2. exit \in 0 .. 2 /\ UNCHANGED <<env, file, accounts, drawn, saved>>
  BY DEF ServeRefused
<1>3. drawn' \subseteq Randoms
  BY <1>2 DEF CliInv, TypeOK
<1> QED
  BY <1>1, <1>2, <1>3, SilentStep

\* What LoadAccounts finds on a line that accountLine wrote.
LEMMA ParsedType ==
  ASSUME NEW s, NEW acc \in Identity
  PROVE  /\ parsedLine(s, acc) \in Account \cup {None}
         /\ s \in Colon => parsedLine(s, acc) = None
<1> DEFINE parsed == [user |-> Trim[acc.user], salt |-> Trim[acc.salt],
                      key |-> IF acc.salt \in Comma THEN Mangled
                              ELSE [acc.key EXCEPT !.key = Trim[@]]]
<1>1. /\ acc.user \in Users /\ acc.salt \in Salts \cup Randoms
      /\ acc.key \in [salt : Salts \cup Randoms \cup {None}, key : Keys \cup Randoms]
  BY DEF Identity, KeyValue
<1>2. Trim[acc.user] \in Users /\ Trim[acc.salt] \in Salts \cup Randoms
  BY <1>1, CliAssumption
<1>3. Trim[acc.key.key] \in Keys \cup Randoms
  BY <1>1, CliAssumption
<1>4. [acc.key EXCEPT !.key = Trim[@]] \in KeyValue
  BY <1>1, <1>3 DEF KeyValue
<1>5. parsed \in Account
  BY <1>2, <1>4 DEF Account
<1>6. parsedLine(s, acc) = IF \/ {s, acc.user, acc.salt, acc.key.salt, acc.key.key} \cap Colon # {}
                              \/ parsed.salt = "" /\ parsed.key = NoKey
                           THEN None ELSE parsed
  BY DEF parsedLine
<1> HIDE DEF parsed
<1> QED
  BY <1>5, <1>6

LEMMA WritableIsKept ==
  ASSUME NEW s, NEW acc \in Identity, Whole(acc), Writable(s, acc)
  PROVE  parsedLine(s, acc) = acc /\ acc # None
<1>1. acc.key \in [salt : Salts \cup Randoms \cup {None}, key : Keys \cup Randoms]
  BY DEF Identity, KeyValue
<1>2. /\ {s, acc.user, acc.salt, acc.key.salt, acc.key.key} \cap Colon = {}
      /\ acc.salt \notin Comma
      /\ Trim[acc.user] = acc.user /\ Trim[acc.salt] = acc.salt /\ Trim[acc.key.key] = acc.key.key
  BY DEF Writable
<1>3. [acc.key EXCEPT !.key = Trim[@]] = acc.key
  BY <1>1, <1>2
<1> DEFINE parsed == [user |-> Trim[acc.user], salt |-> Trim[acc.salt],
                      key |-> IF acc.salt \in Comma THEN Mangled
                              ELSE [acc.key EXCEPT !.key = Trim[@]]]
<1>4. parsed = [user |-> acc.user, salt |-> acc.salt, key |-> acc.key]
  BY <1>2, <1>3
<1>5. [user |-> acc.user, salt |-> acc.salt, key |-> acc.key] = acc
  BY DEF Identity
<1>6. ~(parsed.salt = "" /\ parsed.key = NoKey)
  BY <1>4 DEF Whole
<1>7. parsedLine(s, acc) = IF \/ {s, acc.user, acc.salt, acc.key.salt, acc.key.key} \cap Colon # {}
                              \/ parsed.salt = "" /\ parsed.key = NoKey
                           THEN None ELSE parsed
  BY DEF parsedLine
<1> HIDE DEF parsed
<1>8. parsedLine(s, acc) = acc
  BY <1>2, <1>4, <1>5, <1>6, <1>7
<1>9. acc \in Account
  BY DEF Identity, Account
<1> QED
  BY <1>8, <1>9, CliAssumption

\* What register saves: what it was told, or a fresh salt and key.
LEMMA IdentityType ==
  ASSUME NEW c \in Setting, c.user # "", c.salt = "" => c.key.salt = None,
         NEW acc \in Identities(c)
  PROVE  acc \in Identity /\ Whole(acc)
<1>1. CASE c.key # NoKey
  <2>1. acc = [user |-> c.user, salt |-> c.salt, key |-> c.key]
    BY <1>1 DEF Identities
  <2>2. c.user \in Users /\ c.salt \in Salts \cup Randoms /\ c.key \in KeyValue
    BY DEF Setting
  <2>3. acc.user = c.user /\ acc.salt = c.salt /\ acc.key = c.key
    BY <2>1
  <2>4. Whole(acc)
    BY <2>3, <1>1 DEF Whole
  <2> QED
    BY <2>1, <2>2, <2>4 DEF Identity
<1>2. CASE c.key = NoKey
  <2>1. PICK g \in GenKey(env.passphrase) : acc = [user |-> c.user, salt |-> g.salt, key |-> g.key]
    BY <1>2 DEF Identities
  <2>2. g.salt \in Randoms /\ g.key \in KeyValue /\ g.key.salt = None
    BY GenKeyType
  <2>3. g.salt # ""
    BY <2>2, CliAssumption
  <2> QED
    BY <2>1, <2>2, <2>3 DEF Setting, Identity, Whole
<1> QED
  BY <1>1, <1>2

\* What a successful register command changes.
LEMMA RegisterIs ==
  ASSUME CliInv, NEW f \in Flags, runRegister(f)
  PROVE  \E servers \in SUBSET Servers, acc \in Identity :
           /\ Whole(acc)
           /\ accounts' = SaveAccount(servers, acc)
           /\ saved' = Append(saved, [servers |-> servers, acc |-> acc, lines |-> Lines(acc)])
           /\ drawn' \subseteq Randoms
<1> DEFINE c == Split(Given(f))
<1>1. c \in Setting /\ (c.salt = "" => c.key.salt = None)
  BY GivenType, SplitType DEF CliInv, TypeOK
<1>2. ServersOf(c) # Bad /\ c.user # ""
  BY DEF runRegister, Refused
<1>3. ServersOf(c) \subseteq Servers
  <2> HIDE DEF c
  <2> QED
    BY <1>1, <1>2, ServersOfType DEF CliInv, TypeOK
<1>4. PICK acc \in Identities(c) :
        /\ accounts' = SaveAccount(ServersOf(c), acc)
        /\ drawn' = drawn \cup ({acc.salt, acc.key.key} \cap Randoms)
        /\ saved' = Append(saved, [servers |-> ServersOf(c), acc |-> acc, lines |-> Lines(acc)])
  BY DEF runRegister
<1>5. acc \in Identity /\ Whole(acc)
  <2> HIDE DEF c
  <2> QED
    BY <1>1, <1>2, IdentityType
<1>6. drawn' \subseteq Randoms
  BY <1>4 DEF CliInv, TypeOK
<1> QED
  BY <1>3, <1>4, <1>5, <1>6

LEMMA RegisterStep ==
  ASSUME CliInv, NEW f \in Flags, runRegister(f)
  PROVE  CliInv'
<1>1. PICK servers \in SUBSET Servers, acc \in Identity :
        /\ Whole(acc)
        /\ accounts' = SaveAccount(servers, acc)
        /\ saved' = Append(saved, [servers |-> servers, acc |-> acc, lines |-> Lines(acc)])
        /\ drawn' \subseteq Randoms
  BY RegisterIs
<1> DEFINE issue == [servers |-> servers, acc |-> acc, lines |-> Lines(acc)]
<1>2. Lines(acc) \in Identity
  BY DEF Lines, Identity
<1>3. issue \in Issue /\ issue.servers = servers /\ issue.acc = acc /\ issue.lines = Lines(acc)
  BY <1>2 DEF Issue
<1>4. saved \in Seq(Issue) /\ Len(saved) < MaxRegisters /\ Len(saved) \in Nat
  <2>1. Len(saved) < MaxRegisters
    BY DEF runRegister
  <2>2. saved \in Seq(Issue)
    BY DEF CliInv, SavedInv
  <2> QED
    BY <2>1, <2>2
<1> HIDE DEF issue
<1>5. /\ saved' \in Seq(Issue) /\ Len(saved') = Len(saved) + 1
      /\ saved'[Len(saved) + 1] = issue
      /\ \A k \in 1 .. Len(saved) : saved'[k] = saved[k]
      /\ DOMAIN saved' = 1 .. Len(saved) + 1 /\ DOMAIN saved = 1 .. Len(saved)
  <2>1. saved' = Append(saved, issue)
    BY <1>1 DEF issue
  <2> QED
    BY <2>1, <1>3, <1>4
<1>6. /\ DOMAIN accounts' = (DOMAIN accounts \ servers)
                              \cup {s \in servers : parsedLine(s, acc) # None}
      /\ \A s \in DOMAIN accounts' :
           accounts'[s] = IF s \in servers THEN parsedLine(s, acc) ELSE accounts[s]
  BY <1>1 DEF SaveAccount
<1>7. \A s : /\ parsedLine(s, acc) # None => parsedLine(s, acc) \in Account
            /\ s \in Colon => parsedLine(s, acc) = None
  BY ParsedType
<1>8. out'.given \in Setting /\ out'.exit \in 0 .. 2 /\ out'.sent = {}
  <2>1. Given(f) \in Setting
    BY GivenType DEF CliInv, TypeOK
  <2>2. out' = [op |-> f.op, given |-> Given(f), exit |-> 0, sent |-> {}]
    BY DEF runRegister, Ends
  <2> QED
    BY <2>1, <2>2
<1>9. TypeOK'
  <2>0. DOMAIN accounts \subseteq Servers \ Colon /\ \A s \in DOMAIN accounts : accounts[s] \in Account
    BY DEF CliInv, TypeOK, Range
  <2>1. DOMAIN accounts' \subseteq Servers \ Colon
    <3>1. ASSUME NEW s \in DOMAIN accounts' PROVE s \in Servers \ Colon
      <4>1. CASE s \in servers
        <5>1. parsedLine(s, acc) # None
          BY <4>1, <1>6
        <5>2. s \in Colon => parsedLine(s, acc) = None
          BY ParsedType
        <5> QED
          BY <4>1, <5>1, <5>2
      <4>2. CASE s \notin servers
        BY <4>2, <1>6, <2>0
      <4> QED
        BY <4>1, <4>2
    <3> QED
      BY <3>1
  <2>2. Range(accounts') \subseteq Account
    <3>1. ASSUME NEW s \in DOMAIN accounts' PROVE accounts'[s] \in Account
      <4>1. CASE s \in servers
        <5>1. parsedLine(s, acc) # None /\ accounts'[s] = parsedLine(s, acc)
          BY <4>1, <1>6
        <5>2. parsedLine(s, acc) # None => parsedLine(s, acc) \in Account
          BY ParsedType
        <5> QED
          BY <5>1, <5>2
      <4>2. CASE s \notin servers
        <5>1. s \in DOMAIN accounts /\ accounts'[s] = accounts[s]
          BY <4>2, <1>6
        <5> QED
          BY <5>1, <2>0
      <4> QED
        BY <4>1, <4>2
    <3> QED
      BY <3>1 DEF Range
  <2>3. env' \in Environment /\ file' \in Files
    BY DEF runRegister, CliInv, TypeOK
  <2>4. Len(saved') \in 0 .. MaxRegisters
    <3>1. MaxRegisters \in Nat
      BY CliAssumption
    <3> QED
      BY <1>4, <1>5, <3>1
  <2> QED
    BY <2>1, <2>2, <2>3, <2>4, <1>1, <1>8 DEF TypeOK
<1>10. SavedInv'
  <2>1. ASSUME NEW k \in DOMAIN saved'
        PROVE  saved'[k].lines = Lines(saved'[k].acc) /\ Whole(saved'[k].acc)
    <3>1. CASE k \in 1 .. Len(saved)
      BY <3>1, <1>5 DEF CliInv, SavedInv
    <3>2. CASE k = Len(saved) + 1
      BY <3>2, <1>1, <1>3, <1>5
    <3> QED
      BY <3>1, <3>2, <1>4, <1>5
  <2> QED
    BY <2>1, <1>5 DEF SavedInv, Lines, Whole
<1>11. EntryInv'
  <2>1. ASSUME NEW k \in DOMAIN saved', NEW s \in Servers, s \in saved'[k].servers,
               \A j \in DOMAIN saved' : j > k => s \notin saved'[j].servers,
               Writable(s, saved'[k].acc)
        PROVE  s \in DOMAIN accounts' /\ accounts'[s] = saved'[k].acc
    <3>1. CASE k \in 1 .. Len(saved)
      <4>1. s \notin servers
        BY <3>1, <2>1, <1>3, <1>4, <1>5
      <4>2. \A j \in DOMAIN saved : j > k => s \notin saved[j].servers
        BY <3>1, <2>1, <1>4, <1>5
      <4>3. s \in DOMAIN accounts /\ accounts[s] = saved[k].acc
        BY <3>1, <2>1, <4>2, <1>5 DEF CliInv, EntryInv
      <4> QED
        BY <4>1, <4>3, <3>1, <1>5, <1>6
    <3>2. CASE k = Len(saved) + 1
      <4>1. s \in servers /\ saved'[k].acc = acc
        BY <3>2, <2>1, <1>3, <1>5
      <4>2. parsedLine(s, acc) = acc /\ acc # None
        BY <1>1, <2>1, <4>1, WritableIsKept
      <4> QED
        BY <1>6, <4>1, <4>2
    <3> QED
      BY <3>1, <3>2, <1>4, <1>5
  <2>2. \A k, s : Writable(s, saved[k].acc)' <=> Writable(s, saved'[k].acc)
    BY DEF Writable
  <2> QED
    BY <2>1, <2>2 DEF EntryInv
<1>12. SentInv'
  BY <1>8 DEF SentInv
<1> QED
  BY <1>9, <1>10, <1>11, <1>12 DEF CliInv

\* The variables that register printed are an environment.
LEMMA ExportStep ==
  ASSUME CliInv, Export
  PROVE  CliInv'
<1>1. saved \in Seq(Issue) /\ saved # <<>> /\ env \in Environment
  BY DEF CliInv, SavedInv, TypeOK, Export
<1> DEFINE lines == Last(saved).lines
<1>2. lines \in Identity
  <2>1. Last(saved) \in Issue
    BY <1>1 DEF Last
  <2> QED
    BY <2>1 DEF Issue
<1>3. env' = [o \in DOMAIN env |-> IF o \in DOMAIN lines THEN lines[o] ELSE env[o]]
      /\ out' = None /\ UNCHANGED <<file, accounts, drawn, saved>>
  BY DEF Export
<1> HIDE DEF lines
<1>4. env' \in Environment
  BY <1>1, <1>2, <1>3 DEF Environment, Identity
<1> QED
  BY <1>3, <1>4, ShellStep DEF CliInv, TypeOK

LEMMA NextKeeps == CliInv /\ [Next]_vars => CliInv'
<1> SUFFICES ASSUME CliInv, [Next]_vars PROVE CliInv'
  OBVIOUS
<1>0. env \in Environment /\ file \in Files /\ drawn \subseteq Randoms
      /\ Envs \subseteq Environment
  BY CliAssumption DEF CliInv, TypeOK
<1>1. CASE SetEnv
  BY <1>0, <1>1, ShellStep DEF SetEnv
<1>2. CASE WriteServers
  BY <1>0, <1>2, ShellStep DEF WriteServers
<1>3. CASE Export
  BY <1>3, ExportStep
<1>4. ASSUME NEW f \in Flags, run(f)
      PROVE  CliInv'
  <2>1. CASE UsageError(f)
    BY <2>1, <1>0, SilentStep DEF UsageError
  <2>2. CASE BadInput(f)
    BY <2>2, <1>0, SilentStep DEF BadInput
  <2>3. CASE Operate(f)
    BY <2>3, OperateStep
  <2>9. CASE ServeRefused(f)
    BY <2>9, ServeRefusedStep
  <2>4. CASE PrintDigest(f)
    BY <2>4, <1>0, SilentStep DEF PrintDigest
  <2>5. CASE runGenkey(f)
    <3>1. drawn' \subseteq Randoms
      BY <2>5, <1>0 DEF runGenkey
    <3> QED
      BY <2>5, <3>1, SilentStep DEF runGenkey
  <2>6. CASE NotSaved(f)
    <3>1. Ends(f, 1, {}) /\ UNCHANGED <<env, file, accounts, drawn, saved>>
      BY <2>6 DEF NotSaved
    <3>2. drawn' \subseteq Randoms
      BY <3>1, <1>0
    <3> QED
      BY <3>1, <3>2, SilentStep
  <2>7. CASE NoUser(f)
    <3>1. Ends(f, 2, {}) /\ UNCHANGED <<env, file, accounts, drawn, saved>>
      BY <2>7 DEF NoUser
    <3>2. drawn' \subseteq Randoms
      BY <3>1, <1>0
    <3> QED
      BY <3>1, <3>2, SilentStep
  <2>8. CASE runRegister(f)
    BY <2>8, RegisterStep
  <2> QED
    BY <1>4, <2>1, <2>2, <2>3, <2>4, <2>5, <2>6, <2>7, <2>8, <2>9 DEF run
<1>5. CASE UNCHANGED vars
  <2>0. UNCHANGED <<env, file, accounts, drawn, out, saved>>
    BY <1>5 DEF vars
  <2>1. TypeOK'
    BY <2>0 DEF CliInv, TypeOK
  <2>2. SavedInv' /\ EntryInv'
    BY <2>0 DEF CliInv, SavedInv, EntryInv
  <2>3. SentInv'
    BY <2>0 DEF CliInv, SentInv, Requests, ServersOf, account
  <2> QED
    BY <2>1, <2>2, <2>3 DEF CliInv
<1> QED
  BY <1>1, <1>2, <1>3, <1>4, <1>5 DEF Next

LEMMA CliAlways == Spec => []CliInv
BY InitHolds, NextKeeps, PTL DEF Spec

----------------------------------------------------------------------------
(* Theorems *)

(***************************************************************************)
(* The types: every command is one of run's outcomes, every request goes   *)
(* to a server, and the accounts file holds no entry that it cannot hold.  *)
(***************************************************************************)
THEOREM CliTypeCorrect == Spec => []TypeOK
<1>1. CliInv => TypeOK
  BY DEF CliInv
<1> QED
  BY <1>1, CliAlways, PTL

\* The settings of the command that just ended, and the account of its client.
Chosen == Split(out.given)
Signer == buildAccount(out.op, Chosen)
Signed(s) == [server |-> s, op |-> out.op, user |-> account(Signer, Chosen, s).user,
              key |-> account(Signer, Chosen, s).key]

\* The requests of a command that sent some, and how they were signed.
LEMMA SentIs ==
  ASSUME CliInv, out # None, out.sent # {}
  PROVE  /\ ServersOf(Chosen) \subseteq Servers
         /\ Chosen.servers # {} => ServersOf(Chosen) = Chosen.servers
         /\ out.sent = {Signed(s) : s \in ServersOf(Chosen)}
         /\ \/ Signer = None /\ Chosen.user = "" /\ Chosen.key = NoKey
            \/ /\ Signer = [user |-> Chosen.user, salt |-> Chosen.salt, key |-> Chosen.key]
               /\ Signer # None /\ Chosen.user # "" /\ Chosen.key # NoKey
<1>1. Chosen \in Setting
  BY SplitType DEF CliInv, TypeOK, Chosen
<1>2. /\ out.op \in {"check", "report", "revoke", "ping", "serve"}
      /\ Signer # Bad /\ ServersOf(Chosen) # Bad
      /\ out.sent = Requests(out.op, Signer, Chosen)
  BY DEF CliInv, SentInv, Signer, Chosen
<1>3. ServersOf(Chosen) \subseteq Servers
      /\ (Chosen.servers # {} => ServersOf(Chosen) = Chosen.servers)
  BY <1>1, <1>2, ServersOfType DEF CliInv, TypeOK
<1>4. \/ Signer = None /\ Chosen.user = "" /\ Chosen.key = NoKey
      \/ /\ Signer = [user |-> Chosen.user, salt |-> Chosen.salt, key |-> Chosen.key]
         /\ Signer # None /\ Chosen.user # "" /\ Chosen.key # NoKey
  BY <1>1, <1>2, BuiltAccount DEF Signer
<1>5. out.sent = {Signed(s) : s \in ServersOf(Chosen)}
  BY <1>2 DEF Requests, Signed
<1> QED
  BY <1>3, <1>4, <1>5

\* One of them.
LEMMA OneSent ==
  ASSUME CliInv, out # None, NEW w \in out.sent
  PROVE  \E s \in Servers : /\ w.server = s
                            /\ w.user = account(Signer, Chosen, s).user
                            /\ w.key = account(Signer, Chosen, s).key
<1>1. PICK s \in ServersOf(Chosen) : w = Signed(s)
  BY SentIs
<1>2. s \in Servers
  BY SentIs
<1> QED
  BY <1>1, <1>2 DEF Signed

(***************************************************************************)
(* Whoever names servers, by flag or variable, asks those and all of       *)
(* those, or none: run and buildClient never turn to the servers file or   *)
(* the public server instead.                                              *)
(***************************************************************************)
THEOREM NamedServersAreAsked == Spec => []NamedServersOnly
<1>1. ASSUME CliInv PROVE NamedServersOnly
  <2> SUFFICES ASSUME out # None, out.given.servers # {}, out.sent # {}
               PROVE  {w.server : w \in out.sent} = out.given.servers
    BY DEF NamedServersOnly
  <2>1. Chosen.servers = out.given.servers
    BY <1>1, SplitType DEF CliInv, TypeOK, Chosen
  <2>2. out.sent = {Signed(s) : s \in out.given.servers}
    BY <1>1, <2>1, SentIs
  <2>3. \A s : Signed(s).server = s
    BY DEF Signed
  <2> QED
    BY <2>2, <2>3
<1> QED
  BY <1>1, CliAlways, PTL

(***************************************************************************)
(* A command that was told a user or a key signs with this user and this   *)
(* key at every server, in whatever form the key was given, or sends       *)
(* nothing: buildAccount never falls back to anonymous.                    *)
(***************************************************************************)
THEOREM IdentityIsKept == Spec => []SignsAsTold
<1>1. ASSUME CliInv PROVE SignsAsTold
  <2> DEFINE c == out.given
  <2> SUFFICES ASSUME out # None, Explicit(c), c.salt = "" \/ c.key.salt = None,
                      NEW w \in out.sent
               PROVE  w.user = c.user /\ w.key = Plain(c.key.key)
    BY DEF SignsAsTold
  <2>1. c \in Setting
    BY <1>1 DEF CliInv, TypeOK
  <2>2. Chosen.user = c.user /\ Chosen.key = Plain(c.key.key) /\ Chosen.key.key = c.key.key
    BY <2>1, SplitType DEF Chosen
  <2>3. ~(Chosen.user = "" /\ Chosen.key = NoKey)
    BY <2>2, NoKeyType DEF Explicit
  <2>4. Signer # None /\ Signer.user = Chosen.user /\ Signer.key = Chosen.key
    <3>1. Signer # None
          /\ Signer = [user |-> Chosen.user, salt |-> Chosen.salt, key |-> Chosen.key]
      BY <1>1, <2>3, SentIs
    <3> QED
      BY <3>1
  <2>5. PICK s \in Servers : /\ w.user = account(Signer, Chosen, s).user
                             /\ w.key = account(Signer, Chosen, s).key
    BY <1>1, OneSent
  <2>6. account(Signer, Chosen, s) = Signer
    BY <2>4 DEF account
  <2> QED
    BY <2>2, <2>4, <2>5, <2>6
<1> QED
  BY <1>1, CliAlways, PTL

LEMMA MaxOfIssues ==
  ASSUME NEW n \in Nat, NEW S, S \subseteq 1 .. n, S # {}
  PROVE  Max(S) \in S /\ \A i \in S : i <= Max(S)
<1> DEFINE D == {n - i : i \in S}
           Less == {p \in Nat \X Nat : p[1] < p[2]}
<1>1. D \subseteq Nat /\ D # {}
  <2>1. \A i \in S : n - i \in Nat
    OBVIOUS
  <2> QED
    BY <2>1
<1>2. IsWellFoundedOn(Less, Nat)
  BY NatLessThanWellFounded, Zenon DEF OpToRel
<1>3. PICK d \in D : \A e \in D : <<e, d>> \notin Less
  <2> HIDE DEF D, Less
  <2> QED
    BY <1>1, <1>2, WFMin
<1>4. PICK m \in S : d = n - m
  OBVIOUS
<1>5. ASSUME NEW i \in S
      PROVE  m >= i
  <2>1. n - i \in D /\ n - i \in Nat /\ d \in Nat
    BY <1>1
  <2>2. ~(n - i < d)
    BY <1>3, <2>1
  <2> QED
    BY <1>4, <2>2
<1> QED
  BY <1>5 DEF Max

(***************************************************************************)
(* Whatever commands lie between, a command without an identity of its own *)
(* signs to each server with what the last register command for that       *)
(* server issued, if its names survive the file, over any number of        *)
(* registrations for any overlapping sets of servers: EntryInv is what     *)
(* SaveAccount's merge keeps.                                              *)
(***************************************************************************)
THEOREM LastIssueIsUsed == Spec => []RegisteredIsUsed
<1>1. ASSUME CliInv PROVE RegisteredIsUsed
  <2> DEFINE c == out.given
             issues(s) == {k \in DOMAIN saved : s \in saved[k].servers}
  <2> SUFFICES ASSUME out # None, ~Explicit(c), c.home, NEW w \in out.sent, issues(w.server) # {},
                      Writable(w.server, saved[Max(issues(w.server))].acc)
               PROVE  /\ w.user = saved[Max(issues(w.server))].acc.user
                      /\ w.key = saved[Max(issues(w.server))].acc.key
    BY DEF RegisteredIsUsed
  <2>1. c \in Setting
    BY <1>1 DEF CliInv, TypeOK
  <2>2. Chosen.user = "" /\ Chosen.home
    BY <2>1, SplitType DEF Explicit, Chosen
  <2>3. Signer = None
    BY <1>1, <2>2, SentIs
  <2>4. PICK s \in Servers : /\ w.server = s
                             /\ w.user = account(Signer, Chosen, s).user
                             /\ w.key = account(Signer, Chosen, s).key
    BY <1>1, OneSent
  <2>6. saved \in Seq(Issue) /\ Len(saved) \in Nat /\ issues(s) \subseteq 1 .. Len(saved)
    BY <1>1 DEF CliInv, SavedInv
  <2> DEFINE last == Max(issues(s))
  <2>7. last \in issues(s) /\ \A i \in issues(s) : i <= last
    <3> HIDE DEF issues
    <3> QED
      BY <2>4, <2>6, MaxOfIssues
  <2>8. last \in DOMAIN saved /\ s \in saved[last].servers /\ Writable(s, saved[last].acc)
    BY <2>4, <2>7
  <2>9. \A j \in DOMAIN saved : j > last => s \notin saved[j].servers
    <3> HIDE DEF last
    <3> QED
      BY <2>6, <2>7, <2>8
  <2>10. s \in DOMAIN accounts /\ accounts[s] = saved[last].acc
    <3> HIDE DEF last
    <3> QED
      BY <1>1, <2>8, <2>9 DEF CliInv, EntryInv
  <2>11. account(Signer, Chosen, s) = saved[last].acc
    BY <2>2, <2>3, <2>10 DEF account
  <2> QED
    BY <2>4, <2>11
<1> QED
  BY <1>1, CliAlways, PTL

(***************************************************************************)
(* The lines that register prints, in the environment, make the requests   *)
(* that the saved account makes: run does not split or refuse what         *)
(* runRegister issued into something else.                                 *)
(***************************************************************************)
THEOREM EnvIsLikeFile == Spec => []EnvSignsLikeFile
<1>1. ASSUME CliInv PROVE EnvSignsLikeFile
  <2> DEFINE c == out.given
             acc == Last(saved).acc
  <2> SUFFICES ASSUME out # None, saved # <<>>,
                      [user |-> c.user, salt |-> c.salt, key |-> c.key] = Last(saved).lines,
                      NEW w \in out.sent
               PROVE  w.user = acc.user /\ w.key = acc.key
    BY DEF EnvSignsLikeFile
  <2>1. c \in Setting
    BY <1>1 DEF CliInv, TypeOK
  <2>2. Last(saved).lines = Lines(acc) /\ Whole(acc)
    <3>1. saved \in Seq(Issue) /\ Len(saved) \in DOMAIN saved
      BY <1>1 DEF CliInv, SavedInv
    <3> QED
      BY <1>1, <3>1 DEF CliInv, SavedInv, Last
  <2>3. c.user = acc.user /\ c.salt = acc.salt /\ c.key = acc.key
    <3> HIDE DEF c, acc
    <3> QED
      BY <2>2 DEF Lines
  <2>4. Chosen = c /\ Chosen.user # ""
    BY <2>1, <2>2, <2>3, SplitType DEF Whole, Chosen
  <2>5. Signer # None /\ Signer.user = acc.user /\ Signer.key = acc.key
    <3>1. Signer # None
          /\ Signer = [user |-> Chosen.user, salt |-> Chosen.salt, key |-> Chosen.key]
      BY <1>1, <2>4, SentIs
    <3> QED
      BY <3>1, <2>3, <2>4
  <2>6. PICK s \in Servers : /\ w.user = account(Signer, Chosen, s).user
                             /\ w.key = account(Signer, Chosen, s).key
    BY <1>1, OneSent
  <2>7. account(Signer, Chosen, s) = Signer
    BY <2>5 DEF account
  <2> QED
    BY <2>5, <2>6, <2>7
<1> QED
  BY <1>1, CliAlways, PTL

============================================================================
