------------------------------- MODULE MCCli -------------------------------
\* An instance of Cli for TLC.
EXTENDS Cli, TLC

TwoParts == [salt |-> "s1", key |-> "k1"]
SaltOnly == [salt |-> "s1", key |-> ""]

DerivedKeys == [r \in Randoms |-> "d1"]

Trimmed == [n \in Users \cup Salts \cup Keys \cup Randoms |-> IF n = " bob" THEN "bob" ELSE n]

Flag(op, servers, user, key, salt) ==
  [op |-> op, home |-> None, servers |-> servers, user |-> user, key |-> key, salt |-> salt]

\* check with every combination of settings, register as a user would do it for
\* a first, another or an issued key, or with names that the accounts file changes
\* or cannot hold, the other commands without flags.
SomeFlags ==
  {Flag("check", servers, user, key, salt) :
     servers \in {None, {"a", "v"}, {"a", Bad}}, user \in {None, "bob"},
     key \in {None, Plain("k1"), TwoParts}, salt \in {None, "s2"}}
    \cup {Flag("register", servers, "bob", key, None) :
            servers \in {None, {"a", "v"}}, key \in {None, TwoParts}}
    \cup {Flag("register", {"a"}, "b:b", Plain("k1"), "s1"),
          Flag("register", {"a"}, "bob", Plain("k1"), "s,t"),
          Flag("register", None, " bob", Plain("k1"), "s1")}
    \cup {Flag(op, None, None, None, None) :
            op \in {"report", "ping", "digest", "genkey", "serve", "register", "other"}}
    \cup {Flag("check", {}, "", NoKey, ""),
          Flag("check", None, None, SaltOnly, None), Flag("register", None, "bob", SaltOnly, None),
          [Flag("register", None, "bob", None, None) EXCEPT !.home = FALSE]}

Unset == [home |-> TRUE, servers |-> {}, user |-> "", key |-> NoKey, salt |-> "",
          passphrase |-> FALSE]

SomeEnvs ==
  {Unset,
   [Unset EXCEPT !.user = "alice", !.key = Plain("k2")],
   [Unset EXCEPT !.servers = {"p"}, !.passphrase = TRUE],
   [Unset EXCEPT !.user = "alice"]}

SomeFiles == {None, {Bad}, {"a", Bad, "v"}}

CONSTANTS r1, r2

RandomsAlike == Permutations({r1, r2})

============================================================================
