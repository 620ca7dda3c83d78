----------------------------- MODULE MCAccounts -----------------------------
\* Instances of Accounts for TLC.
EXTENDS Accounts, TLC

CONSTANTS r1, r2, r3, x1, x2

alice == [user |-> "alice", salt |-> "salt", key |-> "k1"]
bob == [user |-> "bob", salt |-> "salt", key |-> "k2"]
odd == [user |-> " bob", salt |-> "s,t", key |-> "k2"]

\* v6 is an IPv6 host, whose name has colons.
ThreeCommands == (r1 :> <<"a">>) @@ (r2 :> <<"b", "a">>) @@ (r3 :> <<"v6", "b">>)
OneEach == (r1 :> <<"a">>) @@ (r2 :> <<"b">>)

TwoIdentities == (r1 :> alice) @@ (r2 :> bob)
ThreeIdentities == TwoIdentities @@ (r3 :> odd)

Trimmed == [n \in Users \cup Salts \cup Keys |-> IF n = " bob" THEN "bob" ELSE n]

Comment == [addr |-> None, acc |-> None, long |-> FALSE]
KeyWithoutComma == [Comment EXCEPT !.addr = "a"]
Entry(s, acc) == [addr |-> s, acc |-> acc, long |-> FALSE]

\* No file, one edited by hand (a comment, an entry without a salt, two entries
\* of one server), and one with a line that is too long for the scanner, which goes
\* when its server is registered again.
NoFile == {None}
AnyFiles ==
  {None,
   <<Comment, Entry("b", alice), KeyWithoutComma, Entry("b", bob)>>,
   <<Entry("b", bob), [Entry("a", bob) EXCEPT !.long = TRUE], Entry("b", alice)>>}

============================================================================
