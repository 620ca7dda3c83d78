------------------------------ MODULE MCDigest ------------------------------
\* Mails for Digest.
EXTENDS Digest

Leaf(type, cte, charset, body) ==
  [type |-> type, cte |-> cte, charset |-> charset, body |-> body,
   quoted |-> <<"a", "LF", "u", "LF", "a", "NB", "LF", "a">>, parsed |-> FALSE, kids |-> <<>>]

Plain(body) == Leaf("text", "none", "utf8", body)

Container(type, parsed, kids) ==
  [Leaf(type, "none", "ascii", <<"a", "1", "LF", "hi", "1">>)
     EXCEPT !.parsed = parsed, !.kids = kids]

Mail(root) == Container("message", TRUE, <<root>>)

Texts(alphabet, n) == BoundedSeq(alphabet, n)

\* Every text of some characters, and every base64 body with line breaks, some
\* of them malformed.
TextParts ==
  {Leaf("text", x[1], "utf8", x[2]) :
     x \in ({"none"} \X Texts({"a", "1", "@", ":", " ", "NUL"}, 5))
             \cup ({"none"} \X Texts({"a", "1", "CR", "LF", "FS", "LS"}, 5))
             \cup ({"none"} \X Texts({"a", "<s>", "</s>", "<t>", "VT", "US"}, 5))
             \cup ({"base64"} \X Texts({"a", "1", "CR", "LF"}, 6))}

\* Parts of 0 to 9 lines that differ.
Numbered(i) == [k \in 1 .. 8 |-> IF k % 2 = 0 THEN " "
                                 ELSE IF (i \div (2 ^ (k \div 2))) % 2 = 0 THEN "a" ELSE "1"]
LineParts ==
  {Plain(FlattenSeq([i \in 1 .. n |-> Append(Numbered(i), "LF")])) : n \in 0 .. 9}

\* Every kind of part, and up to two levels of them.
Leaves ==
  {Leaf(type, cte, cs, <<"1", "hi", "a">>) :
     type \in {"text", "unparsable", "html", "other"},
     cte \in {"none", "base64", "quoted-printable"}, cs \in {"ascii", "utf8", "known"}}
    \cup {Leaf("text", "base64", "utf8", <<"a", "a", "LF", "1", "a", "1">>),
          Leaf("html", "none", "utf8", <<"a", "1", "<s>", "1", "</s>", "1", "1">>)}

Few == {Plain(<<"a", "1">>), Leaf("other", "base64", "ascii", <<"1", "1">>),
        Leaf("html", "none", "utf8", <<"a", "<s>", "1", "</s>", "a">>)}

Level1 == Few \cup {Container("multipart", parsed, kids) : parsed \in BOOLEAN,
                                                            kids \in Texts(Few, 2)}
              \cup {Container("message", parsed, <<p>>) : parsed \in BOOLEAN, p \in Few}

TreeParts == Leaves \cup Level1
               \cup {Container("multipart", TRUE, <<p, q>>) : p, q \in Level1}

\* Each of them as the only part of a mail.
AllMails == {Mail(p) : p \in LineParts \cup TreeParts \cup TextParts}

============================================================================
