------------------------------- MODULE Digest -------------------------------
(***************************************************************************)
(* Compute (pyzor/digest.go): the MIME tree of a mail is walked, each part *)
(* gives a payload, the lines of the payloads are normalized, and a choice *)
(* of the lines is hashed.  SHA1 is left out: the digest is the sequence   *)
(* of the lines that are fed to it.                                        *)
(*                                                                         *)
(* A text is a sequence of classes of characters:                          *)
(*   "a" a letter a-z, "1" another visible one, "@", ":", "NUL",           *)
(*   "u" a character above U+007F, "hi" a byte that is not valid UTF-8,    *)
(*   " ", "US" (U+001F) and "NB" blanks (NB: above U+007F), and the line   *)
(*   breaks "CR", "LF", "VT" (\v, \f), "FS" (U+001C to U+001E) and "LS"    *)
(*   (those above U+007F), and in HTML the tags "<s>" (script or style),   *)
(*   "</s>" and "<t>" (any other).                                         *)
(*                                                                         *)
(* A part is a record.  net/mail, mime, the decoders and the HTML          *)
(* tokenizer are external: kids are the parts that the multipart reader    *)
(* returns, quoted is what the quoted-printable reader returns, which is   *)
(* cut short where it finds an error (the code drops the error).           *)
(***************************************************************************)
EXTENDS Integers, SequencesExt

CONSTANTS
  Messages,        \* the mails
  MaxDepth,        \* parts are nested at most so deep in a mail
  longRun,         \* a run of that many visible characters is removed (10)
  minLineLength,   \* shorter lines are not hashed (8)
  atomicNumLines,  \* up to that many lines are all hashed (4)
  Bad              \* the decoded form of malformed base64; no digest yet

Breaks == {"CR", "LF", "VT", "FS", "LS"}
Blank == Breaks \cup {" ", "US", "NB"}
Tags == {"<s>", "</s>", "<t>"}
NonASCII == {"u", "hi", "NB", "LS"}
Chars == Blank \cup Tags \cup NonASCII \cup {"a", "1", "@", ":", "NUL"}

\* The parts in which parts are nested at most n deep.
PartsOf[n \in 0 .. MaxDepth] ==
  [type : STRING, cte : STRING, charset : STRING, body : Seq(Chars), quoted : Seq(Chars),
   parsed : BOOLEAN, kids : IF n = 0 THEN {<<>>} ELSE Seq(PartsOf[n - 1])]

Parts == PartsOf[MaxDepth]

DigestAssumption ==
  /\ MaxDepth \in Nat
  /\ Messages \subseteq Parts
  /\ {longRun, minLineLength, atomicNumLines} \subseteq Nat \ {0}
  /\ Bad \notin Seq(Seq(Chars))

ASSUME DigestAssumption

VARIABLES
  msg,       \* the mail
  parts,     \* the parts still to walk, the next one first
  payloads,  \* what the walk has collected
  read,      \* how many payloads were split into lines
  lines,     \* the normalized lines that count
  digest     \* what was hashed

vars == <<msg, parts, payloads, read, lines, digest>>

----------------------------------------------------------------------------
(* Lines.  The loops over a text are left folds: the state so far and the  *)
(* next character (or position) give the next state.                       *)

\* The elements of s that are in wanted.
Sift(s, wanted) ==
  FoldLeft(LAMBDA kept, c : IF c \in wanted THEN Append(kept, c) ELSE kept, <<>>, s)

\* Mutant of isPySpace: ASCII blanks only.
isPySpaceASCII(c) == c \in Blank \ NonASCII

isPySpace(c) == c \in Blank

Visible(c) == ~isPySpace(c)

Kept(s, cut) ==
  LET left == Sift([i \in DOMAIN s |-> i], DOMAIN s \ cut)
  IN [k \in DOMAIN left |-> s[left[k]]]

\* The positions of the token (run of visible characters) around position i.
Token(s, i) == {j \in DOMAIN s : \A k \in (i .. j) \cup (j .. i) : Visible(s[k])}

\* One turn of splitLines; cr: the last character was a CR, which swallows an LF.
SplitTurn(a, c) ==
  IF c = "LF" /\ a.cr THEN [a EXCEPT !.cr = FALSE]
  ELSE IF c \in Breaks
  THEN [out |-> Append(a.out, a.cur), cur |-> <<>>, cr |-> c = "CR"]
  ELSE [out |-> a.out, cur |-> Append(a.cur, c), cr |-> FALSE]

SplitLoop(s) == FoldLeft(SplitTurn, [out |-> <<>>, cur |-> <<>>, cr |-> FALSE], s)

splitLines(s) ==
  LET end == SplitLoop(s)
  IN IF end.cur = <<>> THEN end.out ELSE Append(end.out, end.cur)

\* A run that ends before position i + 1 is cut if it is long.
CutRun(s, a, i) ==
  IF a.runes >= longRun
  THEN [a EXCEPT !.out = @ \o SubSeq(s, a.last + 1, a.runStart - 1), !.last = i]
  ELSE a

\* One turn of removeLongRuns, at position i.
LongRunTurn(s, a, i) ==
  IF isPySpace(s[i]) THEN [CutRun(s, a, i - 1) EXCEPT !.runes = 0]
  ELSE [a EXCEPT !.runStart = IF a.runes = 0 THEN i ELSE @, !.runes = @ + 1]

LongRunLoop(s) ==
  FoldLeftDomain(LAMBDA a, i : LongRunTurn(s, a, i),
                 [runStart |-> 0, runes |-> 0, last |-> 0, out |-> <<>>], s)

\* Mutant of removeLongRuns: no look at a run that ends with the line.
removeLongRunsInside(s) ==
  LET end == LongRunLoop(s)
  IN end.out \o SubSeq(s, end.last + 1, Len(s))

removeLongRuns(s) ==
  LET end == CutRun(s, LongRunLoop(s), Len(s))
  IN end.out \o SubSeq(s, end.last + 1, Len(s))

\* emailPtrn, greedy on both sides: a whole token with an @ strictly inside.
removeEmails(s) ==
  Kept(s, {i \in DOMAIN s : Visible(s[i]) /\
             \E j \in Token(s, i) : s[j] = "@" /\ {j - 1, j + 1} \subseteq Token(s, i)})

\* urlPtrn: from the letters before a colon to the end of the token.
removeURLs(s) ==
  Kept(s, {i \in DOMAIN s : Visible(s[i]) /\
             \E p \in Token(s, i) : \E q \in Token(s, i) :
               /\ p <= i /\ p < q
               /\ s[q] = ":" /\ q + 1 \in Token(s, i)
               /\ \A k \in p .. q - 1 : s[k] = "a"})

removePyWhitespace(s) == Sift(s, {c \in Chars : Visible(c)})

WithoutNUL(s) == Sift(s, Chars \ {"NUL"})

normalize(s) ==
  removePyWhitespace(removeURLs(removeEmails(removeLongRuns(WithoutNUL(s)))))

shouldHandleLine(s) == Len(s) >= minLineLength

\* The lines that one payload adds.
WithLine(handled, line) ==
  LET norm == normalize(line)
  IN IF shouldHandleLine(norm) THEN Append(handled, norm) ELSE handled

HandledLines(text) == FoldLeft(WithLine, <<>>, splitLines(text))

----------------------------------------------------------------------------
(* Which lines are hashed *)

digestSpec == <<[offset |-> 20, length |-> 3], [offset |-> 60, length |-> 3]>>

\* The indexes start .. start + length - 1 that exist among n lines.
Window(spec, n) ==
  LET start == (spec.offset * n) \div 100
      length == IF start + spec.length <= n THEN spec.length ELSE n - start
  IN [i \in 1 .. length |-> start + i]

\* Mutant of Pieces: < for <=.
PiecesOffByOne(n) ==
  IF n < atomicNumLines
  THEN [i \in 1 .. n |-> i]
  ELSE Window(digestSpec[1], n) \o Window(digestSpec[2], n)

Pieces(n) ==
  IF n <= atomicNumLines
  THEN [i \in 1 .. n |-> i]
  ELSE Window(digestSpec[1], n) \o Window(digestSpec[2], n)

----------------------------------------------------------------------------
(* Parts *)

\* A Content-Type that is missing or cannot be parsed means text/plain, and its
\* parameters are lost.
MediaType(p) == IF p.type = "unparsable" THEN "text" ELSE p.type
Charset(p) == IF p.type = "unparsable" THEN "ascii" ELSE p.charset

\* A small base64: two characters of the alphabet are one byte.
StdEncoding(s) ==
  IF Len(s) % 2 = 1 THEN Bad
  ELSE [k \in 1 .. Len(s) \div 2 |->
          CASE s[2 * k - 1] = "a" /\ s[2 * k] = "a" -> "a"
            [] s[2 * k - 1] = "a" /\ s[2 * k] = "1" -> "LF"
            [] s[2 * k - 1] = "1" /\ s[2 * k] = "a" -> "1"
            [] OTHER -> "hi"]

\* Mutant of filterBase64: only blanks that mail programs insert are dropped.
filterBase64Spaces(s) == Sift(s, Chars \ {" ", "LF"})

filterBase64(s) == Sift(s, {"a", "1"})

\* Malformed base64 stays as it is; of a quoted-printable body the reader's output is
\* taken, whatever it read before an error.
decodeCTE(p) ==
  LET decoded == StdEncoding(filterBase64(p.body))
  IN CASE p.cte = "base64" -> IF decoded = Bad THEN p.body ELSE decoded
       [] p.cte = "quoted-printable" -> p.quoted
       [] OTHER -> p.body

\* The known codec stands for a one-byte one: every byte is a character.
decodeCharset(s, cs) ==
  CASE cs = "utf8" -> Sift(s, Chars \ {"hi"})
    [] cs = "known" -> [i \in DOMAIN s |-> IF s[i] \in NonASCII THEN "u" ELSE s[i]]
    [] OTHER -> Sift(s, Chars \ NonASCII)

\* The blanks that bytes.TrimSpace knows.
Trimmable == Blank \ {"FS", "US"}

TrimSpace(s) ==
  LET shown == {i \in DOMAIN s : s[i] \notin Trimmable}
  IN IF shown = {} THEN <<>> ELSE SubSeq(s, Min(shown), Max(shown))

\* The text token collected so far joins the output, after a blank.
WithToken(a) ==
  LET t == TrimSpace(a.tok)
  IN IF a.collect /\ t # <<>>
     THEN a.out \o (IF a.out = <<>> THEN <<>> ELSE <<" ">>) \o t
     ELSE a.out

\* Mutant of collectAfter: the end tag does not count.
collectAfterNever(tag, collect) == collect /\ tag # "<s>"

collectAfter(tag, collect) == IF tag = "<t>" THEN collect ELSE tag = "</s>"

\* One turn of the tokenizer loop; tok: the characters of the current text token.
TokenTurn(a, c) ==
  IF c \in Tags
  THEN [out |-> WithToken(a), tok |-> <<>>, collect |-> collectAfter(c, a.collect)]
  ELSE [a EXCEPT !.tok = Append(@, c)]

TokenLoop(s) == FoldLeft(TokenTurn, [out |-> <<>>, tok |-> <<>>, collect |-> TRUE], s)

normalizeHTMLPart(s) == WithToken(TokenLoop(s))

\* A mail, or an embedded one, that cannot be parsed is one text; a multipart
\* without a boundary is digested raw.
HasKids(p) == p.type \in {"message", "multipart"} /\ p.parsed

Payload(p) ==
  LET text == decodeCharset(decodeCTE(p), Charset(p))
  IN CASE MediaType(p) = "text" -> text
       [] MediaType(p) = "html" -> normalizeHTMLPart(text)
       [] OTHER -> p.body

----------------------------------------------------------------------------
Init ==
  /\ msg \in Messages
  /\ parts = <<msg>>
  /\ payloads = <<>>
  /\ read = 0
  /\ lines = <<>>
  /\ digest = Bad

\* Mutant of walkPart: the parts inside come after their siblings.
walkPartBreadthFirst ==
  /\ parts # <<>>
  /\ IF HasKids(Head(parts))
     THEN /\ parts' = Tail(parts) \o Head(parts).kids
          /\ UNCHANGED payloads
     ELSE /\ parts' = Tail(parts)
          /\ payloads' = Append(payloads, Payload(Head(parts)))
  /\ UNCHANGED <<msg, read, lines, digest>>

\* walkPart and digestPayloads: the recursion, one part at a time.
walkPart ==
  /\ parts # <<>>
  /\ IF HasKids(Head(parts))
     THEN /\ parts' = Head(parts).kids \o Tail(parts)
          /\ UNCHANGED payloads
     ELSE /\ parts' = Tail(parts)
          /\ payloads' = Append(payloads, Payload(Head(parts)))
  /\ UNCHANGED <<msg, read, lines, digest>>

\* The loop of Compute over the payloads.
ReadLines ==
  /\ parts = <<>> /\ read < Len(payloads)
  /\ read' = read + 1
  /\ lines' = lines \o HandledLines(payloads[read + 1])
  /\ UNCHANGED <<msg, parts, payloads, digest>>

\* The lines that Compute feeds to the hash; rstrip finds no blank in them.
Hash ==
  /\ parts = <<>> /\ read = Len(payloads) /\ digest = Bad
  /\ digest' = [k \in DOMAIN Pieces(Len(lines)) |-> lines[Pieces(Len(lines))[k]]]
  /\ UNCHANGED <<msg, parts, payloads, read, lines>>

Next ==
  \/ walkPart
  \/ ReadLines
  \/ Hash

Spec == Init /\ [][Next]_vars

----------------------------------------------------------------------------
\* Type correctness; a line that counts holds no blank and is long enough.
TypeOK ==
  /\ payloads \in Seq(Seq(Chars))
  /\ read \in 0 .. Len(payloads)
  /\ lines \in Seq(Seq(Chars \ Blank))
  /\ \A i \in DOMAIN lines : Len(lines[i]) >= minLineLength
  /\ digest \in {Bad} \cup Seq(Seq(Chars))

\* The tokens of a text, in order: a blank ends the token before it.
WithWord(a) == IF a.word = <<>> THEN a.words ELSE Append(a.words, a.word)

WordTurn(a, c) ==
  IF Visible(c)
  THEN [a EXCEPT !.word = Append(@, c)]
  ELSE [words |-> WithWord(a), word |-> <<>>]

WordLoop(s) == FoldLeft(WordTurn, [words |-> <<>>, word |-> <<>>], s)

Tokens(s) == WithWord(WordLoop(s))

\* What is left of one token: none of a long one or an address, of a URL what
\* precedes its scheme.
Reduced(t) ==
  LET schemes == {p \in DOMAIN t : \E q \in p + 1 .. Len(t) - 1 :
                    t[q] = ":" /\ \A k \in p .. q - 1 : t[k] = "a"}
  IN IF Len(t) >= longRun \/ \E j \in 2 .. Len(t) - 1 : t[j] = "@" THEN <<>>
     ELSE IF schemes = {} THEN t
     ELSE SubSeq(t, 1, Min(schemes) - 1)

(***************************************************************************)
(* The three removals work token by token: whatever NULs hide inside it,   *)
(* and however its tokens are parted, a normalized line is what each token *)
(* leaves, in order.  (The order of the removals in normalize and the      *)
(* index arithmetic of removeLongRuns, digest.go:98-143.)                  *)
(***************************************************************************)
NormalizesByToken ==
  \A k \in DOMAIN payloads : \A i \in DOMAIN splitLines(payloads[k]) :
    LET line == splitLines(payloads[k])[i]
        tokens == Tokens(WithoutNUL(line))
    IN normalize(line) = FlattenSeq([j \in DOMAIN tokens |-> Reduced(tokens[j])])

WithEndings(text, ending) ==
  FlattenSeq([i \in DOMAIN text |-> IF text[i] = "LF" THEN ending ELSE <<text[i]>>])

(***************************************************************************)
(* A part whose lines a relay ends with CR LF instead of LF gives the same *)
(* lines, with LFs and CR LFs mixed and in base64 too: a decoding error    *)
(* or a line break at the wrong character would show (splitLines,          *)
(* filterBase64, normalizeHTMLPart, digest.go:193-221,336).  What the      *)
(* quoted-printable reader makes of a body is its own affair.              *)
(***************************************************************************)
LineEndingsIrrelevant ==
  parts # <<>> =>
    LET p == Head(parts)
    IN ~HasKids(p) /\ p.cte # "quoted-printable" =>
         HandledLines(Payload([p EXCEPT !.body = WithEndings(@, <<"CR", "LF">>)]))
           = HandledLines(Payload(p))

\* The text parts with their tags, and all that a script or style hides, blank.
Blanked(s) ==
  [i \in DOMAIN s |->
     LET before == {j \in 1 .. i : s[j] \in {"<s>", "</s>"}}
     IN IF s[i] \in Tags \/ (before # {} /\ s[Max(before)] = "<s>") THEN " " ELSE s[i]]

(***************************************************************************)
(* Of an HTML part the digest sees the words outside scripts and styles,   *)
(* and a tag parts words (normalizeHTMLPart, digest.go:436): the texts on  *)
(* its two sides are not one address, URL or long run.                     *)
(***************************************************************************)
TagsPartWords ==
  \A k \in DOMAIN payloads :
    Tokens(normalizeHTMLPart(payloads[k])) = Tokens(Blanked(payloads[k]))

(***************************************************************************)
(* What is hashed: all lines of a short mail; of a longer one two windows, *)
(* in order, never empty and never beyond the end, that share a line only  *)
(* if there are 5 or 6 lines.  So a mail in which some line counts does    *)
(* not get the digest of an empty mail (digest.go:66-80).                  *)
(***************************************************************************)
PieceChoice ==
  digest # Bad =>
    LET n == Len(lines)
        chosen == Pieces(n)
    IN /\ n <= atomicNumLines => digest = lines
       /\ n > 0 => digest # <<>>
       /\ Len(digest) = Len(chosen) /\ Range(chosen) \subseteq 1 .. n
       /\ \A i, j \in DOMAIN chosen :
            i < j => chosen[i] < chosen[j] \/ n \in atomicNumLines + 1 .. 6

\* The parts that hold a payload, in the order of the mail.
LeavesOf[p \in Parts] ==
  IF HasKids(p) THEN FlattenSeq([i \in DOMAIN p.kids |-> LeavesOf[p.kids[i]]]) ELSE <<p>>

Payloads(leaves) == [i \in DOMAIN leaves |-> Payload(leaves[i])]

(***************************************************************************)
(* The walk neither loses nor reorders a part, however containers and      *)
(* embedded mails are nested (walkPart, digest.go:235-300): the payloads   *)
(* found and those still to come are the leaves of the mail in its order.  *)
(***************************************************************************)
LeavesInOrder ==
  LET left == FlattenSeq([i \in DOMAIN parts |-> LeavesOf[parts[i]]])
  IN payloads \o Payloads(left) = Payloads(LeavesOf[msg])

============================================================================
