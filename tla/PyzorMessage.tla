--------------------------- MODULE PyzorMessage ---------------------------
(***************************************************************************)
(* The reply side of the pyzor wire protocol (pyzor/message.go) and the    *)
(* verdicts computed from the replies (pyzor/client.go): parsing and       *)
(* validating one datagram, turning it into a ServerResult, and folding    *)
(* the ServerResults of one operation into Hit, AllOK, Count and           *)
(* Whitelist.  Constant operators only; PyzorClient uses them.             *)
(*                                                                         *)
(* A datagram is, for each key that occurs in it, the sequence of the      *)
(* values its lines give that key, in order.  Lines of different keys do   *)
(* not affect each other and lines without a colon are skipped, so nothing *)
(* else of the text matters.  A value is an integer, or NotNum when the    *)
(* text is not a number.                                                   *)
(***************************************************************************)
EXTENDS Integers, Sequences, FiniteSetsExt

CONSTANTS
  NotNum,   \* the value of a field whose text is not an integer
  MaxInt    \* the largest int (2^63 - 1 in the build); the smallest is -MaxInt - 1

ASSUME MessageAssumption == MaxInt \in Nat /\ MaxInt >= 65535 /\ NotNum \notin Int

Keys == {"Code", "Diag", "PV", "Thread", "Count", "WL-Count"}

\* Thread ids below this are reserved for server error replies.
threadOKMin == 1024

\* The thread ids generateThread can return.
ThreadIds == threadOKMin .. 65535

----------------------------------------------------------------------------
\* strconv.Atoi: the error, and the value returned beside it (0 for text that
\* is no number, the nearest bound for a number out of range).
IntRange == (-MaxInt - 1) .. MaxInt

AtoiFails(v) == v \notin IntRange

Atoi(v) == IF v \in IntRange THEN v
           ELSE IF v = NotNum THEN 0
           ELSE IF v > 0 THEN MaxInt ELSE -MaxInt - 1

\* parseResponse: a repeated key keeps the value of its last line.
parseResponse(packet) == [k \in DOMAIN packet |-> packet[k][Len(packet[k])]]

\* intField: a missing field reads as "", which is no number.
intField(fields, key) == IF key \in DOMAIN fields THEN Atoi(fields[key]) ELSE 0

code(fields) == intField(fields, "Code")

\* Mutant of validate: any thread id will do.
validateNoThread(fields, expectedThread) ==
  {"Code", "Diag", "PV", "Thread"} \subseteq DOMAIN fields

\* validate: complete, and a Thread in the ok range is the request's own.
validate(fields, expectedThread) ==
  /\ {"Code", "Diag", "PV", "Thread"} \subseteq DOMAIN fields
  /\ ~AtoiFails(fields["Thread"])
  /\ Atoi(fields["Thread"]) >= threadOKMin => Atoi(fields["Thread"]) = expectedThread

\* Mutant of requireCounts: the counts are not looked at.
requireNothing(fields) == TRUE

\* requireCounts: both counts are there and are integers.
requireCounts(fields) ==
  \A k \in {"Count", "WL-Count"} : k \in DOMAIN fields /\ ~AtoiFails(fields[k])

----------------------------------------------------------------------------
\* ServerResult; Server and Diag are only printed.  zeroResult is what
\* make([]ServerResult, n) holds before a goroutine writes its entry.
ServerResult == [err : BOOLEAN, code : IntRange, count : IntRange, wl : IntRange]

zeroResult == [err |-> FALSE, code |-> 0, count |-> 0, wl |-> 0]

errResult == [err |-> TRUE, code |-> 0, count |-> 0, wl |-> 0]

\* What query and its goroutine in queryAll make of the datagram they read.
resultOf(op, packet, thread) ==
  LET fields == parseResponse(packet) IN
  IF /\ validate(fields, thread)
     /\ op = "check" /\ code(fields) = 200 => requireCounts(fields)
  THEN [err   |-> FALSE,
        code  |-> code(fields),
        count |-> intField(fields, "Count"),
        wl    |-> intField(fields, "WL-Count")]
  ELSE errResult

\* The test sr.Err != nil || sr.Code != 200, negated.
ok(sr) == ~sr.err /\ sr.code = 200

\* AllOK, and the answer of broadcast.
AllOK(results) ==
  /\ results # <<>>
  /\ \A i \in DOMAIN results : ok(results[i])

\* Mutant of Hit: >= for >, one whitelist entry is not enough to clear a hit.
HitOffByOne(results, rCount, wlCount) ==
  /\ results # <<>>
  /\ \A i \in DOMAIN results : ok(results[i]) /\ results[i].wl - 1 <= wlCount
  /\ \E i \in DOMAIN results : results[i].count > rCount

\* CheckResult.Hit: every server ok, none whitelisted, one reported.
Hit(results, rCount, wlCount) ==
  /\ results # <<>>
  /\ \A i \in DOMAIN results : ok(results[i]) /\ results[i].wl <= wlCount
  /\ \E i \in DOMAIN results : results[i].count > rCount

\* CheckDigest: the maxima over the ok servers, starting from 0.
maxCount(results) ==
  Max({0} \cup {results[i].count : i \in {j \in DOMAIN results : ok(results[j])}})

\* Mutant of maxWhitelist: the last server's count, without the comparison.
lastWhitelist(results) == results[Len(results)].wl

maxWhitelist(results) ==
  Max({0} \cup {results[i].wl : i \in {j \in DOMAIN results : ok(results[j])}})

============================================================================
