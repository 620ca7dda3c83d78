# Verification of gyzor

TLA+ models of [gyzor](../src/README.md), a pyzor client in Go: a library
(`pyzor/`), a command line and an HTTP daemon (`cmd/gyzor/`). TLC checks the
models on small instances, and TLAPS proves, for every value of the constants,
every safety property that the runs check; liveness, and with it that the daemon and
its client together implement `Serve`, is model-checked only. `PROJECT.json` relates
each definition to the source lines it stands for.

## The system

A mail is reduced to a SHA1 digest. An operation on the digest (`check`,
`report`, `whitelist` for revoke) or a `ping` is sent over UDP to every
configured pyzor server, and the replies are combined. Requests are signed with
the account registered for the server, or anonymous.

| Component | State | Operations | Interacts with | Where it is hard | Correct when |
|---|---|---|---|---|---|
| Client fan-out, `pyzor/client.go:196-372` | per call: semaphore, WaitGroup, slice of results; per query: socket, thread id | `CheckDigest`, `ReportDigest`, `WhitelistDigest`, `Ping`, `queryAll`, `query` | the servers (UDP), the address cache, the message layer; calls share nothing but the cache and the port space | late, repeated, lost replies; goroutines in any order; one read per query | an accepted answer is an answer to this query; tokens return; the call ends; the slice is complete and still |
| Replies and verdicts, `pyzor/message.go`, `client.go:196-290` | none | `parseResponse`, `validate`, `requireCounts`, `intField`, `Hit`, `AllOK`, aggregation | called by `query` and the operations | missing, repeated, garbled, oversized fields; partial answers | no verdict from an incomplete answer; the counts explain the verdict |
| Address cache, `client.go:63-102` | map host → address, expiry, under a mutex | `resolve`, `invalidateAddr` | name service, clock, all queries | resolution happens outside the lock | bounded staleness; a failure leads to a new resolution |
| Accounts file, `pyzor/account.go:105-207`, `client.go:408-444`, `cmd/gyzor/register.go` | a file, temporary files | `SaveAccount`, `writeFileAtomic`, `LoadAccounts`, `runRegister` | other processes through the file system | kills and failures between steps, overlapping commands, hand-edited files | readers see whole files; a registered server is signed for |
| HTTP daemon, `cmd/gyzor/serve.go` | semaphore of `gate`, listeners, channel of errors | `runServe`, `auth`, `gate`, `access`, the handlers | net/http, the client, the metrics | early returns in a stack of wrappers; end of one listener of two | the limit holds, tokens return, handlers end, the token is asked for |
| Metrics, `cmd/gyzor/metrics.go` | atomic counters, a histogram | `inc`, `verdictInc`, `observe`, `instrument`, `ServeHTTP` (scrape) | written by all requests, read by scrapes | each counter changes, and is read, on its own | totals, verdicts and observations add up; a scrape misses little |
| Time limits, `serve.go:132-140`, `client.go:296-346` | a deadline for each query and each request | `SetDeadline`, `WriteTimeout`, `ReadTimeout`, the waves of `queryAll` | clock | the limits are set at different moments and added nowhere | an answer is in time; how late is known |
| Command line and configuration, `main.go`, `client.go:140-195, 375-407` | environment, servers file, accounts | `run`, `buildAccount`, `buildClient`, `New`, `account`, `LoadServers` | everything | flags, environment and files contradict each other | the servers that were named are asked, in the name that was given or registered |
| Key generation, `account.go:60-104`, `register.go` | none | `GenKey`, `deriveKey`, `runGenkey`, `runRegister` | the command line | one identity in three notations | what register prints and what it saves sign alike |
| Digest, `pyzor/digest.go` | none | `Compute` and its helpers | the command line, the daemon | order of the steps, boundaries, nesting | as its reference definitions say |
| Request building and signing, `message.go:20-87`, `account.go:33-58` | none | `newRequest`, `serialize`, `hashKey`, `signMsg`, `generateThread` | `query` | thread ids are random, not unique | (thread ids and who signs: in the client and command line models) |
| Logging, build and release files | — | — | — | — | not modelled |

The hazards of this code, each at its line and with the properties that cover
it, are listed in `PROJECT.json`. What they come to: UDP delivers late and
twice while ports are reused; the verdict depends on all servers together; the
two locks of the cache leave a gap; the accounts file is read, changed and
replaced without a lock; the daemon's bookkeeping is spread over five wrappers;
deadlines are set one after the other; and settings come from three places in
three notations.

## The modules

| Module | Models | |
|---|---|---|
| `PyzorMessage` | `message.go` and the verdicts of `client.go` | constant operators, no state |
| `PyzorClient` | `queryAll`, `query`, the four operations, network and servers | EXTENDS `PyzorMessage`, refines `PyzorService` |
| `PyzorService` | what callers may rely on: counters, and answers that fit them | abstract specification |
| `AddrCache` | `resolve`, `invalidateAddr` and how `query` uses them | |
| `Accounts` | register commands, loading clients, the directory | refines `AccountStore` |
| `AccountStore` | what the accounts file promises: a map that a registration changes in one step | abstract specification |
| `Serve` | `runServe`, its wrappers and handlers, the metrics, a scrape | with any outcome of the client call |
| `Daemon` | the daemon and the client that its handlers share | composes `Serve` and `PyzorClient`, refines `Serve` |
| `Timing` | the clock that `PyzorClient` and `Serve` leave out | their steps, with deadlines |
| `Cli` | commands one after the other, with flags, environment and files | uses the map that `Accounts` implements |
| `Digest` | `Compute`, from the MIME tree to the hashed lines | |
| `PyzorClientProofs`, `PyzorServiceProofs` | theorems about the client and its messages | `PyzorServiceProofs`: the refinement |
| `AddrCacheProofs`, `AccountsProofs`, `ServeProofs`, `TimingProofs`, `CliProofs`, `DigestProofs` | theorems about the module they are named after | `AccountsProofs`: with the refinement |
| `MCClient`, `MCAddrCache`, `MCAccounts`, `MCServe`, `MCDaemon`, `MCTiming`, `MCCli`, `MCDigest` | instances for TLC, one `.cfg` for each question | |

Operators that a comment calls a mutant (`validateNoThread`, `ExitKeepsToken`,
`gateOffByOne` and so on) are plausible bugs that the properties must detect.
No specification uses them.

### PyzorClient

Each element of `Calls` is a caller that makes one call at a moment of its
choosing. `Begin` enters the operation, `Spawn` is one turn of the loop in
`queryAll` (`wg.Add`, a token, `go`), `Join` is `wg.Wait` and the folding of
the results. A goroutine is at `run` until `Send` (thread id drawn, socket
bound, datagram written) or `SendFails`; at `sent` until `Receive` or
`ReadFails`; at `stored` until `Exit` runs its deferred calls. Resolving is
inside `Send` and `SendFails` here and in detail in `AddrCache`.

The network keeps every datagram for ever, so a reply can arrive late, out of
order, twice or not at all; `Serve` may handle a request up to `MaxDeliveries`
times. A connected UDP socket takes datagrams of one peer address for one local
port. Ports are reused as soon as a socket is closed, so a reply may meet the
socket of a later query, of another caller or another slot of the same call.
The Thread header is all that tells them apart. A deadline is `ReadFails`,
possible at any moment.

The server is external. It is modelled by the fields that the client reads:
a report or whitelist increments a counter of the digest, a check returns both.
`Faults` says what may be wrong with a reply: nothing, a refusal, a reserved
thread id, a missing or garbled field, a repeated key.

A datagram is modelled as a map from header to the sequence of its values,
which is what `parseResponse` and `intField` see of it; `strconv.Atoi` clamps
values out of range.

`start[c]` is a history variable: the servers' counters, and the calls that had
returned true, when `c` began. No action reads it but `Begin`, which sets it.

### PyzorService

The same calls without goroutines, datagrams and replies: `Begin`, `CarryOut`
(a server does what a call asked for, at any moment after it began, even after
it returned, and perhaps again), `Return`, and `Confuse`. A call may return
"not ok" for any reason. If it returns ok, an update was carried out at every
entry of the list; a check that reports a hit has for each server counters
between those of its beginning and those of its end that make it one, and a
check that reports none likewise. `confused` is the negation of
`ThreadsTellApart`, and when it is true only the shape of the answers is
promised. The refinement mapping is in `PyzorClient` (`Service`): `done` is
`applied`, `answer` what the call returned, `from` the counters in `start`.

### AddrCache

The mutex protects two map accesses only, so a query passes through `Start`
(the clock is read), `Lookup`, `Resolve`, `Save`, then `Sent` or `SendFails`
(with `invalidateAddr`), and others run between any two of these. `retired`
keeps when a host gave up each address. `epoch` and `settled` are history: the
number of failures, and the last failure at which no other goroutine was about
to store.

### Accounts and AccountStore

A line of the file is what the two parsers find in it: the address
(`accountAddrOfLine`) and the account (`LoadAccounts`), which no line has without
an address, and whether the scanner stops at it (`long`). A command reads, creates
its temporary file, writes line by line, renames; it may fail or be killed at
each point, and commands overlap freely. A client opens and scans line by line, up
to the end or to a line too long for the scanner, whose error the code ignores;
like on a real file system it goes on reading the file it opened when a rename
replaces the path. Names are written as they are and read back as the parsers split
them: with a colon in any of them the line has too many fields and is no account
(`Colon`, which also has addresses that make the line a comment), a comma in the
salt ends it there (`Comma`), blanks around a name go (`Trim`). A host with blanks
around it and a name that is empty once trimmed or has a line break in it are not
modelled. `cmd[r].base` and `stale` are history: the file a command had read, and
the commands whose rename replaced another file than that.

`Store` instantiates `AccountStore`, where a registration is one step on a map.
It starts from the map as it is, or, and then the command is `stale`, from one
that the file held before: this is what the code does to registrations that
overlap, and it is all it does. The mapping gives `file` the map that all lines
record and whether one of them is too long (`recorded`), and `loaded` what the
next client gets: the same map, unless a line blocks the reader. A registration
never adds such a line, and removes one if it has an address of the command, so
a file may become readable again (`Register` in `AccountStore`).

### Serve

A request is a goroutine that goes through
`auth(gate(access(instrument(handler))))`, one action per shared effect: the
token, each counter, the observation, the log line, the release. What a request
turns out to be (its secret, its body) is chosen where the code looks at it. The
client call is `Query`, with any combination of failed and refusing servers and
a verdict that `Hit` allows; that it returns is assumed here and shown by `Daemon`.
`main` is `runServe`: the safety check, the listeners, the first error, `srv.Close`, `wg.Wait`, the exit code. When the
process exits, the goroutines stop where they are. `Scrape` is one read of the
handler of `/metrics` in the order of `ScrapeOrder`; of the values only the two
differences that the property compares are kept.

### Daemon

`Serve` with the call made instead of assumed: a request is a caller of the one
`PyzorClient` that the handlers share. `CallClient` is `Count` of `Serve` and `Begin`
of the client, `ClientReturns` is `Join` of the client and `Query` of `Serve`, whose
arguments are now counted in the slice of results (`Err` set, or a code that is not
200). Between the two the request waits while its goroutines, those of other requests
and the servers run. When the process exits, goroutines stop and datagrams on
their way are still carried out. Scrapes only read and are left to `Serve`.
`ImplementsServe` is `FairSpec` of `Serve`: every step of the daemon is one of `Serve`
or leaves its variables alone, and the fairness that `Serve` assumes of a request at
its client call follows from the scheduler's and from `SetDeadline`.

### Timing

`now` counts units since net/http read the header, when it sets the write
deadline. `due[i]` is when a query leaves where it is: the resolver's time, then
from `SetDeadline` on the client's timeout. Everything else takes no time:
`Tick` is possible only while somebody waits and nothing has to happen first.
Queries may end at any moment up to `due`. `bodyAt` and `startAt` are history.

### Cli

One command is one step; the user may set the environment or write the servers
file between two of them (`SetEnv`, `WriteServers`), or `Export` what register
printed. A key is a record of an optional salt and a key, so that the three
notations (`salt,key`, two settings, a line of the file) can be told apart. A
list of servers is a set: the servers are asked at the same time, and a server
that is listed twice is sent two requests that are alike here (`PyzorClient` has
lists). A malformed line of the servers file is skipped (`Bad`); IPv6
addresses in brackets are such lines, without brackets some are taken. Accounts
go into the file and come back as the parsers read them (`parsedLine`), like in
`Accounts`. `serve` may also end before it serves (`ServeRefused`). `GenKey` gives
values that `drawn` does not have yet: two draws of 160 bits do not coincide.
`drawn` holds the random values used, `saved` what register issued (history).

### Digest

A text is a sequence of classes of characters, as fine as the code's decisions:
letters (which can be a URL scheme), other visible ones, `@`, `:`, NUL, three kinds
of blanks and five of line breaks (`bytes.TrimSpace`, the regular expression for
blanks and `splitLines` each know others of them), non-ASCII characters, invalid
bytes, three kinds of tags. What the quoted-printable reader returns of a body,
which is cut short where it finds an error, is a field of the part. `walkPart` takes one part of the MIME tree per step from a
stack, `ReadLines` one payload, `Hash` chooses the lines. Everything below is an
operator. The loops of `splitLines`, `removeLongRuns` and `normalizeHTMLPart` are
left folds with the variables of the code as accumulator, and one turn of each is
an operator of its own (`SplitTurn`, `LongRunTurn`, `TokenTurn`; `WithLine` for
the lines that are kept), so that proofs can name it. Regular expressions are
sets of positions, which `Kept` cuts out. `Parts` is any mail whose parts are
nested at most `MaxDepth` deep.

## What TLC checks

| Run | Instance | Shows |
|---|---|---|
| `MCClient_fresh` | 3 callers with any operation, 1 server, 1 port, 3 thread ids, a missing count | `FreshCounts`, `TrueMeansApplied`, `RevokedIsNoHit`, `ReportedIsHit`, `ImplementsService` |
| `MCClient_fanout` | 1 check, 3 servers (one listed twice), limit 2, good replies and refusals, different counters | `TypeOK`, `FanoutBounded`, `NoWriteAfterReturn`, `VerdictExplained`, `CallsReturn` |
| `MCAddrCache_stale` | 2 goroutines, 1 host renumbered twice, 5 clock values, TTL 2 | `TypeOK`, `BoundedStaleness`, `ReResolvesAfterFailure` |
| `MCAccounts_files` | 3 overlapping commands, 1 client, no file, a hand-edited one and one with a line too long that a command replaces; an IPv6 host, a salt with a comma, a user with a blank before it | `TypeOK`, `ReadersSeeWholeFiles`, `RegisteredSigns`, `ImplementsStore` |
| `MCServe_requests` | 2 requests of every kind and a scrape, 4 configurations | `TypeOK`, `InFlightBounded`, `MetricsAddUp`, `ScrapeMissesFew`, `NoOpenWrites`, `WritesLogged` |
| `MCDaemon_requests` | a check and a report, 1 token, 2 listeners, 1 server, 1 port, 2 thread ids, refusals | `FailureEndsServe`, `GateReopens`, `ImplementsServe` |
| `MCTiming_waves` | 5 servers, 2 at a time, timeout 2, lookups of 1, uploads of up to 2 | `TypeOK`, `StartsWithItsWave`, `NotCutWithinBudget`, no deadlock |
| `MCCli_commands` | 54 commands, 4 environments to start with, 3 servers files, 2 registrations | `TypeOK`, `NamedServersOnly`, `SignsAsTold`, `RegisteredIsUsed`, `EnvSignsLikeFile` |
| `MCDigest_mails` | all texts of up to 5 characters of three alphabets, base64 bodies of up to 6, mails of 0 to 9 lines, MIME trees of up to two levels | `TypeOK`, `NormalizesByToken`, `LineEndingsIrrelevant`, `TagsPartWords`, `PieceChoice`, `LeavesInOrder` |

and three runs in which TLC refutes what a document or a comment says
(`MCAddrCache_readfail`, `MCAccounts_overlap`, `MCTiming_cut`); see *Where code
and documents differ*.

Why the bounds are enough:

- A confusion of replies needs one port and two queries that use it one after
  the other, an answer to the first, and an observer. Three callers allow an
  update, a revocation or a second update, and a check, each with a thread id
  of its own on the one port. The `CONSTRAINT` of this run stops at states
  in which `ThreadsTellApart` is false: it stays false (requests are never
  forgotten), all four invariants hold trivially from there on, and
  `PyzorService` allows every step. One server is enough
  because replies of different servers cannot be confused (the socket is
  connected); several servers matter for the verdict and for the semaphore, and
  those are in `MCClient_fanout`. `MaxDeliveries = 1` bounds how often one
  request is carried out; replies are still delivered any number of times. The
  proofs have none of these bounds.
- A fan-out of three with a limit of two makes the loop wait; with three ports
  nothing but the semaphore limits the sockets. The counters 0/0, 2/0 and 1/1
  make every combination of "reported" and "whitelisted" occur on different
  servers.
- In the cache the races are between two goroutines; two addresses after the
  first and a clock of twice the TTL let an entry expire, be renewed and be
  overwritten by an older one. `MaxFailures = 1` bounds invalidations.
- Commands only meet through the file, so two overlapping ones have every race;
  the third lets a later registration replace the entry of a stale one.
- With a limit of one, two requests meet at the gate; with a limit of two both
  are admitted and their counters interleave with each other and with the reads
  of the scrape.
- In `MCDaemon_requests` two requests meet at a gate with one token: the second is
  refused, or admitted when the first is over, and then a late answer to the first
  may meet its socket, as there is one port; thread ids collide, and the answer is
  taken, or do not, and the query has read its one datagram. Any request may get no answer, or a
  late one. `Endpoints` bounds where the requests go: `/revoke` is left out because
  its handler is that of `/report` with other names. One listener may fail while the
  other one serves. Overlapping calls are in `MCClient_fresh`, a fan-out to several
  servers in `MCClient_fanout`.
- Five queries two at a time are three waves, the last one not full, and the
  queries of one wave can end in either order. In `MCTiming_waves` the slack is
  such that the three waves fit into `WriteTimeout` by one unit: an early upload
  is answered in time and a late one cut off. `MCTiming_cut` has the default
  timeout and the slack of the code (5 s, 15 s) in units of five seconds, and nine
  servers two at a time where the code has sixteen at a time.
- In `Cli` two registrations for overlapping sets of servers replace or keep
  entries; flags and environments contain half and whole identities, keys in one
  and two parts, and lists that are empty, good and malformed.
- The constants of `Digest` are smaller than in the code (long run 3 for 10,
  line length 2 for 8) so that short texts cross them; the loops do not depend on
  the values, and the theorems hold for all of them. No mail of the run is nested
  deeper than `MaxDepth = 3`. `atomicNumLines` and the windows are the code's, and 0 to 9 lines
  cover every case: windows that overlap, touch and lie apart.

`CHECK_DEADLOCK FALSE` is in the configurations of systems that really stop:
each caller makes one call, each command runs once, the clock and the failures
are bounded, the daemon exits, registrations are bounded, a digest is finished.
That a call is not stuck before its end is what `CallsReturn`,
`GateReopens`, `ImplementsServe` and `FailureEndsServe` check. `Timing` has a step for a
request that is over, and its runs check deadlock: a state without a step would
be a wait that no timeout ends, and would make its bounds hold for the wrong
reason.

Symmetry: callers in `MCClient_fresh`, goroutines in `MCAddrCache_stale`,
requests in `MCServe_requests`, random values in `MCCli_commands`. No definition
tells them apart, and these runs check no liveness.

Fairness:

- `PyzorClient`: weak fairness of `Spawn`, `Join` and of each goroutine's
  `QueryStep`. The Go scheduler runs every runnable goroutine. A goroutine in
  `run` ends because the resolver answers or fails; one in `sent` because
  `SetDeadline` makes `Read` return. Nothing is assumed of callers, network or
  servers.
- `Serve`: weak fairness of `MainStep` and of each request's steps (the
  scheduler, and a client call that returns), and of
  `ServeReturns` once `srv.Close` was called. No listener has to fail.
- `Daemon`: that of `Serve` without the return of the call, and that of
  `PyzorClient` while the process lives. `ImplementsServe` shows that the first
  then follows.

## Where code and documents differ

Three are runs whose property states the document and is violated.

- `MCAddrCache_readfail`: `invalidateAddr` "drops a cached address after an I/O
  failure" (`client.go:97`), but a failed `Read` keeps it. After a host has
  moved, UDP writes succeed and only reads fail, so the old address is used
  until it expires.
- `MCAccounts_overlap`: of two register commands that overlap, the second rename
  removes what the first saved. `RegisteredSigns` and the refinement say exactly
  which registrations are lost.
- `MCTiming_cut`: "WriteTimeout must exceed the pyzor client budget so a slow
  upstream is not cut off mid-answer" (`serve.go:132`). When silent servers are
  more than `maxFanout` (16), the waves follow each other, and a name lookup
  or a slow upload adds to them. At the default timeout of 5 s four waves fit into
  `WriteTimeout` (20 s), so it takes more than 64 such servers; at `--timeout 30s`
  a second wave, the 17th server, is too late (60 s for 45 s). `NotCutWithinBudget`
  says when an answer is in time.

The models also show these, without a run of their own:

- `CheckResult.Count` is documented as a sum (`client.go:134`) and is a maximum
  (`client.go:212`); README.md:192 and `VerdictExplained` agree with the maximum.
- Replies are validated for a "matching thread id" (README.md:193), but a thread
  id below 1024 is accepted with Code 200 as well. Hence the second part of
  `ThreadsTellApart`.
- "`/report`+`/revoke` access logged always" (README.md:91), but not those that
  `auth` or `gate` refuses. `WritesLogged` excepts exactly these.
- An address resolved before a failure and stored after it is used again in
  spite of "re-resolve next time" (`client.go:343`). `ReResolvesAfterFailure`
  excepts exactly this.
- A name or host with a colon inside, a salt with a comma or a name with blanks
  around it is saved and not loaded as it was given (`accountLine`); accounts
  behind a line longer than 64 KiB are not loaded, without a message (`Scan`,
  `scanned`).
- The digest of a mail does not depend on LF or CR LF, but it may on more: with bare
  CR `mail.ReadMessage` finds no header and a multipart no boundary, and an error of
  the quoted-printable reader is dropped with the rest of the body
  (`digest.go:329`). `LineEndingsIrrelevant` claims neither.
- `/check` answers 502 without incrementing the error counter when servers
  refused rather than failed (`Query`: `errs` and `allOK`).
- A key in two parts is not split when a salt is set as well (`Split`), so a
  `GYZOR_SALT` in the environment changes what `--key salt,key` means.
- "Supplying only one is a usage error" (`main.go:181`), but a `--key` in two
  parts whose second part is empty counts as no key: `--key salt,` without a user
  is not refused, and the command signs as without an identity (`buildAccount`
  is called after the split). `Explicit` therefore looks at the second part;
  the proof of `SignsAsTold` failed on this, TLC's instance had no such key.
- A servers file without a single well-formed line means the public server
  (`LoadServers`), where a malformed `--servers` is an error.
- `--max-concurrent` defaults to the number of CPUs (`main.go:67`) and not to 8
  (README.md:90); a value below 1 means 8 (`maxConc` in `Serve`).
- `--version` is looked at before the flags behind the subcommand are parsed
  (`main.go:74-88`), so there it does nothing.
- `check` exits with 1 both when a mail is not listed and when servers did not
  answer (`Operate`).
- A running daemon signs with the accounts it loaded at its start; a later
  `register` reaches it with a restart only.

## What is proved

### The client

About `PyzorClient`, for all servers, callers, digests, thread ids, ports,
faults, thresholds and numbers of deliveries, from `MessageAssumption`
(`MaxInt` is at least 65535; `NotNum` is no integer) and `ClientAssumption`
(a non-empty list of servers, a positive fan-out limit, thread ids that
`generateThread` can return; the rest says that the constants have their types).
`Calls` need not be finite. TLC evaluates both assumptions in every `MCClient`
run.

| Theorem | Says |
|---|---|
| `TypeCorrect` | `Spec => []TypeOK` |
| `SemaphoreCounts` | tokens and WaitGroup both equal the number of live goroutines |
| `FanoutIsBounded` | at most `maxFanout` open sockets in a call |
| `ResultsAreFinal` | `NoWriteAfterReturn` |
| `AnswersAreFresh` | `FreshCounts`: accepted counts were held by the server during the call |
| `TrueIsTrue` | `TrueMeansApplied`: what returned true was carried out everywhere |
| `RevocationIsFinal` | `RevokedIsNoHit`: no hit for a check begun after a successful revocation |
| `ReportsAreSeen` | `ReportedIsHit`: a check begun after a successful report sees it |
| `VerdictIsExplained` | `VerdictExplained`: counts and verdict come from answers of single servers |
| `ClientImplementsService` | `ImplementsService`: `PyzorClient` implements `PyzorService` |

The argument, in the order of `PyzorClientProofs`:

1. `TypeInv` is `TypeOK` and that a call that is not a ping has a real digest;
   alone, `TypeOK` does not say that `db[s][call[c].dgst]` is defined. The
   operators of `PyzorMessage` are typed by the module's first lemmas.
2. `FanoutInv` relates the loop to the goroutines. That the semaphore equals the
   number of live goroutines is not inductive: one needs that the loop has
   started exactly the goroutines below its index (so `Spawn` adds a new one)
   and that a call which is over has none (so nothing writes afterwards).
3. `FreshInv` is why answers are fresh. A stored result is genuine
   (`ResultsInv`) because the reply it came from is an answer (`RepliesInv`) to
   some request that carries the reply's thread id, because the waiting query
   has sent a request with that thread, port and server (`WaitingInv`), and
   because under `ThreadsTellApart` those two requests are the same. Replies
   remain in the network, so what they show must remain true:
   counters only grow (`GrowthInv`).
4. `SeenInv` carries this over to later calls: a request that was carried out
   shows in the counters (`AppliedInv`), so a call that returned true shows in
   the counters that every later call recorded at its start (`SucceededInv`);
   fresh answers cannot fall behind those, and the verdict is `Hit` of the
   answers (`VerdictInv`).

`PyzorServiceProofs` adds the refinement. Under these invariants each step maps
to a step of the service or leaves its variables alone: `Begin` to `Begin`,
`Serve` of a valid request to `CarryOut` (`RequestsInv` gives the call it came
from), `Join` to `Return`, a `Send` that makes two queries indistinguishable to
`Confuse`, the rest to stuttering. The work is in `Return`: the answers of a
check that is ok are genuine, so each of them lies between `from` and `db`, and
the counters it shows are the ones that `MayHit` or `MayMiss` asks for.

`ThreadsTellApart` is a condition of these theorems and not an assumption on
the system. Thread ids are random 16-bit numbers; two queries that use the same
port and server one after the other may draw the same one. What is proved is
that nothing else can go wrong.

`VerdictIsExplained` needs two lemmas of its own: the counts and verdict of a check
are explained by the answers of single servers. `CountsInv` says that what was
returned is the aggregate of the slice, and `AggregateBounds` what its maxima
mean when all answers are good.

### The daemon

About `Serve`, for all configurations, requests (also infinitely many) and
numbers of servers, from `ServeAssumption` (configurations have their type;
there is a server). TLC evaluates it in every `MCServe` run.

| Theorem | Says |
|---|---|
| `ServeTypeCorrect` | `Spec => []TypeOK` |
| `TokenRequired` | `NoOpenWrites`: nothing from outside loopback gets past the gate without the token |
| `WritesAreLogged` | `WritesLogged`: every way out of the handlers ends in the access log |
| `InFlightIsBounded` | `InFlightBounded`: tokens are requests past the gate, at most the limit |
| `MetricsAreRight` | `MetricsAddUp` |
| `ScrapesAreClose` | `ScrapeMissesFew` |

The argument, in the order of `ServeProofs`:

1. For each action a lemma says what the step makes of its request, and
   `StepOfOne` that no other request changes.
2. `PlacesInv` says what the place of a request implies: no status until there
   is an answer, a status of the handlers from then on until `release`, logged
   after `access`, authorized behind the gate if the address is open. The last
   part needs that nothing is served under a configuration that `safetyCheck`
   refuses. `NoOpenWrites` and `WritesLogged` follow.
3. `Transitions` reduces a step to the way of a request: from where to where,
   and what becomes of counters and semaphore.
4. `LimitInv` and `MetricsInv` compare a counter with the number of elements of
   a set of requests: those past the gate, those on the way to a verdict, those
   that are over, those that were counted. A step adds or removes one element
   at most (`OneElement`), and by `Transitions` the counter goes along. That
   these sets are finite is part of the invariant.
5. `ScrapeInv` says, for each number of counters read, how far what the scrape
   has read may be from the counters as they are now. When it reads a total, the
   rest is on the way, hence past the gate (`OnTheWay`), hence at most the
   limit; afterwards the counters it has yet to read only grow.

### The address cache

About `AddrCache`, for any hosts, goroutines and times, from `AddrAssumption`
(there is a host; the times and bounds are natural numbers).

| Theorem | Says |
|---|---|
| `AddrTypeCorrect` | `Spec => []TypeOK` |
| `StalenessIsBounded` | `BoundedStaleness`: an address in use was the host's less than a time to live before the query called `resolve` |
| `FailuresMakeResolve` | `ReResolvesAfterFailure`: after a failure the old address is not used again, unless another goroutine was about to store it |

`BoundedStaleness` speaks of a query that is about to send, and is not inductive:
its address may come from the cache, where another goroutine stored it, perhaps
after the lock was free for long. `StaleInv` says the same of these places: an
address about to be stored was the host's when its goroutine read the clock, and
a cached one at the expiry less the time to live. `resolve` counts the time to
live from that reading and not from the moment it stores, and this is what the
proof uses. `ServiceInv`: the name service gives the present address.

`SettledInv` follows a failure after which no goroutine was about to store: an
address about to be stored, and one in the cache, is as new as the last such
failure, and no query began after a later one. A failure that is not settled
moves neither side.

### The accounts file

About `Accounts`, for any servers, identities, lines in the file, and any number
of commands and clients, from `AccountsAssumption` (types; every command has a
server; `None` is no server, account or file, and the old file is no command's).

| Theorem | Says |
|---|---|
| `AccountsTypeCorrect` | `Spec => []TypeOK` |
| `WholeFilesOnly` | `ReadersSeeWholeFiles` |
| `RegisteredIsLoaded` | `RegisteredSigns` |
| `CommandsImplementStore` | `ImplementsStore`: `Accounts` implements `AccountStore` |

1. What the operators do with lines. `newLines` keeps lines in a recursive
   function; `KeptAll` says that no line of the command's servers is kept, and of
   every other server the line that counts, the last one, and `NewEntries` that the entries of the file written are those
   of the file read, but for the command's servers. The induction over the lines
   is by least counterexample (`LeastNumber`), from `WFMin` of the library.
2. `FileInv`: the path leads to the old file or to one that was renamed
   (`PathInv`); the file of a command is a prefix of its lines while it writes
   and all of them from then on, and those lines are the ones computed from the
   file it had read (`CmdInv`); a client that scans has read a prefix of the file
   it opened without a line that is too long (`ClInv`), and when it stops that is
   what `readable` says (`ReadableIs`). So a file that can be opened does not change any more.
3. `RegisteredInv`: the last registration for a server is in the map that the
   file records, unless a later command was based on a file from before it
   (`Outrun`); one that was stale but had read this registration keeps it.
   `RegisteredSigns` adds that the client loads this map if nothing blocks it.
4. `Rename` maps to `Register` from the map of the file that was read, which is
   in `past`, and which is the present one unless the command is `stale`; every
   other step leaves the map alone.

### The daemon's limits of time

About `Timing`, for any numbers of servers, fan-out limit and times, from
`TimingAssumption`.

| Theorem | Says |
|---|---|
| `TimingTypeCorrect` | `Spec => []TypeOK` |
| `WavesAreReal` | `StartsWithItsWave`: query `i` starts no later than after `(i - 1) \div maxFanout` whole waves |
| `BudgetIsKept` | `NotCutWithinBudget`: when all waves fit, the answer is in time |

`WavesInv` bounds the start of each query by its wave, its end by its start and
`now` by the end of everything that is under way. The step that needs it is time
passing while the loop waits for a token. Then `maxFanout` earlier queries are
under way, and they cannot all be among the last `maxFanout - 1` before this
one: one is a whole wave older (`OneIsOlder`), and must end in time for this one.
`InTimeInv` adds the waves up.

### The command line

About `Cli`, for any servers, users, keys, flags, environments, files, and any
number of commands, from `CliAssumption` (types; `None` is no account).

| Theorem | Says |
|---|---|
| `CliTypeCorrect` | `Spec => []TypeOK` |
| `NamedServersAreAsked` | `NamedServersOnly` |
| `IdentityIsKept` | `SignsAsTold` |
| `LastIssueIsUsed` | `RegisteredIsUsed` |
| `EnvIsLikeFile` | `EnvSignsLikeFile` |

The properties look at the requests of the command that just ended. `SentInv`
says that these are still the requests that its settings, the servers file and
the accounts file make, since whatever changes a file ends the view of the
command. `EntryInv` says that the last registration for a server has its entry:
it is the merge in `SaveAccount`, followed through any overlapping sets of
servers. `SavedInv` says that a saved identity is one that `run` does not split
when it reads it again from the variables.

### The digest

About `Digest`, for any mails (texts of any length, MIME trees of any width and
any depth `MaxDepth`), lengths and numbers of lines, from `DigestAssumption` (types;
the lengths are positive; `Bad` is no digest). TLC evaluates it in `MCDigest_mails`.

| Theorem | Says |
|---|---|
| `TypeCorrect` (in `DigestProofs`) | `Spec => []TypeOK` |
| `PieceChoiceHolds` | `PieceChoice`: what is hashed of any number of lines |
| `LeavesInOrderHolds` | `LeavesInOrder`: the walk loses and reorders nothing |
| `LineEndingsHold` | `LineEndingsIrrelevant`: LF and CR LF give the same lines, but for quoted-printable |
| `TagsPartWordsHolds` | `TagsPartWords`: an HTML part is its words outside scripts and styles |
| `NormalizesByTokenHolds` | `NormalizesByToken`: the removals work token by token |

Most of this is about what loops compute, for which the provers have no induction
rule. Three things stand in for one:

- An induction is a statement about a set. `SeqInduct` says that a set which has
  the empty sequence, and with each sequence in it every one that is longer by one
  element, has all sequences. It comes from `LeastNumber` (`WFMin` of the library).
  `WordInduct` is the same, by words.
- A fold is unfolded once into the trace of its states (`IterTrace`). From that,
  each loop gets two facts: what it does with nothing, and with one character more
  (`EndsEmpty`, `EndsSnoc`; `SiftFacts`, `SplitFacts`, `TokenFacts`, `WordFacts`,
  `HandledFacts`, `LongRunSnoc`). The later proofs use only these.
- Trees are done by their depth: `PartsOfDef`, `LeavesOfDef` say that the recursive
  functions `PartsOf` and `LeavesOf` are what their equations say.

The argument, in the order of `DigestProofs`:

1. `TypeInv`: `TypeOK` with the sequences that the variables may be, and `read` at
   most the number of payloads. For it every operator gets its type.
2. `HashInv`: the digest is what `Pieces` chooses of the lines. `WindowsApart` and
   `PiecesFacts` are the arithmetic of the two windows; that a digest of a mail in
   which some line counts is not empty is part of it.
3. `LeavesInOrder` is inductive as it stands. `walkPart` replaces the first part by
   its children or by its payload (`walkPartLeaves`), and the leaves of a part are
   the leaves of its children, one after the other (`FlattenConcat`).
4. Line endings: the loops run on both texts side by side. `splitLines` is in states
   that are `Alike` after each piece of the text, although in the middle of a CR LF
   they differ by an empty line, which counts for nothing (`EmptyLine`). The loop
   of `normalizeHTMLPart` gives a `Rewritten` state, and trimming, the character
   sets and base64 treat the endings alike (`TrimmableFacts`). What a
   quoted-printable body decodes to is the library's and not part of this.
5. Tags: text and tags are read one by one, with what `normalizeHTMLPart` has
   collected on one side and the words of `Blanked` on the other (`BlankedWords`).
   What makes this work is that after a blank the words so far are final
   (`TokensAfter`, `TokensParted`), so that trimming does not change the words of a
   token and a tag ends one.
6. Normalization: a text with a blank in it is two texts, and every removal works on
   both by itself (`RemovalsParted`). For addresses and URLs this is so because a
   match lies within one token (`AddressesParted`, `LinksParted`); for
   `removeLongRuns` it needs the relation `Running` between its three indexes, the
   text seen and the text left (`LongRunsParted`). On one token without a blank the
   removals give `Reduced` (`LongRunsParted`, `OneAddress`, `OneLink`,
   `StrippedToken`): the first two leave of a token nothing or all, so each later
   one sees what it would have seen first. `WordInduct` puts the tokens together
   (`StrippedByToken`).

### What is only model-checked

- Liveness (`CallsReturn`, `GateReopens`, `FailureEndsServe`, and `ImplementsServe`,
  which includes fairness) and that `Timing` does not deadlock: they depend on
  fairness and ENABLED, which TLAPS does not reach here.
- The three properties that state a document and are refuted.

## What is not modelled

- Power failures. `writeFileAtomic` does not sync before its rename.
- Retries. A report whose reply is lost returns false although it was counted,
  and a caller who repeats it is counted twice; the repository promises nothing
  else (`PyzorService` allows both).
- Cryptography and random numbers: keys, signatures, SHA1, the distribution of
  thread ids. The order of the headers in a request.
- The MIME parser, the tables of the character sets, quoted-printable and the
  HTML tokenizer, which are libraries; `Digest` starts from what they return.
- net/http beyond what its handlers see: header and idle timeouts, and how
  `srv.Close` closes connections. The removal of an old Unix socket.
- Logging, wording of answers, the text of a scrape and the bounds of the
  histogram's buckets; build and release files.

## Plan

Everything with state is modelled, and every safety property that a run checks and
that holds is proved. What is left:

1. That every step of `Daemon` is one of `Serve`, from the invariants of its parts;
   liveness, when a prover for ENABLED is at hand: `CallsReturn` first, since
   everything above the client relies on it.
2. A second writer for the accounts file that does not go through `register` (an
   editor), and a power failure between `writeFileAtomic`'s write and its rename.
3. A caller that retries: the counters would have to be compared with the number
   of reports that were meant.
