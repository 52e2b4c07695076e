# TestingHQ: TLA+ models and proofs

TestingHQ posts synthetic inbound email at a webhook, then asks the system behind it what it made
of each message. Its answers are only as good as its control logic: when a readback may be called
settled, what each tool concludes from it, how load is paced and accounted for, and what a saved run
still means when it is replayed, checked again or compared. This directory models that logic from the
source under `testinghq/`, checks the models with TLC and proves the central results with TLAPS.

## 1. Inventory

| Part | State | Operations | Interacts with | Hard behaviour |
| --- | --- | --- | --- | --- |
| Readback settling, `pipeline/common.py` | latest answer per tag, previous signature, quiet window, budget | poll every tag, compare, sleep, decide | readback adapter; the system under test writes its store meanwhile | a poll is no snapshot; the budget runs out in mid-poll; adapters give up or raise |
| Readback adapters, `pipeline/adapters.py`, `readback.py` | deadline, rate slot, attempt, page; file offset, line number, partial line | preflight, fetch, list_all, close | readback settling; an HTTP server or a JSON Lines file | retries, pacing and pages inside one budget; a file truncated or replaced between two looks |
| Ledger, `pipeline/ledger.py` | phase, sent messages, outcome, listing | prepare, send, read back, search strays, account | token bucket, transport, readback | Ctrl-C in any phase; listing newer than the lookups; two functions compute one verdict |
| Verify, `pipeline/verify.py`, `expectations.py` | the same phases, a saved run | fire, check | the same; its own artifact | six checks under match modes that are given, recorded or defaulted |
| Redeliver, `pipeline/redeliver.py` | the same phases | fire | the same | tickets and reference chains over deliveries in any order |
| Steady, `pipeline/steady.py` | the same phases, labels | fire | the same | ties, missing labels, rates over nothing |
| Loop, `pipeline/loop.py` | the same phases, two baselines, a parent | fire | ticket readback and outbound sink | the pipeline answers whenever it likes |
| Sigcheck, `pipeline/sigcheck.py` | outcomes per variant | fire | an endpoint that remembers tokens | a refusal for another variant's reason; P-256 at its edges |
| Token bucket, `core/ratelimit.py` | tokens, last refill, rate | acquire, try_acquire, wait_time, set_rate | every sender; barrage's gate and pacer | lock released while sleeping; lazy refill against rate changes; burst after idling |
| Barrage runner and pool, `barrage/runner.py`, `executor.py` | slots, closed flag, pacer; queue, futures | open loop, closed loop, send, finalise; submit, shutdown | bucket, send hook | answers racing the deadline; requests that hang; Ctrl-C; sleeping with a lock held |
| Transport and sender, `core/transport.py`, `barrage/fire.py` | kept-alive connection per thread, counters | connect, send, close, summary | pool workers and the main thread | one retry on a stale connection; closed by another thread |
| Barrage report, `barrage/report.py` | none | counts, buckets, knee, artifact | compare | seconds and holds at their edges |
| Blast, `blast/corpus.py`, `cli/blast.py`, `core/report.py` | records, artifact | fire, replay | an endpoint; artifacts of any build | a plan rebuilt from what another build recorded |
| Compare, `compare/runs.py`, `load.py` | none | compare | two artifacts | sides that cannot be compared; margins |
| Guardrails and targets, `core/guardrails.py`, `targets.py` | none | decide whether to send | every tool | many flags, one decision |
| Payload text, wire formats, configuration, report layout, argument parsing | none | build, parse and print text | all tools | data only |

What makes each part correct: a readback is called settled only over a store that was seen quiet,
and a message is called lost only after such a readback; an adapter's answer is whole or says that it
is not, and costs no more time than it was given; a run exits 0 only when that was earned, and its
exit code, verdict and records agree; the limiter never hands out more than time earned; a load run
ends on its own, and its records are true of what was sent, whatever its threads still do; a replay is
the run again; and compare is quiet only about what it compared. `PROJECT.json` lists the places where
these could go wrong (`hazards`) with the properties that watch them.

## 2. Modules

| Module | Models | Extends |
| --- | --- | --- |
| `ReadbackPoll` | `read_back_all`, `_why_unsettled` | |
| `LedgerRun` | `ledger.execute`, `account`, `verdict`, `abort_run` | `ReadbackPoll` |
| `TokenBucket` | `core/ratelimit.py` under threads | instantiates `EagerBucket` |
| `EagerBucket` | what the limiter promises: no threads, no laziness | |
| `MeteredBucket` | the eager bucket with a meter on what it hands out | `EagerBucket` |
| `PoolExecutor` | `barrage/executor.py`, the pool | |
| `BarrageRun` | `barrage/runner.py`, both modes | `PoolExecutor` |
| `HttpAdapter` | `HttpJsonAdapter`: pacing, retries, pages, deadline | |
| `MailboxAdapter` | `MailboxAdapter`: the incremental read of a file | |
| `AdapterConfig` | `parse_readback_config`, `build_adapter`, the import of a custom one | |
| `Adapters` | a `[readback]` table and the adapter it builds | `HttpAdapter`, `AdapterConfig`; instantiates `MailboxAdapter` |
| `Sender` | `_Sender` over `PersistentHttpClient` | |
| `Guardrails` | `core/guardrails.py`, `core/targets.py` | |
| `Expectations` | the checks of `expectations.py` | |
| `Redelivery` | the scenarios and judgement of `redeliver.py` | `Expectations` |
| `Stability` | the arithmetic of `steady.py` | |
| `PipelineRun` | `verify`, `redeliver`, `steady` from command to exit code | the four above |
| `LoopRun` | `loop.py` `execute` and its judgement | |
| `Corpus` | `blast/corpus.py` | |
| `BlastReport` | `core/report.py`, `compare/runs.py` | `Corpus` |
| `LoadReport` | `barrage/report.py`, `compare/load.py` | |
| `BlastRun` | `blast fire`, `blast replay`, `compare` | `BlastReport`, `LoadReport`, `Guardrails` |
| `SigcheckRun` | `sigcheck.py` against an endpoint | |
| `P256` | its ECDSA and DER | |
| `Sessions` | the tools without a readback, each in its session | the three above |
| `MC...` | small instances for TLC | |
| `LedgerRunProofs`, `TokenBucketProofs`, `SenderProofs`, `BarrageRunProofs`, `AdaptersProofs`, `PipelineRunProofs`, `LoopRunProofs`, `SessionsProofs` | theorems | the module named; `LedgerRunProofs` is also about `ReadbackPoll` and `MeteredBucket` |

Definitions marked "Mutant" change one definition the way a bug would; each property of a passing
run is violated when one of its mutants is put in the place of the definition (`PROJECT.json`, `mutants`).

### ReadbackPoll

`pc` follows the code: `loop` (line 639), `lookup` (644), `fetch` (inside the adapter), `sleep`
(689), `ended` (after the loop), `done` or `failed`. `answer`, `statuses`, `previous`,
`previousStart`, `quietSince`, `changed`, `exhausted`, `stable` and `cause` are the code's locals.
The number of complete polls saturates at 2, since no test tells more apart. A tag's readbacks are a
sequence of abstract records and are compared as `_signature` compares them, as a multiset.

The store belongs to the environment: `StoreWrites` may happen between any two steps. An answer is
what the store holds when the lookup returns, in any order, or a part of it when pagination stopped
short, or a 404. `FetchRunsOut` may happen in any lookup: the deadline arithmetic that leads to it
is `HttpAdapter`'s. Time passes only while a lookup is in flight or the tool sleeps. `changedAt`,
`lastDiff`, `previousEnd` and `quietEnd` are history variables that only properties read.

### LedgerRun

`phase` follows `execute`: `prepare`, `send`, `readback`, `stray search`, `report`, `over`. While it
is `readback`, the steps are ReadbackPoll's. Sending takes no time (the clock is the readback's), and
an unanswered post is a result like any other, so it changes nothing here. `account`, `verdict` and
`readback_verdict` are operators with the code's conditions in the code's order. The set `Correct`
says which records pass the content checks. The pipeline may file late, blank, twice or not at all,
but a tag that has a correct ticket keeps one while the run lasts (`PipelineAssumption`): without that,
no tool that looks and then reports could say anything of the store. An interrupt after the adapter is closed is not
modelled: the code does not handle it.

### TokenBucket, EagerBucket, MeteredBucket

Credit is counted in grains so that a rate is an integer number of grains per tick; the clock and
`_last_refill` are kept as their difference. What a method does under the lock is one step; `acquire`
is a step per pass, with the sleep between passes open to every other thread. `_MIN_WAIT` is a
fraction of a tick, so the sliver rule fires. `EagerBucket` earns at every tick and knows no threads;
`TokenBucket` implements it with `level <- Refilled`. `MeteredBucket` adds a meter that can be
restarted at any time, which states the rate limit for every stretch of time.

### PoolExecutor, BarrageRun

A worker takes an item (`Get`), claims it unless it was cancelled (`Claim`), and runs it. In the open
loop a task is one request; in the closed loop it is a worker's whole loop. `_Run.send` is a step up
to the dispatch, a step for the answer with its clock reading, and a step that records it; between
them the main thread may close the run. The main thread's steps are the arrivals, the gate, entering
a slot, submitting it, the hold, the wait, and the finally block; Ctrl-C may come before any of them
up to the wait. The open loop's gate may delay an arrival for any time. The closed loop's bucket is
the eager one of capacity one token, which `TokenBucket` is proved to implement. `_EPSILON` is left
out: it absorbs float residue and time here is integral. Model and code differ in one thing that
cannot matter: the clock stops at `Horizon`, and at `End` once the run is closed, after which only
the pacer's sleeps read it. The pool is the one `fire.execute` owns and shuts down after `run`.

### HttpAdapter, MailboxAdapter, AdapterConfig, Adapters

`at` follows `_request`: waiting for a slot (`pace`), `sending`, `backoff`; `op` is what the request
is for. Times are kept as what is left of them, so the clock needs no bound. The server may change what
it holds, page it in any of the four styles, fail, throttle with a `Retry-After`, or link elsewhere; a
sleep may last longer than asked. The file of the mailbox is a sequence of tokens, a record two of
them, so that a reader can meet half a line; each write, truncation, replacement or deletion may come
between any two steps of the read. A `[readback]` table is kept as what the code tells apart about
each key. A record's fields and their paths are left out.

### Sender

A worker's steps are those of `_Sender.__call__` and `PersistentHttpClient.send`: connect, look at the
connection, send, read, retry. The main thread closes the clients one by one, at any point between
them. The object behind `_conn` is one record per thread; a request that was in hand when the closing
began is a *straggler*, and three properties exempt exactly those.

### Expectations, Redelivery, Stability, Guardrails, PipelineRun

A stored record is a kind ("wrapped", "renamed", "shallow", ...) and `RecordOf` says what its fields
hold. A text is kept as its relation to the expected text, after normalisation; an attachment name as
the two keys the comparisons use; rates as fractions, so gates are exact. Reading back is one step with
the outcomes `ReadbackPoll` has; what an unsettled one misses is any choice. `verify check` reads the
saved run with the match modes recorded in it. What a run should conclude is stated again in the
properties without the code's checks (`Tolerated`, the pairs of labels, the tickets of a thread).

### LoopRun

`phase` follows `execute`: the first baseline, the ordinary message, the wait for a reply, the second
baseline, the machine mail and the bait, both readbacks, the judgement. What the pipeline sends is a
sequence; an entry knows which message set it off and what of that shows.

### Corpus, BlastReport, LoadReport, BlastRun, SigcheckRun, P256, Sessions

A payload is what its bytes depend on: seed, draws and attachments. A weight of the mix is a number of
grains, and the artifact rounds it as the code does. `BlastRun` is a session of three commands over two
files, which may have been there before, from an older or newer build, another tool, or without a hash; `compare` also
takes two load artifacts, which `LoadReport` makes from the records of small runs. In `SigcheckRun` an
authentication is what it was made from, and the endpoint makes any subset of the checks and remembers.
`P256` is the arithmetic of the code with the curve and the width of a byte as parameters; TLC tries it
on a curve of 17 points, every key and every digest, where the rare cases are frequent.

## 3. Runs

| Run | States | Bounds | Shows |
| --- | --- | --- | --- |
| `readback` | 640,070 | 2 tags, window 2, budget 3, clock to 4 | `SettledIsQuiet`, `ChangingWasSeen`, `UnsettledIsOutOfTime`, `WrongUrlIsNoticed`, `Terminates` |
| `ledger` | 3,994,361 | 2 messages, window 2, budget 3, clock to 3 | `ExitIsEarned`, `UnseenIsNotLost`, `RunEnds` |
| `token_bucket` | 5,497 | 3 threads, 2 tokens, 2 rates, one call each | `ImplementsEager`, `AcquireReturns` |
| `metered_bucket` | 2,328 | 2 tokens, 2 rates, meter to 12 grains | `NeverOverIssued` |
| `barrage_open` | 611,161 | 2 workers, 3 arrivals, deadline 3 | `RecordsAreTrue`, `CutByTheDeadlineOnly`, `NoArrivalIsForgotten`, `RunEnds` |
| `barrage_closed` | 875,197 | 2 workers, 2 stages, up to 3 requests | `RecordsAreTrue`, `RunEnds` |
| `adapters` | 367,414 | 1 retry, 2 pages of 1, 3 records held; a file of 5 tokens, 2 inodes; every table | `LookupsAreRight`, `AtMostOneOverdue`, `RequestsArePaced`, `CallEnds`, `MailboxIsRight`, `OnlyCorruptLinesRaise` |
| `sender` | 324,283 | 2 threads, 3 requests | `TwiceOnlyOnAReusedConnection`, `ReportsAreTrue`, `EveryRequestEnds` |
| `pipeline` | 424,336 | up to 3 stored records in all, 2 for verify; all flags that decide on sending | `VerifyIsRight`, `RedeliverIsRight`, `SteadyRunsAreRight`, `RunIsHonest`, `RunEnds` |
| `loop` | 1,584,756 | one machine message and the bait, 2 mails and 2 tickets, 2 policies, 3 kinds of sink | `LoopRunIsHonest`, `LoopsAreReal`, `RunEnds` |
| `sessions` | 1,159,749 | corpora of up to 2, 4 valid mixes, 5 answers, 4 old files, 9 load runs; 2 sigcheck runs, 14 command lines; a curve of 17 points | `BlastIsHonest`, `ReplaysAreFaithful`, `QuietCompareIsEarned`, `LoadCompareIsRight`, `SigcheckIsRight`, `SignaturesAreRight` |
| `v_knee` | | the load run `Saturated` | violates `ShortfallIsTheClients` |

A property of several parts (`ExitIsEarned`, `RunIsHonest`, ...) is the conjunction of named ones that
are commented each, with a mutant for each; most of them also hold the module's type invariant.

Why the bounds are enough to be interesting. Two tags are the least for which a poll is not a
snapshot, and a budget of three with a window of two leaves room for two polls that agree, two that
differ, one cut short, and none. In the ledger a message can be filed late, twice, or blank and then
filled, before, between and after the polls. Three arrivals on two workers queue; a queue bound of
one tick inside a deadline of three lets a request be sent, dropped, refused, abandoned and answered.
Two stages of different rates make the pacer wait in one and move to the next. One retry and slots of
two ticks inside budgets of three and four collide with the deadline at every step of a request; three
records over pages of one exceed the page limit; five tokens are two records, a newline each, and one
token more. Two senders and three requests make one connection carry two. Two records for one message
are a duplicate, three variants the least with a majority and a dissenter. Two mails out of the
pipeline are a quick acknowledgement and something else, and a listing that reaches one misses the
other. Two sigcheck runs are the least that can share a token. In `sessions` 100% are 40 grains and an
artifact records multiples of 2: the default mix is the code's 20/40/20/15/5, which is recorded as it
is and replayed, while of two mixes with odd weights one no longer adds up to 100% when it is rounded,
and the other still does but, for one of two seeds, draws a payload that the hashes tell apart.

Fairness. The tool's own threads run whenever they can, and the clock goes on. In `ReadbackPoll` and
`HttpAdapter` this includes that a request in flight ends, since every one carries a timeout, and in
`PipelineRun` and `LoopRun` that `read_back_all` returns, which `ReadbackPoll` shows. In `BarrageRun`
no answer is promised at all: the run has to end with every request hanging. Nobody has to press
Ctrl-C, nothing has to fail, no user has to run a command, and the pipeline under test has to do
nothing. In `TokenBucket` a thread in `acquire` gets to run; calls are bounded, since with others
calling for ever it could be overtaken for ever. `Sessions` and `MeteredBucket` check safety only.

Deadlock is checked in every run but `loop` and `sessions`, whose behaviours end when the run or the
session is over; elsewhere a finished run stutters explicitly.

### Where code and text differ

`v_knee` is a run. `_client_limited` asks a bucket for 80% of a capacity that is no whole number of
requests: with one worker that is never idle and answers of 0.75 s, seconds hold 2, 1, 1, 2 requests,
and the ones with a single request are reported as the knee, although "the shortfall is the client's".

The modules keep these formulas that the code's own text claims and TLC refutes, each found with the
run of its module when put in its place:

- `HeldStillSinceTheFirstPollBegan` (`ReadbackPoll`): the window is counted from the start of the first
  of two identical polls, as if it had seen everything at its start. A record that arrives during that
  poll, before its tag is asked, is younger than the window, by up to one poll.
- `NoTimeMeansNothingSeenChanging` (`ReadbackPoll`): a second poll that saw a change and was cut short
  still yields "no time".
- `NothingElseWasFound` (`LedgerRun`): the stray search lists a second ticket filed after the last
  lookup, and `classify_strays` skips it because its tag was sent.
- `RefusedSentNothing` (`LedgerRun`): a lookup that raises exits 1 after everything was sent;
  `execute`'s own docstring says so, the exit code table says "nothing was sent".
- `CompletedBeforeTheDeadline` (`BarrageRun`): an answer after the deadline counts as completed if the
  main thread has not closed the run yet.
- `NoLookupAsksTheSame` (`Adapters`): a POST with neither query nor body is accepted.
- `OutOfTimeIsNoError` (`HttpAdapter`): a last request whose timeout was cut to the budget, and that
  runs into it with no retry left, is an error that ends the run, not a readback out of time.
- `ShrunkIsReadAgain` (`MailboxAdapter`): a file that shrank and grew again between two looks, in place
  and past the old offset, is read on from the middle.
- `AbortCountIsTrue` (`PipelineRun`): `redeliver` and `steady` put a number on what went out before an
  interrupt where `verify`'s comment says that none can be given.
- `FailedSinkIsNoPass` (`LoopRun`): an outbound sink whose every lookup was a 404 can still be
  LOOP-SAFE; `docs/CONFIG.md` calls such a readback failed. Nor does a partial outbound listing affect
  the verdict; it only earns a note.

Seen on the way, and visible in the properties' preconditions: a lookup that stopped at `max_pages` is
counted as complete by the ledger's `account`, which can hide a duplicate and, when the pages it read
hold no matching record, call a message lost that is there; a mix that needs more than six decimal
places is rounded in the artifact, so that a replay of it may be refused or draw another corpus;
`replay` does not ask which tool wrote the artifact; `compare` does not warn of another mix or another
`--fail-on-body`; a Mailgun token is made from the second and the variant, so that two runs in one
second share it; a sigcheck run longer than the endpoint's window has its replay refused by the window;
and an endpoint that only refuses Message-IDs it has seen is ENFORCED. Ctrl-C inside `_run_open_loop`
leaves `run` without the futures, so an exception a send hook raised before it is not re-raised.

## 4. Proofs

Everything here is proved for arbitrary constants that satisfy the named assumptions; TLC evaluates
those in every run. They say that bounds and durations are numbers, that `None` is none of the values
it stands beside, and:

- `PipelineAssumption` (`LedgerRun`): a tag that has a correct ticket is not left without one;
- `BarrageAssumption`: there is a worker, offsets are times, stages have positive rates and the last
  of them ends with the run; `PoolAssumption`, `SenderAssumption`: the threads are finitely many;
- `HttpAssumption`: pages, page limits and timeouts are positive; everything else may be 0;
- `CommandAssumption` (`PipelineRun`): a command line is one argparse lets through, match modes have
  the values it offers, and `steady`, which has no such flags, has all of them; `KindsAssumption`: a
  tool meets the kinds of records of its own that `RecordOf` describes;
- `DefaultMixAssumption` (`BlastRun`): the default mix adds up to 100% and needs no rounding;
- `LoopAssumption`: the machine messages are counted by a number, which may be 0, and a listing reaches
  a number of mails;
- `SchemesAssumption` (`SigcheckRun`): a scheme that is given is one of the three; `AnswersAssumption`
  and `FilesAssumption` (`BlastRun`): an answer has a status class, and an artifact of blast that was
  there before has records in order, graded as `build_record` grades them.

Each invariant was checked with TLC on the instance of its run before it was proved. A proof has one
lemma per action, or per group of actions that touch the same variables, and the last step of a theorem
is temporal.

The first part of `LedgerRunProofs` is about `ReadbackPoll` alone and uses only its assumptions. It
proves `TypeCorrect` and, from one inductive invariant, `SettledIsQuietHolds`,
`ChangingWasSeenHolds`, `UnsettledIsOutOfTimeHolds` and `WrongUrlIsNoticedHolds`. None of the four is
inductive: they speak of the end and depend on how the loop's locals relate before it. `IInv` adds to
the type invariant
`PollTimes` (the recorded starts and ends of polls are in order, and dated when they exist),
`NotYetAsked` (the answers a poll in progress has not renewed are the previous poll's),
`DifferenceIsDated` and `ChangeIsDated` (an observed difference, and the flag `changed`, have a
dated witness that lies after the right poll), `EndOfLoop` (how the loop was left determines what
holds then) and `StatusesTell` (what the statuses say about the url).

Its second part proves `ExitIsEarnedHolds` and `UnseenIsNotLostHolds` on top of it. `LedgerInv` is
`IInv` with `Evidence` (a correct record that was found is in the store, and an empty answer was right
when the poll that gave it began), `Phases` (what each phase of `execute` may rely on) and `WaysOut`
(refused, interrupted or graded, the adapter never open). The attempt corrected the property: a poll
that the budget cut short proves nothing of the tags it did not reach, so that `UnseenIsNotLost` speaks
of the last *complete* poll; and `account` does not ask whether a lookup was partial, so that tags whose
lookup stopped at `max_pages` are exempt. TLC had missed both with a window of one tick.

`TokenBucketProofs` proves `TypeCorrect` and `Refinement`: any number of threads on the lazy bucket
implement the eager one. A tick maps to `Earn`, a grant to `Take` or `TakeSliver`, a change of rate to
`ChangeRate`, and everything else to no step, because what a refill would leave does not change when
the refill is made. The only invariant needed besides types is `Asked`: a thread in `acquire` waits
for a possible request.

The third part of `LedgerRunProofs`, about `MeteredBucket` alone, proves `RateLimit` from `Balance`:
what is on hand plus what was handed out is at most a full bucket plus what the time earned plus the
slivers.

`SenderProofs` proves `TwiceOnlyOnAReusedConnectionHolds` and `ReportsAreTrueHolds` for any number of
threads and requests. `SenderInv` says who owns a request (`OneOwner`), that what is in hand while the
main thread closes are the stragglers (`InHand`), how often and on what connection a request in hand
went out (`Deliveries`), how a client's fields agree with its socket until somebody closes it
underneath (`Connections`), and that the counters are the number of connections the server accepted
(`Counts`). The sum over threads is a cardinality, of the set of pairs of a thread and a number up to
its count, since a fold could not be reasoned about.

`BarrageRunProofs` proves `RecordsAreTrueHolds`, `CutByTheDeadlineOnlyHolds` and
`NoArrivalIsForgottenHolds` for any number of workers, any schedule and both modes. `BarrageInv` keeps
`Pool` (a task is in the queue or with one worker, and its Future says how far it is), `MainThread`
(which slots are entered, and why it stopped waiting), `OpenRun` (until the run is closed, what is on
the wire are the dispatched slots, and every slot without outcome is in somebody's hands), `Indices`
(two workers never hold one index), `Lock`, and `TokenTimes` (the tokens of the closed loop, in the
pacer, on their way to the list and in it, are in the order of their indices). The last one is what
makes "token order is index order" true although a slot is appended after the lock was released. The
proof showed that `NoArrivalIsForgotten` needs no exception for hooks that raise; it is stated without.

`AdaptersProofs` proves `LookupsAreRightHolds`, `AtMostOneOverdueHolds` and the action property
`RequestsArePacedHolds`. `HttpInv` adds to the types `Slots` (what is left until the next slot and the
time since the last request make up the gap), `Lateness` (a request that went out with the budget spent
was the last one: every way on from there looks at the budget) and `Pages` (as long as the server has
not changed, what was collected is exactly its first pages, and no page was longer than the page size).
`Pages` carries the exactness of an answer through every style of pagination; `NextSlice` is the step
from one page to the next, and `AllOrMore` shows that a page that is the last by the code's tests really
is. That `Pow2` is a number for every attempt is proved by least counterexample. The theorems are about
`AdaptersSpec`: the table that was read, then the adapter.

`PipelineRunProofs` proves `RunIsHonestHolds` and `VerifyIsRightHolds`, for any command line and
whatever the pipeline under test files. `RunInv` has the types, `PlanOK` (the plan is the one the
command's tool makes, whose tags are its own), `ModesOK` (the match modes are complete by the time
something is sent), `Consent` (whoever sends was allowed to), what each phase relies on (`Begun`,
`UnderWay`, `Fired`, `Unjudged`), `WaysOut`, and what an artifact says: `SavedOK` that it is about this
run, `Checking` that `verify check` reads with the saved modes unless it was given others, `Graded` and
`SavedGrade` that a verdict is a function (`VerdictOf`) of what was read and of the modes. From these,
`VerifyIsRight` is a comparison of two judgements of one record: the code's checks, for each kind of
record and each choice of modes, against `Tolerated`, which does not use them. That a plan flattened
from lists of tags is a list of tags is proved by least counterexample. The attempt corrected three
things. `SendsAreConsented` did not say what happens to a name that does not resolve: a bare or
reserved one counts as internal, any other needs the flag. `subject_match` has the default "contains".
And the attachment of a "renamed" record has to be one whose loose key really is the expected one.

`LoopRunProofs` proves `LoopRunIsHonestHolds` and `LoopsAreRealHolds` for any number of machine
messages, any policy and sink, and whatever the pipeline sends. Both speak of the end of a run, where
`WaysOut` says which judgement was made and from what. It rests on `Posts` (what has gone out in which
phase), `JudgedIsLate` (nothing answers a judged message before the second baseline), `BehindIsLate`
(behind that baseline, and within the reach of a listing, there is late mail only), `SeenIsThere`,
`AnswersAreThere` and `ListedIsReached` (what was read is there and stays there), and
`BaitParentIsReal`, which is itself one of the claims. `BehindIsLate` holds only within reach: behind
it, mail may be older than the baseline, and the proof shows that the code never counts that mail.

`SessionsProofs` proves `SigcheckIsRightHolds`, `BlastIsHonestHolds` and `QuietCompareIsEarnedHolds`;
the two kinds of sessions share no variable, and each keeps its own invariant. For sigcheck that is
`SigInv`: the plan is the one of the run's scheme and start (`SigArgs`), an outcome is the judgement of
the variant in its place (`SigOutcomes`), the endpoint knows of the run's tokens exactly those it
accepted, if they were new to it (`TokenIsSeen`), and each answer is the one due to its variant
(`AnswersAreDue`). The last is stated for a run that was quick so far, which it cannot know before its
end; it is inductive because the clock only goes on. The lemmas about `plan` say why no variant is
refused for another one's reason: no two tokens are the same but the valid one and its replay, only
the stale timestamp is older than the window, and only the variants about the signature fail it.
`BlastInv` says that what is on the wire are the first payloads of the corpus and the records are
theirs (`OnTheWire`), that whoever sends was allowed to (`BlastConsent`), that the artifact of a run
that just ended is made from its records (`BlastEnd`), and that an artifact that was sent has graded
records (`Artifacts`): `GradedIsRight` shows that flags, assertions and outcomes then all name the same
failures. compare finds a record by its id, and ids end in the place of the record, so that no two
share one (`AlignIsExact`).

Only model-checked, and why:

- the liveness properties (`Terminates`, `RunEnds`, `AcquireReturns`, `CallEnds`, `EveryRequestEnds`):
  the prover does not handle fairness;
- `MailboxIsRight` and `OnlyCorruptLinesRaise`: what the reader answers is a fold over the file's tokens;
- `RedeliverIsRight` and `SteadyRunsAreRight`: the ancestry of a ticket is a recursive function over
  chains of records, and the gates of `steady` compare sums and counts over all of them;
- `ReplaysAreFaithful`, `LoadCompareIsRight` and `SignaturesAreRight` of `Sessions`: weights that sum
  up to a whole, percentiles and sums over the records of a load run, and modular arithmetic, so that
  the theorems would be inductions over data.

## 5. Not modelled, and the plan

Left out for good: the text of payloads and their encoding (blast's generators, wire formats, tagged
messages), configuration parsing, report layout, argument parsing, `blast generate` and the utility
commands. They are data transformations without state or order; where a tool's decision depends on
them, its module keeps that part. HMAC, base64 and key files are abstract in `SigcheckRun`. An adapter
that somebody else wrote is only as good as the interface says.

Next, in this order:

1. That `HttpAdapter` answers as `ReadbackPoll` assumes, as a refinement on top of `LookupsAreRight`.
2. `MultiAdapter` and `FunctionAdapter`; the ramp and arrival schedule of `barrage/runner.py` as pure
   functions, in the place of `Offsets` and `Stages`.
