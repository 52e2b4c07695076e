----------------------------- MODULE LoadReport -----------------------------
(***************************************************************************)
(* barrage/report.py, which turns the samples of a load run into its       *)
(* artifact, and compare/load.py, which compares two of those artifacts.   *)
(*                                                                         *)
(* Times and latencies are whole ticks, Second of them a second, so that   *)
(* the six places the artifact keeps lose nothing.  A fraction is the pair *)
(* of its two numbers; a rate or a threshold is compared by multiplying    *)
(* out.  Requests the plan asked for are counted in ticks: rate times      *)
(* ticks, which is Second times their number.                              *)
(* Numbers that are reported and not judged by compare are left out.       *)
(***************************************************************************)
EXTENDS Naturals, Integers, Sequences, SequencesExt, FiniteSetsExt

CONSTANTS
    Second,   \* ticks in a second, the width of a bucket
    P99MinMs  \* P99_MIN_MS, in ticks

ASSUME LoadReportAssumption == Second \in Nat \ {0} /\ P99MinMs \in Nat

None == -1
NoKnee == <<>>
NoRate == <<>>

Count(seq, Test(_)) == Len(SelectSeq(seq, Test))

-----------------------------------------------------------------------------
(* Sample *)

sent(s) == s.dispatched # None /\ s.outcome \in {"completed", "abandoned"}
responded(s) == s.outcome = "completed" /\ s.status # None
is_error(s) == sent(s) /\ (responded(s) => s.status >= 500 \/ s.status = 429)

Sent(samples) == SelectSeq(samples, sent)
Hold(samples) == SelectSeq(samples, LAMBDA s : s.in_hold)

(* Nearest rank, num out of den: the last place is taken, never beyond it. *)
percentile(values, num, den) ==
    LET ordered == SortSeq(values, <)
        rank == (Len(ordered) * num + den - 1) \div den
    IN  IF values = <<>> THEN None ELSE ordered[IF rank < 1 THEN 1 ELSE rank]

(* Of the requests that got a response. *)
service_latencies(samples) ==
    LET answered == SelectSeq(samples, responded)
    IN  [i \in DOMAIN answered |-> answered[i].service]

offered_latencies(samples) ==
    LET answered == SelectSeq(samples, responded)
    IN  [i \in DOMAIN answered |-> answered[i].offered]

request_counts(samples) ==
    [scheduled       |-> Len(samples),
     sent            |-> Len(Sent(samples)),
     completed       |-> Count(samples, LAMBDA s : s.outcome = "completed"),
     abandoned       |-> Count(samples, LAMBDA s : s.outcome = "abandoned"),
     dropped_backlog |-> Count(samples, LAMBDA s : s.outcome = "dropped_backlog"),
     not_dispatched  |-> Count(samples, LAMBDA s : s.outcome = "not_dispatched")]

(* A fraction of nothing is 0. *)
_rate(part, whole) == IF whole = 0 THEN <<0, 1>> ELSE <<part, whole>>

error_rate(samples) == _rate(Count(Sent(samples), is_error), Len(Sent(samples)))

(* N requests span N - 1 intervals; no span, no rate. *)
throughput(samples) ==
    LET at == {Sent(samples)[i].dispatched : i \in DOMAIN Sent(samples)}
        span == Max(at) - Min(at)
    IN  IF Len(Sent(samples)) < 2 \/ span = 0 THEN NoRate
        ELSE <<Len(Sent(samples)) - 1, span>>

-----------------------------------------------------------------------------
(* Buckets: what the plan asked for in a second and what became of it.     *)
(* stages is a sequence of [rate, duration].                               *)

Planned(stages) == FoldLeft(LAMBDA sum, stage : sum + stage.duration, 0, stages)

_planned_rate_integral(stages, start, end) ==
    LET at(i) == Planned(SubSeq(stages, 1, i - 1))
        asked(i) == stages[i].rate * (Min({end, at(i) + stages[i].duration})
                                        - Max({start, at(i)}))
    IN  MapThenSumSet(LAMBDA i : Max({0, asked(i)}), DOMAIN stages)

(* A request is in the bucket of its dispatch, a dropped one in that of    *)
(* its schedule.  origin is 0, and the series covers the planned time.     *)
BucketOf(t) == t \div Second

bucketize(samples, stages, hold_start) ==
    LET dropped == SelectSeq(samples, LAMBDA s : s.outcome = "dropped_backlog")
        keys == {BucketOf(Sent(samples)[i].dispatched) : i \in DOMAIN Sent(samples)}
                \cup {BucketOf(dropped[i].scheduled) : i \in DOMAIN dropped}
        n == Max({k + 1 : k \in keys} \cup {(Planned(stages) + Second - 1) \div Second})
        bucket(k) ==
            LET start == k * Second
                members == SelectSeq(Sent(samples), LAMBDA s : BucketOf(s.dispatched) = k)
            IN  [start    |-> start,
                 expected |-> _planned_rate_integral(stages, start, start + Second),
                 span     |-> Max({0, Min({start + Second, Planned(stages)}) - start}),
                 count    |-> Len(members),
                 errors   |-> Count(members, is_error),
                 dropped  |-> Count(dropped, LAMBDA s : BucketOf(s.scheduled) = k),
                 hold     |-> start >= hold_start,
                 p50      |-> percentile(service_latencies(members), 1, 2)]
    IN  [k \in 1..n |-> bucket(k - 1)]

(* The hold's first two buckets with a median. *)
_baseline(buckets) ==
    LET usable == SelectSeq(buckets, LAMBDA b : b.hold /\ b.p50 # None)
    IN  SubSeq(usable, 1, Min({2, Len(usable)}))

(* The plan asked for more than the workers could send at the latency they *)
(* saw, and they did send about (1 - KNEE_DIVERGENCE of) that.             *)
_client_limited(b, concurrency) ==
    /\ concurrency # None
    /\ b.p50 # None
    /\ b.p50 > 0
    /\ b.span > 0
    /\ concurrency * b.span * Second < b.expected * b.p50
    /\ 5 * b.count * b.p50 >= 4 * concurrency * b.span

(* KNEE_MIN_EXPECTED and KNEE_DIVERGENCE. *)
_falls_short(b) ==
    /\ b.expected >= 2 * Second
    /\ 5 * b.count * Second < 4 * b.expected

P50Sum(buckets) == FoldLeft(LAMBDA sum, b : sum + b.p50, 0, buckets)

(* KNEE_ERROR_RATE and KNEE_LATENCY_FACTOR. *)
_judge_bucket(b, baseline, concurrency) ==
    IF b.count > 0 /\ 20 * b.errors >= b.count THEN "shedding"
    ELSE IF _falls_short(b) /\ ~_client_limited(b, concurrency) THEN "falling behind"
    ELSE IF /\ baseline # <<>>
            /\ b \notin Range(baseline)
            /\ b.p50 # None
            /\ P50Sum(baseline) > 0
            /\ b.p50 * Len(baseline) > 2 * P50Sum(baseline)
    THEN "slowing"
    ELSE "held"

(* The first of two bad buckets in a row (KNEE_PERSISTENCE). *)
find_knee(buckets, concurrency) ==
    LET verdicts == [k \in DOMAIN buckets |->
                        _judge_bucket(buckets[k], _baseline(buckets), concurrency)]
        starts == {k \in 1..Len(buckets) - 1 :
                      verdicts[k] # "held" /\ verdicts[k + 1] # "held"}
    IN  IF starts = {} THEN NoKnee
        ELSE <<buckets[Min(starts)].start, verdicts[Min(starts)]>>

concurrency_limit(buckets, concurrency) ==
    Count(buckets, LAMBDA b : _falls_short(b) /\ _client_limited(b, concurrency))

_closed_loop_concurrency(config) ==
    IF config.mode = "closed" /\ config.concurrency > 0 THEN config.concurrency ELSE None

(* fire.py's samples_from_records marks the hold; the rest of a record is  *)
(* what the runner measured.                                               *)
samples_from_records(run, warmup) ==
    [i \in DOMAIN run |-> [in_hold |-> run[i].scheduled >= warmup] @@ run[i]]

record_rows(samples) ==
    LET row(s) == [scheduled |-> s.scheduled, dispatched |-> s.dispatched,
                   status |-> s.status, service |-> s.service,
                   offered |-> s.offered, outcome |-> s.outcome]
    IN  [i \in DOMAIN samples |-> row(samples[i])]

LOAD_SCHEMA_VERSION == 1

Numbers(samples) ==
    [requests   |-> request_counts(samples),
     error_rate |-> error_rate(samples),
     service    |-> percentile(service_latencies(Hold(samples)), 99, 100),
     offered    |-> percentile(offered_latencies(Hold(samples)), 99, 100),
     achieved   |-> throughput(samples)]

load_artifact(config, run) ==
    LET samples == samples_from_records(run, config.warmup)
        buckets == bucketize(samples, config.stages, config.warmup)
        concurrency == _closed_loop_concurrency(config)
    IN  [tool |-> "barrage", schema_version |-> LOAD_SCHEMA_VERSION,
         config |-> config, aborted |-> FALSE,
         summary |-> Numbers(samples), buckets |-> buckets,
         knee    |-> find_knee(buckets, concurrency),
         limited |-> concurrency_limit(buckets, concurrency),
         records |-> record_rows(samples)]

-----------------------------------------------------------------------------
(* compare/load.py *)

validate(file) == file.schema_version <= LOAD_SCHEMA_VERSION /\ ~file.config.dry_run

(* Mutant: what was scheduled in the ramp counts as well. *)
AllInHold(file) ==
    [i \in DOMAIN file.records |-> [in_hold |-> TRUE] @@ file.records[i]]

(* The rows as the samples barrage computes from. *)
_samples(file) ==
    [i \in DOMAIN file.records |->
        [in_hold |-> file.records[i].scheduled >= file.config.warmup] @@ file.records[i]]

measure(file) ==
    LET samples == _samples(file)
        counts == request_counts(samples)
    IN  [unsent |-> _rate(counts.dropped_backlog + counts.not_dispatched, counts.scheduled)]
        @@ Numbers(samples)

(* a - b > 1 / 100, of fractions. *)
PointAbove(a, b) == 100 * (a[1] * b[2] - b[1] * a[2]) > a[2] * b[2]

(* P99_GROWTH and P99_MIN_MS. *)
Grew(a, b) == 5 * a > 6 * b /\ a - b >= P99MinMs

(* ACHIEVED_RPS_DROP: a is below nine tenths of b. *)
Fell(a, b) == 10 * a[1] * b[2] < 9 * b[1] * a[2]

Judged == {"error_rate", "unsent", "service", "offered", "achieved"}

(* Whether b is worse than a by this metric, by more than its margin.  A   *)
(* latency or an achieved rate that one side lacks is not judged.          *)
Worse(key, a, b, rps_judged) ==
    CASE key \in {"error_rate", "unsent"} -> PointAbove(b, a)
      [] key \in {"service", "offered"}   -> None \notin {a, b} /\ Grew(b, a)
      [] key = "achieved"                 -> rps_judged /\ NoRate \notin {a, b} /\ Fell(b, a)

(* Mutant: an improvement needs no margin. *)
JudgeWithoutMargin(key, before, after, rps_judged) ==
    IF Worse(key, before, after, rps_judged) THEN "worse"
    ELSE IF key = "service" /\ before > after THEN "better"
    ELSE "same"

_judge(key, before, after, rps_judged) ==
    IF Worse(key, before, after, rps_judged) THEN "worse"
    ELSE IF Worse(key, after, before, rps_judged) THEN "better"
    ELSE "same"

(* _PLAN_KEYS that are modelled, and an abort. *)
load_warnings(a, b) ==
    {key \in {"mode", "rate", "warmup", "concurrency"} : a.config[key] # b.config[key]}
    \cup {name \in {"baseline", "candidate"} : (IF name = "baseline" THEN a ELSE b).aborted}

(* The difference report; <<>> when either side sent nothing. *)
load_compare(a, b) ==
    LET before == measure(a)
        after == measure(b)
        rps_judged == a.config.mode = b.config.mode /\ a.config.rate = b.config.rate
        verdict == [key \in Judged |-> _judge(key, before[key], after[key], rps_judged)]
    IN  IF 0 \in {before.requests.sent, after.requests.sent} THEN <<>>
        ELSE <<[warnings    |-> load_warnings(a, b),
                regressions |-> {key \in Judged : verdict[key] = "worse"},
                fixes       |-> {key \in Judged : verdict[key] = "better"}]>>
=============================================================================
