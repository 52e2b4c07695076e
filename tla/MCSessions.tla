----------------------------- MODULE MCSessions -----------------------------
(* Small corpora, one private and one public target, artifacts of older and *)
(* newer builds and of other tools, load runs that differ in what compare   *)
(* judges, every kind of sigcheck command line, and a curve of 17 points.   *)
EXTENDS Sessions

(* 20, 40, 20, 15 and 5 per cent, of 40 grains. *)
MCDefaultMix == <<8, 16, 8, 6, 2>>
CleanOrNothing == <<20, 0, 0, 0, 20>>

(* Two mixes with more places than are recorded: one no longer adds up, the *)
(* other becomes a mix that draws another category from seed 1.            *)
Thirds == <<13, 14, 13, 0, 0>>
Nearly == <<0, 29, 11, 0, 0>>

MCCaseCategory == [blank |-> "degenerate", quoted |-> "messy-but-valid"]

Request == [seed |-> 1, count |-> None, mix |-> NoMix, attachments |-> "unset", catalog |-> <<>>]

MCRequests ==
    {Request,
     [Request EXCEPT !.seed = 2, !.count = 1, !.mix = CleanOrNothing, !.attachments = "adversarial"],
     [Request EXCEPT !.count = 1, !.mix = Thirds],
     [Request EXCEPT !.count = 1, !.mix = Nearly],
     [Request EXCEPT !.seed = 2, !.count = 1, !.mix = Nearly],
     [Request EXCEPT !.catalog = <<"blank">>],
     [Request EXCEPT !.count = 0],
     [Request EXCEPT !.count = -2],
     [Request EXCEPT !.mix = <<18, 18, 0, 0, 0>>],
     [Request EXCEPT !.catalog = <<"blank", "quoted">>, !.attachments = "none"]}

Inside == [host |-> [name |-> "bare", addresses |-> {"private"}], public |-> FALSE]
Outside == [host |-> [name |-> "name", addresses |-> {"private", "public"}], public |-> FALSE]
MCConfigured == {Inside, Outside}

Answer(status, sorry) == [status |-> status, sorry |-> sorry]
MCAnswers == {Answer("2xx", FALSE), Answer("2xx", TRUE), Answer("4xx", FALSE),
              Answer("5xx", FALSE), Answer("no_response", FALSE)}

(* Written before mixes and attachments were recorded. *)
LegacyPlan == [seed |-> 1, count |-> 2, mix |-> NoMix, attachments |-> "none", catalog |-> <<>>]
LegacyPairs == build(LegacyPlan, MCDefaultMix, MCCaseCategory)
Legacy ==
    LET config == [config_of(LegacyPlan, MCDefaultMix)
                   EXCEPT !.mix_percent = NoMix, !.attachments = "absent"]
        answers == <<Answer("2xx", FALSE), Answer("5xx", FALSE)>>
    IN  build_artifact([dry_run |-> FALSE, target |-> Outside, fail_on_body |-> "none"] @@ config,
                       [i \in 1..2 |-> build_record(LegacyPairs[i], 1, i,
                                          response_from_transport(answers[i], "none"))],
                       FALSE)

Newer == [Legacy EXCEPT !.schema_version = 2]

Reconciliation == [tool |-> "ledger", records |-> <<>>] @@ Legacy

(* A hash is missing. *)
Unhashed == [Legacy EXCEPT !.records[1].payload_sha256 = NoHash]

MCOldFiles == {Legacy, Newer, Reconciliation, Unhashed}

-----------------------------------------------------------------------------
Config(mode, rate, warmup, concurrency, seconds) ==
    [dry_run |-> FALSE, mode |-> mode, rate |-> rate, warmup |-> warmup,
     concurrency |-> concurrency, stages |-> <<[rate |-> rate, duration |-> seconds * Second]>>]

Row(scheduled, dispatched, service, status, outcome) ==
    [scheduled |-> scheduled, dispatched |-> dispatched, status |-> status, outcome |-> outcome,
     service |-> IF outcome = "completed" THEN service ELSE None,
     offered |-> IF outcome = "completed" THEN dispatched + service - scheduled ELSE None]

(* Five requests a second, every one dispatched on time. *)
OnTime(n, service(_), status(_), outcome(_)) ==
    [i \in 1..n |-> Row(4 * (i - 1), 4 * (i - 1), service(i), status(i), outcome(i))]

Open == Config("open", 5, Second, 0, 3)

Calm == load_artifact(Open, OnTime(15, LAMBDA i : 3, LAMBDA i : 200, LAMBDA i : "completed"))

(* Slow while it warms up, and then not. *)
Cold == load_artifact(Open,
            OnTime(15, LAMBDA i : IF i <= 5 THEN 12 ELSE 3, LAMBDA i : 200, LAMBDA i : "completed"))

(* A little quicker than calm, within the margins. *)
Brisk == load_artifact(Open, OnTime(15, LAMBDA i : 2, LAMBDA i : 200, LAMBDA i : "completed"))

(* It slows down, sheds, errs and lets requests hang. *)
Ailing == load_artifact(Open,
            OnTime(15, LAMBDA i : i, LAMBDA i : IF i = 11 THEN 429 ELSE IF i = 14 THEN 503
                                                ELSE IF i >= 12 THEN None ELSE 200,
                   LAMBDA i : IF i = 12 THEN "abandoned" ELSE "completed"))

(* A pool too small for the plan: some requests late, some never. *)
Backlogged ==
    load_artifact(Open,
        [i \in 1..15 |-> IF i <= 8 THEN Row(4 * (i - 1), 6 * (i - 1), 6, 200, "completed")
                         ELSE IF i <= 12 THEN Row(4 * (i - 1), None, 0, None, "dropped_backlog")
                         ELSE Row(4 * (i - 1), None, 0, None, "not_dispatched")])

(* One worker, and every answer takes it three quarters of a second: a     *)
(* request is scheduled when the worker is free for it.                    *)
Saturated ==
    load_artifact(Config("closed", 5, 0, 1, 4),
        [i \in 1..6 |-> Row(15 * (i - 1), 15 * (i - 1), 15, 200, "completed")])

Unsent == load_artifact(Config("open", 5, 0, 0, 1), <<Row(0, None, 0, None, "not_dispatched")>>)
Rehearsed == load_artifact([Open EXCEPT !.dry_run = TRUE], <<>>)

Later == [Calm EXCEPT !.schema_version = 2]

MCLoadFiles == {Calm, Cold, Brisk, Ailing, Backlogged, Saturated, Unsent, Rehearsed, Later}

-----------------------------------------------------------------------------
Check == [file |-> "valid", send |-> TRUE, scheme |-> "mailgun", section |-> "none",
          secret |-> "readable", section_secret |-> "none", window_positive |-> TRUE,
          target |-> "mailgun", resolves |-> TRUE]

MCCommands ==
    {Check,
     [Check EXCEPT !.scheme = "none", !.section = "sendgrid", !.target = "sendgrid-raw",
                   !.secret = "none", !.section_secret = "readable"],
     [Check EXCEPT !.scheme = "postmark-basic", !.section = "mailgun", !.target = "postmark"],
     [Check EXCEPT !.send = FALSE, !.secret = "unset", !.target = "none"],
     [Check EXCEPT !.send = FALSE, !.file = "absent"],
     [Check EXCEPT !.send = FALSE, !.scheme = "sendgrid", !.secret = "malformed", !.target = "none"],
     [Check EXCEPT !.file = "invalid"],
     [Check EXCEPT !.file = "absent"],
     [Check EXCEPT !.scheme = "none"],
     [Check EXCEPT !.window_positive = FALSE],
     [Check EXCEPT !.target = "postmark"],
     [Check EXCEPT !.target = "undeclared"],
     [Check EXCEPT !.secret = "unset"],
     [Check EXCEPT !.resolves = FALSE]}

-----------------------------------------------------------------------------
MCG == <<1, 6>>

MCDrills == [kind : {"ecdsa"}, key : 1..N - 1, digest : 0..N - 1]
            \cup [kind : {"der"}, r : {0, 7, 8, 255, 268435455}, s : {0, 7, 8, 255, 268435455}]
=============================================================================
