--------------------------- MODULE SessionsProofs ---------------------------
(***************************************************************************)
(* Proofs about Sessions: sigcheck is right about the endpoint whatever     *)
(* checks it makes and whatever it fails, a blast run is honest about what  *)
(* it sent, and compare reports no regression without having looked.        *)
(***************************************************************************)
EXTENDS Sessions, FiniteSetTheorems, TLAPS

-----------------------------------------------------------------------------
(* sigcheck *)

Statuses == {"2xx", "4xx", "5xx", "none"}

(* The type invariant of the sigcheck session. *)
SigTypes ==
    /\ clock \in Nat
    /\ endpoint \in [signature : BOOLEAN, window : BOOLEAN, tokens : BOOLEAN, messages : BOOLEAN]
    /\ DOMAIN seen = {"tokens", "messages"} /\ <<>> \notin seen.tokens
    /\ run \in 0..MaxRuns
    /\ sigpc \in {"idle", "send", "over"}
    /\ sigcode \in {0, 1, 2, 3, 9}
    /\ sigpc # "over" => clock >= FirstSecond
    /\ run = 0 => outcomes = <<>> /\ artifact = NoArtifact /\ sigpc # "send"

(* The command that is running, or ran last. *)
SigArgs ==
    run > 0 =>
        /\ args.scheme \in Schemes
        /\ args.start \in Nat /\ args.start >= FirstSecond /\ args.start <= clock
        /\ args.plan = plan(args.scheme, args.start)
        /\ args.fresh \in BOOLEAN

Variants == {"valid", "wrong-secret", "unsigned", "stale-timestamp", "tampered-body", "replayed-token"}
Outcome == [variant : Variants, status : Statuses, verdict : {"N/A", "OK", "INFO", "FINDING"}]

(* An outcome is that of the variant in its place. *)
SigOutcomes ==
    /\ outcomes \in Seq(Outcome) /\ Len(outcomes) <= 6
    /\ \A i \in DOMAIN outcomes :
          /\ outcomes[i].variant = args.plan[i].variant
          /\ outcomes[i].verdict = judge(args.plan[i], outcomes[i].status)
          /\ args.plan[i].expect = "n/a" => outcomes[i].status = "none"

(* While a run whose tokens were new to the endpoint sends, the endpoint   *)
(* knows of them exactly those it accepted.                                *)
TokenIsSeen ==
    sigpc = "send" /\ args.fresh =>
        \A i \in 1..6 :
            args.plan[i].signed.token \in seen.tokens <=>
                /\ args.plan[i].signed.token # <<>>
                /\ \E j \in DOMAIN outcomes : /\ args.plan[j].signed.token = args.plan[i].signed.token
                                              /\ outcomes[j].status = "2xx"

(* What an endpoint that remembers no Message-IDs makes of each variant of *)
(* a quick run with new tokens, unless it fails.                           *)
Due(i) ==
    /\ i \in {2, 3} => ~endpoint.signature
    /\ i = 4 => ~endpoint.window
    /\ i = 5 /\ signs_body(args.scheme) => ~endpoint.signature
    /\ i = 6 /\ args.scheme = "mailgun" /\ endpoint.tokens => outcomes[1].status # "2xx"

AnswersAreDue ==
    args.fresh /\ ~endpoint.messages /\ clock - args.start <= Window =>
        \A i \in DOMAIN outcomes :
            outcomes[i].status \in {"2xx", "4xx"} => (outcomes[i].status = "2xx" <=> Due(i))

(* What the last run wrote. *)
SigArtifact ==
    /\ sigpc = "send" => artifact = NoArtifact
    /\ artifact # NoArtifact =>
        /\ artifact.aborted \in BOOLEAN
        /\ artifact.verdict = IF Findings = 0 /\ ~artifact.aborted THEN "ENFORCED" ELSE "GAPS"
        /\ artifact.notes = notes_for
        /\ ~artifact.aborted => Len(outcomes) = 6
        /\ sigcode \in {0, 3} => sigcode = IF artifact.aborted \/ Findings > 0 THEN 3 ELSE 0

SigInv == 
    /\ SigTypes /\ SigArgs /\ SigOutcomes /\ SigArtifact
    /\ TokenIsSeen 
    /\ run > 0 => AnswersAreDue

-----------------------------------------------------------------------------
(* blast and compare *)

IsList(s) == s \in Seq(Range(s))

(* What build_record made: in its place, and graded by the response. *)
Graded(record, i) ==
    /\ record.id[3] = i
    /\ record.response \in [status : STATUS_CLASSES, body_failure : BOOLEAN]
    /\ record.response.body_failure => record.response.status = "2xx"
    /\ record.passed \in BOOLEAN
    /\ record.passed <=> StatusOnlyMatcher(record.response) /\ ~flagged(record)

BlastTypes ==
    /\ step \in 1..4
    /\ pc \in {"idle", "send", "in flight"}
    /\ code \in {0, 1, 2, 3, NoCode}
    /\ DOMAIN files = 1..2
    /\ pc # "idle" => step \in {1, 2} /\ cmd.name \in {"fire", "replay"}

(* The records are those of the requests that went out, but for the one in *)
(* flight.                                                                 *)
OnTheWire ==
    /\ IsList(wire) /\ IsList(records)
    /\ Len(wire) - Len(records) \in {0, 1}
    /\ pc = "send" => Len(wire) = Len(records)
    /\ pc = "in flight" => Len(wire) = Len(records) + 1
    /\ pc # "idle" => \A i \in DOMAIN wire : wire[i] = cmd.pairs[i].payload
    /\ \A i \in DOMAIN records : records[i].payload_sha256 = wire[i] /\ Graded(records[i], i)

Consented ==
    /\ cmd.send
    /\ cmd.target \in Configured
    /\ is_private_host(cmd.target.host) \/ cmd.allow

BlastConsent == pc # "idle" \/ (wire # <<>> /\ cmd.name # "compare") => Consented

(* The artifact and the exit code of a run that just ended. *)
BlastEnd ==
    RunJustEnded =>
        /\ step \in {2, 3}
        /\ \E aborted \in BOOLEAN :
            /\ files[step - 1] = build_artifact(cmd.config, records, aborted)
            /\ ~aborted => Len(records) = Len(cmd.pairs)
        /\ code = ExitOf(files[step - 1])

(* An artifact of blast that was sent has graded records; and what compare *)
(* reported is what it reports of the two.                                 *)
Readable(file) ==
    file.tool = "blast" /\ ~file.config.dry_run =>
        IsList(file.records) /\ \A i \in DOMAIN file.records : Graded(file.records[i], i)

Artifacts ==
    /\ \A k \in 1..2 : Readable(files[k])
    /\ diff # <<>> => step = 4 /\ diff = compare_paths(files[1], files[2])

BlastInv == BlastTypes /\ OnTheWire /\ BlastConsent /\ BlastEnd /\ Artifacts

SessionsInv == SigInv /\ BlastInv

-----------------------------------------------------------------------------
(* The six variants, and what each is about. *)
Shape(p, scheme) ==
    /\ Len(p) = 6 /\ DOMAIN p = 1..6
    /\ p[1].variant = "valid" /\ p[1].expect = "accept"
    /\ p[2].variant = "wrong-secret" /\ p[2].expect = "reject"
    /\ p[3].variant = "unsigned" /\ p[3].expect = "reject"
    /\ p[4].variant = "stale-timestamp"
    /\ p[4].expect = IF scheme = "mailgun" THEN "info"
                     ELSE IF scheme = "sendgrid" THEN "reject" ELSE "n/a"
    /\ p[5].variant = "tampered-body"
    /\ p[5].expect = IF scheme = "sendgrid" THEN "reject" ELSE "info"
    /\ p[6].variant = "replayed-token"
    /\ p[6].expect = IF scheme = "mailgun" THEN "reject"
                     ELSE IF scheme = "sendgrid" THEN "info" ELSE "n/a"

LEMMA PlanShape ==
    ASSUME NEW scheme \in Schemes, NEW now \in Nat
    PROVE  Shape(plan(scheme, now), scheme)
  BY DEF Shape, plan, Variant, NotSent, Schemes, has_timestamp, signs_body

(* What the endpoint's signature check makes of them. *)
LEMMA PlanKeys ==
    ASSUME NEW scheme \in Schemes, NEW now \in Nat
    PROVE  LET p == plan(scheme, now)
               ok(i) == verify(scheme, p[i].payload, p[i].signed)
           IN  /\ ok(1) /\ ~ok(2) /\ ~ok(3)
               /\ p[4].expect # "n/a" => ok(4)
               /\ ok(5) <=> ~signs_body(scheme)
               /\ p[6].expect # "n/a" => ok(6)
  BY DEF plan, Variant, NotSent, Schemes, has_timestamp, signs_body, verify, sign, Unsigned

(* When they were made: only the stale one is old, and none has the time 0 *)
(* that means none but one without a timestamp.                            *)
LEMMA PlanTimes ==
    ASSUME NEW scheme \in Schemes, NEW now \in Nat, now >= FirstSecond
    PROVE  LET p == plan(scheme, now)
               time(i) == p[i].signed.timestamp
           IN  /\ \A i \in {1, 2, 3, 5, 6} : time(i) \in {0, now}
               /\ p[4].expect # "n/a" => time(4) = now - StaleBy /\ time(4) # 0
  BY SigcheckAssumption DEF plan, Variant, NotSent, Schemes, has_timestamp, signs_body, sign, Unsigned,
     StaleBy, FirstSecond

(* No two share a token but the valid one and its replay. *)
LEMMA PlanTokens ==
    ASSUME NEW scheme \in Schemes, NEW now \in Nat
    PROVE  LET p == plan(scheme, now)
               token(i) == p[i].signed.token
           IN  /\ scheme # "mailgun" => \A i \in 1..6 : token(i) = <<>>
               /\ token(3) = <<>>
               /\ scheme = "mailgun" =>
                    /\ token(1) = token(6) /\ token(1) # <<>>
                    /\ \A i \in {2, 4, 5}, j \in 1..6 : i # j => token(i) # token(j)
  <1> DEFINE p == plan(scheme, now)
             token(i) == p[i].signed.token
  <1>1. scheme # "mailgun" => \A i \in 1..6 : token(i) = <<>>
    BY DEF plan, Variant, NotSent, Schemes, has_timestamp, signs_body, sign, Unsigned
  <1>2. token(3) = <<>>
    BY DEF plan, Variant, Unsigned
  <1>3. ASSUME scheme = "mailgun"
        PROVE  /\ token(1) = <<now, "valid">> /\ token(2) = <<now, "wrong-secret">>
               /\ token(4) = <<now - StaleBy, "stale-timestamp">>
               /\ token(5) = <<now, "tampered-body">> /\ token(6) = <<now, "valid">>
    BY <1>3 DEF plan, Variant, has_timestamp, signs_body, sign, mailgun_token
  <1>4. \A x, y : <<x, y>> # <<>>
    OBVIOUS
  <1>5. \A x, y, u, v : y # v => <<x, y>> # <<u, v>>
    OBVIOUS
  <1>6. ASSUME scheme = "mailgun", NEW i \in {2, 4, 5}, NEW j \in 1..6, i # j
        PROVE  token(i) # token(j)
    <2>1. j \in {1, 2, 3, 4, 5, 6}
      OBVIOUS
    <2> HIDE DEF token
    <2> QED BY <1>2, <1>3, <1>4, <1>5, <1>6, <2>1
  <1> QED BY <1>1, <1>2, <1>3, <1>4, <1>6

-----------------------------------------------------------------------------
(* A session begins in its invariant, also one that is not for sigcheck. *)
LEMMA SigBegins ==
    ASSUME SigInit \/ SigOff
    PROVE  SigInv
  <1>1. outcomes = <<>> /\ artifact = NoArtifact /\ run = 0 /\ sigpc # "send"
    BY DEF SigInit, SigOff
  <1>2. SigTypes
    <2>1. FirstSecond \in Nat /\ 0 \in 0..MaxRuns
      BY SigcheckAssumption DEF FirstSecond, StaleBy
    <2>2. clock \in Nat /\ run \in 0..MaxRuns /\ (sigpc # "over" => clock >= FirstSecond)
      BY <2>1 DEF SigInit, SigOff
    <2>3. endpoint \in [signature : BOOLEAN, window : BOOLEAN, tokens : BOOLEAN, messages : BOOLEAN]
      <3>1. CASE SigInit
        BY <3>1 DEF SigInit
      <3>2. CASE SigOff
        <4>1. [signature |-> FALSE, window |-> FALSE, tokens |-> FALSE, messages |-> FALSE] \in
                  [signature : BOOLEAN, window : BOOLEAN, tokens : BOOLEAN, messages : BOOLEAN]
          OBVIOUS
        <4> QED BY <3>2, <4>1 DEF SigOff
      <3> QED BY <3>1, <3>2
    <2>4. DOMAIN seen = {"tokens", "messages"} /\ <<>> \notin seen.tokens
      BY DEF SigInit, SigOff
    <2>5. sigpc \in {"idle", "send", "over"} /\ sigcode = 9
      BY DEF SigInit, SigOff
    <2> QED BY <1>1, <2>2, <2>3, <2>4, <2>5 DEF SigTypes
  <1>3. SigOutcomes
    BY <1>1 DEF SigOutcomes
  <1> QED BY <1>1, <1>2, <1>3 DEF SigInv, SigArgs, SigArtifact, TokenIsSeen

(* What was concluded stands as long as its grounds do. *)
LEMMA ConclusionStands ==
    ASSUME UNCHANGED <<args, outcomes>>
    PROVE  Findings' = Findings /\ notes_for' = notes_for
  BY DEF Findings, notes_for, StatusOf

(* A command that is refused or only previewed touches no run. *)
LEMMA NoRunStep ==
    ASSUME SigInv, NEW a \in Commands, RefusedCommand(a) \/ Preview(a)
    PROVE  SigInv'
  <1>1. /\ UNCHANGED <<clock, endpoint, faults, seen, run, args, outcomes, artifact>>
        /\ sigcode' \in {1, 2} /\ sigpc' = "over" /\ sigpc = "idle"
    BY DEF RefusedCommand, Preview
  <1>2. SigTypes'
    BY <1>1 DEF SigInv, SigTypes
  <1>3. SigArgs'
    BY <1>1 DEF SigInv, SigArgs
  <1>4. SigOutcomes'
    BY <1>1 DEF SigInv, SigOutcomes
  <1>5. SigArtifact'
    BY <1>1, ConclusionStands DEF SigInv, SigArtifact
  <1>6. TokenIsSeen'
    BY <1>1 DEF TokenIsSeen
  <1>7. (run > 0 => AnswersAreDue)'
    BY <1>1 DEF SigInv, AnswersAreDue, Due
  <1> QED BY <1>2, <1>3, <1>4, <1>5, <1>6, <1>7 DEF SigInv

(* A run starts with its plan, and no outcomes. *)
LEMMA StartStep ==
    ASSUME SigInv, NEW a \in Commands, StartSending(a)
    PROVE  SigInv'
  <1> DEFINE scheme == effective_scheme(a)
  <1>1. /\ UNCHANGED <<clock, endpoint, faults, seen>>
        /\ run' = run + 1 /\ run < MaxRuns /\ outcomes' = <<>> /\ sigpc' = "send" /\ sigpc = "idle"
        /\ sigcode' = 9 /\ artifact' = NoArtifact
        /\ args'.scheme = scheme /\ args'.start = clock /\ args'.plan = plan(scheme, clock)
        /\ args'.fresh = \A item \in Range(plan(scheme, clock)) : item.signed.token \notin seen.tokens
    BY DEF StartSending
  <1>2. scheme \in Schemes
    BY SchemesAssumption DEF StartSending, SettingsRefused, effective_scheme
  <1>3. clock \in Nat /\ clock >= FirstSecond /\ run \in Nat /\ run' \in 0..MaxRuns /\ run' > 0
    BY <1>1, SigcheckAssumption DEF SigInv, SigTypes
  <1>4. SigTypes'
    BY <1>1, <1>3 DEF SigInv, SigTypes
  <1>5. SigArgs'
    BY <1>1, <1>2, <1>3 DEF SigArgs
  <1>6. SigOutcomes'
    BY <1>1 DEF SigOutcomes
  <1>7. SigArtifact'
    BY <1>1 DEF SigArtifact
  <1>8. TokenIsSeen'
    <2>1. DOMAIN plan(scheme, clock) = 1..6
      BY <1>2, <1>3, PlanShape DEF Shape
    <2>2. ASSUME args'.fresh, NEW i \in 1..6
          PROVE  args'.plan[i].signed.token \notin seen'.tokens
      <3>1. plan(scheme, clock)[i] \in Range(plan(scheme, clock))
        BY <2>1 DEF Range
      <3> QED BY <1>1, <2>2, <3>1
    <2>3. DOMAIN outcomes' = {}
      BY <1>1
    <2> QED BY <2>2, <2>3 DEF TokenIsSeen
  <1>9. (run > 0 => AnswersAreDue)'
    BY <1>1 DEF AnswersAreDue
  <1> QED BY <1>4, <1>5, <1>6, <1>7, <1>8, <1>9 DEF SigInv

(* What is known of a run that sends. *)
LEMMA WhileSending ==
    ASSUME SigInv, sigpc = "send"
    PROVE  /\ run > 0 /\ args.scheme \in Schemes /\ args.start \in Nat /\ args.start >= FirstSecond
           /\ clock \in Nat /\ args.start <= clock
           /\ args.plan = plan(args.scheme, args.start)
           /\ Len(args.plan) = 6 /\ DOMAIN args.plan = 1..6
           /\ outcomes \in Seq(Outcome) /\ Len(outcomes) \in 0..6
           /\ DOMAIN outcomes = 1..Len(outcomes)
  <1>1. run > 0
    BY SigcheckAssumption DEF SigInv, SigTypes
  <1>2. /\ args.scheme \in Schemes /\ args.start \in Nat /\ args.start >= FirstSecond
        /\ clock \in Nat /\ args.start <= clock
        /\ args.plan = plan(args.scheme, args.start)
    BY <1>1 DEF SigInv, SigArgs, SigTypes
  <1>3. Len(args.plan) = 6 /\ DOMAIN args.plan = 1..6
    BY <1>2, PlanShape DEF Shape
  <1>4. outcomes \in Seq(Outcome) /\ Len(outcomes) <= 6
    BY DEF SigInv, SigOutcomes
  <1>5. Len(outcomes) \in Nat /\ DOMAIN outcomes = 1..Len(outcomes)
    BY <1>4
  <1>6. Len(outcomes) \in 0..6
    BY <1>4, <1>5
  <1> QED BY <1>1, <1>2, <1>3, <1>4, <1>5, <1>6, Zenon

(* An endpoint that remembers no Message-IDs, asked in time by a run whose *)
(* tokens were new, accepts what is due.                                   *)
LEMMA AcceptsIsDue ==
    ASSUME SigInv, sigpc = "send", args.fresh, ~endpoint.messages, clock - args.start <= Window,
           Len(outcomes) < 6, args.plan[Len(outcomes) + 1].expect # "n/a"
    PROVE  Accepts(args.plan[Len(outcomes) + 1]) <=> Due(Len(outcomes) + 1)
  <1> DEFINE n == Len(outcomes) + 1
             item == args.plan[n]
             token(i) == args.plan[i].signed.token
  <1>1. /\ args.scheme \in Schemes /\ args.start \in Nat /\ args.start >= FirstSecond
        /\ clock \in Nat /\ args.start <= clock /\ args.plan = plan(args.scheme, args.start)
        /\ DOMAIN outcomes = 1..(n - 1) /\ n \in {1, 2, 3, 4, 5, 6}
    BY WhileSending
  <1> HIDE DEF n
  <1>2. verify(args.scheme, item.payload, item.signed)
            <=> n \notin {2, 3} /\ (n = 5 => ~signs_body(args.scheme))
    BY <1>1, PlanKeys DEF n
  <1>3. (item.signed.timestamp # 0 => clock - item.signed.timestamp <= Window) <=> n # 4
    <2>1. ASSUME n # 4 PROVE item.signed.timestamp # 0 => clock - item.signed.timestamp <= Window
      <3>1. n \in {1, 2, 3, 5, 6}
        BY <1>1, <2>1
      <3>2. item.signed.timestamp \in {0, args.start}
        BY <1>1, <3>1, PlanTimes
      <3> QED BY <3>2
    <2>2. ASSUME n = 4 PROVE item.signed.timestamp # 0 /\ ~(clock - item.signed.timestamp <= Window)
      <3>1. item.signed.timestamp = args.start - StaleBy /\ item.signed.timestamp # 0
        BY <1>1, <2>2, PlanTimes DEF n
      <3> QED BY <1>1, <3>1, SigcheckAssumption DEF StaleBy
    <2> QED BY <2>1, <2>2
  <1>4. token(n) \in seen.tokens <=>
            /\ token(n) # <<>>
            /\ \E j \in 1..(n - 1) : token(j) = token(n) /\ outcomes[j].status = "2xx"
    <2>1. n \in 1..6
      BY <1>1
    <2>2. TokenIsSeen
      BY DEF SigInv
    <2> QED BY <1>1, <2>1, <2>2 DEF TokenIsSeen
  <1>5. token(n) \notin seen.tokens <=>
            (n = 6 /\ args.scheme = "mailgun" => outcomes[1].status # "2xx")
    <2>1. ASSUME args.scheme # "mailgun" PROVE token(n) = <<>>
      BY <1>1, <2>1, PlanTokens
    <2>2. CASE args.scheme = "mailgun"
      <3>1. /\ token(1) = token(6) /\ token(1) # <<>> /\ token(3) = <<>>
            /\ \A i \in {2, 4, 5}, j \in 1..6 : i # j => token(i) # token(j)
        BY <1>1, <2>2, PlanTokens, SMTT(30)
      <3>2. CASE n = 1
        BY <3>2, <1>4
      <3>3. CASE n = 3
        BY <3>3, <3>1, <1>4
      <3>4. CASE n \in {2, 4, 5}
        BY <3>4, <3>1, <1>4
      <3>5. CASE n = 6
        <4>1. \A j \in 1..5 : token(j) = token(6) => j = 1
          <5>1. \A j \in {2, 4, 5} : token(j) # token(6)
            BY <3>1
          <5>2. token(3) # token(6)
            BY <3>1
          <5>3. \A j \in 1..5 : j \in {1, 2, 3, 4, 5}
            OBVIOUS
          <5> HIDE DEF token
          <5> QED BY <5>1, <5>2, <5>3
        <4> HIDE DEF token
        <4> QED BY <3>5, <3>1, <4>1, <1>4, <2>2
      <3> QED BY <1>1, <3>2, <3>3, <3>4, <3>5
    <2> HIDE DEF token
    <2> QED BY <2>1, <2>2, <1>4
  <1>6. Accepts(item) <=>
            /\ endpoint.signature => n \notin {2, 3} /\ (n = 5 => ~signs_body(args.scheme))
            /\ endpoint.window => n # 4
            /\ endpoint.tokens => (n = 6 /\ args.scheme = "mailgun" => outcomes[1].status # "2xx")
    BY <1>2, <1>3, <1>5 DEF Accepts
  <1>7. Accepts(item) <=> Due(n)
    BY <1>6 DEF Due
  <1> QED BY <1>7 DEF n

(* An outcome more, of the next variant. *)
LEMMA OneOutcomeMore ==
    ASSUME SigInv, sigpc = "send", Len(outcomes) < 6, UNCHANGED args,
           NEW status \in Statuses, args.plan[Len(outcomes) + 1].expect = "n/a" => status = "none",
           outcomes' = Append(outcomes,
                          [variant |-> args.plan[Len(outcomes) + 1].variant, status |-> status,
                           verdict |-> judge(args.plan[Len(outcomes) + 1], status)])
    PROVE  /\ SigOutcomes'
           /\ Len(outcomes') = Len(outcomes) + 1 /\ DOMAIN outcomes' = 1..(Len(outcomes) + 1)
           /\ \A i \in 1..Len(outcomes) : outcomes'[i] = outcomes[i]
           /\ outcomes'[Len(outcomes) + 1].status = status
  <1> DEFINE item == args.plan[Len(outcomes) + 1]
             new == [variant |-> item.variant, status |-> status, verdict |-> judge(item, status)]
  <1>1. /\ args.scheme \in Schemes /\ args.start \in Nat /\ args.plan = plan(args.scheme, args.start)
        /\ outcomes \in Seq(Outcome) /\ Len(outcomes) \in 0..6 /\ DOMAIN outcomes = 1..Len(outcomes)
    BY WhileSending
  <1>2. Len(outcomes) + 1 \in {1, 2, 3, 4, 5, 6}
    BY <1>1
  <1>3. item.variant \in Variants
    BY <1>1, <1>2, PlanShape DEF Shape, Variants
  <1>4. judge(item, status) \in {"N/A", "OK", "INFO", "FINDING"}
    BY DEF judge
  <1>5. new \in Outcome
    BY <1>3, <1>4 DEF Outcome
  <1> HIDE DEF new
  <1>6. outcomes' = Append(outcomes, new)
    BY DEF new
  <1>7. /\ outcomes' \in Seq(Outcome) /\ Len(outcomes') = Len(outcomes) + 1
        /\ DOMAIN outcomes' = 1..(Len(outcomes) + 1)
        /\ \A i \in 1..Len(outcomes) : outcomes'[i] = outcomes[i]
        /\ outcomes'[Len(outcomes) + 1] = new
    BY <1>1, <1>5, <1>6
  <1>8. /\ new.variant = item.variant /\ new.status = status /\ new.verdict = judge(item, status)
    BY DEF new
  <1>9. SigOutcomes'
    <2>1. ASSUME NEW i \in DOMAIN outcomes'
          PROVE  /\ outcomes'[i].variant = args.plan[i].variant
                 /\ outcomes'[i].verdict = judge(args.plan[i], outcomes'[i].status)
                 /\ args.plan[i].expect = "n/a" => outcomes'[i].status = "none"
      <3>1. CASE i \in 1..Len(outcomes)
        BY <1>1, <1>7, <3>1 DEF SigInv, SigOutcomes
      <3>2. CASE i = Len(outcomes) + 1
        BY <1>7, <1>8, <3>2
      <3> QED BY <1>1, <1>7, <3>1, <3>2
    <2>2. Len(outcomes') <= 6
      BY <1>1, <1>7
    <2>3. args' = args
      OBVIOUS
    <2> QED BY <1>7, <2>1, <2>2, <2>3 DEF SigOutcomes
  <1> QED BY <1>7, <1>8, <1>9

(* A variant that is not sent. *)
LEMMA SkipStep ==
    ASSUME SigInv, Skip
    PROVE  SigInv'
  <1>1. /\ UNCHANGED <<clock, endpoint, faults, seen, run, sigpc, args, sigcode, artifact>>
        /\ sigpc = "send" /\ Len(outcomes) < Len(args.plan)
        /\ args.plan[Len(outcomes) + 1].expect = "n/a"
        /\ outcomes' = Append(outcomes,
                          [variant |-> args.plan[Len(outcomes) + 1].variant, status |-> "none",
                           verdict |-> judge(args.plan[Len(outcomes) + 1], "none")])
    BY DEF Skip
  <1>2. /\ Len(args.plan) = 6 /\ Len(outcomes) \in 0..6 /\ DOMAIN outcomes = 1..Len(outcomes)
        /\ run > 0
    BY <1>1, WhileSending
  <1>3. "none" \in Statuses
    BY DEF Statuses
  <1>4. /\ SigOutcomes' /\ DOMAIN outcomes' = 1..(Len(outcomes) + 1)
        /\ \A i \in 1..Len(outcomes) : outcomes'[i] = outcomes[i]
        /\ outcomes'[Len(outcomes) + 1].status = "none"
    BY <1>1, <1>2, <1>3, OneOutcomeMore
  <1>5. SigTypes'
    BY <1>1, <1>2 DEF SigInv, SigTypes
  <1>6. SigArgs'
    BY <1>1 DEF SigInv, SigArgs
  <1>7. SigArtifact'
    BY <1>1 DEF SigInv, SigArtifact
  <1>8. TokenIsSeen'
    <2> DEFINE Same(i, j) == args.plan[j].signed.token = args.plan[i].signed.token
    <2>1. ASSUME NEW i \in 1..6
          PROVE  (\E j \in DOMAIN outcomes' : Same(i, j) /\ outcomes'[j].status = "2xx")
             <=> (\E j \in DOMAIN outcomes : Same(i, j) /\ outcomes[j].status = "2xx")
      <3> HIDE DEF Same
      <3> QED BY <1>2, <1>4
    <2>2. TokenIsSeen
      BY DEF SigInv
    <2>3. args' = args /\ seen' = seen /\ sigpc' = sigpc
      BY <1>1
    <2> QED BY <2>1, <2>2, <2>3 DEF TokenIsSeen
  <1>9. AnswersAreDue'
    <2>1. AnswersAreDue
      BY <1>2 DEF SigInv
    <2>2. \A i \in 1..Len(outcomes) : Due(i)' = Due(i)
      BY <1>1, <1>2, <1>4 DEF Due
    <2>3. \A i \in DOMAIN outcomes' : outcomes'[i].status \in {"2xx", "4xx"} => i \in DOMAIN outcomes
      BY <1>2, <1>4
    <2> QED BY <1>1, <1>2, <1>4, <2>1, <2>2, <2>3 DEF AnswersAreDue
  <1> QED BY <1>4, <1>5, <1>6, <1>7, <1>8, <1>9 DEF SigInv

(* What the endpoint knows after an answer. *)
LEMMA AnswerIsKept ==
    ASSUME SigInv, sigpc = "send", NEW item, NEW status, Answered(item, status)
    PROVE  /\ DOMAIN seen' = {"tokens", "messages"} /\ <<>> \notin seen'.tokens
           /\ \A x : x \in seen'.tokens <=>
                    x \in seen.tokens \/ (status = "2xx" /\ x = item.signed.token /\ x # <<>>)
  <1>1. DOMAIN seen = {"tokens", "messages"} /\ <<>> \notin seen.tokens
    BY DEF SigInv, SigTypes
  <1>2. CASE status # "2xx"
    BY <1>1, <1>2 DEF Answered
  <1>3. CASE status = "2xx"
    <2>1. seen' = [tokens   |-> seen.tokens \cup ({item.signed.token} \ {<<>>}),
                   messages |-> seen.messages \cup {args.message}]
      BY <1>3 DEF Answered
    <2>2. seen'.tokens = seen.tokens \cup ({item.signed.token} \ {<<>>})
      BY <2>1
    <2> QED BY <1>1, <1>3, <2>1, <2>2
  <1> QED BY <1>2, <1>3

(* The next variant is posted. *)
LEMMA PostStep ==
    ASSUME SigInv, PostVariant
    PROVE  SigInv'
  <1> DEFINE n == Len(outcomes) + 1
             item == args.plan[n]
             token(i) == args.plan[i].signed.token
  <1>1. /\ UNCHANGED <<endpoint, run, sigpc, args, sigcode, artifact>>
        /\ sigpc = "send" /\ Len(outcomes) < Len(args.plan) /\ item.expect # "n/a"
    BY DEF PostVariant
  <1>2. /\ Len(args.plan) = 6 /\ Len(outcomes) \in 0..6 /\ DOMAIN outcomes = 1..Len(outcomes)
        /\ run > 0 /\ clock \in Nat /\ args.start \in Nat /\ args.start <= clock
    BY <1>1, WhileSending
  <1>3. PICK status \in Statuses :
            /\ Answered(item, status)
            /\ outcomes' = Append(outcomes, [variant |-> item.variant, status |-> status,
                                             verdict |-> judge(item, status)])
    BY DEF PostVariant, Statuses
  <1>4. PICK pause \in Pauses : clock' = clock + pause
    BY DEF PostVariant
  <1>5. clock' \in Nat /\ clock' >= clock
    BY <1>2, <1>4, SigcheckAssumption
  <1>6. /\ SigOutcomes' /\ DOMAIN outcomes' = 1..n
        /\ \A i \in 1..Len(outcomes) : outcomes'[i] = outcomes[i]
        /\ outcomes'[n].status = status
    BY <1>1, <1>2, <1>3, OneOutcomeMore
  <1>7. /\ DOMAIN seen' = {"tokens", "messages"} /\ <<>> \notin seen'.tokens
        /\ \A x : x \in seen'.tokens <=>
                    x \in seen.tokens \/ (status = "2xx" /\ x = item.signed.token /\ x # <<>>)
    BY <1>1, <1>3, AnswerIsKept
  <1>8. SigTypes'
    <2>1. clock >= FirstSecond /\ FirstSecond \in Nat
      BY <1>1, SigcheckAssumption DEF SigInv, SigTypes, FirstSecond, StaleBy
    <2> QED BY <1>1, <1>2, <1>5, <1>7, <2>1 DEF SigInv, SigTypes
  <1>9. SigArgs'
    BY <1>1, <1>2, <1>5 DEF SigInv, SigArgs
  <1>10. SigArtifact'
    BY <1>1 DEF SigInv, SigArtifact
  <1>11. TokenIsSeen'
    <2> SUFFICES ASSUME args.fresh
                 PROVE  \A i \in 1..6 : token(i) \in seen'.tokens <=>
                            /\ token(i) # <<>>
                            /\ \E j \in DOMAIN outcomes' : token(j) = token(i) /\ outcomes'[j].status = "2xx"
      BY <1>1 DEF TokenIsSeen
    <2>1. \A i \in 1..6 : token(i) \in seen.tokens <=>
                /\ token(i) # <<>>
                /\ \E j \in DOMAIN outcomes : token(j) = token(i) /\ outcomes[j].status = "2xx"
      BY <1>1 DEF SigInv, TokenIsSeen
    <2>2. \A i \in 1..6 : token(i) \in seen'.tokens <=>
                token(i) \in seen.tokens \/ (status = "2xx" /\ token(i) = token(n) /\ token(i) # <<>>)
      BY <1>7
    <2>3. \A j : j \in DOMAIN outcomes' <=> j \in DOMAIN outcomes \/ j = n
      BY <1>2, <1>6
    <2>4. n \notin DOMAIN outcomes
      BY <1>2
    <2> HIDE DEF token, n
    <2>5. ASSUME NEW i \in 1..6
          PROVE  (\E j \in DOMAIN outcomes' : token(j) = token(i) /\ outcomes'[j].status = "2xx")
             <=> \/ \E j \in DOMAIN outcomes : token(j) = token(i) /\ outcomes[j].status = "2xx"
                 \/ status = "2xx" /\ token(i) = token(n)
      BY <1>2, <1>6, <2>3, <2>4
    <2> QED BY <2>1, <2>2, <2>5
  <1>12. AnswersAreDue'
    <2> SUFFICES ASSUME args.fresh, ~endpoint.messages, clock' - args.start <= Window,
                        NEW i \in DOMAIN outcomes', outcomes'[i].status \in {"2xx", "4xx"}
                 PROVE  outcomes'[i].status = "2xx" <=> Due(i)'
      BY <1>1 DEF AnswersAreDue
    <2>1. clock - args.start <= Window
      BY <1>2, <1>5, SigcheckAssumption
    <2>2. CASE i \in 1..Len(outcomes)
      <3>1. AnswersAreDue
        BY <1>2 DEF SigInv
      <3>2. Due(i)' = Due(i)
        BY <1>1, <1>2, <1>6, <2>2 DEF Due
      <3> QED BY <1>2, <1>6, <2>1, <2>2, <3>1, <3>2 DEF AnswersAreDue
    <2>3. CASE i = n
      <3>1. Accepts(item) <=> Due(i)
        BY <1>1, <1>2, <2>1, <2>3, AcceptsIsDue
      <3>2. status = "2xx" <=> Accepts(item)
        BY <1>3, <1>6, <2>3 DEF Answered
      <3>3. Due(i)' <=> Due(i)
        BY <1>1, <1>2, <1>6, <2>3 DEF Due
      <3>4. outcomes'[i].status = status
        BY <1>6, <2>3
      <3> QED BY <3>1, <3>2, <3>3, <3>4
    <2> QED BY <1>2, <1>6, <2>2, <2>3
  <1> QED BY <1>6, <1>8, <1>9, <1>10, <1>11, <1>12 DEF SigInv

(* The end of a run, also of one that is interrupted. *)
LEMMA EndStep ==
    ASSUME SigInv, EndSigcheck \/ SigInterrupt
    PROVE  SigInv'
  <1>1. PICK aborted \in BOOLEAN :
            /\ Conclude(aborted) /\ sigpc = "send"
            /\ ~aborted => Len(outcomes) = Len(args.plan)
    BY DEF EndSigcheck, SigInterrupt
  <1>2. /\ UNCHANGED <<clock, endpoint, faults, run, args, outcomes>>
        /\ sigpc' \in {"idle", "over"} /\ sigcode' \in {0, 3}
    BY <1>1 DEF Conclude
  <1>3. DOMAIN seen' = {"tokens", "messages"} /\ <<>> \notin seen'.tokens
    <2>1. CASE UNCHANGED seen
      BY <2>1 DEF SigInv, SigTypes
    <2>2. CASE Answered(args.plan[Len(outcomes) + 1], "2xx")
      BY <1>1, <2>2, AnswerIsKept
    <2> QED BY <2>1, <2>2 DEF EndSigcheck, SigInterrupt
  <1>4. run > 0 /\ Len(args.plan) = 6
    BY <1>1, WhileSending
  <1>5. SigTypes'
    <2>1. clock >= FirstSecond /\ run \in 0..MaxRuns /\ run # 0
      BY <1>1, <1>4, SigcheckAssumption DEF SigInv, SigTypes
    <2> QED BY <1>2, <1>3, <2>1 DEF SigInv, SigTypes
  <1>6. SigArgs'
    BY <1>2 DEF SigInv, SigArgs
  <1>7. SigOutcomes'
    BY <1>2 DEF SigInv, SigOutcomes
  <1>8. TokenIsSeen'
    BY <1>2 DEF TokenIsSeen
  <1>9. AnswersAreDue'
    BY <1>2, <1>4 DEF SigInv, AnswersAreDue, Due
  <1>10. SigArtifact'
    <2>1. /\ artifact'.aborted = aborted
          /\ artifact'.verdict = IF Findings = 0 /\ ~aborted THEN "ENFORCED" ELSE "GAPS"
          /\ artifact'.notes = notes_for
          /\ sigcode' = IF aborted \/ Findings > 0 THEN 3 ELSE 0
      BY <1>1 DEF Conclude
    <2>2. Findings' = Findings /\ notes_for' = notes_for
      BY <1>2, ConclusionStands
    <2> QED BY <1>1, <1>2, <1>4, <2>1, <2>2 DEF SigArtifact
  <1> QED BY <1>5, <1>6, <1>7, <1>8, <1>9, <1>10 DEF SigInv

(* Every step of a session keeps the invariant. *)
LEMMA SigStep ==
    ASSUME SigInv, SigNext \/ UNCHANGED sigVars
    PROVE  SigInv'
  <1>1. CASE UNCHANGED sigVars
    <2>1. UNCHANGED <<clock, endpoint, faults, seen, run, sigpc, args, outcomes, sigcode, artifact>>
      BY <1>1 DEF sigVars
    <2>2. SigTypes' /\ SigArgs'
      BY <2>1 DEF SigInv, SigTypes, SigArgs
    <2>3. SigOutcomes' /\ TokenIsSeen'
      BY <2>1 DEF SigInv, SigOutcomes, TokenIsSeen
    <2>4. SigArtifact'
      BY <2>1, ConclusionStands DEF SigInv, SigArtifact
    <2>5. (run > 0 => AnswersAreDue)'
      BY <2>1 DEF SigInv, AnswersAreDue, Due
    <2> QED BY <2>2, <2>3, <2>4, <2>5 DEF SigInv
  <1> QED BY <1>1, NoRunStep, StartStep, SkipStep, PostStep, EndStep DEF SigNext, SigCommand, SigTool

-----------------------------------------------------------------------------
(* The number of findings is one, and none means that there are none. *)
LEMMA FindingsCount ==
    ASSUME SigInv
    PROVE  /\ Findings \in Nat
           /\ Findings = 0 <=> \A i \in DOMAIN outcomes : outcomes[i].verdict # "FINDING"
  <1> DEFINE F == {i \in DOMAIN outcomes : outcomes[i].verdict = "FINDING"}
  <1>1. outcomes \in Seq(Outcome)
    BY DEF SigInv, SigOutcomes
  <1>2. Len(outcomes) \in Nat /\ DOMAIN outcomes = 1..Len(outcomes)
    BY <1>1
  <1>3. IsFiniteSet(1..Len(outcomes))
    BY <1>2, FS_Interval
  <1>4. IsFiniteSet(F)
    BY <1>2, <1>3, FS_Subset
  <1>5. Cardinality(F) \in Nat /\ (Cardinality(F) = 0 <=> F = {})
    BY <1>4, FS_CardinalityType, FS_EmptySet
  <1>6. Findings = Cardinality(F)
    BY DEF Findings
  <1>7. F = {} <=> \A i \in DOMAIN outcomes : outcomes[i].verdict # "FINDING"
    OBVIOUS
  <1> QED BY <1>5, <1>6, <1>7

(* ENFORCED, and exit 0, are earned. *)
LEMMA EnforcedFollows == SigInv => EnforcedIsEarned
  <1> SUFFICES ASSUME SigInv, artifact # NoArtifact, sigpc # "send", sigcode \in {0, 3}
               PROVE  /\ sigcode = 0 <=> artifact.verdict = "ENFORCED"
                      /\ artifact.verdict = "ENFORCED" =>
                            /\ Len(outcomes) = 6
                            /\ \A i \in 1..6 : outcomes[i].verdict # "N/A" =>
                                                    outcomes[i].status \in {"2xx", "4xx"}
                            /\ outcomes[1].status = "2xx"
    BY DEF EnforcedIsEarned
  <1>1. /\ artifact.aborted \in BOOLEAN
        /\ artifact.verdict = IF Findings = 0 /\ ~artifact.aborted THEN "ENFORCED" ELSE "GAPS"
        /\ ~artifact.aborted => Len(outcomes) = 6
        /\ sigcode = IF artifact.aborted \/ Findings > 0 THEN 3 ELSE 0
    BY DEF SigInv, SigArtifact
  <1>2. /\ Findings \in Nat
        /\ Findings = 0 <=> \A i \in DOMAIN outcomes : outcomes[i].verdict # "FINDING"
    BY FindingsCount
  <1>3. sigcode = 0 <=> artifact.verdict = "ENFORCED"
    BY <1>1, <1>2
  <1>4. ASSUME artifact.verdict = "ENFORCED"
        PROVE  /\ Len(outcomes) = 6
               /\ \A i \in 1..6 : outcomes[i].verdict # "N/A" => outcomes[i].status \in {"2xx", "4xx"}
               /\ outcomes[1].status = "2xx"
    <2>1. Len(outcomes) = 6 /\ \A i \in DOMAIN outcomes : outcomes[i].verdict # "FINDING"
      BY <1>1, <1>2, <1>4
    <2>2. run > 0
      BY SigcheckAssumption DEF SigInv, SigTypes
    <2>3. args.plan[1].expect = "accept"
      BY <2>2, PlanShape DEF Shape, SigInv, SigArgs
    <2>4. /\ DOMAIN outcomes = 1..6
          /\ \A i \in 1..6 : outcomes[i].verdict = judge(args.plan[i], outcomes[i].status)
      <3>1. outcomes \in Seq(Outcome)
        BY DEF SigInv, SigOutcomes
      <3>2. DOMAIN outcomes = 1..6
        BY <2>1, <3>1
      <3> QED BY <3>2 DEF SigInv, SigOutcomes
    <2>5. \A i \in 1..6 : outcomes[i].verdict # "N/A" => outcomes[i].status \in {"2xx", "4xx"}
      BY <2>1, <2>4 DEF judge
    <2>6. outcomes[1].status = "2xx"
      <3>1. 1 \in 1..6
        OBVIOUS
      <3> QED BY <2>1, <2>3, <2>4, <3>1 DEF judge
    <2> QED BY <2>1, <2>5, <2>6
  <1> QED BY <1>3, <1>4

(* Where a run can tell, its verdicts are right, one by one. *)
LEMMA VerdictsFollow == SigInv => EachVerdictIsRight
  <1> SUFFICES ASSUME SigInv, Telling
               PROVE  /\ \A i \in DOMAIN outcomes :
                            outcomes[i].verdict \in {"OK", "FINDING"} =>
                                (outcomes[i].verdict = "OK" <=> Enforces(outcomes[i].variant))
                      /\ ("token cache" \in artifact.notes)
                            <=> (args.scheme = "mailgun" /\ endpoint.tokens /\ ~endpoint.window)
    BY DEF EachVerdictIsRight
  <1>1. /\ run > 0 /\ args.scheme \in Schemes /\ args.start \in Nat
        /\ args.plan = plan(args.scheme, args.start)
    <2>1. run > 0
      BY SigcheckAssumption DEF SigInv, SigTypes, Telling
    <2> QED BY <2>1 DEF SigInv, SigArgs
  <1>2. /\ Len(outcomes) = 6 /\ artifact.notes = notes_for
    BY DEF SigInv, SigArtifact, Telling
  <1>3. /\ DOMAIN outcomes = 1..6
        /\ \A i \in 1..6 : /\ outcomes[i].verdict = judge(args.plan[i], outcomes[i].status)
                           /\ outcomes[i].variant = args.plan[i].variant
                           /\ args.plan[i].expect = "n/a" => outcomes[i].status = "none"
    <2>1. outcomes \in Seq(Outcome)
      BY DEF SigInv, SigOutcomes
    <2>2. DOMAIN outcomes = 1..6
      BY <1>2, <2>1
    <2> QED BY <2>2 DEF SigInv, SigOutcomes
  <1>4. \A i \in 1..6 : args.plan[i].expect # "n/a" => outcomes[i].status \in {"2xx", "4xx"}
    BY <1>3 DEF Telling, judge
  <1>5. \A i \in 1..6 : args.plan[i].expect # "n/a" => (outcomes[i].status = "2xx" <=> Due(i))
    <2>1. AnswersAreDue
      BY <1>1 DEF SigInv
    <2> QED BY <1>3, <1>4, <2>1 DEF AnswersAreDue, Telling
  <1>6. Shape(args.plan, args.scheme)
    BY <1>1, PlanShape
  <1>7. outcomes[1].status = "2xx"
    <2>1. 1 \in 1..6 /\ Due(1)
      BY DEF Due
    <2> QED BY <1>5, <1>6, <2>1 DEF Shape
  <1>8. ASSUME NEW i \in 1..6, outcomes[i].verdict \in {"OK", "FINDING"}
        PROVE  outcomes[i].verdict = "OK" <=> Enforces(outcomes[i].variant)
    <2>1. /\ args.plan[i].expect \notin {"n/a", "info"}
          /\ outcomes[i].verdict = "OK" <=>
                (args.plan[i].expect = "accept") = (outcomes[i].status = "2xx")
      BY <1>3, <1>4, <1>8 DEF judge
    <2>2. CASE i = 1
      BY <1>3, <1>6, <1>7, <2>1, <2>2 DEF Shape, Enforces
    <2>3. CASE i \in {2, 3}
      BY <1>3, <1>5, <1>6, <2>1, <2>3 DEF Shape, Enforces, Due
    <2>4. CASE i = 4
      BY <1>1, <1>3, <1>5, <1>6, <2>1, <2>4 DEF Shape, Enforces, Due, Schemes
    <2>5. CASE i = 5
      BY <1>1, <1>3, <1>5, <1>6, <2>1, <2>5 DEF Shape, Enforces, Due, Schemes, signs_body
    <2>6. CASE i = 6
      BY <1>1, <1>3, <1>5, <1>6, <1>7, <2>1, <2>6 DEF Shape, Enforces, Due, Schemes
    <2> QED BY <2>2, <2>3, <2>4, <2>5, <2>6
  <1>9. "token cache" \in artifact.notes
            <=> /\ args.scheme = "mailgun" /\ StatusOf("stale-timestamp") = {"2xx"}
                /\ StatusOf("replayed-token") \notin {{}, {"none"}, {"2xx"}}
    BY <1>2 DEF notes_for
  <1>10. /\ StatusOf("stale-timestamp") = {outcomes[4].status}
         /\ StatusOf("replayed-token") = {outcomes[6].status}
    <2>1. \A i \in 1..6 : outcomes[i].variant = "stale-timestamp" <=> i = 4
      BY <1>3, <1>6 DEF Shape
    <2>2. \A i \in 1..6 : outcomes[i].variant = "replayed-token" <=> i = 6
      BY <1>3, <1>6 DEF Shape
    <2> QED BY <1>3, <2>1, <2>2 DEF StatusOf
  <1>11. ASSUME args.scheme = "mailgun"
         PROVE  /\ outcomes[4].status = "2xx" <=> ~endpoint.window
                /\ outcomes[6].status \in {"2xx", "4xx"}
                /\ outcomes[6].status = "2xx" <=> ~endpoint.tokens
    <2>1. args.plan[4].expect # "n/a" /\ args.plan[6].expect # "n/a"
      BY <1>6, <1>11 DEF Shape
    <2>2. Due(4) <=> ~endpoint.window
      BY DEF Due
    <2>3. Due(6) <=> ~endpoint.tokens
      BY <1>7, <1>11 DEF Due
    <2>4. 4 \in 1..6 /\ 6 \in 1..6
      OBVIOUS
    <2> QED BY <1>4, <1>5, <2>1, <2>2, <2>3, <2>4
  <1> QED BY <1>3, <1>8, <1>9, <1>10, <1>11

-----------------------------------------------------------------------------
(* Lists, of whatever they hold. *)
LEMMA EmptyList == IsList(<<>>) /\ Len(<<>>) = 0 /\ DOMAIN <<>> = {}
  BY DEF IsList

LEMMA ListShape ==
    ASSUME NEW s, IsList(s)
    PROVE  Len(s) \in Nat /\ DOMAIN s = 1..Len(s) /\ (s = <<>> <=> Len(s) = 0)
  <1>1. s \in Seq(Range(s))
    BY DEF IsList
  <1> HIDE DEF Range
  <1> QED BY <1>1

LEMMA AppendList ==
    ASSUME NEW s, IsList(s), NEW x
    PROVE  /\ IsList(Append(s, x))
           /\ Len(Append(s, x)) = Len(s) + 1 /\ DOMAIN Append(s, x) = 1..(Len(s) + 1)
           /\ \A i \in 1..Len(s) : Append(s, x)[i] = s[i]
           /\ Append(s, x)[Len(s) + 1] = x
  <1> DEFINE t == Append(s, x)
             S == Range(s) \cup {x}
  <1>1. s \in Seq(Range(s))
    BY DEF IsList
  <1>2. s \in Seq(S) /\ x \in S
    <2>1. Len(s) \in Nat /\ s \in [1..Len(s) -> Range(s)]
      BY <1>1
    <2>2. s \in [1..Len(s) -> S]
      BY <2>1
    <2> QED BY <2>1, <2>2
  <1> HIDE DEF S
  <1>3. /\ t \in Seq(S) /\ Len(t) = Len(s) + 1 /\ Len(s) \in Nat /\ DOMAIN t = 1..(Len(s) + 1)
        /\ \A i \in 1..Len(s) : t[i] = s[i]
        /\ t[Len(s) + 1] = x
    BY <1>2
  <1> HIDE DEF t
  <1>4. t \in Seq(Range(t))
    <2>1. t \in [1..Len(t) -> Range(t)] /\ Len(t) \in Nat
      BY <1>3 DEF Range
    <2> QED BY <2>1
  <1>5. IsList(t)
    BY <1>4 DEF IsList
  <1> QED BY <1>3, <1>5 DEF t

(* What build_record makes is in its place and graded. *)
LEMMA BuiltIsGraded ==
    ASSUME NEW item, NEW seed, NEW index, NEW answer \in Answers, NEW pattern
    PROVE  LET record == build_record(item, seed, index, response_from_transport(answer, pattern))
           IN  Graded(record, index) /\ record.payload_sha256 = item.payload
  <1> DEFINE response == response_from_transport(answer, pattern)
             record == [id       |-> <<item.category, seed, index>>,
                        category |-> item.category,
                        payload_sha256 |-> item.payload,
                        response |-> response,
                        passed   |-> StatusOnlyMatcher(response)]
             failed == [record EXCEPT !.passed = FALSE]
             built == build_record(item, seed, index, response)
  <1>1. /\ response \in [status : STATUS_CLASSES, body_failure : BOOLEAN]
        /\ response.body_failure => response.status = "2xx"
    BY AnswersAssumption DEF response_from_transport
  <1>2. built = IF flagged(record) THEN failed ELSE record
    BY DEF build_record
  <1> HIDE DEF response
  <1>3. flagged(failed) <=> flagged(record)
    BY DEF flagged, classify_record, FLAGGED_OUTCOMES
  <1>4. StatusOnlyMatcher(response) \in BOOLEAN
    BY DEF StatusOnlyMatcher
  <1>5. CASE flagged(record)
    <2>1. built = failed
      BY <1>2, <1>5
    <2>2. /\ failed.id[3] = index /\ failed.response = response /\ failed.passed = FALSE
          /\ failed.payload_sha256 = item.payload
      OBVIOUS
    <2> HIDE DEF failed, record, built
    <2> QED BY <1>1, <1>3, <1>5, <2>1, <2>2 DEF Graded, built, response
  <1>6. CASE ~flagged(record)
    <2>1. built = record
      BY <1>2, <1>6
    <2>2. /\ record.id[3] = index /\ record.response = response
          /\ record.passed = StatusOnlyMatcher(response) /\ record.payload_sha256 = item.payload
      OBVIOUS
    <2> HIDE DEF record, built
    <2> QED BY <1>1, <1>4, <1>6, <2>1, <2>2 DEF Graded, built, response
  <1> QED BY <1>5, <1>6

(* A graded record is flagged, and its assertion has failed, exactly when   *)
(* it failed by the rules of the header; else it is ok.                     *)
LEMMA GradedIsRight ==
    ASSUME NEW record, NEW i, Graded(record, i)
    PROVE  /\ flagged(record) <=> Failed(record)
           /\ ~record.passed <=> Failed(record)
           /\ classify_record(record) = "ok" <=> ~Failed(record)
  <1>1. flagged(record) <=> Failed(record)
    BY DEF Graded, flagged, classify_record, FLAGGED_OUTCOMES, Failed, STATUS_CLASSES
  <1>2. StatusOnlyMatcher(record.response) \/ Failed(record)
    BY DEF StatusOnlyMatcher, Failed
  <1>3. ~record.passed <=> Failed(record)
    BY <1>1, <1>2 DEF Graded
  <1>4. classify_record(record) = "ok" <=> ~Failed(record)
    BY <1>1, <1>3 DEF flagged, classify_record, FLAGGED_OUTCOMES
  <1> QED BY <1>1, <1>3, <1>4

-----------------------------------------------------------------------------
(* A session begins in its invariant, with the files it finds. *)
LEMMA BlastBegins ==
    ASSUME BlastInit \/ BlastOff
    PROVE  BlastInv
  <1>1. /\ step \in 1..4 /\ pc = "idle" /\ cmd = NoCommand /\ records = <<>> /\ wire = <<>>
        /\ code = NoCode /\ diff = <<>>
    BY DEF BlastInit, BlastOff
  <1>2. cmd.name = "none"
    BY <1>1 DEF NoCommand
  <1>3. /\ DOMAIN files = 1..2 /\ files[1] \in OldFiles \cup LoadFiles \cup {NoFile}
        /\ files[2] \in OldFiles \cup LoadFiles \cup {NoFile}
    BY DEF BlastInit, BlastOff
  <1>4. \A file \in OldFiles \cup LoadFiles \cup {NoFile} : Readable(file)
    BY FilesAssumption DEF Readable, NoFile, IsList, Graded
  <1>5. BlastTypes
    BY <1>1, <1>3 DEF BlastTypes
  <1>6. OnTheWire
    BY <1>1, EmptyList DEF OnTheWire
  <1>7. BlastConsent
    BY <1>1 DEF BlastConsent
  <1>8. BlastEnd
    BY <1>2 DEF BlastEnd, RunJustEnded
  <1>9. Artifacts
    <2>1. \A k \in 1..2 : k = 1 \/ k = 2
      OBVIOUS
    <2> QED BY <1>1, <1>3, <1>4, <2>1 DEF Artifacts
  <1> QED BY <1>5, <1>6, <1>7, <1>8, <1>9 DEF BlastInv

(* A command that sends nothing leaves no records. *)
LEMMA NothingSentStep ==
    ASSUME BlastInv, step \in {1, 2}, Returns(EXIT_REFUSED) \/ Returns(EXIT_DRY_RUN),
           records' = <<>>, wire' = <<>>, diff' = diff,
           DOMAIN files' = 1..2, \A k \in 1..2 : Readable(files'[k])
    PROVE  BlastInv'
  <1>1. step' = step + 1 /\ pc' = "idle" /\ code' \in {1, 2}
    BY DEF Returns, EXIT_REFUSED, EXIT_DRY_RUN
  <1>2. BlastTypes'
    BY <1>1 DEF BlastTypes
  <1>3. OnTheWire'
    BY <1>1, EmptyList DEF OnTheWire
  <1>4. BlastConsent'
    BY <1>1 DEF BlastConsent
  <1>5. BlastEnd'
    BY <1>1 DEF BlastEnd, RunJustEnded
  <1>6. Artifacts'
    <2>1. diff' = <<>>
      BY DEF BlastInv, Artifacts
    <2> QED BY <2>1 DEF Artifacts, Readable
  <1> QED BY <1>2, <1>3, <1>4, <1>5, <1>6 DEF BlastInv

LEMMA DeclinedStep ==
    ASSUME BlastInv, step \in {1, 2}, NEW name, Declined(name)
    PROVE  BlastInv'
  <1>1. /\ Returns(EXIT_REFUSED) /\ records' = <<>> /\ wire' = <<>> /\ files' = files /\ diff' = diff
    BY DEF Declined
  <1>2. DOMAIN files' = 1..2 /\ \A k \in 1..2 : Readable(files'[k])
    BY <1>1 DEF BlastInv, BlastTypes, Artifacts
  <1> QED BY <1>1, <1>2, NothingSentStep

(* A fire or a replay from its plan on: refused, previewed, or permitted   *)
(* to send.                                                                *)
LEMMA FireStep ==
    ASSUME BlastInv, step \in {1, 2}, pc = "idle",
           NEW name \in {"fire", "replay"}, NEW corpus, NEW send \in BOOLEAN, NEW target, NEW allow,
           NEW pattern, FireOrReplay(name, corpus, send, target, allow, pattern)
    PROVE  BlastInv'
  <1> DEFINE pairs == build(corpus, DEFAULT_MIX, CaseCategory)
             config(dry) == RunConfig(corpus, dry, IF dry THEN <<>> ELSE target, pattern)
             going == /\ pattern # "invalid"
                      /\ send => _require_synthetic_corpus(pairs) /\ Permitted(target, allow)
  <1>1. /\ cmd' = [name |-> name, send |-> send, target |-> target, allow |-> allow,
                   pairs |-> pairs, config |-> config(FALSE), corpus |-> TRUE]
        /\ records' = <<>> /\ wire' = <<>> /\ diff' = diff
    BY DEF FireOrReplay
  <1>2. \/ Returns(EXIT_REFUSED) /\ UNCHANGED files
        \/ /\ Returns(EXIT_DRY_RUN)
           /\ files' = IF name = "replay" THEN files
                       ELSE [files EXCEPT ![step] = build_dry_run_artifact(config(TRUE), pairs)]
        \/ /\ send /\ Permitted(target, allow)
           /\ pc' = "send" /\ UNCHANGED <<step, files, code>>
    BY DEF FireOrReplay, evaluate_send
  <1>3. DOMAIN files = 1..2 /\ \A k \in 1..2 : Readable(files[k])
    BY DEF BlastInv, BlastTypes, Artifacts
  <1>4. CASE Returns(EXIT_REFUSED) /\ UNCHANGED files
    BY <1>1, <1>3, <1>4, NothingSentStep
  <1>5. CASE /\ Returns(EXIT_DRY_RUN)
             /\ files' = IF name = "replay" THEN files
                         ELSE [files EXCEPT ![step] = build_dry_run_artifact(config(TRUE), pairs)]
    <2> DEFINE dry == build_dry_run_artifact(config(TRUE), pairs)
    <2>1. dry.config = config(TRUE)
      BY DEF build_dry_run_artifact
    <2>2. config(TRUE).dry_run = TRUE
      BY DEF RunConfig
    <2>3. Readable(dry)
      BY <2>1, <2>2 DEF Readable
    <2> HIDE DEF dry
    <2>4. files' = IF name = "replay" THEN files ELSE [files EXCEPT ![step] = dry]
      BY <1>5 DEF dry
    <2>5. DOMAIN files' = 1..2 /\ \A k \in 1..2 : files'[k] \in {files[k], dry}
      BY <1>3, <2>4
    <2>6. \A k \in 1..2 : Readable(files'[k])
      BY <1>3, <2>3, <2>5
    <2> QED BY <1>1, <1>5, <2>5, <2>6, NothingSentStep
  <1>6. CASE /\ send /\ Permitted(target, allow)
             /\ pc' = "send" /\ UNCHANGED <<step, files, code>>
    <2>1. cmd'.name = name /\ cmd'.send = send /\ cmd'.target = target /\ cmd'.allow = allow
      BY <1>1
    <2>2. target \in Configured /\ (is_private_host(target.host) \/ allow)
      BY <1>6 DEF Permitted, resolve_target
    <2>3. BlastTypes'
      BY <1>6, <2>1 DEF BlastInv, BlastTypes
    <2>4. OnTheWire'
      BY <1>1, <1>6, EmptyList DEF OnTheWire
    <2>5. BlastConsent'
      <3>1. is_private_host(cmd.target.host)' <=> is_private_host(target.host)
        BY <2>1 DEF is_private_host, _is_reserved_or_private_host
      <3> QED BY <1>6, <2>1, <2>2, <3>1 DEF BlastConsent, Consented
    <2>6. BlastEnd'
      BY <1>6 DEF BlastEnd, RunJustEnded
    <2>7. Artifacts'
      <3>1. diff' = <<>>
        BY <1>1 DEF BlastInv, Artifacts
      <3> QED BY <1>3, <1>6, <3>1 DEF Artifacts, Readable
    <2> QED BY <2>3, <2>4, <2>5, <2>6, <2>7 DEF BlastInv
  <1> QED BY <1>2, <1>4, <1>5, <1>6

(* A request goes out. *)
LEMMA PostRequestStep ==
    ASSUME BlastInv, Post
    PROVE  BlastInv'
  <1>1. /\ pc = "send" /\ pc' = "in flight" /\ UNCHANGED <<step, cmd, records, files, code, diff>>
        /\ wire' = Append(wire, cmd.pairs[Len(records) + 1].payload)
    BY DEF Post
  <1>2. /\ IsList(wire) /\ IsList(records) /\ Len(wire) = Len(records)
        /\ \A i \in DOMAIN wire : wire[i] = cmd.pairs[i].payload
        /\ \A i \in DOMAIN records : records[i].payload_sha256 = wire[i] /\ Graded(records[i], i)
    BY <1>1 DEF BlastInv, OnTheWire
  <1>3. /\ Len(wire) \in Nat /\ DOMAIN wire = 1..Len(wire) /\ DOMAIN records = 1..Len(records)
    BY <1>2, ListShape
  <1>4. /\ IsList(wire') /\ Len(wire') = Len(wire) + 1 /\ DOMAIN wire' = 1..(Len(wire) + 1)
        /\ \A i \in 1..Len(wire) : wire'[i] = wire[i]
        /\ wire'[Len(wire) + 1] = cmd.pairs[Len(records) + 1].payload
    <2> DEFINE x == cmd.pairs[Len(records) + 1].payload
    <2> HIDE DEF x
    <2>1. wire' = Append(wire, x)
      BY <1>1 DEF x
    <2>2. /\ IsList(Append(wire, x))
          /\ Len(Append(wire, x)) = Len(wire) + 1 /\ DOMAIN Append(wire, x) = 1..(Len(wire) + 1)
          /\ \A i \in 1..Len(wire) : Append(wire, x)[i] = wire[i]
          /\ Append(wire, x)[Len(wire) + 1] = x
      BY <1>2, AppendList, Zenon
    <2> QED BY <2>1, <2>2 DEF x
  <1>5. OnTheWire'
    <2>1. \A i \in DOMAIN wire' : wire'[i] = cmd.pairs[i].payload
      <3>1. \A i \in DOMAIN wire' : i \in 1..Len(wire) \/ i = Len(wire) + 1
        BY <1>3, <1>4
      <3> QED BY <1>2, <1>3, <1>4, <3>1
    <2>2. Len(wire') = Len(records) + 1 /\ Len(wire') - Len(records) \in {0, 1}
      BY <1>2, <1>3, <1>4
    <2>3. \A i \in DOMAIN records : records[i].payload_sha256 = wire'[i] /\ Graded(records[i], i)
      BY <1>2, <1>3, <1>4
    <2> QED BY <1>1, <1>2, <1>4, <2>1, <2>2, <2>3 DEF OnTheWire, Graded
  <1>6. BlastTypes'
    BY <1>1 DEF BlastInv, BlastTypes
  <1>7. BlastConsent'
    BY <1>1 DEF BlastInv, BlastConsent, Consented, is_private_host, _is_reserved_or_private_host
  <1>8. BlastEnd'
    BY <1>1 DEF BlastEnd, RunJustEnded
  <1>9. Artifacts'
    BY <1>1 DEF BlastInv, BlastTypes, Artifacts, Readable
  <1> QED BY <1>5, <1>6, <1>7, <1>8, <1>9 DEF BlastInv

(* Its answer is recorded. *)
LEMMA RespondStep ==
    ASSUME BlastInv, Respond
    PROVE  BlastInv'
  <1>1. /\ pc = "in flight" /\ UNCHANGED <<step, cmd, wire, files, code, diff>>
    BY DEF Respond
  <1>2. PICK answer \in Answers : Recorded(answer)
    BY DEF Respond
  <1> DEFINE n == Len(records) + 1
             new == build_record(cmd.pairs[n], cmd.config.seed, n,
                                 response_from_transport(answer, cmd.config.fail_on_body))
  <1>3. records' = Append(records, new) /\ pc' = "send"
    BY <1>2 DEF Recorded
  <1>4. Graded(new, n) /\ new.payload_sha256 = cmd.pairs[n].payload
    BY BuiltIsGraded
  <1> HIDE DEF new
  <1>5. /\ IsList(wire) /\ IsList(records) /\ Len(wire) = n
        /\ \A i \in DOMAIN wire : wire[i] = cmd.pairs[i].payload
        /\ \A i \in DOMAIN records : records[i].payload_sha256 = wire[i] /\ Graded(records[i], i)
    BY <1>1 DEF BlastInv, OnTheWire
  <1>6. /\ Len(records) \in Nat /\ DOMAIN wire = 1..n /\ DOMAIN records = 1..Len(records)
    BY <1>5, ListShape
  <1>7. /\ IsList(records') /\ Len(records') = n /\ DOMAIN records' = 1..n
        /\ \A i \in 1..Len(records) : records'[i] = records[i]
        /\ records'[n] = new
    BY <1>3, <1>5, AppendList
  <1>8. \A i \in 1..n : records'[i].payload_sha256 = wire[i] /\ Graded(records'[i], i)
    <2>1. \A i \in 1..Len(records) : records'[i].payload_sha256 = wire[i] /\ Graded(records'[i], i)
      BY <1>5, <1>6, <1>7
    <2>2. records'[n].payload_sha256 = wire[n] /\ Graded(records'[n], n)
      BY <1>4, <1>5, <1>6, <1>7
    <2>3. \A i \in 1..n : i \in 1..Len(records) \/ i = n
      BY <1>6
    <2> QED BY <2>1, <2>2, <2>3
  <1>9. OnTheWire'
    <2>1. Len(wire) - Len(records') \in {0, 1}
      BY <1>5, <1>6, <1>7
    <2>2. wire' = wire /\ cmd' = cmd
      BY <1>1
    <2> QED BY <1>3, <1>5, <1>7, <1>8, <2>1, <2>2 DEF OnTheWire, Graded
  <1>10. BlastTypes'
    BY <1>1, <1>3 DEF BlastInv, BlastTypes
  <1>11. BlastConsent'
    BY <1>1 DEF BlastInv, BlastConsent, Consented, is_private_host, _is_reserved_or_private_host
  <1>12. BlastEnd'
    BY <1>3 DEF BlastEnd, RunJustEnded
  <1>13. Artifacts'
    BY <1>1 DEF BlastInv, BlastTypes, Artifacts, Readable
  <1> QED BY <1>9, <1>10, <1>11, <1>12, <1>13 DEF BlastInv

(* A run ends, complete or interrupted. *)
LEMMA EndRunStep ==
    ASSUME BlastInv, RunComplete \/ BlastInterrupt
    PROVE  BlastInv'
  <1>1. PICK aborted \in BOOLEAN :
            pc # "idle" /\ EndRun(aborted) /\ (~aborted => Len(records) = Len(cmd.pairs))
    BY DEF RunComplete, BlastInterrupt
  <1> DEFINE made == build_artifact(cmd.config, records, aborted)
  <1>2. /\ files' = [files EXCEPT ![step] = made] /\ Returns(ExitOf(made))
        /\ UNCHANGED <<cmd, records, wire, diff>>
    BY <1>1 DEF EndRun
  <1>3. /\ step \in {1, 2} /\ DOMAIN files = 1..2 /\ cmd.name \in {"fire", "replay"}
    BY <1>1 DEF BlastInv, BlastTypes
  <1>4. /\ code' = ExitOf(made) /\ code' \in {0, 3} /\ step' = step + 1 /\ pc' = "idle"
    BY <1>2 DEF Returns, ExitOf, EXIT_FINDING, EXIT_OK
  <1>5. made.records = records
    BY DEF build_artifact
  <1>6. Readable(made)
    BY <1>5 DEF BlastInv, OnTheWire, Readable
  <1> HIDE DEF made
  <1>7. /\ DOMAIN files' = 1..2 /\ files'[step] = made
        /\ \A k \in 1..2 : files'[k] \in {files[k], made}
    BY <1>2, <1>3
  <1>8. BlastTypes'
    BY <1>3, <1>4, <1>7 DEF BlastTypes
  <1>9. OnTheWire'
    BY <1>2, <1>4 DEF BlastInv, OnTheWire, Graded
  <1>10. BlastConsent'
    BY <1>1, <1>2 DEF BlastInv, BlastConsent, Consented, is_private_host, _is_reserved_or_private_host
  <1>11. BlastEnd'
    <2>1. files'[step' - 1] = made
      BY <1>3, <1>4, <1>7
    <2>2. files'[step' - 1] = build_artifact(cmd'.config, records', aborted)
      BY <1>2, <2>1 DEF made
    <2>3. ~aborted => Len(records') = Len(cmd'.pairs)
      BY <1>1, <1>2
    <2>4. step' \in {2, 3}
      BY <1>3, <1>4
    <2>5. code' = ExitOf(files'[step' - 1])
      BY <1>4, <2>1
    <2> QED BY <2>2, <2>3, <2>4, <2>5 DEF BlastEnd, ExitOf
  <1>12. Artifacts'
    <2>1. diff' = <<>>
      BY <1>2, <1>3 DEF BlastInv, Artifacts
    <2>2. \A k \in 1..2 : Readable(files'[k])
      BY <1>6, <1>7 DEF BlastInv, Artifacts
    <2> QED BY <2>1, <2>2 DEF Artifacts, Readable
  <1> QED BY <1>8, <1>9, <1>10, <1>11, <1>12 DEF BlastInv

(* The two artifacts are compared. *)
LEMMA CompareStep ==
    ASSUME BlastInv, NEW fail_on_regression \in BOOLEAN, Compare(fail_on_regression)
    PROVE  BlastInv'
  <1>1. /\ pc = "idle" /\ step = 3 /\ step' = 4 /\ pc' = "idle"
        /\ UNCHANGED <<records, wire, files>> /\ diff' = compare_paths(files[1], files[2])
        /\ cmd'.name = "compare"
    BY DEF Compare, Returns
  <1>2. code' \in {0, 1, 3}
    BY DEF Compare, Returns, record_exit_code, EXIT_OK, EXIT_FINDING, EXIT_REFUSED
  <1>3. BlastTypes'
    BY <1>1, <1>2 DEF BlastInv, BlastTypes
  <1>4. OnTheWire'
    BY <1>1 DEF BlastInv, OnTheWire, Graded
  <1>5. BlastConsent'
    BY <1>1 DEF BlastConsent
  <1>6. BlastEnd'
    BY <1>1 DEF BlastEnd, RunJustEnded
  <1>7. Artifacts'
    <2>1. compare_paths(files'[1], files'[2]) = compare_paths(files[1], files[2])
      BY <1>1
    <2>2. \A k \in 1..2 : Readable(files'[k])
      BY <1>1 DEF BlastInv, Artifacts
    <2> QED BY <1>1, <2>1, <2>2 DEF Artifacts, Readable
  <1> QED BY <1>3, <1>4, <1>5, <1>6, <1>7 DEF BlastInv

(* Every step of a session keeps the invariant. *)
LEMMA BlastStep ==
    ASSUME BlastInv, BlastNext \/ UNCHANGED blastVars
    PROVE  BlastInv'
  <1>1. CASE UNCHANGED blastVars
    <2>1. UNCHANGED <<step, pc, cmd, records, wire, files, code, diff>>
      BY <1>1 DEF blastVars
    <2>2. BlastTypes'
      BY <2>1 DEF BlastInv, BlastTypes
    <2>3. OnTheWire'
      BY <2>1 DEF BlastInv, OnTheWire, Graded
    <2>4. BlastConsent'
      BY <2>1 DEF BlastInv, BlastConsent, Consented, is_private_host, _is_reserved_or_private_host
    <2>5. BlastEnd'
      BY <2>1 DEF BlastInv, BlastEnd, RunJustEnded, ExitOf
    <2>6. Artifacts'
      <3>1. compare_paths(files'[1], files'[2]) = compare_paths(files[1], files[2])
        BY <2>1
      <3> QED BY <2>1, <3>1 DEF BlastInv, Artifacts, Readable
    <2> QED BY <2>2, <2>3, <2>4, <2>5, <2>6 DEF BlastInv
  <1>2. CASE FireAny
    <2>1. PICK r \in Requests, send \in BOOLEAN, allow \in BOOLEAN, target \in Configured \cup {<<>>},
               pattern \in {"none", "pattern", "invalid"} : Fire(r, send, target, allow, pattern)
      BY <1>2 DEF FireAny
    <2>2. /\ pc = "idle" /\ step \in {1, 2}
          /\ \/ Declined("fire")
             \/ FireOrReplay("fire", _plan_from_args(r)[1], send, target, allow, pattern)
      BY <2>1 DEF Fire
    <2> QED BY <2>2, DeclinedStep, FireStep
  <1>3. CASE ReplayAny
    <2>1. PICK send \in BOOLEAN, allow \in BOOLEAN, flag \in {"none", "pattern", "invalid"} :
               Replay(send, allow, flag)
      BY <1>3 DEF ReplayAny
    <2>2. /\ pc = "idle" /\ step = 2
          /\ \/ Declined("replay")
             \/ \E pattern : FireOrReplay("replay", Rebuilt(files[1])[1], send,
                                          files[1].config.target, allow, pattern)
      BY <2>1 DEF Replay
    <2> QED BY <2>2, DeclinedStep, FireStep
  <1>4. CASE CompareAny
    BY <1>4, CompareStep DEF CompareAny
  <1> QED BY <1>1, <1>2, <1>3, <1>4, PostRequestStep, RespondStep, EndRunStep
          DEF BlastNext, BlastCommand, BlastTool

-----------------------------------------------------------------------------
(* What the invariant says of a blast run. *)
LEMMA HonestFollows == SigInv /\ BlastInv => BlastIsHonest
  <1> SUFFICES ASSUME SigInv, BlastInv PROVE BlastIsHonest
    OBVIOUS
  <1>1. SessionsTypeOK
    <2>1. /\ step \in 1..4 /\ pc \in {"idle", "send", "in flight"} /\ code \in {0, 1, 2, 3, NoCode}
      BY DEF BlastInv, BlastTypes
    <2>2. /\ Len(wire) - Len(records) \in {0, 1}
          /\ \A i \in DOMAIN records : records[i].payload_sha256 = wire[i]
      BY DEF BlastInv, OnTheWire
    <2>3. /\ run \in 0..MaxRuns /\ sigpc \in {"idle", "send", "over"} /\ sigcode \in {0, 1, 2, 3, 9}
      BY DEF SigInv, SigTypes
    <2>4. \A i \in DOMAIN outcomes : outcomes[i].variant = args.plan[i].variant
      BY DEF SigInv, SigOutcomes
    <2> QED BY <2>1, <2>2, <2>3, <2>4 DEF SessionsTypeOK
  <1>2. BlastSendsAreConsented
    <2> SUFFICES ASSUME wire # <<>>, cmd.name # "compare"
                 PROVE  /\ cmd.send
                        /\ cmd.target \in Configured
                        /\ \/ cmd.target.host.name \in {"reserved", "bare", "private literal"}
                           \/ cmd.target.host.addresses = {"private"}
                           \/ cmd.allow
      BY DEF BlastSendsAreConsented
    <2>1. Consented
      BY DEF BlastInv, BlastConsent
    <2> QED BY <2>1 DEF Consented, is_private_host, _is_reserved_or_private_host
  <1>3. BlastExitIsEarned
    <2> DEFINE file == files[step - 1]
               failed == {i \in DOMAIN file.records : Failed(file.records[i])}
    <2> SUFFICES ASSUME RunJustEnded
                 PROVE  /\ (code = 0) <=> /\ failed = {} /\ Len(file.records) = Len(cmd.pairs)
                                          /\ ~file.aborted
                        /\ file.summary.flags = failed
                        /\ failed = {i \in DOMAIN file.records : ~file.records[i].passed}
      BY DEF BlastExitIsEarned
    <2>1. PICK aborted \in BOOLEAN :
              /\ file = build_artifact(cmd.config, records, aborted)
              /\ ~aborted => Len(records) = Len(cmd.pairs)
      BY DEF BlastInv, BlastEnd
    <2>2. code = ExitOf(file)
      BY DEF BlastInv, BlastEnd
    <2> HIDE DEF file
    <2>3. /\ file.records = records /\ file.aborted = aborted
          /\ file.summary = compute_summary(records)
      BY <2>1 DEF build_artifact
    <2>4. file.summary.flags = {i \in DOMAIN records : flagged(records[i])}
      BY <2>3 DEF compute_summary
    <2>5. \A i \in DOMAIN records : /\ flagged(records[i]) <=> Failed(records[i])
                                    /\ ~records[i].passed <=> Failed(records[i])
      <3>1. \A i \in DOMAIN records : Graded(records[i], i)
        BY DEF BlastInv, OnTheWire
      <3> QED BY <3>1, GradedIsRight
    <2>6. file.summary.flags = failed
      BY <2>3, <2>4, <2>5
    <2>7. failed = {i \in DOMAIN file.records : ~file.records[i].passed}
      BY <2>3, <2>5
    <2> HIDE DEF failed
    <2>8. (code = 0) <=> ~(aborted \/ failed # {})
      BY <2>2, <2>3, <2>6 DEF ExitOf, EXIT_OK, EXIT_FINDING
    <2> QED BY <2>1, <2>3, <2>6, <2>7, <2>8
  <1> QED BY <1>1, <1>2, <1>3 DEF BlastIsHonest

(* The records of an artifact, found by their ids: no two share one. *)
LEMMA AlignIsExact ==
    ASSUME NEW file, IsList(file.records), \A i \in DOMAIN file.records : Graded(file.records[i], i)
    PROVE  /\ DOMAIN _align(file.records) = Ids(file)
           /\ IsFiniteSet(Ids(file))
           /\ \A id \in Ids(file) :
                 Grades(file, id) = {classify_record(_align(file.records)[id]) # "ok"}
  <1> DEFINE rows == file.records
  <1>1. Len(rows) \in Nat /\ DOMAIN rows = 1..Len(rows)
    BY ListShape
  <1>2. DOMAIN _align(rows) = Ids(file)
    BY DEF _align, Ids
  <1>3. IsFiniteSet(Ids(file))
    <2>1. IsFiniteSet(DOMAIN rows)
      BY <1>1, FS_Interval
    <2> DEFINE f == [i \in DOMAIN rows |-> rows[i].id]
    <2>2. f \in Surjection(DOMAIN rows, Ids(file))
      BY DEF Surjection, Ids
    <2> QED BY <2>1, <2>2, FS_Surjection
  <1>4. ASSUME NEW id \in Ids(file)
        PROVE  Grades(file, id) = {classify_record(_align(rows)[id]) # "ok"}
    <2>1. PICK i \in DOMAIN rows : rows[i].id = id
      BY <1>4 DEF Ids
    <2>2. \A j \in DOMAIN rows : rows[j].id = id => j = i
      <3>1. \A j \in DOMAIN rows : rows[j].id[3] = j
        BY DEF Graded
      <3> QED BY <2>1, <3>1
    <2>3. {j \in DOMAIN rows : rows[j].id = id} = {i}
      BY <2>1, <2>2
    <2>4. Max({i}) = i
      BY <1>1 DEF Max
    <2>5. _align(rows)[id] = rows[i]
      BY <1>2, <2>3, <2>4 DEF _align, Ids
    <2>6. Grades(file, id) = {Failed(rows[i])}
      BY <2>3 DEF Grades
    <2>7. Failed(rows[i]) = (classify_record(rows[i]) # "ok")
      <3>1. Failed(rows[i]) \in BOOLEAN
        BY DEF Failed
      <3> QED BY <3>1, GradedIsRight
    <2> QED BY <2>5, <2>6, <2>7
  <1> QED BY <1>2, <1>3, <1>4

(* The parts of a finite set count up to it. *)
LEMMA TwoParts ==
    ASSUME NEW S, IsFiniteSet(S), NEW X, NEW Y, S = X \cup Y, X \cap Y = {}
    PROVE  Cardinality(S) = Cardinality(X) + Cardinality(Y)
  <1>1. IsFiniteSet(X) /\ IsFiniteSet(Y)
    BY FS_Subset
  <1>2. Cardinality(X \cup Y) = Cardinality(X) + Cardinality(Y) - Cardinality(X \cap Y)
    BY <1>1, FS_Union, Zenon
  <1>3. Cardinality(X \cap Y) = 0
    BY FS_EmptySet
  <1>4. Cardinality(X) \in Nat /\ Cardinality(Y) \in Nat
    BY <1>1, FS_CardinalityType
  <1> DEFINE x == Cardinality(X)
             y == Cardinality(Y)
             u == Cardinality(X \cup Y)
  <1>5. u = x + y - 0 /\ x \in Nat /\ y \in Nat
    BY <1>2, <1>3, <1>4
  <1> HIDE DEF x, y, u
  <1>6. u = x + y
    BY <1>5
  <1> QED BY <1>6, Zenon DEF x, y, u

(* What compare reports of two artifacts whose records are graded. *)
LEMMA CompareFollows == BlastInv => QuietCompareIsEarned
  <1> DEFINE a == files[1]
             b == files[2]
             shared == Ids(a) \cap Ids(b)
             d == diff[1]
  <1> SUFFICES ASSUME BlastInv, BlastCompared
               PROVE  /\ shared # {}
                      /\ ~a.config.dry_run /\ ~b.config.dry_run
                      /\ d.regressions = {id \in shared : Grades(a, id) = {FALSE} /\ Grades(b, id) = {TRUE}}
                      /\ d.compared = d.unchanged + Cardinality(d.regressions)
                                      + Cardinality(d.fixes) + Cardinality(d.changes)
                      /\ compare(b, a)[1].regressions = d.fixes
    BY DEF QuietCompareIsEarned
  <1>1. diff # <<>> /\ diff = compare_paths(a, b) /\ a.tool = "blast"
    BY DEF BlastInv, Artifacts, BlastCompared
  <1>2. /\ b.tool = "blast" /\ validate_artifact(a) /\ validate_artifact(b) /\ diff = compare(a, b)
    BY <1>1 DEF compare_paths
  <1>3. ~a.config.dry_run /\ ~b.config.dry_run
    BY <1>2 DEF validate_artifact
  <1>4. /\ IsList(a.records) /\ \A i \in DOMAIN a.records : Graded(a.records[i], i)
        /\ IsList(b.records) /\ \A i \in DOMAIN b.records : Graded(b.records[i], i)
    <2>1. Readable(files[1]) /\ Readable(files[2])
      BY DEF BlastInv, Artifacts
    <2> QED BY <1>1, <1>2, <1>3, <2>1 DEF Readable
  <1> HIDE DEF a, b
  <1> DEFINE base == _align(a.records)
             cand == _align(b.records)
             before(key) == classify_record(base[key])
             after(key) == classify_record(cand[key])
             moved == {key \in shared : before(key) # after(key)}
             X == {key \in moved : before(key) = "ok"}
             Y == {key \in moved : after(key) = "ok"}
             Z == {key \in moved : "ok" \notin {before(key), after(key)}}
  <1>5. /\ DOMAIN base = Ids(a) /\ IsFiniteSet(Ids(a))
        /\ \A id \in Ids(a) : Grades(a, id) = {before(id) # "ok"}
    BY <1>4, AlignIsExact
  <1>6. /\ DOMAIN cand = Ids(b) /\ IsFiniteSet(Ids(b))
        /\ \A id \in Ids(b) : Grades(b, id) = {after(id) # "ok"}
    BY <1>4, AlignIsExact
  <1>7. shared # {}
    BY <1>1, <1>2, <1>5, <1>6 DEF compare
  <1>8. /\ d.compared = Cardinality(shared) /\ d.unchanged = Cardinality(shared \ moved)
        /\ d.regressions = X /\ d.fixes = Y /\ d.changes = Z
    BY <1>2, <1>5, <1>6, <1>7 DEF compare
  <1>9. compare(b, a)[1].regressions = Y
    <2>1. Ids(b) \cap Ids(a) = shared
      OBVIOUS
    <2>2. compare(b, a)[1].regressions =
              {key \in {key \in Ids(b) \cap Ids(a) : after(key) # before(key)} : after(key) = "ok"}
      BY <1>5, <1>6, <1>7, <2>1 DEF compare
    <2> QED BY <2>1, <2>2
  <1>10. X = {id \in shared : Grades(a, id) = {FALSE} /\ Grades(b, id) = {TRUE}}
    <2>1. ASSUME NEW id \in shared
          PROVE  id \in X <=> Grades(a, id) = {FALSE} /\ Grades(b, id) = {TRUE}
      <3>1. Grades(a, id) = {before(id) # "ok"} /\ Grades(b, id) = {after(id) # "ok"}
        BY <1>5, <1>6
      <3>2. Grades(a, id) = {FALSE} <=> before(id) = "ok"
        BY <3>1
      <3>3. Grades(b, id) = {TRUE} <=> after(id) # "ok"
        BY <3>1
      <3> QED BY <3>2, <3>3
    <2> QED BY <2>1
  <1>11. Cardinality(shared) = Cardinality(shared \ moved) + Cardinality(X) + Cardinality(Y)
                               + Cardinality(Z)
    <2>1. IsFiniteSet(shared)
      BY <1>5, FS_Subset
    <2>2. moved \subseteq shared
      OBVIOUS
    <2>3. moved = X \cup Y \cup Z
      OBVIOUS
    <2>4. X \cap Y = {}
      OBVIOUS
    <2>5. (X \cup Y) \cap Z = {}
      OBVIOUS
    <2> DEFINE kept == shared \ moved
               told == X \cup Y
    <2>6. shared = kept \cup moved /\ kept \cap moved = {} /\ moved = told \cup Z
      BY <2>2, <2>3
    <2>7. told = X \cup Y /\ told \cap Z = {}
      BY <2>5
    <2>8. IsFiniteSet(moved) /\ IsFiniteSet(kept) /\ IsFiniteSet(told) /\ IsFiniteSet(Z)
          /\ IsFiniteSet(X) /\ IsFiniteSet(Y)
      BY <2>1, FS_Subset
    <2> HIDE DEF a, b, shared, moved, X, Y, Z, kept, told
    <2>9. Cardinality(shared) = Cardinality(kept) + Cardinality(moved)
      BY <2>1, <2>6, TwoParts
    <2>10. Cardinality(moved) = Cardinality(told) + Cardinality(Z)
      BY <2>6, <2>7, <2>8, TwoParts
    <2>11. Cardinality(told) = Cardinality(X) + Cardinality(Y)
      BY <2>4, <2>7, <2>8, TwoParts
    <2>12. /\ Cardinality(kept) \in Nat /\ Cardinality(X) \in Nat /\ Cardinality(Y) \in Nat
           /\ Cardinality(Z) \in Nat
      BY <2>8, FS_CardinalityType
    <2>13. Cardinality(shared) = Cardinality(kept) + Cardinality(X) + Cardinality(Y) + Cardinality(Z)
      BY <2>9, <2>10, <2>11, <2>12
    <2> QED BY <2>13, Zenon DEF kept
  <1> QED BY <1>3, <1>7, <1>8, <1>9, <1>10, <1>11

-----------------------------------------------------------------------------
(* The sessions are independent, and each keeps its own invariant. *)
LEMMA SessionsBegin == Init => SessionsInv
  BY SigBegins, BlastBegins DEF Init, SessionsInv

LEMMA SessionsStep == SessionsInv /\ [Next]_vars => SessionsInv'
  <1> SUFFICES ASSUME SessionsInv, [Next]_vars PROVE SessionsInv'
    OBVIOUS
  <1>1. SigNext \/ UNCHANGED sigVars
    BY DEF Next, vars
  <1>2. BlastNext \/ UNCHANGED blastVars
    BY DEF Next, vars
  <1> QED BY <1>1, <1>2, SigStep, BlastStep DEF SessionsInv

(* Whatever is run against whatever endpoint, both invariants hold. *)
THEOREM SessionsInvariant == Spec => []SessionsInv
  BY SessionsBegin, SessionsStep, PTL DEF Spec

(* sigcheck is right about the endpoint, variant by variant where it can   *)
(* tell, whatever checks the endpoint makes and however it fails, and      *)
(* never says ENFORCED or exits 0 without an answer to everything it sent. *)
THEOREM SigcheckIsRightHolds == Spec => []SigcheckIsRight
  <1>1. SessionsInv => SigcheckIsRight
    BY VerdictsFollow, EnforcedFollows DEF SessionsInv, SigcheckIsRight
  <1> QED BY <1>1, SessionsInvariant, PTL

(* A blast run sends what it was told to where it was allowed to, records  *)
(* what it sent, and exits 0 exactly when all was sent and nothing failed, *)
(* whatever the endpoint answers and whenever it is interrupted.           *)
THEOREM BlastIsHonestHolds == Spec => []BlastIsHonest
  <1>1. SessionsInv => BlastIsHonest
    BY HonestFollows DEF SessionsInv
  <1> QED BY <1>1, SessionsInvariant, PTL

(* compare finds every regression between two blast runs that have a       *)
(* payload in common, reports nothing else as one, and its counts add up.  *)
THEOREM QuietCompareIsEarnedHolds == Spec => []QuietCompareIsEarned
  <1>1. SessionsInv => QuietCompareIsEarned
    BY CompareFollows DEF SessionsInv
  <1> QED BY <1>1, SessionsInvariant, PTL
=============================================================================
