---------------------------- MODULE SigcheckRun ----------------------------
(***************************************************************************)
(* pipeline/sigcheck.py and cli/sigcheck.py: one request per variant of a  *)
(* provider's webhook authentication, and a verdict on what the endpoint   *)
(* did with each.  MaxRuns runs against one endpoint, which remembers.     *)
(*                                                                         *)
(* An authentication is what it was made from: the key, and the timestamp, *)
(* the token and the body where the scheme has them; P256 has the          *)
(* arithmetic.  A token is a digest of the second and the variant.  The    *)
(* endpoint is external: it makes the checks it makes, and it may also     *)
(* fail any request.  The clock counts seconds.                            *)
(***************************************************************************)
EXTENDS Naturals, Integers, Sequences, SequencesExt, FiniteSets

CONSTANTS
    Window,    \* the timestamp window of the run and of the endpoint
    MaxRuns,   \* bound: runs against one endpoint
    Pauses,    \* what the clock may move by while a request is answered
    MaxClock,  \* bound: seconds the sending may take in all
    MaxFaults, \* bound: requests the endpoint fails or does not answer
    Commands   \* what a command line and its config file may say

ASSUME SigcheckAssumption ==
    /\ Window \in Nat /\ MaxRuns \in Nat /\ Pauses \subseteq Nat /\ 0 \in Pauses
    /\ MaxClock \in Nat /\ MaxFaults \in Nat

Schemes == {"mailgun", "sendgrid", "postmark-basic"}

(* --scheme and the section's scheme are one of them, or not given. *)
ASSUME SchemesAssumption ==
    \A a \in Commands : {a.scheme, a.section} \subseteq Schemes \cup {"none"}

(* SCHEME_FORMATS *)
Formats(scheme) ==
    CASE scheme = "mailgun"        -> {"mailgun"}
      [] scheme = "sendgrid"       -> {"sendgrid", "sendgrid-raw"}
      [] scheme = "postmark-basic" -> {"postmark"}

has_timestamp(scheme) == scheme # "postmark-basic"
signs_body(scheme) == scheme = "sendgrid"

(* What a request carries; a part the scheme does not have is blank. *)
Unsigned == [key |-> "blank", timestamp |-> 0, token |-> <<>>, body |-> "blank"]

(* Mutant: the variants of a run share one token. *)
TokenOfTheSecond(timestamp, nonce) == <<timestamp, "valid">>

mailgun_token(timestamp, nonce) == <<timestamp, nonce>>

sign(scheme, body, key, timestamp, nonce) ==
    [key       |-> key,
     timestamp |-> IF has_timestamp(scheme) THEN timestamp ELSE 0,
     token     |-> IF scheme = "mailgun" THEN mailgun_token(timestamp, nonce) ELSE <<>>,
     body      |-> IF signs_body(scheme) THEN body ELSE "blank"]

(* The schemes' verify. *)
verify(scheme, body, signed) ==
    signed.key = "secret" /\ (signs_body(scheme) => signed.body = body)

(* int(window) and a minute more. *)
StaleBy == Window + 60

(* A time before which a timestamp can be stale; 0 is none. *)
FirstSecond == StaleBy + 1

Variant(name, expect, payload, signed) ==
    [variant |-> name, expect |-> expect, payload |-> payload, signed |-> signed]

NotSent(name) == Variant(name, "n/a", "none", Unsigned)

(* The variants in the order they are sent.  A tampered body goes out with *)
(* the valid request's headers where they cover the body, and with its own *)
(* authentication where they do not.                                       *)
plan(scheme, now) ==
    LET valid == sign(scheme, "original", "secret", now, "valid")
        stale == sign(scheme, "original", "secret", now - StaleBy, "stale-timestamp")
    IN  <<Variant("valid", "accept", "original", valid),
          Variant("wrong-secret", "reject", "original",
                  sign(scheme, "original", "wrong", now, "wrong-secret")),
          Variant("unsigned", "reject", "original", Unsigned),
          IF ~has_timestamp(scheme) THEN NotSent("stale-timestamp")
          ELSE Variant("stale-timestamp",
                       IF scheme = "mailgun" THEN "info" ELSE "reject", "original", stale),
          IF signs_body(scheme) THEN Variant("tampered-body", "reject", "tampered", valid)
          ELSE Variant("tampered-body", "info", "tampered",
                       sign(scheme, "tampered", "secret", now, "tampered-body")),
          IF ~has_timestamp(scheme) THEN NotSent("replayed-token")
          ELSE Variant("replayed-token",
                       IF scheme = "mailgun" THEN "reject" ELSE "info", "original", valid)>>

(* Mutant: a crash counts as a refusal. *)
JudgeAnyRefusal(item, status) ==
    IF item.expect = "n/a" THEN "N/A"
    ELSE IF item.expect = "info" THEN "INFO"
    ELSE IF (item.expect = "accept") = (status = "2xx") THEN "OK"
    ELSE "FINDING"

(* 2xx is accepted, 4xx refused, and anything else a finding. *)
judge(item, status) ==
    IF item.expect = "n/a" THEN "N/A"
    ELSE IF status \notin {"2xx", "4xx"} THEN "FINDING"
    ELSE IF item.expect = "info" THEN "INFO"
    ELSE IF (item.expect = "accept") = (status = "2xx") THEN "OK"
    ELSE "FINDING"

-----------------------------------------------------------------------------
VARIABLES
    clock,      \* the time, in seconds
    endpoint,   \* which checks the endpoint makes
    faults,     \* how many requests the endpoint has failed
    seen,       \* the tokens and the messages the endpoint has accepted
    run,        \* how many runs there have been, or are
    sigpc,      \* "idle", "send" or "over"
    args,       \* the running command: its scheme, its start and its plan
    outcomes,   \* the outcomes so far: the status and the verdict of each
    sigcode,    \* the exit code of the last run
    artifact    \* what the last run wrote

sigVars == <<clock, endpoint, faults, seen, run, sigpc, args, outcomes, sigcode, artifact>>

NoArtifact == [verdict |-> "none"]
NoArgs == [scheme |-> "none"]

SigOff ==
    /\ clock = 0
    /\ endpoint = [signature |-> FALSE, window |-> FALSE, tokens |-> FALSE, messages |-> FALSE]
    /\ faults = 0
    /\ seen = [tokens |-> {}, messages |-> {}]
    /\ run = 0
    /\ sigpc = "over"
    /\ args = NoArgs
    /\ outcomes = <<>>
    /\ sigcode = 9
    /\ artifact = NoArtifact

SigInit ==
    /\ clock = FirstSecond
    /\ endpoint \in [signature : BOOLEAN, window : BOOLEAN, tokens : BOOLEAN, messages : BOOLEAN]
    /\ faults = 0
    /\ seen = [tokens |-> {}, messages |-> {}]
    /\ run = 0
    /\ sigpc = "idle"
    /\ args = NoArgs
    /\ outcomes = <<>>
    /\ sigcode = 9
    /\ artifact = NoArtifact

(* _cmd_sigcheck_fire up to execute's plan.  The flags win over the        *)
(* section; a scheme is required.  A window that is not positive, a format *)
(* the scheme cannot authenticate, a secret that cannot be read, a target  *)
(* that does not resolve and a key that does not parse all refuse.  a is   *)
(* what the command and its config file say.                               *)
effective_scheme(a) == IF a.scheme # "none" THEN a.scheme ELSE a.section

effective_secret(a) == IF a.secret # "none" THEN a.secret ELSE a.section_secret

(* load_sigcheck_config and effective_settings. *)
SettingsRefused(a) ==
    \/ a.file = "invalid"
    \/ a.file = "absent" /\ a.send
    \/ effective_scheme(a) = "none"
    \/ ~a.window_positive

(* configured_format_mismatch, of a target the config file declares. *)
configured_format_mismatch(a) ==
    /\ a.file = "valid"
    /\ a.target \notin {"none", "undeclared"}
    /\ a.target \notin Formats(effective_scheme(a))

(* With no secret to be read a preview makes do with a placeholder, but a  *)
(* secret of the wrong shape cannot be signed with; Mailgun's may have any. *)
PreviewRefused(a) ==
    effective_secret(a) = "malformed" /\ effective_scheme(a) # "mailgun"

(* The secret, then execute's resolve_target and plan. *)
SendRefused(a) ==
    \/ effective_secret(a) \in {"none", "unset"}
    \/ PreviewRefused(a)
    \/ a.target \in {"none", "undeclared"}
    \/ ~a.resolves

RefusedCommand(a) ==
    /\ sigpc = "idle"
    /\ \/ SettingsRefused(a)
       \/ ~SettingsRefused(a) /\ configured_format_mismatch(a)
       \/ /\ ~SettingsRefused(a) /\ ~configured_format_mismatch(a)
          /\ IF a.send THEN SendRefused(a) ELSE PreviewRefused(a)
    /\ sigcode' = 1
    /\ sigpc' = "over"
    /\ UNCHANGED <<clock, endpoint, faults, seen, run, args, outcomes, artifact>>

Preview(a) ==
    /\ sigpc = "idle"
    /\ ~SettingsRefused(a) /\ ~configured_format_mismatch(a)
    /\ ~a.send
    /\ ~PreviewRefused(a)
    /\ sigcode' = 2
    /\ sigpc' = "over"
    /\ UNCHANGED <<clock, endpoint, faults, seen, run, args, outcomes, artifact>>

(* The clock is read once, and every variant carries the run's own         *)
(* Message-ID.                                                             *)
StartSending(a) ==
    /\ sigpc = "idle"
    /\ run < MaxRuns
    /\ ~SettingsRefused(a) /\ ~configured_format_mismatch(a)
    /\ a.send
    /\ ~SendRefused(a)
    /\ run' = run + 1
    /\ args' = [scheme |-> effective_scheme(a), start |-> clock, message |-> run',
                fresh |-> \A item \in Range(plan(effective_scheme(a), clock)) :
                            item.signed.token \notin seen.tokens,
                plan |-> plan(effective_scheme(a), clock)]
    /\ outcomes' = <<>>
    /\ sigpc' = "send"
    /\ sigcode' = 9
    /\ artifact' = NoArtifact
    /\ UNCHANGED <<clock, endpoint, faults, seen>>

(* What the endpoint makes of a request. *)
Accepts(item) ==
    /\ endpoint.signature => verify(args.scheme, item.payload, item.signed)
    /\ endpoint.window /\ item.signed.timestamp # 0 =>
            clock - item.signed.timestamp <= Window
    /\ endpoint.tokens => item.signed.token \notin seen.tokens
    /\ endpoint.messages => args.message \notin seen.messages

(* The answer to a request, and what the endpoint keeps of it. *)
Answered(item, status) ==
    /\ status = "2xx" => Accepts(item)
    /\ status = "4xx" => ~Accepts(item)
    /\ seen' = IF status # "2xx" THEN seen
               ELSE [tokens   |-> seen.tokens \cup ({item.signed.token} \ {<<>>}),
                     messages |-> seen.messages \cup {args.message}]

(* A variant the scheme has nothing for is not sent. *)
Skip ==
    /\ sigpc = "send"
    /\ Len(outcomes) < Len(args.plan)
    /\ LET item == args.plan[Len(outcomes) + 1]
       IN  /\ item.expect = "n/a"
           /\ outcomes' = Append(outcomes, [variant |-> item.variant, status |-> "none",
                                            verdict |-> judge(item, "none")])
    /\ UNCHANGED <<clock, endpoint, faults, seen, run, sigpc, args, sigcode, artifact>>

(* The next variant is posted and its answer, or the lack of one, judged.  *)
PostVariant ==
    /\ sigpc = "send"
    /\ Len(outcomes) < Len(args.plan)
    /\ LET item == args.plan[Len(outcomes) + 1]
       IN  /\ item.expect # "n/a"
           /\ \E status \in {"2xx", "4xx", "5xx", "none"} :
                /\ Answered(item, status)
                /\ faults' = faults + IF status \in {"5xx", "none"} THEN 1 ELSE 0
                /\ outcomes' = Append(outcomes, [variant |-> item.variant, status |-> status,
                                                 verdict |-> judge(item, status)])
           /\ \E pause \in Pauses : clock' = clock + pause
    /\ faults' <= MaxFaults
    /\ clock' <= FirstSecond + MaxClock
    /\ UNCHANGED <<endpoint, run, sigpc, args, sigcode, artifact>>

StatusOf(variant) ==
    {outcomes[i].status : i \in {j \in DOMAIN outcomes : outcomes[j].variant = variant}}

(* notes_for: Mailgun's own guidance, and an endpoint that may refuse      *)
(* everything.                                                             *)
notes_for ==
    {n \in {"token cache"} : /\ args.scheme = "mailgun"
                             /\ StatusOf("stale-timestamp") = {"2xx"}
                             /\ StatusOf("replayed-token") \notin {{}, {"none"}, {"2xx"}}}
    \cup {n \in {"may refuse all"} :
            \E i \in DOMAIN outcomes : outcomes[i].variant = "valid"
                                       /\ outcomes[i].verdict = "FINDING"}

Findings == Cardinality({i \in DOMAIN outcomes : outcomes[i].verdict = "FINDING"})

(* build_artifact, and the exit code of execute. *)
Conclude(aborted) ==
    /\ artifact' =
        [verdict  |-> IF Findings = 0 /\ ~aborted THEN "ENFORCED" ELSE "GAPS",
         findings |-> Findings,
         sent     |-> Cardinality({i \in DOMAIN outcomes : outcomes[i].verdict # "N/A"}),
         notes    |-> notes_for,
         aborted  |-> aborted]
    /\ sigcode' = IF aborted \/ Findings > 0 THEN 3 ELSE 0
    /\ sigpc' = IF run < MaxRuns THEN "idle" ELSE "over"
    /\ UNCHANGED <<clock, endpoint, faults, run, args, outcomes>>

EndSigcheck ==
    /\ sigpc = "send"
    /\ Len(outcomes) = Len(args.plan)
    /\ Conclude(FALSE)
    /\ UNCHANGED seen

(* Ctrl-C: a request in flight, which the endpoint may have accepted, has  *)
(* no outcome.                                                             *)
SigInterrupt ==
    /\ sigpc = "send"
    /\ Conclude(TRUE)
    /\ \/ UNCHANGED seen
       \/ /\ Len(outcomes) < Len(args.plan)
          /\ args.plan[Len(outcomes) + 1].expect # "n/a"
          /\ Answered(args.plan[Len(outcomes) + 1], "2xx")

SigCommand == \E a \in Commands : RefusedCommand(a) \/ Preview(a) \/ StartSending(a)

SigTool == Skip \/ PostVariant \/ EndSigcheck

SigNext == SigCommand \/ SigTool \/ SigInterrupt
=============================================================================
