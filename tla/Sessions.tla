------------------------------ MODULE Sessions ------------------------------
(***************************************************************************)
(* The tools that need no readback, each in sessions of its own: blast and *)
(* compare (BlastRun), sigcheck (SigcheckRun), and the signatures sigcheck *)
(* makes (P256).                                                           *)
(***************************************************************************)
EXTENDS BlastRun, SigcheckRun, P256

CONSTANT Drills  \* the keys, digests and signatures P256 is tried on

VARIABLE drill

NoDrill == [kind |-> "none"]

vars == <<blastVars, sigVars, drill>>

Init ==
    \/ BlastInit /\ SigOff /\ drill = NoDrill
    \/ SigInit /\ BlastOff /\ drill = NoDrill
    \/ drill \in Drills /\ BlastOff /\ SigOff

Next ==
    \/ BlastNext /\ UNCHANGED <<sigVars, drill>>
    \/ SigNext /\ UNCHANGED <<blastVars, drill>>

Spec == Init /\ [][Next]_vars

-----------------------------------------------------------------------------
(* Every variable holds a value of its type; the records are those of the  *)
(* requests that went out, but for one in flight.                          *)
SessionsTypeOK ==
    /\ step \in 1..4
    /\ pc \in {"idle", "send", "in flight"}
    /\ code \in {0, 1, 2, 3, NoCode}
    /\ Len(wire) - Len(records) \in {0, 1}
    /\ \A i \in DOMAIN records : records[i].payload_sha256 = wire[i]
    /\ run \in 0..MaxRuns
    /\ sigpc \in {"idle", "send", "over"}
    /\ sigcode \in {0, 1, 2, 3, 9}
    /\ \A i \in DOMAIN outcomes : outcomes[i].variant = args.plan[i].variant

-----------------------------------------------------------------------------
(* blast *)

RunJustEnded == pc = "idle" /\ cmd.name \in {"fire", "replay"} /\ code \in {0, 3}

(* What report.py's header calls a failure, of a record and its category.  *)
Failed(record) ==
    \/ record.response.status \in {"5xx", "no_response"}
    \/ record.category = "clean" /\ record.response.status # "2xx"
    \/ record.response.status = "2xx" /\ record.response.body_failure

(* A blast run exits 0 exactly when it sent its whole corpus and nothing   *)
(* in it failed by the rules in report.py's header; its flags and its      *)
(* records' assertions name the same failures.                             *)
BlastExitIsEarned ==
    RunJustEnded =>
        LET file == files[step - 1]
            failed == {i \in DOMAIN file.records : Failed(file.records[i])}
        IN  /\ (code = 0) <=> (failed = {} /\ Len(file.records) = Len(cmd.pairs) /\ ~file.aborted)
            /\ file.summary.flags = failed
            /\ failed = {i \in DOMAIN file.records : ~file.records[i].passed}

(* Nothing is sent but for a command that was told to send, to a target of *)
(* the config file that is private or allowed: a replay, whose target the  *)
(* saved artifact names, asks for that anew.                               *)
BlastSendsAreConsented ==
    wire # <<>> /\ cmd.name # "compare" =>
        /\ cmd.send
        /\ cmd.target \in Configured
        /\ \/ cmd.target.host.name \in {"reserved", "bare", "private literal"}
           \/ cmd.target.host.addresses = {"private"}
           \/ cmd.allow

(* A blast run sends what it was told to where it was allowed to, records  *)
(* what it sent, and its exit code is what the records deserve.            *)
BlastIsHonest ==
    /\ SessionsTypeOK
    /\ BlastSendsAreConsented
    /\ BlastExitIsEarned

(* The artifact has the mix as the user gave it, not one it was rounded to. *)
Exact(file) ==
    file.config.mix_percent \in {DEFAULT_MIX, NoMix} \cup {r.mix : r \in Requests}

(* A replay of a blast run re-sends the bytes whose hash was recorded,     *)
(* also when an older build wrote the artifact, and does not decline to    *)
(* unless it is from a newer build or its mix was rounded away.            *)
ReplaysSendTheSame ==
    cmd.name = "replay" /\ files[1].tool = "blast" =>
        /\ \A i \in DOMAIN wire \cap DOMAIN files[1].records :
                files[1].records[i].payload_sha256 \in {NoHash, wire[i]}
        /\ files[1].schema_version <= SCHEMA_VERSION /\ Exact(files[1]) => cmd.corpus

-----------------------------------------------------------------------------
(* compare *)

BlastCompared == step = 4 /\ diff # <<>> /\ files[1].tool = "blast"
LoadCompared == step = 4 /\ diff # <<>> /\ files[1].tool = "barrage"

Grades(file, id) ==
    {Failed(file.records[i]) : i \in {j \in DOMAIN file.records : file.records[j].id = id}}

Ids(file) == {file.records[i].id : i \in DOMAIN file.records}

(* compare reports no regression only of runs that sent something and have *)
(* a payload in common, and only when no payload they have in common       *)
(* passed before and fails now; its four counts make up the payloads       *)
(* compared, and the other way round its regressions are its fixes.        *)
QuietCompareIsEarned ==
    BlastCompared =>
        LET shared == Ids(files[1]) \cap Ids(files[2])
            d == diff[1]
        IN  /\ shared # {}
            /\ ~files[1].config.dry_run /\ ~files[2].config.dry_run
            /\ d.regressions = {id \in shared : Grades(files[1], id) = {FALSE}
                                                /\ Grades(files[2], id) = {TRUE}}
            /\ d.compared = d.unchanged + Cardinality(d.regressions)
                            + Cardinality(d.fixes) + Cardinality(d.changes)
            /\ compare(files[2], files[1])[1].regressions = d.fixes

(* A replay whose every request was answered as in the run it replays has  *)
(* no difference to it and is a clean comparison, also when an older build *)
(* wrote the run.                                                          *)
ReplaysCompareClean ==
    LET a == files[1]
        b == files[2]
    IN  /\ RunJustEnded
        /\ cmd.name = "replay"
        /\ a.tool = "blast"
        /\ ~a.config.dry_run
        /\ DOMAIN a.records = DOMAIN b.records
        /\ a.records # <<>>
        /\ \A i \in DOMAIN a.records : a.records[i].response = b.records[i].response
        => LET d == compare(a, b)[1]
           IN  d.warnings \cup d.regressions \cup d.fixes \cup d.changes = {}

(* A replay is the run again: the same bytes and, if it is answered alike, *)
(* nothing for compare to report.                                          *)
ReplaysAreFaithful == ReplaysSendTheSame /\ ReplaysCompareClean

(* "The same margins in the other direction are reported as improvements": *)
(* the comparison of two load runs turned round has its regressions and    *)
(* improvements exchanged, and a run is never worse than itself.           *)
LoadCompareTurnsRound ==
    LoadCompared =>
        LET back == load_compare(files[2], files[1])[1]
        IN  /\ back.regressions = diff[1].fixes
            /\ back.fixes = diff[1].regressions
            /\ files[1] = files[2] => diff[1].regressions = {}

(* compare measures a run from its records as the run reported itself, and *)
(* the buckets of the run hold every request it sent or dropped.           *)
CompareSeesTheRun ==
    step = 4 /\ files[1].tool = "barrage" =>
        LET file == files[1]
            total(field) == FoldLeft(LAMBDA sum, b : sum + b[field], 0, file.buckets)
        IN  /\ \A key \in DOMAIN file.summary : measure(file)[key] = file.summary[key]
            /\ total("count") = file.summary.requests.sent
            /\ total("dropped") = file.summary.requests.dropped_backlog
            /\ file.summary.error_rate[1] * file.summary.requests.sent
                  = total("errors") * file.summary.error_rate[2]

(* compare tells a load run's regressions from its noise: it measures the  *)
(* run that was made, and no margin favours one direction.                 *)
LoadCompareIsRight == LoadCompareTurnsRound /\ CompareSeesTheRun

-----------------------------------------------------------------------------
(* sigcheck *)

(* The last run, done, and quick and clean enough to be told apart: no     *)
(* request failed, and its tokens were new to the endpoint, which they are  *)
(* not when two runs start in one second.  An endpoint that refuses a      *)
(* Message-ID it has seen refuses all but the first.                       *)
Telling ==
    /\ artifact # NoArtifact
    /\ sigpc # "send"
    /\ ~artifact.aborted
    /\ args.fresh
    /\ ~endpoint.messages
    /\ clock - args.start <= Window
    /\ \A i \in DOMAIN outcomes : outcomes[i].verdict # "N/A" => outcomes[i].status \in {"2xx", "4xx"}

Enforces(variant) ==
    /\ variant \in {"wrong-secret", "unsigned", "tampered-body"} => endpoint.signature
    /\ variant = "stale-timestamp" => endpoint.window
    /\ variant = "replayed-token" => endpoint.tokens

(* A variant is found OK exactly when the endpoint makes the check the     *)
(* variant is about: no variant is refused for another one's reason, and   *)
(* the note on Mailgun's guidance is given to the endpoint that follows it. *)
EachVerdictIsRight ==
    Telling =>
        /\ \A i \in DOMAIN outcomes :
              outcomes[i].verdict \in {"OK", "FINDING"} =>
                  (outcomes[i].verdict = "OK" <=> Enforces(outcomes[i].variant))
        /\ ("token cache" \in artifact.notes)
              <=> (args.scheme = "mailgun" /\ endpoint.tokens /\ ~endpoint.window)

(* ENFORCED, and exit 0, are for a run that judged every variant, had an   *)
(* answer to each one it sent, and saw the valid one accepted.             *)
EnforcedIsEarned ==
    artifact # NoArtifact /\ sigpc # "send" /\ sigcode \in {0, 3} =>
        /\ sigcode = 0 <=> artifact.verdict = "ENFORCED"
        /\ artifact.verdict = "ENFORCED" =>
              /\ Len(outcomes) = 6
              /\ \A i \in 1..6 : outcomes[i].verdict # "N/A" => outcomes[i].status \in {"2xx", "4xx"}
              /\ outcomes[1].status = "2xx"

(* sigcheck is right about the endpoint: variant by variant where it can   *)
(* tell, and in any case before it says ENFORCED.                          *)
SigcheckIsRight == EachVerdictIsRight /\ EnforcedIsEarned

-----------------------------------------------------------------------------
(* P256 *)

(* A digest signed with a key verifies with its public key, whatever the   *)
(* nonce, and verification accepts what ECDSA defines and nothing else.    *)
SignaturesVerify ==
    drill.kind = "ecdsa" =>
        LET public == p256_public_key(drill.key)
            valid(r, s) == LET point == Multiple((Inverse_(s, N) * (drill.digest + r * drill.key)) % N, G)
                           IN  point # Infinity /\ point[1] % N = r
        IN  /\ p256_sign_digest(drill.key, drill.digest) # {}
            /\ \A sig \in p256_sign_digest(drill.key, drill.digest) :
                  p256_verify_digest(public, drill.digest, sig[1], sig[2])
            /\ \A r, s \in 0..N :
                  p256_verify_digest(public, drill.digest, r, s)
                  <=> r \in 1..N - 1 /\ s \in 1..N - 1 /\ valid(r, s)

(* A signature survives its encoding; what is cut off or added to the      *)
(* encoding is noticed; and no number in it reads as negative.             *)
SignaturesTravel ==
    drill.kind = "der" =>
        LET data == der_signature(drill.r, drill.s)
            values == _der_children(_der_read(data)[1].value).out
        IN  /\ parse_der_signature(data) = <<drill.r, drill.s>>
            /\ \A n \in 0..Len(data) - 1 : parse_der_signature(SubSeq(data, 1, n)) = <<>>
            /\ parse_der_signature(Append(data, 0)) = <<>>
            /\ \A i \in DOMAIN values : values[i][2][1] < HighBit

(* The signatures sigcheck sends are the ones it means: they verify where  *)
(* they should and nowhere else, and they survive their encoding.          *)
SignaturesAreRight == SignaturesVerify /\ SignaturesTravel

-----------------------------------------------------------------------------
(* A claim of a docstring that the code does not keep. *)

(* A closed loop of one worker that sent its next request whenever it had  *)
(* the answer to the last one, and had every answer, a good one, after the *)
(* same time: the shortfall is the worker's, and "says nothing about the   *)
(* endpoint".                                                              *)
ShortfallIsTheClients ==
    \A i \in 1..2 :
        LET file == files[i]
            rows == SelectSeq(file.records, sent)
        IN  /\ file.tool = "barrage"
            /\ file.config.mode = "closed"
            /\ file.config.concurrency = 1
            /\ \A k \in DOMAIN rows : rows[k].status = 200 /\ rows[k].service = rows[1].service
            /\ \A k \in 2..Len(rows) : rows[k].dispatched = rows[k - 1].dispatched + rows[1].service
            => file.knee = NoKnee
=============================================================================
