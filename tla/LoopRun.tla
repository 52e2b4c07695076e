------------------------------- MODULE LoopRun -------------------------------
(***************************************************************************)
(* One `loop fire` run, pipeline/loop.py execute: an ordinary message is    *)
(* sent and the pipeline's reply to it awaited; machine-generated mail and  *)
(* a bait answering that reply follow; then both directions are read back.  *)
(* The pipeline under test opens tickets and sends mail of its own accord   *)
(* all the while.                                                           *)
(*                                                                          *)
(* What the pipeline sent is a sequence, oldest first.  An entry says which *)
(* message set it off and how it can be told: by the tag it quotes, by the  *)
(* Message-ID it answers, or not at all; `late` keeps whether the second    *)
(* baseline was already taken.                                              *)
(***************************************************************************)
EXTENDS Integers, Sequences, Functions, FiniteSets

CONSTANTS
    Count,       \* how many machine-generated messages are sent
    Policies,    \* the ticket policies tried
    Sinks,       \* how the outbound side can be read: "none", "lookup", "list"
    Reaches,     \* how many records a listing can page through
    MailLimit,   \* how many messages the pipeline sends
    TicketLimit, \* how many tickets it opens
    TicketsEach  \* on how many of them it puts one message

(* TICKET_POLICIES; an adapter can list, look up, or is not configured. *)
ASSUME LoopAssumption ==
    /\ Count \in Nat /\ Reaches \subseteq Nat
    /\ Policies \subseteq {"none", "allowed"}
    /\ Sinks \subseteq {"none", "lookup", "list"}

EXIT_OK == 0
EXIT_REFUSED == 1
EXIT_MISMATCH == 3
NoExit == -1

(* The messages, by number: the ordinary one, the machine mail, the bait. *)
precursor == 0
Corpus == 1..Count
bait == Count + 1
Judged == Corpus \cup {bait}
Messages == Judged \cup {precursor}
Nobody == -1

-----------------------------------------------------------------------------
(* The machine mail shapes, by what a marker test can see of them. *)

Ordinary == [auto |-> "", precedence |-> "", sender |-> "person", list |-> FALSE,
             subject |-> "plain", bounce |-> FALSE, report |-> FALSE]

MACHINE_MAIL_SHAPES ==
    << [Ordinary EXCEPT !.auto = "auto-replied"],
       [Ordinary EXCEPT !.auto = "auto-generated"],
       [Ordinary EXCEPT !.precedence = "bulk"],
       [Ordinary EXCEPT !.precedence = "list"],
       [Ordinary EXCEPT !.precedence = "junk"],
       [Ordinary EXCEPT !.auto = "auto-replied", !.subject = "out of office"],
       [Ordinary EXCEPT !.subject = "out of office"],
       [Ordinary EXCEPT !.sender = "mailer-daemon", !.bounce = TRUE, !.report = TRUE],
       [Ordinary EXCEPT !.sender = "noreply"],
       [Ordinary EXCEPT !.sender = "noreply"],
       [Ordinary EXCEPT !.list = TRUE],
       [Ordinary EXCEPT !.list = TRUE] >>

machine_mail_marker(shape) ==
    IF shape.auto \in {"auto-replied", "auto-generated"} THEN "Auto-Submitted"
    ELSE IF shape.precedence \in {"bulk", "list", "junk"} THEN "Precedence"
    ELSE IF shape.sender = "noreply" THEN "From"
    ELSE IF shape.list THEN "List"
    ELSE IF shape.subject = "out of office" THEN "Subject"
    ELSE IF shape.bounce THEN "Return-Path"
    ELSE IF shape.sender = "mailer-daemon" THEN "From"
    ELSE IF shape.report THEN "Content-Type"
    ELSE "none"

(* build_machine_corpus: every shape before any repeats. *)
ShapeOf(i) == MACHINE_MAIL_SHAPES[((i - 1) % Len(MACHINE_MAIL_SHAPES)) + 1]

(* Its assertion: every shape is told as machine mail, and an ordinary     *)
(* message is not.                                                         *)
ASSUME MarkersAreFound ==
    /\ \A i \in Corpus : machine_mail_marker(ShapeOf(i)) # "none"
    /\ \A s \in Range(MACHINE_MAIL_SHAPES) : machine_mail_marker(s) # "none"
    /\ machine_mail_marker(Ordinary) = "none"

-----------------------------------------------------------------------------
VARIABLES
    policy,     \* the ticket policy in force
    sink,       \* how the outbound side can be read
    reach,      \* how many records a listing of it pages through
    phase,      \* where execute is; "over" once it returned
    posted,     \* the messages posted
    sent,       \* how many of them the run holds a result for
    adapter, outbound,   \* the two adapters: "none", "open", "closed"
    mail,       \* what the pipeline sent
    tickets,    \* message |-> the tickets it is on
    baseline,   \* how much of mail was listed before the bait went out
    parent,     \* the entry the bait answers, or 0 for a fabricated one
    seen,       \* what the ticket readback returned
    outcome,    \* how it ended
    answers,    \* message |-> the entries found by tag, once read
    sinkOutcome,
    listed,     \* how much of mail the last listing reached
    verdict,
    exit

worldVars == <<mail, tickets>>
runVars == <<posted, sent, adapter, outbound, baseline, parent, seen, outcome,
             answers, sinkOutcome, listed, verdict, exit>>
vars == <<policy, sink, reach, phase, worldVars, runVars>>

can_list == sink = "list"

(* _list_all: a listing that stops before the end returns what it read. *)
_list_all == IF Len(mail) < reach THEN Len(mail) ELSE reach

NoVerdict == [word |-> "none", qualifier |-> "none"]
Aborted == [word |-> "ABORTED", qualifier |-> "none"]

Init ==
    /\ policy \in Policies
    /\ sink \in Sinks
    /\ reach \in IF sink = "list" THEN Reaches ELSE {0}
    /\ phase = "prepare"
    /\ posted = {} /\ sent = 0
    /\ adapter = "none" /\ outbound = "none"
    /\ mail \in {<<>>, <<[of |-> Nobody, by |-> "nothing", late |-> FALSE]>>}
    /\ tickets = [m \in Messages |-> {}]
    /\ baseline = 0 /\ parent = 0
    /\ seen = [m \in Messages |-> {}] /\ outcome = "none"
    /\ answers = [m \in Messages |-> {}] /\ sinkOutcome = "none"
    /\ listed = 0
    /\ verdict = NoVerdict /\ exit = NoExit

(* Mutant: only the sink is closed. *)
ForgetsTheReadback ==
    /\ outbound' = IF outbound = "none" THEN "none" ELSE "closed"
    /\ UNCHANGED adapter

(* The finally block, whichever way the reads ended. *)
CloseBoth ==
    /\ outbound' = IF outbound = "none" THEN "none" ELSE "closed"
    /\ adapter' = IF adapter = "none" THEN "none" ELSE "closed"

(* The run ends without a judgement. *)
Ends(code, word) ==
    /\ phase' = "over"
    /\ exit' = code
    /\ verdict' = word
    /\ CloseBoth

-----------------------------------------------------------------------------
(* Every refusal lands before the first send; the second adapter may fail  *)
(* when the first is open.                                                 *)
Refuse ==
    /\ phase \in {"prepare", "sink", "baseline"}
    /\ Ends(EXIT_REFUSED, NoVerdict)
    /\ UNCHANGED <<policy, sink, reach, worldVars, posted, sent, baseline, parent, seen, outcome,
                   answers, sinkOutcome, listed>>

PrepareReadback ==
    /\ phase = "prepare"
    /\ adapter' = "open"
    /\ phase' = "sink"
    /\ UNCHANGED <<policy, sink, reach, worldVars, posted, sent, outbound, baseline, parent, seen,
                   outcome, answers, sinkOutcome, listed, verdict, exit>>

PrepareSink ==
    /\ phase = "sink"
    /\ outbound' = IF sink = "none" THEN "none" ELSE "open"
    /\ phase' = "baseline"
    /\ UNCHANGED <<policy, sink, reach, worldVars, posted, sent, adapter, baseline, parent, seen,
                   outcome, answers, sinkOutcome, listed, verdict, exit>>

ListBaseline ==
    /\ phase = "baseline"
    /\ baseline' = IF can_list THEN _list_all ELSE 0
    /\ phase' = "send precursor"
    /\ UNCHANGED <<policy, sink, reach, worldVars, posted, sent, adapter, outbound, parent, seen,
                   outcome, answers, sinkOutcome, listed, verdict, exit>>

SendPrecursor ==
    /\ phase = "send precursor"
    /\ posted' = {precursor}
    /\ sent' = 1
    /\ phase' = IF sink = "none" THEN "send" ELSE "find reply"
    /\ UNCHANGED <<policy, sink, reach, worldVars, adapter, outbound, baseline, parent, seen, outcome,
                   answers, sinkOutcome, listed, verdict, exit>>

(* What a lookup by tag finds, and what a listing adds since the baseline. *)
fetch(message) == {i \in DOMAIN mail : mail[i].of = message /\ mail[i].by = "tag"}
new_records(upTo) == {i \in 1..upTo : i > baseline}

(* Mutant: whatever was sent last is taken for the reply. *)
AttributeAnything(i, messages) == precursor

(* attribute: by its own tag, or by the message it answers. *)
attribute(i, messages) ==
    IF mail[i].of \in messages /\ mail[i].by # "nothing" THEN mail[i].of ELSE Nobody

Replies ==
    IF fetch(precursor) # {} THEN fetch(precursor)
    ELSE IF can_list THEN {i \in new_records(_list_all) : attribute(i, {precursor}) = precursor}
    ELSE {}

(* Mutant: it polls until there is a reply. *)
WaitsForAReply ==
    /\ phase = "find reply"
    /\ Replies # {}
    /\ parent' = CHOOSE i \in Replies : \A j \in Replies : i <= j
    /\ phase' = "second baseline"
    /\ UNCHANGED <<policy, sink, reach, worldVars, posted, sent, adapter, outbound, baseline, seen,
                   outcome, answers, sinkOutcome, listed, verdict, exit>>

(* _find_reply polls until there is a reply or ack_wait has passed; the    *)
(* bait then answers the first one, or a made-up parent, as it does when   *)
(* the reply's record has no Message-ID.                                   *)
FindReply ==
    /\ phase = "find reply"
    /\ parent' \in {0} \cup {i \in Replies : \A j \in Replies : i <= j}
    /\ phase' = "second baseline"
    /\ UNCHANGED <<policy, sink, reach, worldVars, posted, sent, adapter, outbound, baseline, seen,
                   outcome, answers, sinkOutcome, listed, verdict, exit>>

(* Mutant: the first baseline stands. *)
KeepsTheFirst ==
    /\ phase = "second baseline"
    /\ phase' = "send"
    /\ UNCHANGED <<policy, sink, reach, worldVars, posted, sent, adapter, outbound, baseline, parent,
                   seen, outcome, answers, sinkOutcome, listed, verdict, exit>>

SecondBaseline ==
    /\ phase = "second baseline"
    /\ baseline' = IF can_list THEN _list_all ELSE baseline
    /\ phase' = "send"
    /\ UNCHANGED <<policy, sink, reach, worldVars, posted, sent, adapter, outbound, parent, seen,
                   outcome, answers, sinkOutcome, listed, verdict, exit>>

(* The corpus in order, the bait last; send_all returns at the end. *)
SendJudged ==
    /\ phase = "send"
    /\ \E m \in Judged \ posted :
        /\ \A n \in Corpus : n < m => n \in posted
        /\ posted' = posted \cup {m}
        /\ phase' = IF m = bait THEN "readback" ELSE "send"
        /\ sent' = IF m = bait THEN Count + 2 ELSE sent
    /\ UNCHANGED <<policy, sink, reach, worldVars, adapter, outbound, baseline, parent, seen, outcome,
                   answers, sinkOutcome, listed, verdict, exit>>

-----------------------------------------------------------------------------
(* On to the next read, or out of the try block. *)
Proceeds(next) ==
    /\ phase' = next
    /\ IF next = "judge" THEN CloseBoth ELSE UNCHANGED <<adapter, outbound>>

ReadTickets ==
    /\ phase = "readback"
    /\ \/ outcome' = "settled" /\ seen' = tickets
       \/ outcome' = "unsettled" /\ seen' \in {tickets, [m \in Messages |-> {}]}
       \/ outcome' = "failed" /\ seen' = [m \in Messages |-> {}]
    /\ Proceeds(IF sink = "none" THEN "judge" ELSE "read sink")
    /\ UNCHANGED <<policy, sink, reach, worldVars, posted, sent, baseline, parent,
                   answers, sinkOutcome, listed, verdict, exit>>

(* The same for the sink.  Lookups that were all 404s settle too, and that *)
(* outcome's `failed` is not looked at.                                    *)
ReadSink ==
    /\ phase = "read sink"
    /\ \/ sinkOutcome' = "settled" /\ answers' = [m \in Messages |-> fetch(m)]
       \/ sinkOutcome' = "unsettled" /\ answers' \in {[m \in Messages |-> fetch(m)], [m \in Messages |-> {}]}
       \/ sinkOutcome' = "failed" /\ answers' = [m \in Messages |-> {}]
    /\ Proceeds(IF can_list THEN "list sink" ELSE "judge")
    /\ UNCHANGED <<policy, sink, reach, worldVars, posted, sent, baseline, parent,
                   seen, outcome, listed, verdict, exit>>

ListSink ==
    /\ phase = "list sink"
    /\ listed' = _list_all
    /\ Proceeds("judge")
    /\ UNCHANGED <<policy, sink, reach, worldVars, posted, sent, baseline, parent,
                   seen, outcome, answers, sinkOutcome, verdict, exit>>

(* Any of the reads may raise: "could not complete the run". *)
ReadRaises ==
    /\ phase \in {"find reply", "second baseline", "readback", "read sink", "list sink"}
    /\ Ends(EXIT_REFUSED, NoVerdict)
    /\ UNCHANGED <<policy, sink, reach, worldVars, posted, sent, baseline, parent, seen, outcome,
                   answers, sinkOutcome, listed>>

Interrupt ==
    /\ phase \notin {"judge", "over"}
    /\ Ends(EXIT_MISMATCH, Aborted)
    /\ UNCHANGED <<policy, sink, reach, worldVars, posted, sent, baseline, parent, seen, outcome,
                   answers, sinkOutcome, listed>>

-----------------------------------------------------------------------------
(* Judging. *)

(* merge_outbound: the entries each message is answered by, found by tag or *)
(* in the listing, and the new ones that nothing claims.                    *)
New == IF can_list THEN new_records(listed) ELSE {}
merged(m) == answers[m] \cup {i \in New : attribute(i, Messages) = m}
unattributed == {i \in New : attribute(i, Messages) = Nobody}

(* Mutant: any message may sit on the ordinary message's ticket. *)
ThreadsForAll(m) == seen[m] \ seen[precursor]

(* judge: only the bait may be appended to the ordinary message's ticket. *)
opened(m) == IF m = bait THEN seen[m] \ seen[precursor] ELSE seen[m]

(* judge_one: what is held against a message. *)
judge_one(m) ==
    {f \in {"ticket", "reply"} :
        \/ f = "ticket" /\ opened(m) # {} /\ policy # "allowed"
        \/ f = "reply" /\ sink # "none" /\ merged(m) # {}}

unsettled == outcome = "unsettled" \/ sinkOutcome = "unsettled"

(* summarize's findings, the messages' and the run's. *)
findings ==
    {<<"message", m>> : m \in {m \in Judged : judge_one(m) # {}}}
    \cup (IF unattributed # {} THEN {<<"run", "unattributed">>} ELSE {})
    \cup (IF outcome = "failed" THEN {<<"run", "readback failed">>}
          ELSE IF unsettled THEN {<<"run", "unsettled">>} ELSE {})

headline ==
    [word |-> IF outcome = "failed" THEN "READBACK FAILED"
              ELSE IF unsettled THEN "UNSETTLED"
              ELSE IF findings = {} THEN "LOOP-SAFE" ELSE "LOOPS-DETECTED",
     qualifier |-> IF sink = "none" THEN "auto-reply NOT CHECKED"
                   ELSE IF ~can_list THEN "untagged auto-replies NOT CHECKED"
                   ELSE "none"]

Report ==
    /\ phase = "judge"
    /\ phase' = "over"
    /\ exit' = IF findings = {} THEN EXIT_OK ELSE EXIT_MISMATCH
    /\ verdict' = headline
    /\ UNCHANGED <<policy, sink, reach, worldVars, posted, sent, adapter, outbound, baseline, parent,
                   seen, outcome, answers, sinkOutcome, listed>>

-----------------------------------------------------------------------------
(* The pipeline under test, as long as the run can still see what it does.  *)

Opened == UNION Range(tickets)

(* A posted message gets a new ticket, or is appended to the ordinary one's. *)
PipelineFiles ==
    /\ phase \notin {"read sink", "list sink", "judge", "over"}
    /\ \E m \in posted :
         \E t \in tickets[precursor] \cup ({Cardinality(Opened) + 1} \cap 1..TicketLimit) :
            /\ t \notin tickets[m] /\ Cardinality(tickets[m]) < TicketsEach
            /\ tickets' = [tickets EXCEPT ![m] = @ \cup {t}]
    /\ UNCHANGED <<policy, sink, reach, phase, mail, runVars>>

(* It sends mail, set off by a posted message or by nothing of this run. *)
PipelineSends ==
    /\ sink # "none" /\ phase \notin {"judge", "over"}
    /\ Len(mail) < MailLimit
    /\ \E m \in posted \cup {Nobody}, by \in {"tag", "id", "nothing"} :
        /\ m = Nobody => by = "nothing"
        /\ mail' = Append(mail,
             [of |-> m, by |-> by,
              late |-> phase \notin {"prepare", "sink", "baseline", "send precursor",
                                      "find reply", "second baseline"}])
    /\ UNCHANGED <<policy, sink, reach, phase, tickets, runVars>>

ToolStep ==
    \/ PrepareReadback \/ PrepareSink \/ ListBaseline
    \/ SendPrecursor \/ FindReply \/ SecondBaseline \/ SendJudged
    \/ ReadTickets \/ ReadSink \/ ListSink \/ Report

Next ==
    \/ ToolStep \/ Refuse \/ ReadRaises \/ Interrupt
    \/ PipelineFiles \/ PipelineSends

(* The tool goes on by itself, and every wait in it is bounded; a failure,  *)
(* an interrupt or a step of the pipeline is owed by nobody.                *)
Spec == Init /\ [][Next]_vars /\ WF_vars(ToolStep)

-----------------------------------------------------------------------------
(* The variables have their types, and the run counts no message as sent    *)
(* that was not posted.                                                     *)
LoopTypeOK ==
    /\ policy \in Policies /\ sink \in Sinks /\ reach \in Reaches \cup {0}
    /\ posted \subseteq Messages
    /\ sent <= Cardinality(posted)
    /\ {adapter, outbound} \subseteq {"none", "open", "closed"}
    /\ \A i \in DOMAIN mail : mail[i].of \in Messages \cup {Nobody}
    /\ {baseline, parent, listed} \subseteq 0..Len(mail)
    /\ \A m \in Messages : seen[m] \subseteq tickets[m] /\ answers[m] \subseteq DOMAIN mail
    /\ exit \in {NoExit, EXIT_OK, EXIT_REFUSED, EXIT_MISMATCH}

(* summarize and headline, against what the pipeline did: LOOP-SAFE means   *)
(* that no machine mail was seen on a ticket the policy forbids and, when   *)
(* it is not qualified, that all a complete listing shows the pipeline to   *)
(* have sent since the bait went out answers the ordinary message.          *)
LoopSafeIsEarned ==
    verdict.word = "LOOP-SAFE" =>
        /\ exit = EXIT_OK
        /\ policy = "none" =>
            /\ \A m \in Corpus : seen[m] = {}
            /\ seen[bait] \subseteq seen[precursor]
        /\ verdict.qualifier = "none" =>
            \A i \in baseline + 1 .. listed : mail[i].of = precursor /\ mail[i].by # "nothing"
        /\ verdict.qualifier # "auto-reply NOT CHECKED" /\ sinkOutcome = "settled" =>
            \A m \in Judged : answers[m] = {}

(* The second baseline of execute: the quick acknowledgement of the         *)
(* ordinary message, quoting nothing, is no finding.  A detected loop is a  *)
(* forbidden ticket, an answer to machine mail, or mail the pipeline sent   *)
(* after the machine mail began that does not answer the ordinary message.  *)
LoopsAreReal ==
    verdict.word = "LOOPS-DETECTED" =>
        \/ policy = "none" /\ \E m \in Corpus : tickets[m] # {}
        \/ policy = "none" /\ tickets[bait] # {}
        \/ \E i \in DOMAIN mail :
             mail[i].late /\ (mail[i].of # precursor \/ mail[i].by = "nothing")

(* _find_reply: the bait answers a message the pipeline sent, in this run,  *)
(* to the ordinary message; a bait answering anything else would not close  *)
(* the loop the run looks for.                                              *)
BaitParentIsReal ==
    parent # 0 => mail[parent].of = precursor /\ mail[parent].by # "nothing"

(* execute's finally: whichever way the run ends, both adapters are closed, *)
(* and no run that posted a part of its messages passes.                    *)
EndsCleanly ==
    phase \in {"judge", "over"} =>
        /\ adapter # "open" /\ outbound # "open"
        /\ exit = EXIT_OK => posted = Messages

(* A loop run judges what it set out to: LOOP-SAFE is earned, over a bait   *)
(* that answers a real reply, and the run leaves nothing open behind it.    *)
LoopRunIsHonest ==
    /\ LoopTypeOK
    /\ LoopSafeIsEarned
    /\ BaitParentIsReal
    /\ EndsCleanly

(* Every wait of execute is bounded, so a run ends whatever the pipeline    *)
(* does.                                                                    *)
RunEnds == <>(phase = "over")

(* CONFIG.md says of a readback whose every lookup was a 404 that the run   *)
(* is READBACK FAILED; of the sink this is not so.                          *)
FailedSinkIsNoPass == sinkOutcome = "failed" => verdict.word # "LOOP-SAFE"
=============================================================================
