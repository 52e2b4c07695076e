---------------------------- MODULE LoopRunProofs ----------------------------
(***************************************************************************)
(* Proofs about LoopRun: for any number of machine messages, any listing    *)
(* reach and whatever the pipeline under test does, a run's verdict is      *)
(* earned.                                                                  *)
(*                                                                          *)
(* Both properties speak of the end of a run.  What they need on the way is *)
(* what each group of phases may rely on: what has been posted, that mail   *)
(* set off by a judged message is late, that behind the second baseline     *)
(* there is late mail only, and that what was read is still there.          *)
(***************************************************************************)
EXTENDS LoopRun, FiniteSetTheorems, SequenceTheorems, TLAPS

Unsent == {"prepare", "sink", "baseline", "send precursor"}
Waiting == {"find reply", "second baseline"}
Reading == {"readback", "read sink", "list sink", "judge"}
Phases == Unsent \cup Waiting \cup {"send"} \cup Reading \cup {"over"}

Entry == [of : Messages \cup {Nobody}, by : {"tag", "id", "nothing"}, late : BOOLEAN]

(* The type invariant, by the kind of value. *)
Settings ==
    /\ policy \in Policies /\ sink \in Sinks
    /\ reach \in Reaches \cup {0}
Steps == phase \in Phases
Doors == adapter \in {"none", "open", "closed"} /\ outbound \in {"none", "open", "closed"}
Mail == mail \in Seq(Entry)
Tickets == tickets \in [Messages -> SUBSET (1..TicketLimit)]
Marks ==
    /\ baseline \in 0..Len(mail)
    /\ parent \in 0..Len(mail)
    /\ listed \in 0..Len(mail)

(* What has been posted, by phase, and what the run counts of it. *)
Posts ==
    /\ posted \subseteq Messages
    /\ sent \in Nat /\ sent <= Cardinality(posted)
    /\ phase \in Unsent => posted = {} /\ sent = 0
    /\ phase \in Waiting => posted = {precursor} /\ sent = 1
    /\ phase = "send" => precursor \in posted /\ bait \notin posted /\ sent = 1
    /\ phase \in Reading => posted = Messages

(* Nothing answers a judged message before the second baseline. *)
JudgedIsLate == \A i \in DOMAIN mail : mail[i].of \in Judged => mail[i].late

(* Behind the second baseline, and within reach, there is only late mail. *)
BehindIsLate ==
    phase \in {"send"} \cup Reading /\ can_list =>
        \A i \in DOMAIN mail : i > baseline /\ i <= reach => mail[i].late

(* The two readbacks return what is there, and it stays there. *)
SeenIsThere ==
    /\ seen \in [Messages -> SUBSET (1..TicketLimit)]
    /\ \A m \in Messages : seen[m] \subseteq tickets[m]
AnswersAreThere ==
    /\ answers \in [Messages -> SUBSET Nat]
    /\ \A m \in Messages : answers[m] \subseteq fetch(m)
ListedIsReached == listed <= reach

(* What the judgement rests on. *)
Grounds ==
    /\ posted = Messages
    /\ can_list =>
        \A i \in DOMAIN mail : i > baseline /\ i <= reach => mail[i].late
    /\ listed <= reach

Closed == adapter # "open" /\ outbound # "open"

(* The ways out: refused or interrupted, or judged. *)
WaysOut ==
    /\ phase # "over" => verdict = NoVerdict /\ exit = NoExit
    /\ phase \in {"judge", "over"} => Closed
    /\ phase = "over" =>
        \/ verdict \in {NoVerdict, Aborted} /\ exit \in {EXIT_REFUSED, EXIT_MISMATCH}
        \/ /\ Grounds
           /\ verdict = headline
           /\ exit = IF findings = {} THEN EXIT_OK ELSE EXIT_MISMATCH

LoopInv ==
    /\ Settings /\ Steps /\ Doors /\ Mail /\ Tickets /\ Marks
    /\ Posts /\ JudgedIsLate /\ BehindIsLate
    /\ SeenIsThere /\ AnswersAreThere /\ ListedIsReached
    /\ BaitParentIsReal
    /\ WaysOut

-----------------------------------------------------------------------------
(* The messages are numbered from 0; nobody is none of them. *)
LEMMA Numbering ==
    /\ Messages = 0..(Count + 1) /\ Judged = 1..(Count + 1)
    /\ precursor \in Messages /\ precursor \notin Judged
    /\ bait \in Judged /\ bait \notin Corpus /\ Corpus \subseteq Judged
    /\ Judged \subseteq Messages /\ Nobody \notin Messages
  BY LoopAssumption DEF Messages, Judged, Corpus, bait, precursor, Nobody

(* There are finitely many, as many as a whole run posts. *)
LEMMA HowMany ==
    /\ IsFiniteSet(Messages) /\ Cardinality(Messages) = Count + 2
    /\ \A S \in SUBSET Messages : IsFiniteSet(S) /\ Cardinality(S) \in Nat
    /\ \A S \in SUBSET Messages : S # {} => Cardinality(S) >= 1
    /\ Cardinality({}) = 0
  <1>1. IsFiniteSet(Messages) /\ Cardinality(Messages) = Count + 2
    <2>1. Messages = 0..(Count + 1) BY Numbering
    <2>2. IsFiniteSet(0..(Count + 1)) /\ Cardinality(0..(Count + 1)) = Count + 2
      BY FS_Interval, LoopAssumption
    <2> QED BY <2>1, <2>2
  <1>2. \A S \in SUBSET Messages : IsFiniteSet(S) /\ Cardinality(S) \in Nat
    BY <1>1, FS_Subset, FS_CardinalityType
  <1>3. Cardinality({}) = 0
    BY FS_EmptySet
  <1>4. ASSUME NEW S \in SUBSET Messages, S # {} PROVE Cardinality(S) >= 1
    <2>1. IsFiniteSet(S) /\ Cardinality(S) \in Nat BY <1>2
    <2>2. Cardinality(S) # 0 BY <2>1, <1>4, FS_EmptySet
    <2> QED BY <2>1, <2>2
  <1> QED BY <1>1, <1>2, <1>3, <1>4

(* A listing returns no more than there is, and no more than it reaches. *)
LEMMA ListingReach ==
    ASSUME Settings, Mail
    PROVE  /\ Len(mail) \in Nat /\ DOMAIN mail = 1..Len(mail) /\ reach \in Nat
           /\ _list_all \in 0..Len(mail) /\ _list_all <= reach
           /\ \A i \in DOMAIN mail : i > _list_all => i > reach
  BY LoopAssumption DEF Settings, Mail, _list_all

-----------------------------------------------------------------------------
(* The judgement looks at nothing that the last step changes. *)
LEMMA JudgementStands ==
    ASSUME UNCHANGED <<policy, sink, reach, mail, posted, baseline, seen, outcome,
                       answers, sinkOutcome, listed>>
    PROVE  headline' = headline /\ findings' = findings /\ Grounds' = Grounds
  <1>1. can_list' = can_list /\ unsettled' = unsettled
    BY DEF can_list, unsettled
  <1>2. \A m \in Messages : \A i : attribute(i, Messages)' = attribute(i, Messages)
    BY DEF attribute
  <1>3. New' = New
    BY <1>1 DEF New, new_records
  <1>4. unattributed' = unattributed
    BY <1>3 DEF unattributed, attribute
  <1>5. \A m : merged(m)' = merged(m)
    BY <1>3 DEF merged, attribute
  <1>6. \A m : judge_one(m)' = judge_one(m)
    BY <1>5 DEF judge_one, opened
  <1>7. findings' = findings
    BY <1>1, <1>4, <1>6 DEF findings
  <1>8. Grounds' = Grounds
    BY <1>1 DEF Grounds
  <1> QED BY <1>1, <1>7, <1>8 DEF headline

(* A run begins with nothing posted and nothing claimed. *)
LEMMA LoopInit == Init => LoopInv
  <1> SUFFICES ASSUME Init PROVE LoopInv
    OBVIOUS
  <1> USE DEF Init
  <1>1. Settings
    BY LoopAssumption DEF Settings
  <1>2. Steps /\ Doors
    BY DEF Steps, Phases, Unsent, Doors
  <1>3. Mail /\ Marks /\ JudgedIsLate /\ BaitParentIsReal
    <2>1. [of |-> Nobody, by |-> "nothing", late |-> FALSE] \in Entry
      BY DEF Entry
    <2>2. Nobody \notin Judged
      BY Numbering
    <2>3. <<>> \in Seq(Entry) /\ \A e \in Entry : <<e>> \in Seq(Entry)
      OBVIOUS
    <2>6. mail = <<>> \/ mail = <<[of |-> Nobody, by |-> "nothing", late |-> FALSE]>>
      OBVIOUS
    <2>5. Mail
      BY <2>1, <2>3, <2>6, Zenon DEF Mail
    <2>4. JudgedIsLate
      BY <2>2 DEF JudgedIsLate
    <2> QED BY <2>5, <2>4 DEF Mail, Marks, BaitParentIsReal
  <1>4. Tickets /\ SeenIsThere /\ AnswersAreThere
    BY DEF Tickets, SeenIsThere, AnswersAreThere
  <1>5. Posts
    BY HowMany DEF Posts, Unsent, Waiting, Reading
  <1>6. BehindIsLate /\ ListedIsReached
    BY LoopAssumption DEF BehindIsLate, ListedIsReached, Reading
  <1>7. WaysOut
    BY DEF WaysOut
  <1> QED BY <1>1, <1>2, <1>3, <1>4, <1>5, <1>6, <1>7 DEF LoopInv
-----------------------------------------------------------------------------
(* As long as the pipeline's mail and tickets, and what was read of them,   *)
(* stay as they are, so does everything that is only about them.            *)
LEMMA WorldStands ==
    ASSUME LoopInv, UNCHANGED <<policy, sink, reach, worldVars>>
    PROVE  /\ Settings' /\ Mail' /\ Tickets' /\ JudgedIsLate'
           /\ UNCHANGED <<seen, answers>> => SeenIsThere' /\ AnswersAreThere'
           /\ UNCHANGED <<baseline, parent, listed>> => Marks' /\ BaitParentIsReal'
  <1>1. Settings' /\ Mail' /\ Tickets' /\ JudgedIsLate'
    BY DEF LoopInv, worldVars, Settings, Mail, Tickets, JudgedIsLate
  <1>2. UNCHANGED <<seen, answers>> => SeenIsThere' /\ AnswersAreThere'
    BY DEF LoopInv, worldVars, SeenIsThere, AnswersAreThere, fetch
  <1>3. UNCHANGED <<baseline, parent, listed>> => Marks' /\ BaitParentIsReal'
    BY DEF LoopInv, worldVars, Marks, BaitParentIsReal
  <1> QED BY <1>1, <1>2, <1>3

(* A run that is broken off is over, closed and without a judgement. *)
LEMMA EndsStep ==
    ASSUME LoopInv, NEW code \in {EXIT_REFUSED, EXIT_MISMATCH},
           NEW word \in {NoVerdict, Aborted}, Ends(code, word),
           UNCHANGED <<policy, sink, reach, worldVars, posted, sent, baseline, parent, seen,
                       outcome, answers, sinkOutcome, listed>>
    PROVE  LoopInv'
  <1>1. Settings' /\ Mail' /\ Tickets' /\ JudgedIsLate' /\ SeenIsThere' /\ AnswersAreThere'
        /\ Marks' /\ BaitParentIsReal'
    BY WorldStands
  <1>2. phase' = "over" /\ exit' = code /\ verdict' = word
    BY DEF Ends
  <1>3. Steps' /\ BehindIsLate' /\ ListedIsReached' /\ Posts'
    BY <1>2 DEF LoopInv, Steps, Phases, BehindIsLate, ListedIsReached, Posts, Reading,
                Unsent, Waiting
  <1>4. Doors' /\ Closed'
    BY DEF LoopInv, Doors, Ends, CloseBoth, Closed
  <1>5. WaysOut'
    BY <1>2, <1>4 DEF WaysOut
  <1> QED BY <1>1, <1>3, <1>4, <1>5 DEF LoopInv

(* Until the first message goes out the run only opens and lists. *)
LEMMA PrepareStep ==
    ASSUME LoopInv, PrepareReadback \/ PrepareSink
    PROVE  LoopInv'
  <1>1. UNCHANGED <<policy, sink, reach, worldVars, posted, sent, baseline, parent, seen,
                    outcome, answers, sinkOutcome, listed, verdict, exit>>
    BY DEF PrepareReadback, PrepareSink
  <1>2. Settings' /\ Mail' /\ Tickets' /\ JudgedIsLate' /\ SeenIsThere' /\ AnswersAreThere'
        /\ Marks' /\ BaitParentIsReal'
    BY <1>1, WorldStands
  <1>3. phase \in Unsent /\ phase' \in Unsent
    BY DEF PrepareReadback, PrepareSink, Unsent
  <1>4. Steps' /\ BehindIsLate' /\ ListedIsReached' /\ Posts'
    BY <1>1, <1>3 DEF LoopInv, Steps, Phases, BehindIsLate, ListedIsReached, Posts, Reading,
                      Unsent, Waiting
  <1>5. Doors'
    BY DEF LoopInv, Doors, PrepareReadback, PrepareSink
  <1>6. WaysOut'
    BY <1>1, <1>3 DEF LoopInv, WaysOut, Unsent
  <1> QED BY <1>2, <1>4, <1>5, <1>6 DEF LoopInv

LEMMA ListBaselineStep ==
    ASSUME LoopInv, ListBaseline
    PROVE  LoopInv'
  <1>1. UNCHANGED <<policy, sink, reach, worldVars, posted, sent, adapter, outbound, parent,
                    seen, outcome, answers, sinkOutcome, listed, verdict, exit>>
        /\ phase = "baseline" /\ phase' = "send precursor"
    BY DEF ListBaseline
  <1>2. Settings' /\ Mail' /\ Tickets' /\ JudgedIsLate' /\ SeenIsThere' /\ AnswersAreThere'
    BY <1>1, WorldStands
  <1>3. Marks' /\ BaitParentIsReal'
    <2>1. baseline' \in 0..Len(mail)
      <3>1. baseline' = _list_all \/ baseline' = 0
        BY DEF ListBaseline
      <3> QED BY <3>1, ListingReach DEF LoopInv
    <2>2. Marks'
      BY <1>1, <2>1 DEF LoopInv, worldVars, Marks
    <2>3. BaitParentIsReal'
      BY <1>1 DEF LoopInv, worldVars, BaitParentIsReal
    <2> QED BY <2>2, <2>3
  <1>4. Steps' /\ BehindIsLate' /\ ListedIsReached' /\ Posts'
    BY <1>1 DEF LoopInv, Steps, Phases, BehindIsLate, ListedIsReached, Posts, Reading,
                Unsent, Waiting
  <1>5. Doors' /\ WaysOut'
    BY <1>1 DEF LoopInv, Doors, WaysOut
  <1> QED BY <1>2, <1>3, <1>4, <1>5 DEF LoopInv

(* The ordinary message: one is posted and one is counted. *)
LEMMA SendPrecursorStep ==
    ASSUME LoopInv, SendPrecursor
    PROVE  LoopInv'
  <1>1. UNCHANGED <<policy, sink, reach, worldVars, adapter, outbound, baseline, parent, seen,
                    outcome, answers, sinkOutcome, listed, verdict, exit>>
        /\ posted' = {precursor} /\ sent' = 1 /\ phase = "send precursor"
        /\ phase' \in {"send", "find reply"}
        /\ (phase' = "send" => sink = "none")
    BY DEF SendPrecursor
  <1>2. Settings' /\ Mail' /\ Tickets' /\ JudgedIsLate' /\ SeenIsThere' /\ AnswersAreThere'
        /\ Marks' /\ BaitParentIsReal'
    BY <1>1, WorldStands
  <1>3. Posts'
    <2>1. Cardinality({precursor}) = 1
      BY FS_Singleton
    <2>2. precursor \in Messages /\ bait # precursor
      BY Numbering
    <2>3. posted' \subseteq Messages /\ sent' \in Nat /\ sent' <= Cardinality(posted')
      <3>1. Cardinality(posted') = 1 /\ posted' \subseteq Messages
        BY <1>1, <2>1, <2>2, Zenon
      <3>2. sent' = 1
        BY <1>1
      <3> QED BY <3>1, <3>2
    <2> QED BY <1>1, <2>2, <2>3 DEF Posts, Unsent, Waiting, Reading
  <1>4. Steps' /\ BehindIsLate' /\ ListedIsReached'
    BY <1>1 DEF LoopInv, Steps, Phases, BehindIsLate, ListedIsReached, Reading,
                Unsent, Waiting, can_list
  <1>5. Doors' /\ WaysOut'
    BY <1>1 DEF LoopInv, Doors, WaysOut
  <1> QED BY <1>2, <1>3, <1>4, <1>5 DEF LoopInv

(* What is taken for a reply answers the ordinary message. *)
LEMMA RepliesAreReplies ==
    ASSUME LoopInv, NEW i \in Replies
    PROVE  i \in DOMAIN mail /\ mail[i].of = precursor /\ mail[i].by # "nothing"
  <1>1. CASE i \in fetch(precursor)
    BY <1>1 DEF fetch
  <1>2. CASE i \in new_records(_list_all) /\ attribute(i, {precursor}) = precursor
    <2>1. i \in DOMAIN mail
      BY <1>2, ListingReach DEF LoopInv, new_records, Marks
    <2>2. Nobody # precursor
      BY DEF Nobody, precursor
    <2> QED BY <1>2, <2>1, <2>2 DEF attribute
  <1> QED BY <1>1, <1>2 DEF Replies

LEMMA FindReplyStep ==
    ASSUME LoopInv, FindReply
    PROVE  LoopInv'
  <1>1. UNCHANGED <<policy, sink, reach, worldVars, posted, sent, adapter, outbound, baseline,
                    seen, outcome, answers, sinkOutcome, listed, verdict, exit>>
        /\ phase = "find reply" /\ phase' = "second baseline"
    BY DEF FindReply
  <1>2. Settings' /\ Mail' /\ Tickets' /\ JudgedIsLate' /\ SeenIsThere' /\ AnswersAreThere'
    BY <1>1, WorldStands
  <1>3. parent' = 0 \/ parent' \in Replies
    BY DEF FindReply
  <1>4. Marks' /\ BaitParentIsReal'
    <2>1. parent' \in 0..Len(mail)
      <3>1. Len(mail) \in Nat /\ DOMAIN mail = 1..Len(mail)
        BY ListingReach DEF LoopInv
      <3>2. CASE parent' \in Replies
        <4>1. parent' \in DOMAIN mail
          BY <3>2, RepliesAreReplies
        <4> QED BY <3>1, <4>1
      <3> QED BY <1>3, <3>1, <3>2
    <2>2. Marks'
      BY <1>1, <2>1 DEF LoopInv, worldVars, Marks
    <2>3. BaitParentIsReal'
      BY <1>1, <1>3, RepliesAreReplies DEF worldVars, BaitParentIsReal
    <2> QED BY <2>2, <2>3
  <1>5. Steps' /\ BehindIsLate' /\ ListedIsReached' /\ Posts'
    BY <1>1 DEF LoopInv, Steps, Phases, BehindIsLate, ListedIsReached, Posts, Reading,
                Unsent, Waiting
  <1>6. Doors' /\ WaysOut'
    BY <1>1 DEF LoopInv, Doors, WaysOut
  <1> QED BY <1>2, <1>4, <1>5, <1>6 DEF LoopInv

(* The second baseline leaves nothing behind it that a listing reaches. *)
LEMMA SecondBaselineStep ==
    ASSUME LoopInv, SecondBaseline
    PROVE  LoopInv'
  <1>1. UNCHANGED <<policy, sink, reach, worldVars, posted, sent, adapter, outbound, parent,
                    seen, outcome, answers, sinkOutcome, listed, verdict, exit>>
        /\ phase = "second baseline" /\ phase' = "send"
        /\ baseline' = IF can_list THEN _list_all ELSE baseline
    BY DEF SecondBaseline
  <1>2. Settings' /\ Mail' /\ Tickets' /\ JudgedIsLate' /\ SeenIsThere' /\ AnswersAreThere'
    BY <1>1, WorldStands
  <1>3. Marks' /\ BaitParentIsReal'
    BY <1>1, ListingReach DEF LoopInv, worldVars, Marks, BaitParentIsReal
  <1>4. BehindIsLate'
    <2>1. SUFFICES ASSUME can_list, NEW i \in DOMAIN mail, i > _list_all, i <= reach
                   PROVE  mail[i].late
      BY <1>1 DEF BehindIsLate, can_list, worldVars
    <2> QED BY <2>1, ListingReach DEF LoopInv
  <1>5. Steps' /\ ListedIsReached' /\ Posts'
    <2>1. bait # precursor
      BY Numbering
    <2> QED
      BY <1>1, <2>1 DEF LoopInv, Steps, Phases, ListedIsReached, Posts, Reading, Unsent, Waiting
  <1>6. Doors' /\ WaysOut'
    BY <1>1 DEF LoopInv, Doors, WaysOut
  <1> QED BY <1>2, <1>3, <1>4, <1>5, <1>6 DEF LoopInv
(* The machine mail in order, the bait last: then everything is posted. *)
LEMMA SendJudgedStep ==
    ASSUME LoopInv, SendJudged
    PROVE  LoopInv'
  <1>1. UNCHANGED <<policy, sink, reach, worldVars, adapter, outbound, baseline, parent, seen,
                    outcome, answers, sinkOutcome, listed, verdict, exit>>
        /\ phase = "send" /\ phase' \in {"send", "readback"}
    BY DEF SendJudged
  <1>2. Settings' /\ Mail' /\ Tickets' /\ JudgedIsLate' /\ SeenIsThere' /\ AnswersAreThere'
        /\ Marks' /\ BaitParentIsReal'
    BY <1>1, WorldStands
  <1>3. Posts'
    <2>1. PICK m \in Judged \ posted :
            /\ \A n \in Corpus : n < m => n \in posted
            /\ posted' = posted \cup {m}
            /\ phase' = (IF m = bait THEN "readback" ELSE "send")
            /\ sent' = IF m = bait THEN Count + 2 ELSE sent
      BY DEF SendJudged
    <2>2. posted' \in SUBSET Messages /\ precursor \in posted'
      BY <1>1, <2>1, Numbering DEF LoopInv, Posts
    <2>3. CASE m = bait
      <3>1. \A n \in Corpus : n < m
        BY <2>3, LoopAssumption DEF Corpus, bait
      <3>2. posted' = Messages
        BY <1>1, <2>1, <2>2, <2>3, <3>1 DEF Messages, Judged
      <3>3. Cardinality(posted') = Count + 2
        BY <3>2, HowMany, Zenon
      <3> QED
        BY <1>1, <2>1, <2>3, <3>2, <3>3, LoopAssumption DEF Posts, Unsent, Waiting, Reading
    <2>4. CASE m # bait
      <3>1. sent = 1 /\ bait \notin posted
        BY <1>1 DEF LoopInv, Posts
      <3>2. Cardinality(posted') \in Nat /\ Cardinality(posted') >= 1
        BY <2>2, HowMany
      <3>3. sent' = 1 /\ phase' = "send" /\ bait \notin posted'
        BY <2>1, <2>4, <3>1
      <3> QED
        BY <2>2, <3>2, <3>3 DEF Posts, Unsent, Waiting, Reading
    <2> QED BY <2>3, <2>4
  <1>4. Steps' /\ ListedIsReached'
    BY <1>1 DEF LoopInv, Steps, Phases, ListedIsReached, Reading
  <1>5. BehindIsLate'
    BY <1>1 DEF LoopInv, BehindIsLate, Reading, can_list, worldVars
  <1>6. Doors' /\ WaysOut'
    BY <1>1 DEF LoopInv, Doors, WaysOut
  <1> QED BY <1>2, <1>3, <1>4, <1>5, <1>6 DEF LoopInv

-----------------------------------------------------------------------------
(* From one read to the next, or out of the try block with both adapters    *)
(* closed: nothing but what the read returned has changed.                  *)
LEMMA ReadingGoesOn ==
    ASSUME LoopInv, NEW next \in Reading, Proceeds(next), phase \in Reading \ {"judge"},
           UNCHANGED <<policy, sink, reach, worldVars, posted, sent, baseline, parent,
                       verdict, exit>>
    PROVE  /\ Settings' /\ Mail' /\ Tickets' /\ JudgedIsLate'
           /\ Steps' /\ Doors' /\ Posts' /\ BehindIsLate' /\ BaitParentIsReal' /\ WaysOut'
  <1>1. Settings' /\ Mail' /\ Tickets' /\ JudgedIsLate'
    BY WorldStands
  <1>2. phase' = next
    BY DEF Proceeds
  <1>3. Steps' /\ Posts'
    BY <1>2 DEF LoopInv, Steps, Phases, Posts, Reading, Unsent, Waiting
  <1>4. BehindIsLate'
    BY <1>2 DEF LoopInv, BehindIsLate, Reading, can_list, worldVars
  <1>5. Doors' /\ (next = "judge" => Closed')
    BY DEF LoopInv, Doors, Proceeds, CloseBoth, Closed
  <1>6. WaysOut'
    BY <1>2, <1>5 DEF LoopInv, WaysOut, Reading
  <1>7. BaitParentIsReal'
    BY DEF LoopInv, BaitParentIsReal, worldVars
  <1> QED BY <1>1, <1>3, <1>4, <1>5, <1>6, <1>7

LEMMA ReadTicketsStep ==
    ASSUME LoopInv, ReadTickets
    PROVE  LoopInv'
  <1>1. UNCHANGED <<policy, sink, reach, worldVars, posted, sent, baseline, parent,
                    answers, sinkOutcome, listed, verdict, exit>>
        /\ phase \in Reading \ {"judge"}
    BY DEF ReadTickets, Reading
  <1>2. PICK next \in Reading : Proceeds(next)
    BY DEF ReadTickets, Reading
  <1>3. /\ Settings' /\ Mail' /\ Tickets' /\ JudgedIsLate'
        /\ Steps' /\ Doors' /\ Posts' /\ BehindIsLate' /\ BaitParentIsReal' /\ WaysOut'
    BY <1>1, <1>2, ReadingGoesOn
  <1>4. seen' = tickets \/ seen' = [m \in Messages |-> {}]
    BY DEF ReadTickets
  <1>5. SeenIsThere'
    BY <1>1, <1>4 DEF LoopInv, SeenIsThere, Tickets, worldVars
  <1>6. AnswersAreThere' /\ Marks' /\ ListedIsReached'
    BY <1>1 DEF LoopInv, AnswersAreThere, fetch, Marks, ListedIsReached, worldVars
  <1> QED BY <1>3, <1>5, <1>6 DEF LoopInv

LEMMA ReadSinkStep ==
    ASSUME LoopInv, ReadSink
    PROVE  LoopInv'
  <1>1. UNCHANGED <<policy, sink, reach, worldVars, posted, sent, baseline, parent,
                    seen, outcome, listed, verdict, exit>>
        /\ phase \in Reading \ {"judge"}
    BY DEF ReadSink, Reading
  <1>2. PICK next \in Reading : Proceeds(next)
    BY DEF ReadSink, Reading
  <1>3. /\ Settings' /\ Mail' /\ Tickets' /\ JudgedIsLate'
        /\ Steps' /\ Doors' /\ Posts' /\ BehindIsLate' /\ BaitParentIsReal' /\ WaysOut'
    BY <1>1, <1>2, ReadingGoesOn
  <1>4. answers' = [m \in Messages |-> fetch(m)] \/ answers' = [m \in Messages |-> {}]
    BY DEF ReadSink
  <1>5. AnswersAreThere'
    <2>1. \A m \in Messages : fetch(m) \in SUBSET Nat
      BY ListingReach DEF LoopInv, fetch
    <2>2. \A m \in Messages : fetch(m)' = fetch(m)
      BY <1>1 DEF fetch, worldVars
    <2>3. answers' \in [Messages -> SUBSET Nat]
      BY <1>4, <2>1
    <2> QED BY <1>4, <2>2, <2>3 DEF AnswersAreThere
  <1>6. SeenIsThere' /\ Marks' /\ ListedIsReached'
    BY <1>1 DEF LoopInv, SeenIsThere, Marks, ListedIsReached, worldVars
  <1> QED BY <1>3, <1>5, <1>6 DEF LoopInv

LEMMA ListSinkStep ==
    ASSUME LoopInv, ListSink
    PROVE  LoopInv'
  <1>1. UNCHANGED <<policy, sink, reach, worldVars, posted, sent, baseline, parent,
                    seen, outcome, answers, sinkOutcome, verdict, exit>>
        /\ phase \in Reading \ {"judge"} /\ Proceeds("judge") /\ listed' = _list_all
    BY DEF ListSink, Reading
  <1>2. /\ Settings' /\ Mail' /\ Tickets' /\ JudgedIsLate'
        /\ Steps' /\ Doors' /\ Posts' /\ BehindIsLate' /\ BaitParentIsReal' /\ WaysOut'
    BY <1>1, ReadingGoesOn DEF Reading
  <1>3. listed' \in 0..Len(mail) /\ listed' <= reach
    BY <1>1, ListingReach DEF LoopInv
  <1>4. Marks' /\ ListedIsReached'
    BY <1>1, <1>3 DEF LoopInv, Marks, ListedIsReached, worldVars
  <1>5. SeenIsThere' /\ AnswersAreThere'
    BY <1>1, WorldStands
  <1> QED BY <1>2, <1>4, <1>5 DEF LoopInv

(* The report states the judgement of what was read. *)
LEMMA ReportStep ==
    ASSUME LoopInv, Report
    PROVE  LoopInv'
  <1>1. UNCHANGED <<policy, sink, reach, worldVars, posted, sent, adapter, outbound, baseline,
                    parent, seen, outcome, answers, sinkOutcome, listed>>
        /\ phase = "judge" /\ phase' = "over" /\ verdict' = headline
        /\ exit' = IF findings = {} THEN EXIT_OK ELSE EXIT_MISMATCH
    BY DEF Report
  <1>2. Settings' /\ Mail' /\ Tickets' /\ JudgedIsLate' /\ SeenIsThere' /\ AnswersAreThere'
        /\ Marks' /\ BaitParentIsReal'
    BY <1>1, WorldStands
  <1>3. Steps' /\ BehindIsLate' /\ ListedIsReached' /\ Posts' /\ Doors'
    BY <1>1 DEF LoopInv, Steps, Phases, BehindIsLate, ListedIsReached, Posts, Reading,
                Unsent, Waiting, Doors
  <1>4. WaysOut'
    <2>1. Grounds
      BY <1>1 DEF LoopInv, Grounds, Posts, BehindIsLate, ListedIsReached, Reading
    <2>2. headline' = headline /\ findings' = findings /\ Grounds' = Grounds
      BY <1>1, JudgementStands DEF worldVars
    <2>3. Closed'
      BY <1>1 DEF LoopInv, WaysOut, Closed
    <2> QED BY <1>1, <2>1, <2>2, <2>3 DEF WaysOut
  <1> QED BY <1>2, <1>3, <1>4 DEF LoopInv
-----------------------------------------------------------------------------
(* A ticket more: what was seen is still there. *)
LEMMA PipelineFilesStep ==
    ASSUME LoopInv, PipelineFiles
    PROVE  LoopInv'
  <1>1. UNCHANGED <<policy, sink, reach, phase, mail, runVars>>
        /\ phase # "over"
    BY DEF PipelineFiles
  <1>2. PICK m \in posted :
         \E t \in tickets[precursor] \cup ({Cardinality(Opened) + 1} \cap 1..TicketLimit) :
            tickets' = [tickets EXCEPT ![m] = @ \cup {t}]
    BY DEF PipelineFiles
  <1>3. PICK t \in tickets[precursor] \cup ({Cardinality(Opened) + 1} \cap 1..TicketLimit) :
            tickets' = [tickets EXCEPT ![m] = @ \cup {t}]
    BY <1>2
  <1>4. m \in Messages /\ precursor \in Messages
    BY Numbering DEF LoopInv, Posts
  <1>5. t \in 1..TicketLimit
    BY <1>4 DEF LoopInv, Tickets
  <1>6. Tickets' /\ \A n \in Messages : tickets[n] \subseteq tickets'[n]
    BY <1>3, <1>4, <1>5 DEF LoopInv, Tickets
  <1>7. SeenIsThere'
    BY <1>1, <1>6 DEF LoopInv, SeenIsThere, runVars
  <1>8. Settings' /\ Steps' /\ Doors' /\ Mail' /\ Marks' /\ Posts'
    BY <1>1 DEF LoopInv, Settings, Steps, Doors, Mail, Marks, Posts, runVars
  <1>9. JudgedIsLate' /\ BehindIsLate' /\ AnswersAreThere' /\ ListedIsReached' /\ BaitParentIsReal'
    BY <1>1 DEF LoopInv, JudgedIsLate, BehindIsLate, AnswersAreThere, ListedIsReached,
                BaitParentIsReal, fetch, can_list, runVars
  <1>10. WaysOut'
    BY <1>1 DEF LoopInv, WaysOut, Closed, runVars
  <1> QED BY <1>6, <1>7, <1>8, <1>9, <1>10 DEF LoopInv

(* A message more out of the pipeline: what was there keeps its place, and  *)
(* the new one is late when it answers a judged message or comes after the  *)
(* second baseline.                                                         *)
LEMMA PipelineSendsStep ==
    ASSUME LoopInv, PipelineSends
    PROVE  LoopInv'
  <1>1. UNCHANGED <<policy, sink, reach, phase, tickets, runVars>>
        /\ phase \notin {"judge", "over"}
    BY DEF PipelineSends
  <1>2. PICK m \in posted \cup {Nobody}, by \in {"tag", "id", "nothing"} :
            mail' = Append(mail, [of |-> m, by |-> by, late |-> phase \notin Unsent \cup Waiting])
    BY DEF PipelineSends, Unsent, Waiting
  <1> DEFINE e == [of |-> m, by |-> by, late |-> phase \notin Unsent \cup Waiting]
  <1>3. e \in Entry
    BY <1>2 DEF LoopInv, Posts, Entry
  <1>4. mail \in Seq(Entry) /\ mail' = Append(mail, e)
    BY <1>2 DEF LoopInv, Mail
  <1> HIDE DEF e
  <1>5. /\ mail' \in Seq(Entry) /\ Len(mail) \in Nat /\ Len(mail') = Len(mail) + 1
        /\ DOMAIN mail = 1..Len(mail) /\ DOMAIN mail' = 1..(Len(mail) + 1)
        /\ \A i \in DOMAIN mail : mail'[i] = mail[i]
        /\ mail'[Len(mail) + 1] = e
    BY <1>3, <1>4
  <1>6. /\ \A i \in DOMAIN mail : i \in DOMAIN mail'
        /\ \A i \in DOMAIN mail' : i \in DOMAIN mail \/ mail'[i] = e
    BY <1>5
  <1>7. e.late = (phase \notin Unsent \cup Waiting) /\ e.of = m
    BY DEF e
  <1>8. Mail' /\ Tickets' /\ Settings' /\ Steps' /\ Doors' /\ Posts'
    BY <1>1, <1>5 DEF LoopInv, Mail, Tickets, Settings, Steps, Doors, Posts, runVars
  <1>9. Marks' /\ ListedIsReached'
    BY <1>1, <1>5 DEF LoopInv, Marks, ListedIsReached, runVars
  <1>10. JudgedIsLate'
    <2>1. e.of \in Judged => e.late
      BY <1>7, Numbering DEF LoopInv, Posts
    <2> QED BY <1>5, <1>6, <2>1 DEF LoopInv, JudgedIsLate
  <1>11. BehindIsLate'
    <2>1. phase \in {"send"} \cup Reading => e.late
      BY <1>7 DEF Unsent, Waiting, Reading
    <2> QED BY <1>1, <1>5, <1>6, <2>1 DEF LoopInv, BehindIsLate, can_list, runVars
  <1>12. AnswersAreThere'
    <2>1. \A n \in Messages : fetch(n) \subseteq fetch(n)'
      BY <1>5, <1>6 DEF fetch
    <2> QED BY <1>1, <2>1 DEF LoopInv, AnswersAreThere, runVars
  <1>13. SeenIsThere'
    BY <1>1 DEF LoopInv, SeenIsThere, runVars
  <1>14. BaitParentIsReal'
    <2>1. parent # 0 => parent \in DOMAIN mail
      BY <1>5 DEF LoopInv, Marks
    <2> QED BY <1>1, <1>5, <2>1 DEF LoopInv, BaitParentIsReal, runVars
  <1>15. WaysOut'
    BY <1>1 DEF LoopInv, WaysOut, Closed, runVars
  <1> QED
    BY <1>8, <1>9, <1>10, <1>11, <1>12, <1>13, <1>14, <1>15 DEF LoopInv

(* Nothing happens: nothing is lost. *)
LEMMA LoopStutter ==
    ASSUME LoopInv, UNCHANGED vars
    PROVE  LoopInv'
  <1>1. UNCHANGED <<policy, sink, reach, phase, posted, sent, adapter, outbound, baseline,
                    parent, seen, outcome, answers, sinkOutcome, listed, verdict, exit,
                    mail, tickets, worldVars>>
    BY DEF vars, worldVars, runVars
  <1>2. Settings' /\ Mail' /\ Tickets' /\ JudgedIsLate' /\ SeenIsThere' /\ AnswersAreThere'
        /\ Marks' /\ BaitParentIsReal'
    BY <1>1, WorldStands
  <1>3. Steps' /\ BehindIsLate' /\ ListedIsReached' /\ Posts' /\ Doors'
    BY <1>1 DEF LoopInv, Steps, BehindIsLate, ListedIsReached, Posts, Doors, can_list
  <1>4. headline' = headline /\ findings' = findings /\ Grounds' = Grounds
    BY <1>1, JudgementStands
  <1>5. WaysOut'
    BY <1>1, <1>4 DEF LoopInv, WaysOut, Closed
  <1> QED BY <1>2, <1>3, <1>5 DEF LoopInv

LEMMA LoopStep ==
    ASSUME LoopInv, [Next]_vars
    PROVE  LoopInv'
  <1>1. CASE PrepareReadback \/ PrepareSink BY <1>1, PrepareStep
  <1>2. CASE ListBaseline BY <1>2, ListBaselineStep
  <1>3. CASE SendPrecursor BY <1>3, SendPrecursorStep
  <1>4. CASE FindReply BY <1>4, FindReplyStep
  <1>5. CASE SecondBaseline BY <1>5, SecondBaselineStep
  <1>6. CASE SendJudged BY <1>6, SendJudgedStep
  <1>7. CASE ReadTickets BY <1>7, ReadTicketsStep
  <1>8. CASE ReadSink BY <1>8, ReadSinkStep
  <1>9. CASE ListSink BY <1>9, ListSinkStep
  <1>10. CASE Report BY <1>10, ReportStep
  <1>11. CASE Refuse \/ ReadRaises \/ Interrupt
    <2>1. CASE Refuse \/ ReadRaises
      BY <2>1, EndsStep DEF Refuse, ReadRaises
    <2>2. CASE Interrupt
      BY <2>2, EndsStep DEF Interrupt
    <2> QED BY <1>11, <2>1, <2>2
  <1>12. CASE PipelineFiles BY <1>12, PipelineFilesStep
  <1>13. CASE PipelineSends BY <1>13, PipelineSendsStep
  <1>14. CASE UNCHANGED vars BY <1>14, LoopStutter
  <1> QED
    BY <1>1, <1>2, <1>3, <1>4, <1>5, <1>6, <1>7, <1>8, <1>9, <1>10, <1>11, <1>12, <1>13, <1>14
       DEF Next, ToolStep

LEMMA LoopInvariant == Spec => []LoopInv
  <1>1. LoopInv /\ [Next]_vars => LoopInv'
    BY LoopStep
  <1> QED BY <1>1, LoopInit, PTL DEF Spec
-----------------------------------------------------------------------------
(* A verdict about loops was given by the judgement, at the end of a run.   *)
LEMMA JudgedVerdict ==
    ASSUME LoopInv, verdict.word \in {"LOOP-SAFE", "LOOPS-DETECTED"}
    PROVE  /\ Grounds /\ verdict = headline
           /\ exit = IF findings = {} THEN EXIT_OK ELSE EXIT_MISMATCH
           /\ outcome # "failed" /\ ~unsettled
           /\ verdict.word = "LOOP-SAFE" <=> findings = {}
  <1>1. verdict # NoVerdict /\ verdict # Aborted
    BY DEF NoVerdict, Aborted
  <1>2. /\ Grounds /\ verdict = headline
        /\ exit = IF findings = {} THEN EXIT_OK ELSE EXIT_MISMATCH
    BY <1>1 DEF LoopInv, WaysOut
  <1>3. headline.word = IF outcome = "failed" THEN "READBACK FAILED"
                        ELSE IF unsettled THEN "UNSETTLED"
                        ELSE IF findings = {} THEN "LOOP-SAFE" ELSE "LOOPS-DETECTED"
    BY DEF headline
  <1>4. outcome # "failed" /\ ~unsettled /\ (verdict.word = "LOOP-SAFE" <=> findings = {})
    BY <1>2, <1>3
  <1> QED BY <1>2, <1>4

(* Without findings nothing is held against a judged message, and nothing   *)
(* new is left over.                                                        *)
LEMMA NoFindings ==
    ASSUME findings = {}
    PROVE  /\ \A m \in Judged : judge_one(m) = {}
           /\ unattributed = {}
  <1>1. ASSUME NEW m \in Judged PROVE judge_one(m) = {}
    <2>1. judge_one(m) # {} => <<"message", m>> \in findings
      BY DEF findings
    <2> QED BY <2>1
  <1>2. unattributed # {} => <<"run", "unattributed">> \in findings
    BY DEF findings
  <1> QED BY <1>1, <1>2

(* A finding of a settled run is one about a message, or mail that nothing  *)
(* claims.                                                                  *)
LEMMA SomeFindings ==
    ASSUME findings # {}, outcome # "failed", ~unsettled
    PROVE  (\E m \in Judged : judge_one(m) # {}) \/ unattributed # {}
  BY DEF findings

(* LOOP-SAFE is earned. *)
LEMMA SafeIsEarned == LoopInv => LoopSafeIsEarned
  <1> SUFFICES ASSUME LoopInv, verdict.word = "LOOP-SAFE" PROVE LoopSafeIsEarned
    BY DEF LoopSafeIsEarned
  <1>1. findings = {} /\ verdict = headline /\ exit = EXIT_OK
    BY JudgedVerdict
  <1>2. (\A m \in Judged : judge_one(m) = {}) /\ unattributed = {}
    BY <1>1, NoFindings
  <1>3. \A m \in Judged : opened(m) = {} \/ policy = "allowed"
    BY <1>2 DEF judge_one
  <1>4. \A m \in Judged : sink = "none" \/ merged(m) = {}
    BY <1>2 DEF judge_one
  <1>5. verdict.qualifier = IF sink = "none" THEN "auto-reply NOT CHECKED"
                            ELSE IF ~can_list THEN "untagged auto-replies NOT CHECKED"
                            ELSE "none"
    BY <1>1 DEF headline
  <1>6. ASSUME policy = "none"
        PROVE  (\A m \in Corpus : seen[m] = {}) /\ seen[bait] \subseteq seen[precursor]
    BY <1>3, <1>6, Numbering DEF opened
  <1>7. ASSUME verdict.qualifier = "none", NEW i \in baseline + 1 .. listed
        PROVE  mail[i].of = precursor /\ mail[i].by # "nothing"
    <2>1. can_list /\ sink # "none"
      BY <1>5, <1>7 DEF can_list
    <2>2. i \in New
      BY <2>1 DEF New, new_records, LoopInv, Marks
    <2>3. attribute(i, Messages) # Nobody
      BY <1>2, <2>2 DEF unattributed
    <2>4. mail[i].of \in Messages /\ mail[i].by # "nothing" /\ attribute(i, Messages) = mail[i].of
      BY <2>3 DEF attribute
    <2>5. mail[i].of \notin Judged
      BY <1>4, <2>1, <2>2, <2>4 DEF merged
    <2> QED BY <2>4, <2>5 DEF Messages
  <1>8. ASSUME verdict.qualifier # "auto-reply NOT CHECKED", NEW m \in Judged
        PROVE  answers[m] = {}
    BY <1>4, <1>5, <1>8 DEF merged
  <1> QED BY <1>1, <1>6, <1>7, <1>8 DEF LoopSafeIsEarned

(* An answer to a judged message, or new mail that the ordinary message did *)
(* not set off, is late.                                                    *)
LEMMA LoopsAreLate ==
    ASSUME LoopInv, Grounds, NEW i,
           \/ \E m \in Judged : i \in merged(m)
           \/ i \in unattributed
    PROVE  /\ i \in DOMAIN mail /\ mail[i].late
           /\ mail[i].of # precursor \/ mail[i].by = "nothing"
  <1>1. ASSUME i \in New PROVE i \in DOMAIN mail /\ mail[i].late
    <2>1. can_list /\ i \in 1..listed /\ i > baseline
      BY <1>1 DEF New, new_records
    <2>2. i \in DOMAIN mail /\ i <= reach
      BY <2>1, ListingReach DEF LoopInv, Marks, Grounds
    <2> QED BY <2>1, <2>2 DEF Grounds
  <1>2. ASSUME NEW m \in Judged, i \in answers[m]
        PROVE  i \in DOMAIN mail /\ mail[i].late /\ mail[i].of = m
    <2>1. m \in Messages
      BY Numbering
    <2>2. i \in fetch(m)
      BY <1>2, <2>1 DEF LoopInv, AnswersAreThere
    <2> QED BY <2>2 DEF fetch, LoopInv, JudgedIsLate
  <1>3. precursor \notin Judged /\ Nobody \notin Messages /\ Judged \subseteq Messages
    BY Numbering
  <1>4. ASSUME NEW m \in Judged, i \in New, attribute(i, Messages) = m
        PROVE  mail[i].of = m
    BY <1>3, <1>4 DEF attribute
  <1>5. ASSUME i \in New, attribute(i, Messages) = Nobody
        PROVE  mail[i].of # precursor \/ mail[i].by = "nothing"
    BY <1>3, <1>5, Numbering DEF attribute
  <1> QED BY <1>1, <1>2, <1>3, <1>4, <1>5 DEF merged, unattributed

(* A detected loop is real. *)
LEMMA DetectedIsReal == LoopInv => LoopsAreReal
  <1> SUFFICES ASSUME LoopInv, verdict.word = "LOOPS-DETECTED" PROVE LoopsAreReal
    BY DEF LoopsAreReal
  <1>1. Grounds /\ findings # {} /\ outcome # "failed" /\ ~unsettled
    BY JudgedVerdict
  <1>2. (\E m \in Judged : judge_one(m) # {}) \/ unattributed # {}
    BY <1>1, SomeFindings
  <1>3. CASE unattributed # {}
    BY <1>1, <1>3, LoopsAreLate DEF LoopsAreReal
  <1>4. CASE \E m \in Judged : judge_one(m) # {}
    <2>1. PICK m \in Judged : judge_one(m) # {}
      BY <1>4
    <2>2. (opened(m) # {} /\ policy # "allowed") \/ merged(m) # {}
      BY <2>1 DEF judge_one
    <2>3. CASE merged(m) # {}
      BY <1>1, <2>3, LoopsAreLate DEF LoopsAreReal
    <2>4. CASE opened(m) # {} /\ policy # "allowed"
      <3>1. policy = "none"
        BY <2>4, LoopAssumption DEF LoopInv, Settings
      <3>2. m \in Messages /\ (m \in Corpus \/ m = bait)
        BY Numbering DEF Judged
      <3>3. tickets[m] # {}
        BY <2>4, <3>2 DEF opened, LoopInv, SeenIsThere
      <3> QED BY <3>1, <3>2, <3>3 DEF LoopsAreReal
    <2> QED BY <2>2, <2>3, <2>4
  <1> QED BY <1>2, <1>3, <1>4

(* The rest of the promise. *)
LEMMA RunIsClean == LoopInv => LoopTypeOK /\ EndsCleanly
  <1> SUFFICES ASSUME LoopInv PROVE LoopTypeOK /\ EndsCleanly
    OBVIOUS
  <1>1. policy \in Policies /\ sink \in Sinks /\ reach \in Reaches \cup {0}
    BY DEF LoopInv, Settings
  <1>2. posted \subseteq Messages /\ sent <= Cardinality(posted)
    BY DEF LoopInv, Posts
  <1>3. {adapter, outbound} \subseteq {"none", "open", "closed"}
    BY DEF LoopInv, Doors
  <1>4. \A i \in DOMAIN mail : mail[i].of \in Messages \cup {Nobody}
    <2>1. \A i \in DOMAIN mail : mail[i] \in Entry
      BY ListingReach DEF LoopInv, Mail
    <2> QED BY <2>1 DEF Entry
  <1>5. {baseline, parent, listed} \subseteq 0..Len(mail)
    BY DEF LoopInv, Marks
  <1>6. \A m \in Messages : seen[m] \subseteq tickets[m] /\ answers[m] \subseteq DOMAIN mail
    BY DEF LoopInv, SeenIsThere, AnswersAreThere, fetch
  <1>7. exit \in {NoExit, EXIT_OK, EXIT_REFUSED, EXIT_MISMATCH}
    BY DEF LoopInv, WaysOut
  <1>8. EndsCleanly
    BY DEF LoopInv, WaysOut, Closed, EndsCleanly, Grounds, NoExit, EXIT_OK, EXIT_REFUSED,
           EXIT_MISMATCH
  <1> QED BY <1>1, <1>2, <1>3, <1>4, <1>5, <1>6, <1>7, <1>8 DEF LoopTypeOK

-----------------------------------------------------------------------------
(* execute: LOOP-SAFE is only said of a run that saw nothing against it,    *)
(* the bait answers a real reply, no adapter stays open, and a run that     *)
(* posted a part of its messages does not pass.                             *)
THEOREM LoopRunIsHonestHolds == Spec => []LoopRunIsHonest
  <1>1. LoopInv => BaitParentIsReal
    BY DEF LoopInv
  <1>2. LoopInv => LoopRunIsHonest
    BY <1>1, SafeIsEarned, RunIsClean DEF LoopRunIsHonest
  <1> QED BY <1>2, LoopInvariant, PTL

(* execute's second baseline: when loops are reported, the pipeline opened  *)
(* a forbidden ticket or sent something after the machine mail began that   *)
(* does not answer the ordinary message.                                    *)
THEOREM LoopsAreRealHolds == Spec => []LoopsAreReal
  BY DetectedIsReal, LoopInvariant, PTL
=============================================================================
