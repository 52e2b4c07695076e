--------------------------- MODULE MCPipelineRun ---------------------------
(* A few command lines of each tool, good and bad, over a small store. *)
EXTENDS PipelineRun

Inside == [host |-> [name |-> "bare", addresses |-> {"private"}], public |-> FALSE]
Split == [host |-> [name |-> "name", addresses |-> {"private", "public"}], public |-> FALSE]
Unresolved == [host |-> [name |-> "name", addresses |-> {}], public |-> FALSE]
Misnamed == [host |-> [name |-> "bare", addresses |-> {"public"}], public |-> FALSE]
MCConfigured == {Inside, Split, Unresolved, Misnamed}

Plain == [subject_match |-> "exact", attachment_match |-> "exact", body_exact |-> FALSE, route |-> ""]
Loose == [subject_match |-> "contains", attachment_match |-> "loose", body_exact |-> FALSE, route |-> "support"]
Suffix == [subject_match |-> "suffix", attachment_match |-> "exact", body_exact |-> FALSE, route |-> ""]

Base == [sub |-> "fire", send |-> TRUE, target |-> Inside, allow_public_target |-> FALSE,
         readback |-> "given", out |-> TRUE, modes |-> Plain,
         count |-> 2, selected |-> <<>>, retry_after |-> 0,
         families |-> <<>>, repeats |-> 1, label_given |-> TRUE,
         max_dissent |-> <<1, 10>>, max_flips |-> <<>>]

Verify == [tool |-> "verify"] @@ Base
Redeliver == [tool |-> "redeliver", count |-> 1] @@ Base
Steady == [tool |-> "steady"] @@ Base

(* The flags and targets that decide whether anything is sent. *)
Gated(c) ==
    {[c EXCEPT !.send = send, !.target = target, !.allow_public_target = allow, !.readback = readback] :
        send \in BOOLEAN, target \in {<<>>} \cup MCConfigured, allow \in BOOLEAN,
        readback \in {"given", "missing", "broken"}}

MCCommands ==
    {[Verify EXCEPT !.modes = m, !.count = 1] :
        m \in {Plain, Suffix, [Plain EXCEPT !.body_exact = TRUE], [Plain EXCEPT !.subject_match = "regex"]}}
    \cup {[Verify EXCEPT !.modes = Loose], [Verify EXCEPT !.count = 0], [Verify EXCEPT !.count = 1, !.out = FALSE]}
    \cup {[Redeliver EXCEPT !.selected = s] :
            s \in {<<"references">>, <<"reply-first">>, <<"slow-retry", "duplicate">>}}
    \cup {[Redeliver EXCEPT !.selected = <<"slow-retry">>, !.retry_after = r] : r \in {-1, 5}}
    \cup {[Steady EXCEPT !.families = f, !.max_dissent = <<1, 2>>, !.max_flips = x] :
            f \in {<<<<"en", "en", "de">>>>, <<<<"en", "de">>, <<"en">>>>}, x \in {<<>>, <<1, 3>>}}
    \cup {[Steady EXCEPT !.families = <<<<"en", "de">>>>, !.repeats = r, !.label_given = FALSE] : r \in {0, 2}}
    \cup {[Steady EXCEPT !.families = <<<<"en">>, <<"de">>>>, !.label_given = FALSE],
          [Steady EXCEPT !.families = <<<<"en">>>>, !.max_dissent = <<-1, 10>>],
          [Steady EXCEPT !.families = <<<<"en">>>>, !.max_flips = <<-1, 10>>]}
    \cup Gated([Verify EXCEPT !.count = 1])
    \cup Gated([Redeliver EXCEPT !.selected = <<"duplicate">>])
    \cup Gated([Steady EXCEPT !.families = <<<<"en">>>>])

MCGivenModes == {<<>>, [subject_match |-> "contains"], [route |-> "sales", body_exact |-> TRUE]}

MCKinds == [verify |-> {"right", "wrapped", "quoted", "renamed", "misrouted", "wrong", "blind"},
            redeliver |-> {"right", "shallow", "apart", "wrong"},
            steady |-> {"first label", "second label", "null label", "blind"}]

MCStoreLimit == [verify |-> 2, redeliver |-> 3, steady |-> 3]

Stray(owner, ticket) == [owner |-> owner, ticket |-> ticket]
MCStrays(c) ==
    IF c.selected # <<"references">> THEN {{}}
    ELSE    {{}, {Stray("references", <<"references", 0>>)}, {Stray("references", <<"x", 1>>)},
             {Stray("run", <<"x", 2>>), Stray("other run", <<"x", 3>>)}}
=============================================================================
