----------------------------- MODULE MCLedgerRun -----------------------------
(* Two messages.  The pipeline files a ticket complete, or blank and filled *)
(* later, and may file a second one for the same message.                   *)
EXTENDS LedgerRun

MCRecords == {"blank", "first", "copy"}

MCCorrect == {"first", "copy"}

MCContents == {<<>>, <<"blank">>, <<"first">>, <<"first", "copy">>}

MCEvolves ==
    {<<<<>>, <<"blank">>>>, <<<<>>, <<"first">>>>, <<<<"blank">>, <<"first">>>>,
     <<<<"first">>, <<"first", "copy">>>>}

Answer(recs, cut, status) ==
    [records |-> recs, partial |-> cut, status |-> status]

MCAnswers ==
    {Answer(c, FALSE, "ok") : c \in MCContents} \cup {Answer(<<>>, FALSE, "404")}
=============================================================================
