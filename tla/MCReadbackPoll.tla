--------------------------- MODULE MCReadbackPoll ---------------------------
(* Two tags, an asynchronous pipeline that files a ticket for a message,   *)
(* late, and may file a second one, read through the http adapter.         *)
EXTENDS ReadbackPoll

MCRecords == {"first", "copy"}

MCContents == {<<>>, <<"first">>, <<"first", "copy">>}

MCEvolves == {<<<<>>, <<"first">>>>, <<<<"first">>, <<"first", "copy">>>>}

Answer(recs, cut, status) ==
    [records |-> recs, partial |-> cut, status |-> status]

(* The API may list a ticket's two copies in either order. *)
MCWholeAnswers ==
    {Answer(c, FALSE, "ok") : c \in MCContents \cup {<<"copy", "first">>}}
    \cup {Answer(<<>>, FALSE, "404")}

(* With a lookup that stopped at max_pages as well. *)
MCAnswers == MCWholeAnswers \cup {Answer(<<"first">>, TRUE, "ok")}

=============================================================================
