--------------------------- MODULE AdapterConfig ---------------------------
(***************************************************************************)
(* Which [readback] tables a run accepts, and what it builds from them      *)
(* (pipeline/adapters.py): parse_readback_config, build_adapter and the     *)
(* import of a `module:attribute` target.  A key is kept as what the code   *)
(* tells apart about its value.                                             *)
(***************************************************************************)
EXTENDS Naturals, Sequences

-----------------------------------------------------------------------------
(* Tables. *)

(* A key whose value is refused on its own, whatever the others are: a     *)
(* wrong type, a number below its minimum, a bad field path, a header that *)
(* is literal or names a variable that is not set.                         *)
KeyFaults == {"none", "type", "minimum", "field", "header"}

Templates == {"absent", "with tag", "without tag"}

HttpTables ==
    [kind : {"http"}, fault : KeyFaults, url : {"absent", "local", "public"},
     method : {"GET", "POST", "PUT"}, query : Templates, body : Templates,
     page_param : BOOLEAN, page_size_param : BOOLEAN, next_path : BOOLEAN,
     enumerate : BOOLEAN, list_path : {"absent", "local", "public"}]

MailboxTables == [kind : {"mailbox"}, fault : KeyFaults, path : BOOLEAN]

(* What a target of an import is: a class or a callable with so many       *)
(* required arguments, an object with fetch, or something else.  `config`  *)
(* says that the only required argument has that name; `makes` is what a   *)
(* call of it gives.                                                       *)
Made == {"fetcher", "value", "callable", "class of fetchers", "class of values", "raises"}
Targets ==
    [is : {"callable"}, required : 0..2, config : BOOLEAN, makes : Made]
      \cup [is : {"class"}, required : 0..2, makes : {"fetcher", "value", "raises"}]
      \cup [is : {"missing", "fetcher", "value"}]

SpecTables == [kind : {"spec"}, fault : KeyFaults, target : Targets]
OtherTables == [kind : {"absent", "unknown"}, fault : {"none"}]

Tables == HttpTables \cup MailboxTables \cup SpecTables \cup OtherTables

-----------------------------------------------------------------------------
(* parse_readback_config *)

(* Mutant: a query is taken as it is. *)
AnyTemplate(template) == TRUE

(* The check on query and on body: without a placeholder every lookup      *)
(* would ask the same question.                                            *)
PlaceholderGiven(template) == template # "without tag"

QueryAccepted(t) ==
    /\ t.method \in {"GET", "POST"}
    /\ PlaceholderGiven(t.query)
    /\ t.body # "absent" => t.method = "POST" /\ PlaceholderGiven(t.body)

PaginationAccepted(t) ==
    /\ t.page_size_param => t.page_param
    /\ ~(t.next_path /\ t.page_param)

(* _number, _integer, _optional_str, _as_str_table, _check_field_path and  *)
(* resolve_header_values each refuse a key of their own.                   *)
KeysAccepted(t) == t.fault = "none"

parse_readback_config(t) ==
    /\ t.kind # "absent" /\ KeysAccepted(t)
    /\ t.kind = "http" => QueryAccepted(t) /\ PaginationAccepted(t)

-----------------------------------------------------------------------------
(* build_adapter *)

(* HttpJsonAdapter.__init__ and _build_list_url: both urls pass the        *)
(* guardrail.                                                              *)
HttpBuilds(t) == t.url = "local" /\ t.list_path # "public"

CanEnumerate(t) == t.enumerate /\ (t.method = "GET" \/ t.list_path # "absent")

Style(t) ==
    IF t.next_path THEN "next"
    ELSE IF t.page_size_param THEN "sized" ELSE IF t.page_param THEN "page" ELSE "none"

(* _lookup: where the tag goes. *)
Lookup(t) ==
    IF t.method = "GET" THEN (IF t.query = "without tag" THEN "same for all" ELSE "names the tag")
    ELSE IF "with tag" \in {t.query, t.body} THEN "names the tag"
    ELSE IF "without tag" \in {t.query, t.body} THEN "same for all" ELSE "bare"

(* _call_factory and _instantiate *)
Instance(made) ==
    CASE made = "class of fetchers" -> "fetcher"
      [] made = "class of values"   -> "value"
      [] OTHER                      -> made

(* _classify_spec_target *)
Classify(target) ==
    IF target.required = 0 THEN "factory-no-args"
    ELSE IF target.required > 1 THEN "refused"
    ELSE IF target.config THEN "factory-with-config" ELSE "fetch-function"

(* _build_from_spec: an object with fetch, a function that is asked, or a  *)
(* refusal.                                                                *)
BuildFromSpec(target) ==
    CASE target.is \in {"missing", "value"} -> "refused"
      [] target.is = "fetcher"              -> "fetcher"
      [] target.is = "class"                ->
            IF target.required <= 1 /\ target.makes = "fetcher" THEN "fetcher" ELSE "refused"
      [] target.is = "callable"             ->
            IF Classify(target) = "fetch-function" THEN "function"
            ELSE IF Classify(target) = "refused" THEN "refused"
            ELSE CASE Instance(target.makes) = "fetcher"  -> "fetcher"
                   [] Instance(target.makes) = "callable" -> "function"
                   [] OTHER                               -> "refused"

build_adapter(t) ==
    CASE t.kind = "http"    -> IF HttpBuilds(t) THEN "http" ELSE "refused"
      [] t.kind = "mailbox" -> IF t.path THEN "mailbox" ELSE "refused"
      [] t.kind = "spec"    -> BuildFromSpec(t.target)
      [] OTHER              -> "refused"

Prepared(t) == IF parse_readback_config(t) THEN build_adapter(t) ELSE "refused"
=============================================================================
