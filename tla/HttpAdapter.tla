---------------------------- MODULE HttpAdapter ----------------------------
(***************************************************************************)
(* The http readback adapter (pipeline/adapters.py, HttpJsonAdapter): every *)
(* request it makes for a preflight, a lookup or a listing, with the rate   *)
(* limit, the retries with backoff and Retry-After, the pagination and the  *)
(* deadline that read_back_all binds.                                       *)
(*                                                                          *)
(* Times are kept as what is left of them: the budget until the deadline,   *)
(* the wait for the next slot, the rest of a sleep or of a timeout.  A      *)
(* sleep may last longer than asked, and a response longer than its timeout *)
(* (the timeout bounds one wait on the socket, not the whole response).     *)
(***************************************************************************)
EXTENDS Naturals, Sequences, SequencesExt, FiniteSetsExt

CONSTANTS
    Styles,         \* ways to paginate: "none", "next", "page", "sized"
    MaxPages,       \* max_pages
    PageSize,       \* the page size of the server, and DEFAULT_PAGE_SIZE
    MaxHeld,        \* bound on the records the server holds
    RetryMax,       \* retry_max
    RetryBase,      \* retry_base_seconds
    MaxBackoff,     \* MAX_BACKOFF_SECONDS
    MaxRetryAfter,  \* MAX_RETRY_AFTER
    RetryAfters,    \* what a server may send as Retry-After
    Timeout,        \* the timeout of a request
    Gap,            \* 1 / rate
    Budgets,        \* what may be left of --max-wait when the clock is bound
    None

ASSUME HttpAssumption ==
    /\ Styles \subseteq {"none", "next", "page", "sized"}
    /\ {MaxPages, PageSize, Timeout} \subseteq Nat \ {0}
    /\ {MaxHeld, RetryMax, RetryBase, MaxBackoff, MaxRetryAfter, Gap} \subseteq Nat
    /\ RetryAfters \subseteq Nat
    /\ Budgets \subseteq Nat
    /\ None \notin Nat
    /\ None \notin {"probe", "probe list", "lookup", "list"}

VARIABLES
    style,      \* how the configuration says the API paginates
    enumerates, \* can_enumerate
    session,    \* "preflight", "reading", "listing", "closed": who calls
    op,         \* the call in progress: a check, a lookup, the listing, None
    at,         \* where it is: "idle", "request", "pace", "sending", "backoff"
    attempt,    \* attempt
    budget,     \* time left until the deadline, None when none is bound
    slotIn,     \* time left until _next_slot
    wake,       \* what is left of the sleep, or of the timeout
    cut,        \* the timeout was cut to what is left of the budget
    to,         \* the origin of the request: "home", "elsewhere"
    pages, biggest, raw, status,    \* the locals of _collect
    outcome,    \* what the last call returned or raised
    held,       \* the records the server holds
    atStart,    \* held when the call began
    sinceSend,  \* time since the last request was sent, up to Gap
    overdue     \* requests of this call sent with the budget spent

config == <<style, enumerates>>
timeVars == <<budget, slotIn, wake, sinceSend>>
pageVars == <<to, pages, biggest, raw, status>>
callVars == <<attempt, cut, overdue, pageVars>>
storeVars == <<held, atStart>>
httpVars == <<config, session, op, at, timeVars, callVars, outcome, storeVars>>

NoOutcome == [kind |-> "none", records |-> <<>>, partial |-> FALSE, status |-> 0,
              still |-> FALSE, expired |-> FALSE]

HttpInit ==
    /\ style \in Styles
    /\ enumerates \in BOOLEAN
    /\ session = "preflight" /\ op = None /\ at = "idle"
    /\ budget = None /\ slotIn = 0 /\ wake = 0 /\ sinceSend = Gap
    /\ attempt = 0 /\ cut = FALSE /\ overdue = 0
    /\ to = "home" /\ pages = 0 /\ biggest = 0 /\ raw = <<>> /\ status = 0
    /\ outcome = NoOutcome
    /\ held \in {[i \in 1..n |-> i] : n \in 0..MaxHeld}
    /\ atStart = held

-----------------------------------------------------------------------------
(* The server. *)

(* Page k of what it holds. *)
PageOf(k) ==
    IF style = "none" THEN IF k = 1 THEN held ELSE <<>>
    ELSE SubSeq(held, (k - 1) * PageSize + 1, Min({k * PageSize, Len(held)}))

ThisPage == PageOf(pages + 1)

(* What a response can be: a failure worth a retry, a refusal or nothing   *)
(* there, a page.  `shape` is the JSON of its body; `link` is what it says *)
(* about the next page.                                                    *)
Failures == [status : {429, 503}, after : RetryAfters \cup {None}]
Refusals == {400, 401, 404}
Shapes == {"list", "wrapped", "single", "nothing", "scalar", "wrong key", "not json", "no id"}
PageResponses == [shape : Shapes, link : {"none", "home", "elsewhere"}]

(* A server that pages by links gives one exactly when more is to come;    *)
(* the shape of a body suits the records in it.                            *)
Honest(r) ==
    /\ style = "next" => ((r.link # "none") <=> ((pages + 1) * PageSize < Len(held)))
    /\ style # "next" => r.link = "none"
    /\ CASE r.shape = "nothing" -> ThisPage = <<>>
         [] r.shape = "single"  -> Len(ThisPage) = 1
         [] r.shape = "no id"   -> Len(ThisPage) > 0
         [] OTHER               -> TRUE

-----------------------------------------------------------------------------
(* Ending a call.  A preflight that fails closes the adapter. *)

EndCall(o) ==
    /\ outcome' = o
    /\ op' = None /\ at' = "idle" /\ wake' = 0
    /\ attempt' = 0 /\ cut' = FALSE /\ overdue' = 0
    /\ to' = "home" /\ pages' = 0 /\ biggest' = 0 /\ raw' = <<>> /\ status' = 0
    /\ session' = IF session = "preflight" THEN "closed" ELSE session
    /\ UNCHANGED <<config, budget, slotIn, sinceSend, storeVars>>

Raise(kind, expired) == EndCall([NoOutcome EXCEPT !.kind = kind, !.expired = expired])

(* The FetchResult, unless one of its records carries no identifier. *)
Answer(all, partial, first) ==
    IF 0 \in Range(all)
    THEN Raise("error", FALSE)
    ELSE EndCall([kind |-> "answer", records |-> all, partial |-> partial,
                  status |-> first, still |-> held = atStart, expired |-> FALSE])

-----------------------------------------------------------------------------
(* The calls a run makes: a preflight, lookups under a deadline, a listing *)
(* without one, close.                                                     *)

Call(o) ==
    /\ at = "idle"
    /\ op' = o /\ at' = "request" /\ atStart' = held /\ outcome' = NoOutcome
    /\ UNCHANGED <<config, session, timeVars, callVars, held>>

preflight == session = "preflight" /\ Call("probe")
fetch == session = "reading" /\ budget # None /\ Call("lookup")
list_all == session = "listing" /\ enumerates /\ outcome = NoOutcome /\ Call("list")

bind_clock ==
    /\ at = "idle" /\ session = "reading"
    /\ \/ budget = None /\ budget' \in Budgets /\ UNCHANGED session
       \/ budget # None /\ budget' = None /\ session' = "listing"
    /\ outcome' = NoOutcome
    /\ UNCHANGED <<config, op, at, slotIn, wake, sinceSend, callVars, storeVars>>

close ==
    /\ at = "idle" /\ session = "listing"
    /\ session' = "closed"
    /\ UNCHANGED <<config, op, at, timeVars, callVars, outcome, storeVars>>

-----------------------------------------------------------------------------
(* _request: the time left, the rate limit, the request, the retries. *)

(* Mutant: the budget is not looked at before a request. *)
NeverOutOfTime == FALSE

OutOfTime == budget # None /\ budget = 0
WouldPass(wait) == budget # None /\ wait >= budget

RequestEnds == at = "request" /\ OutOfTime /\ Raise("budget", FALSE)

(* _pace: the slot is past the deadline, or slept for, or free now. *)
PaceEnds == at = "request" /\ ~OutOfTime /\ slotIn > 0 /\ WouldPass(slotIn) /\ Raise("budget", FALSE)

PaceSleeps ==
    /\ at = "request" /\ ~OutOfTime /\ slotIn > 0 /\ ~WouldPass(slotIn)
    /\ at' = "pace" /\ wake' = slotIn
    /\ UNCHANGED <<config, session, op, budget, slotIn, sinceSend, callVars, outcome, storeVars>>

(* Mutant: a retry does not take a slot of its own. *)
SlotOfFirstAttempt == IF attempt > 0 THEN 0 ELSE Gap

(* The slot this request takes keeps the next one away. *)
NextSlot == Gap

(* The request goes out, its timeout cut to what is left of the budget. *)
Send ==
    /\ \/ at = "request" /\ ~OutOfTime /\ slotIn = 0
       \/ at = "pace" /\ wake = 0
    /\ at' = "sending"
    /\ slotIn' = NextSlot /\ sinceSend' = 0
    /\ cut' = (budget # None /\ budget < Timeout)
    /\ wake' = IF cut' THEN budget ELSE Timeout
    /\ overdue' = overdue + (IF budget = 0 THEN 1 ELSE 0)
    /\ UNCHANGED <<config, session, op, attempt, budget, pageVars, outcome, storeVars>>

Pow2[n \in Nat] == IF n = 0 THEN 1 ELSE 2 * Pow2[n - 1]

(* _backoff, with its jitter: from half the span to all of it, and no less *)
(* than what the server asked for.                                         *)
Backoff(after) ==
    LET span == Min({RetryBase * Pow2[attempt], MaxBackoff})
    IN  {IF after = None THEN d ELSE Max({d, after}) : d \in (span \div 2)..span}

TooMany == attempt >= RetryMax

(* A failure worth a retry: too many of them, too long a wait asked for,   *)
(* out of time, or a sleep before another attempt.                         *)
Retry(after, expired) ==
    IF TooMany \/ (after # None /\ after > MaxRetryAfter)
    THEN Raise("error", expired)
    ELSE \E delay \in Backoff(after) :
            IF WouldPass(delay)
            THEN Raise("budget", FALSE)
            ELSE /\ at' = "backoff" /\ wake' = delay
                 /\ UNCHANGED <<config, session, op, budget, slotIn, sinceSend, callVars,
                                outcome, storeVars>>

SendFails == at = "sending" /\ Retry(None, FALSE)
TimesOut == at = "sending" /\ wake = 0 /\ Retry(None, cut)
ServerFails == at = "sending" /\ \E r \in Failures : Retry(r.after, FALSE)

(* Mutant: a retry is not counted. *)
SameAttempt == attempt

NextAttempt == attempt + 1

BackoffEnds ==
    /\ at = "backoff" /\ wake = 0
    /\ at' = "request" /\ attempt' = NextAttempt
    /\ UNCHANGED <<config, session, op, timeVars, cut, overdue, pageVars, outcome, storeVars>>

-----------------------------------------------------------------------------
(* What a response means. *)

(* _decode and _records: a body that is none of the known shapes. *)
Unreadable(shape) == shape \in {"scalar", "wrong key", "not json"}

(* The records of a readable body; one without an identifier is 0. *)
Records(shape) == IF shape = "no id" THEN [i \in DOMAIN ThisPage |-> 0] ELSE ThisPage

(* A check of the preflight: a status outside 2xx, or a body that cannot   *)
(* be read, refuses the run; a 404 does so for the list url only.          *)
CheckRefused ==
    /\ at = "sending" /\ session = "preflight"
    /\ \/ \E s \in Refusals : s = 404 => op = "probe list"
       \/ \E r \in PageResponses : Unreadable(r.shape) \/ (Honest(r) /\ r.shape = "no id")
    /\ Raise("error", FALSE)

CheckPassed ==
    /\ at = "sending" /\ session = "preflight"
    /\ IF op = "probe" /\ enumerates
       THEN op' = "probe list" /\ at' = "request" /\ UNCHANGED session
       ELSE op' = None /\ at' = "idle" /\ session' = "reading"
    /\ attempt' = 0 /\ cut' = FALSE /\ wake' = 0
    /\ UNCHANGED <<config, budget, slotIn, sinceSend, overdue, pageVars, outcome, storeVars>>

(* Mutant: a page as long as the longest so far is taken for the last. *)
LongerOnly(n) == IF style = "sized" THEN n >= PageSize ELSE n > biggest

(* A page that may not be the last one. *)
Full(n) == IF style = "sized" THEN n >= PageSize ELSE n >= biggest

(* There is a page after this one: a link, or the same url again. *)
HasNext(r, n) ==
    \/ style = "next" /\ r.link # "none"
    \/ style \in {"page", "sized"} /\ n > 0 /\ Full(n)

(* Mutant: a link is followed wherever it leads. *)
FollowsAnything(link) == TRUE

(* _follow: a link to another origin is refused. *)
Follows(link) == link # "elsewhere"

FirstStatus(s) == IF status = 0 THEN s ELSE status

(* A 404 for a lookup, or past the first page, is the end; any other       *)
(* status outside 2xx is an error.                                         *)
PageMissing ==
    /\ at = "sending" /\ session # "preflight"
    /\ \E s \in Refusals :
        IF s = 404 /\ (op = "lookup" \/ pages > 0)
        THEN (pages > 0 => ThisPage = <<>>) /\ Answer(raw, FALSE, FirstStatus(s))
        ELSE Raise("error", FALSE)

PageUnreadable ==
    /\ at = "sending" /\ session # "preflight"
    /\ \E r \in PageResponses : Unreadable(r.shape)
    /\ Raise("error", FALSE)

NextPage(r, got) ==
    /\ raw' = raw \o got
    /\ biggest' = Max({biggest, Len(got)})
    /\ status' = FirstStatus(200)
    /\ pages' = pages + 1
    /\ to' = IF style = "next" THEN r.link ELSE to
    /\ at' = "request" /\ attempt' = 0 /\ wake' = 0
    /\ UNCHANGED <<config, session, op, budget, slotIn, sinceSend, cut, overdue, outcome,
                   storeVars>>

PageArrives ==
    /\ at = "sending" /\ session # "preflight"
    /\ \E r \in PageResponses :
        /\ Honest(r) /\ ~Unreadable(r.shape)
        /\ LET got  == Records(r.shape)
               more == HasNext(r, Len(got))
           IN  IF more /\ ~Follows(r.link) THEN Raise("error", FALSE)
               ELSE IF ~more \/ pages + 1 >= MaxPages
               THEN Answer(raw \o got, more, FirstStatus(200))
               ELSE NextPage(r, got)

-----------------------------------------------------------------------------
(* Time, and the pipeline that goes on filing. *)

Less(n) == IF n = None \/ n = 0 THEN n ELSE n - 1

HttpTick ==
    /\ at # "request" /\ session # "closed"
    /\ budget' = Less(budget) /\ slotIn' = Less(slotIn) /\ wake' = Less(wake)
    /\ sinceSend' = Min({sinceSend + 1, Gap})
    /\ UNCHANGED <<config, session, op, at, callVars, outcome, storeVars>>

ServerFiles ==
    /\ at = "sending" /\ Len(held) < MaxHeld
    /\ held' = Append(held, Len(held) + 1)
    /\ UNCHANGED <<config, session, op, at, timeVars, callVars, outcome, atStart>>

RequestSteps == RequestEnds \/ PaceEnds \/ PaceSleeps \/ Send \/ BackoffEnds
ResponseSteps ==
    \/ SendFails \/ TimesOut \/ ServerFails
    \/ CheckRefused \/ CheckPassed \/ PageMissing \/ PageUnreadable \/ PageArrives

HttpNext ==
    \/ preflight \/ fetch \/ list_all \/ bind_clock \/ close
    \/ RequestSteps \/ ResponseSteps \/ HttpTick \/ ServerFiles

(* The adapter runs when it can, time passes, and a request ends: each     *)
(* carries a timeout.                                                      *)
HttpFairness ==
    /\ WF_httpVars(RequestSteps)
    /\ WF_httpVars(ResponseSteps)
    /\ WF_httpVars(HttpTick)

HttpSpec == HttpInit /\ [][HttpNext]_httpVars /\ HttpFairness

-----------------------------------------------------------------------------
(* Every variable holds a value of its type. *)
HttpTypeOK ==
    /\ style \in Styles /\ enumerates \in BOOLEAN
    /\ session \in {"preflight", "reading", "listing", "closed"}
    /\ op \in {None, "probe", "probe list", "lookup", "list"}
    /\ at \in {"idle", "request", "pace", "sending", "backoff"}
    /\ budget \in Nat \cup {None} /\ slotIn \in 0..Gap /\ wake \in Nat
    /\ sinceSend \in 0..Gap
    /\ attempt \in 0..RetryMax /\ cut \in BOOLEAN /\ overdue \in Nat
    /\ to \in {"home", "elsewhere"} /\ pages \in 0..(MaxPages - 1)
    /\ biggest \in 0..MaxHeld /\ raw \in Seq(0..MaxHeld) /\ status \in {0, 200, 404}
    /\ held \in Seq(1..MaxHeld) /\ atStart \in Seq(1..MaxHeld)
    /\ outcome.kind \in {"none", "answer", "budget", "error"}

(* An answer that is not marked partial is exactly what a server that did  *)
(* not change meanwhile holds, every record once, and a partial one is the *)
(* beginning of it: over pages, retries and every way to paginate.         *)
AnswerIsExact ==
    outcome.kind = "answer" /\ outcome.still /\ outcome.status = 200 =>
        IF outcome.partial THEN IsPrefix(outcome.records, atStart)
        ELSE outcome.records = atStart

(* Two requests, whatever they are for, are never closer than the rate     *)
(* allows: retries, pages, checks and lookups share the slots of _pace.    *)
RequestsArePaced == [][Send => sinceSend >= Gap]_httpVars

(* The configured headers go to no other origin than the configured ones,  *)
(* whatever the responses link to.                                         *)
CredentialsStayHome == at = "sending" => to = "home"

(* A call sends at most one request after its budget is spent, and only    *)
(* when the sleep before it lasted too long.                               *)
AtMostOneOverdue == overdue <= 1

(* Every call returns or raises: no chain of retries, waits and pages goes *)
(* on for ever, with or without a deadline.                                *)
CallEnds == (op # None) ~> (op = None)

(* BudgetExhausted: "Raised when a request or a retry would run past the   *)
(* --max-wait budget. The poll treats this as "ran out of time", not as a  *)
(* broken run."  Here: a request that ran into a timeout cut to the budget *)
(* never breaks the run.                                                   *)
OutOfTimeIsNoError == outcome.kind = "error" => ~outcome.expired
=============================================================================
