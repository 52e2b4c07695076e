--------------------------- MODULE AdaptersProofs ---------------------------
(***************************************************************************)
(* What the http readback adapter asks and answers, for any server, page   *)
(* size, retry and rate settings, and any deadline.                        *)
(***************************************************************************)
EXTENDS Adapters, SequenceTheorems, WellFoundedInduction, TLAPS

(* HttpTypeOK, one kind of value at a time. *)
Numbers ==
    /\ slotIn \in 0..Gap /\ wake \in Nat /\ sinceSend \in 0..Gap
    /\ attempt \in 0..RetryMax /\ overdue \in Nat
    /\ pages \in 0..(MaxPages - 1) /\ biggest \in 0..MaxHeld /\ status \in {0, 200, 404}
Lists == raw \in Seq(0..MaxHeld) /\ held \in Seq(1..MaxHeld) /\ atStart \in Seq(1..MaxHeld)
Words ==
    /\ style \in Styles
    /\ session \in {"preflight", "reading", "listing", "closed"}
    /\ at \in {"idle", "request", "pace", "sending", "backoff"}
    /\ outcome.kind \in {"none", "answer", "budget", "error"}
Flags == enumerates \in BOOLEAN /\ cut \in BOOLEAN
Budgeted == budget \in Nat \cup {None}

(* A call is in progress exactly when the adapter is not idle. *)
InCall ==
    /\ op \in {None, "probe", "probe list", "lookup", "list"}
    /\ at = "idle" <=> op = None

(* The budget is bound for lookups only, and a retry is one of RetryMax. *)
Calls ==
    /\ session = "preflight" => budget = None
    /\ at = "backoff" => attempt < RetryMax

(* What is left until the next slot, and the time since the last request,  *)
(* make up the gap; a sleep in _pace lasts until the slot.                 *)
Slots ==
    /\ slotIn + sinceSend >= Gap
    /\ at = "pace" => wake >= slotIn

(* A request that went out late was the last one. *)
Lateness ==
    overdue = 0 \/ (overdue = 1 /\ budget = 0 /\ at \in {"sending", "request"})

(* How much of what the server holds is in its first k pages. *)
Least(x, y) == IF x < y THEN x ELSE y
Upto(k) == Least(k * PageSize, Len(held))

(* The beginning of what the server holds. *)
Agrees(s, h) == \A i \in 1..Len(s) : s[i] = h[i]
Begins(s) == Agrees(s, held)

(* _collect so far, from a server that has not changed since. *)
Collected ==
    /\ style = "none" => pages = 0
    /\ Len(raw) = Upto(pages)
    /\ Begins(raw)
    /\ biggest <= PageSize

Pages ==
    /\ at = "idle" \/ session = "preflight" => pages = 0
    /\ pages = 0 => raw = <<>> /\ biggest = 0 /\ status = 0
    /\ pages > 0 => status = 200
    /\ Len(held) <= MaxHeld
    /\ Len(atStart) <= Len(held)
    /\ held = atStart /\ 0 \notin Range(raw) => Collected

HttpInv ==
    /\ Numbers /\ Lists /\ Words /\ Flags /\ Budgeted
    /\ InCall
    /\ Calls
    /\ Slots
    /\ Lateness
    /\ to = "home"
    /\ Pages
    /\ AnswerIsExact

(* Only a built http adapter sends, and its lookups name their tag. *)
Built ==
    /\ built \in {"nothing", "refused", "http", "mailbox", "custom"}
    /\ at # "idle" => built = "http"
    /\ built = "http" => asks \in {"names the tag", "bare"}

AdaptersInv == HttpInv /\ Built
-----------------------------------------------------------------------------
(* The two numbers compared. *)
LEMMA MinMaxOfTwo ==
    ASSUME NEW a \in Nat, NEW b \in Nat
    PROVE  /\ Min({a, b}) = IF a <= b THEN a ELSE b
           /\ Max({a, b}) = IF a <= b THEN b ELSE a
<1>1. \E x \in {a, b} : \A y \in {a, b} : x <= y
  OBVIOUS
<1>2. \E x \in {a, b} : \A y \in {a, b} : x >= y
  OBVIOUS
<1>3. Min({a, b}) \in {a, b} /\ Min({a, b}) <= a /\ Min({a, b}) <= b
  BY <1>1 DEF Min
<1>4. Max({a, b}) \in {a, b} /\ Max({a, b}) >= a /\ Max({a, b}) >= b
  BY <1>2 DEF Max
<1>. QED
  BY <1>3, <1>4

(* A set of natural numbers that is not empty has a least element. *)
LEMMA LeastNumber ==
    ASSUME NEW S, S \subseteq Nat, S # {}
    PROVE  \E i \in S : \A j \in S : i <= j
<1>1. PICK i \in S : \A j \in S : ~(<<j, i>> \in OpToRel(<, Nat))
  BY NatLessThanWellFounded, WFMin, Zenon
<1>2. \A j \in S : ~(j < i)
  BY <1>1 DEF OpToRel
<1>. QED
  BY <1>2

(* g holds the first powers of two, up to n. *)
Powers(g, n) ==
    /\ g \in [0..n -> Nat]
    /\ g[0] = 1
    /\ \A i \in 1..n : g[i] = 2 * g[i - 1]

(* There are such powers, up to any number, and no others. *)
LEMMA PowersExist == \A n \in Nat : \E g : Powers(g, n)
<1>. DEFINE S == {n \in Nat : ~\E g : Powers(g, n)}
<1>. SUFFICES ASSUME S # {} PROVE FALSE
  OBVIOUS
<1>1. PICK m \in S : \A j \in S : m <= j
  BY LeastNumber
<1>2. CASE m = 0
  <2>1. Powers([i \in 0..0 |-> 1], 0)
    BY DEF Powers
  <2>. QED
    BY <1>1, <1>2, <2>1
<1>3. CASE m # 0
  <2>1. m - 1 \in Nat /\ m \in Nat /\ m - 1 \notin S
    BY <1>1, <1>3
  <2>2. PICK g : Powers(g, m - 1)
    BY <2>1
  <2>. DEFINE h == [i \in 0..m |-> IF i = m THEN 2 * g[m - 1] ELSE g[i]]
  <2>3. g[m - 1] \in Nat
    BY <2>1, <2>2 DEF Powers
  <2>4. h \in [0..m -> Nat]
    BY <2>1, <2>2, <2>3 DEF Powers
  <2>5. h[0] = 1
    BY <1>3, <2>1, <2>2 DEF Powers
  <2>6. ASSUME NEW i \in 1..m PROVE h[i] = 2 * h[i - 1]
    <3>1. CASE i = m
      BY <2>1, <3>1
    <3>2. CASE i # m
      BY <2>1, <2>2, <3>2 DEF Powers
    <3>. QED
      BY <3>1, <3>2
  <2>. HIDE DEF h
  <2>7. Powers(h, m)
    BY <2>4, <2>5, <2>6 DEF Powers
  <2>. QED
    BY <1>1, <2>7
<1>. QED
  BY <1>2, <1>3

(* Two lists of powers agree as far as both go. *)
LEMMA PowersUnique ==
    ASSUME NEW m \in Nat, NEW n \in Nat, NEW g, NEW h, Powers(g, m), Powers(h, n)
    PROVE  \A i \in Nat : i <= m /\ i <= n => g[i] = h[i]
<1>. DEFINE S == {i \in Nat : i <= m /\ i <= n /\ g[i] # h[i]}
<1>. SUFFICES ASSUME S # {} PROVE FALSE
  OBVIOUS
<1>1. PICK i \in S : \A j \in S : i <= j
  BY LeastNumber
<1>2. i # 0
  BY <1>1 DEF Powers
<1>3. i - 1 \in Nat /\ i - 1 \notin S
  BY <1>1, <1>2
<1>4. g[i - 1] = h[i - 1]
  BY <1>1, <1>3
<1>. QED
  BY <1>1, <1>2, <1>4 DEF Powers

(* The powers of two that _backoff computes are numbers. *)
LEMMA Pow2Type == \A n \in Nat : Pow2[n] \in Nat
<1>. DEFINE G(n) == CHOOSE g : Powers(g, n)
            F == [n \in Nat |-> G(n)[n]]
            body(f) == [n \in Nat |-> IF n = 0 THEN 1 ELSE 2 * f[n - 1]]
<1>1. \A n \in Nat : Powers(G(n), n)
  BY PowersExist
<1>. HIDE DEF G
<1>2. \A n \in Nat : F[n] \in Nat
  BY <1>1 DEF Powers
<1>3. ASSUME NEW n \in Nat PROVE F[n] = IF n = 0 THEN 1 ELSE 2 * F[n - 1]
  <2>1. CASE n = 0
    BY <1>1, <2>1 DEF Powers
  <2>2. CASE n # 0
    <3>1. n - 1 \in Nat
      BY <2>2
    <3>2. G(n)[n - 1] = G(n - 1)[n - 1]
      BY <1>1, <3>1, PowersUnique
    <3>3. G(n)[n] = 2 * G(n)[n - 1]
      BY <1>1, <2>2 DEF Powers
    <3>. QED
      BY <2>2, <3>1, <3>2, <3>3
  <2>. QED
    BY <2>1, <2>2
<1>4. F = body(F)
  BY <1>3
<1>5. \E f : f = body(f)
  BY <1>4
<1>6. Pow2 = body(Pow2)
  BY <1>5 DEF Pow2
<1>. HIDE DEF F
<1>. DEFINE S == {n \in Nat : Pow2[n] \notin Nat}
<1>. SUFFICES ASSUME S # {} PROVE FALSE
  OBVIOUS
<1>7. PICK m \in S : \A j \in S : m <= j
  BY LeastNumber
<1>8. Pow2[m] = IF m = 0 THEN 1 ELSE 2 * Pow2[m - 1]
  BY <1>6, <1>7
<1>9. m # 0
  BY <1>7, <1>8
<1>10. m - 1 \in Nat /\ m - 1 \notin S
  BY <1>7, <1>9
<1>. QED
  BY <1>7, <1>8, <1>9, <1>10
-----------------------------------------------------------------------------
(* The constants, as the proofs use them. *)
LEMMA HttpNumbers ==
    /\ MaxPages \in Nat \ {0} /\ PageSize \in Nat \ {0} /\ Timeout \in Nat \ {0}
    /\ MaxHeld \in Nat /\ RetryMax \in Nat /\ RetryBase \in Nat /\ MaxBackoff \in Nat
    /\ MaxRetryAfter \in Nat /\ Gap \in Nat
    /\ None \notin Nat
BY HttpAssumption

(* None is not the name of a call. *)
LEMMA NoneIsNoCall == None \notin {"probe", "probe list", "lookup", "list"}
BY HttpAssumption

(* What the clock and a server may say are numbers of ticks. *)
LEMMA TimesAreNumbers == Budgets \subseteq Nat /\ RetryAfters \subseteq Nat
BY HttpAssumption

(* A sleep of _backoff lasts a number of ticks. *)
LEMMA BackoffType ==
    ASSUME attempt \in Nat, NEW after \in Nat \cup {None}
    PROVE  Backoff(after) \subseteq Nat
<1>. DEFINE x == RetryBase * Pow2[attempt]
            span == Min({x, MaxBackoff})
<1>1. x \in Nat
  BY HttpNumbers, Pow2Type
<1>. HIDE DEF x
<1>2. span \in Nat
  BY <1>1, MinMaxOfTwo, HttpNumbers
<1>. HIDE DEF span
<1>3. \A d \in (span \div 2)..span : d \in Nat
  <2>1. span \div 2 \in Nat
    BY <1>2
  <2>. QED
    BY <1>2, <2>1
<1>4. \A d \in Nat : (IF after = None THEN d ELSE Max({d, after})) \in Nat
  BY MinMaxOfTwo
<1>5. Backoff(after) = {IF after = None THEN d ELSE Max({d, after}) : d \in (span \div 2)..span}
  BY DEF Backoff, span, x
<1>. QED
  BY <1>3, <1>4, <1>5

(* The parts are HttpTypeOK. *)
LEMMA PartsAreTheType == HttpInv => HttpTypeOK
<1>. SUFFICES ASSUME HttpInv PROVE HttpTypeOK
  OBVIOUS
<1>. QED
  BY Zenon DEF HttpInv, Numbers, Lists, Words, Flags, Budgeted, InCall, HttpTypeOK

(* What o says of the server, when it is the outcome. *)
Exact(o) ==
    o.kind = "answer" /\ o.still /\ o.status = 200 =>
        IF o.partial THEN IsPrefix(o.records, atStart) ELSE o.records = atStart

(* The fields of the two outcomes without records. *)
LEMMA NoOutcomeIsNone == NoOutcome.kind = "none"
BY DEF NoOutcome

(* No page has been read. *)
LEMMA NothingCollected ==
    ASSUME Lists', pages' = 0, raw' = <<>>, biggest' = 0
    PROVE  Collected'
<1>1. \A n \in Nat : 0 * n = 0
  OBVIOUS
<1>2. pages' * PageSize = 0 /\ Len(held') \in Nat /\ Len(raw') = 0
  BY <1>1, HttpNumbers DEF Lists
<1>3. Upto(pages)' = 0
  BY <1>2 DEF Upto, Least
<1>. QED
  BY <1>2, <1>3, HttpNumbers DEF Collected, Begins, Agrees

(* A call ends, and leaves the adapter as it found it. *)
LEMMA EndCallKeeps ==
    ASSUME HttpInv, NEW o, EndCall(o), Exact(o),
           o.kind \in {"none", "answer", "budget", "error"}
    PROVE  HttpInv'
<1>1. /\ outcome' = o
      /\ op' = None /\ at' = "idle" /\ wake' = 0
      /\ attempt' = 0 /\ cut' = FALSE /\ overdue' = 0
      /\ to' = "home" /\ pages' = 0 /\ biggest' = 0 /\ raw' = <<>> /\ status' = 0
      /\ session' = IF session = "preflight" THEN "closed" ELSE session
      /\ UNCHANGED <<style, enumerates, budget, slotIn, sinceSend, held, atStart>>
  BY DEF EndCall, config, storeVars
<1>2. Numbers'
  BY <1>1, HttpNumbers DEF HttpInv, Numbers
<1>3. Lists'
  BY <1>1, HttpNumbers DEF HttpInv, Lists
<1>4. Words' /\ Flags'
  BY <1>1 DEF HttpInv, Words, Flags
<1>5. Budgeted' /\ InCall'
  BY <1>1 DEF HttpInv, Budgeted, InCall
<1>6. Calls' /\ Slots' /\ Lateness'
  BY <1>1 DEF HttpInv, Calls, Slots, Lateness, Words
<1>7. Pages'
  <2>1. Collected'
    BY <1>1, <1>3, NothingCollected
  <2>. QED
    BY <1>1, <2>1 DEF HttpInv, Pages
<1>8. AnswerIsExact'
  BY <1>1 DEF AnswerIsExact, Exact
<1>. QED
  BY <1>1, <1>2, <1>3, <1>4, <1>5, <1>6, <1>7, <1>8 DEF HttpInv

(* A call ends in an exception. *)
LEMMA RaiseKeeps ==
    ASSUME HttpInv, NEW kind \in {"budget", "error"}, NEW e, Raise(kind, e)
    PROVE  HttpInv'
<1>. DEFINE o == [NoOutcome EXCEPT !.kind = kind, !.expired = e]
<1>1. o.kind = kind /\ EndCall(o)
  BY DEF Raise, NoOutcome
<1>. HIDE DEF o
<1>. QED
  BY <1>1, EndCallKeeps DEF Exact

(* A call returns a FetchResult, or refuses a record without identifier. *)
LEMMA AnswerKeeps ==
    ASSUME HttpInv, NEW all, NEW partial, NEW first, Answer(all, partial, first),
           0 \notin Range(all) /\ held = atStart /\ first = 200 =>
               IF partial THEN IsPrefix(all, atStart) ELSE all = atStart
    PROVE  HttpInv'
<1>1. CASE 0 \in Range(all)
  BY <1>1, RaiseKeeps DEF Answer
<1>2. CASE 0 \notin Range(all)
  <2>. DEFINE o == [kind |-> "answer", records |-> all, partial |-> partial,
                    status |-> first, still |-> held = atStart, expired |-> FALSE]
  <2>1. /\ o.kind = "answer" /\ o.records = all /\ o.partial = partial /\ o.status = first
        /\ o.still = (held = atStart)
        /\ EndCall(o)
    BY <1>2 DEF Answer
  <2>. HIDE DEF o
  <2>2. Exact(o)
    BY <1>2, <2>1 DEF Exact
  <2>. QED
    BY <2>1, <2>2, EndCallKeeps
<1>. QED
  BY <1>1, <1>2

(* The calls of a run. *)
LEMMA CallKeeps ==
    ASSUME HttpInv, preflight \/ fetch \/ list_all
    PROVE  HttpInv'
<1>1. PICK o \in {"probe", "lookup", "list"} : Call(o)
  BY DEF preflight, fetch, list_all
<1>2. /\ at = "idle" /\ op' = o /\ at' = "request" /\ atStart' = held /\ outcome' = NoOutcome
      /\ UNCHANGED <<style, enumerates, session, budget, slotIn, wake, sinceSend, attempt, cut,
                     overdue, to, pages, biggest, raw, status, held>>
  BY <1>1 DEF Call, config, timeVars, callVars, pageVars
<1>3. Numbers' /\ Flags' /\ Budgeted'
  BY <1>2, Zenon DEF HttpInv, Numbers, Flags, Budgeted
<1>4. Lists' /\ Words'
  BY <1>2, NoOutcomeIsNone DEF HttpInv, Lists, Words
<1>5. InCall'
  BY <1>2, NoneIsNoCall DEF InCall
<1>6. Calls' /\ Slots'
  BY <1>2 DEF HttpInv, Calls, Slots
<1>7. Lateness'
  BY <1>2 DEF HttpInv, Lateness
<1>8. Pages'
  <2>1. pages = 0 /\ raw = <<>> /\ biggest = 0
    BY <1>2 DEF HttpInv, Pages
  <2>2. Collected'
    BY <1>2, <1>4, <2>1, NothingCollected
  <2>3. Len(held) \in Nat
    BY DEF HttpInv, Lists
  <2>. QED
    BY <1>2, <2>1, <2>2, <2>3 DEF HttpInv, Pages
<1>9. AnswerIsExact'
  BY <1>2, NoOutcomeIsNone DEF AnswerIsExact
<1>. QED
  BY <1>2, <1>3, <1>4, <1>5, <1>6, <1>7, <1>8, <1>9 DEF HttpInv

(* The deadline is bound and let go, and the adapter closed, between calls. *)
LEMMA BetweenCalls ==
    ASSUME HttpInv, bind_clock \/ close
    PROVE  HttpInv'
<1>1. /\ at = "idle" /\ session # "preflight" /\ session' \in {"reading", "listing", "closed"}
      /\ budget' = budget \/ budget' \in Budgets \/ budget' = None
      /\ outcome' \in {NoOutcome, outcome}
      /\ UNCHANGED <<style, enumerates, op, at, slotIn, wake, sinceSend, attempt, cut, overdue,
                     to, pages, biggest, raw, status, held, atStart>>
  BY DEF bind_clock, close, HttpInv, Words, config, timeVars, callVars, pageVars, storeVars
<1>2. Numbers' /\ Flags' /\ Lists' /\ InCall'
  BY <1>1, Zenon DEF HttpInv, Numbers, Flags, Lists, InCall
<1>3. Budgeted'
  BY <1>1, TimesAreNumbers DEF HttpInv, Budgeted
<1>4. Words'
  BY <1>1, NoOutcomeIsNone DEF HttpInv, Words
<1>5. Calls' /\ Slots'
  BY <1>1 DEF HttpInv, Calls, Slots
<1>6. Lateness'
  BY <1>1 DEF HttpInv, Lateness
<1>7. Pages'
  BY <1>1 DEF HttpInv, Pages, Collected, Upto, Begins, Agrees
<1>8. AnswerIsExact'
  BY <1>1, NoOutcomeIsNone DEF HttpInv, AnswerIsExact
<1>. QED
  BY <1>1, <1>2, <1>3, <1>4, <1>5, <1>6, <1>7, <1>8 DEF HttpInv
-----------------------------------------------------------------------------
(* _request. *)

(* A step of a call that touches neither its pages nor the server. *)
LEMMA SamePages ==
    ASSUME HttpInv, UNCHANGED <<style, held, atStart, to, pages, biggest, raw, status, outcome>>,
           session' = session \/ session' # "preflight",
           at' # "idle" \/ pages = 0
    PROVE  to' = "home" /\ Lists' /\ Pages' /\ AnswerIsExact'
<1>1. Pages'
  <2>1. Collected' <=> Collected
    BY DEF Collected, Upto, Begins, Agrees
  <2>. QED
    BY <2>1 DEF HttpInv, Pages
<1>2. AnswerIsExact' /\ Lists'
  BY DEF HttpInv, AnswerIsExact, Lists
<1>. QED
  BY <1>1, <1>2 DEF HttpInv

(* The time left and the rate limit before a request, and the end of a backoff. *)
LEMMA RequestKeeps ==
    ASSUME HttpInv, RequestEnds \/ PaceEnds \/ PaceSleeps \/ BackoffEnds
    PROVE  HttpInv'
<1>1. CASE RequestEnds \/ PaceEnds
  BY <1>1, RaiseKeeps DEF RequestEnds, PaceEnds
<1>2. CASE PaceSleeps
  <2>1. /\ at = "request" /\ at' = "pace" /\ wake' = slotIn /\ ~OutOfTime
        /\ UNCHANGED <<style, enumerates, session, op, budget, slotIn, sinceSend, attempt, cut,
                       overdue, to, pages, biggest, raw, status, outcome, held, atStart>>
    BY <1>2 DEF PaceSleeps, config, callVars, pageVars, storeVars
  <2>2. Numbers'
    BY <2>1, HttpNumbers DEF HttpInv, Numbers
  <2>3. Words' /\ Flags' /\ Budgeted'
    BY <2>1 DEF HttpInv, Words, Flags, Budgeted
  <2>4. InCall'
    BY <2>1 DEF HttpInv, InCall
  <2>5. Calls'
    BY <2>1 DEF HttpInv, Calls
  <2>6. Slots'
    BY <2>1, HttpNumbers DEF HttpInv, Slots, Numbers
  <2>7. Lateness'
    BY <2>1, HttpNumbers DEF HttpInv, Lateness, OutOfTime
  <2>. QED
    BY <2>1, <2>2, <2>3, <2>4, <2>5, <2>6, <2>7, SamePages DEF HttpInv
<1>3. CASE BackoffEnds
  <2>1. /\ at = "backoff" /\ at' = "request" /\ attempt' = attempt + 1
        /\ UNCHANGED <<style, enumerates, session, op, budget, slotIn, wake, sinceSend, cut,
                       overdue, to, pages, biggest, raw, status, outcome, held, atStart>>
    BY <1>3 DEF BackoffEnds, NextAttempt, config, timeVars, pageVars, storeVars
  <2>2. Numbers'
    BY <2>1, HttpNumbers DEF HttpInv, Numbers, Calls
  <2>3. Words' /\ Flags' /\ Budgeted'
    BY <2>1 DEF HttpInv, Words, Flags, Budgeted
  <2>4. InCall'
    BY <2>1 DEF HttpInv, InCall
  <2>5. Calls' /\ Slots' /\ Lateness'
    BY <2>1 DEF HttpInv, Calls, Slots, Lateness
  <2>. QED
    BY <2>1, <2>2, <2>3, <2>4, <2>5, SamePages DEF HttpInv
<1>. QED
  BY <1>1, <1>2, <1>3

(* A request goes out a whole gap after the one before it. *)
LEMMA SendKeeps ==
    ASSUME HttpInv, Send
    PROVE  HttpInv' /\ sinceSend >= Gap
<1>1. /\ \/ at = "request" /\ ~OutOfTime /\ slotIn = 0
         \/ at = "pace" /\ wake = 0
      /\ at' = "sending" /\ slotIn' = Gap /\ sinceSend' = 0
      /\ cut' = (budget # None /\ budget < Timeout)
      /\ wake' = IF cut' THEN budget ELSE Timeout
      /\ overdue' = overdue + (IF budget = 0 THEN 1 ELSE 0)
      /\ UNCHANGED <<style, enumerates, session, op, attempt, budget, to, pages, biggest, raw,
                     status, outcome, held, atStart>>
  BY DEF Send, NextSlot, config, pageVars, storeVars
<1>2. slotIn = 0 /\ sinceSend >= Gap
  BY <1>1, HttpNumbers DEF HttpInv, Numbers, Slots
<1>3. wake' \in Nat /\ overdue' \in Nat
  <2>1. budget \in Nat \cup {None} /\ overdue \in Nat
    BY DEF HttpInv, Budgeted, Numbers
  <2>2. (wake' = budget /\ budget # None) \/ wake' = Timeout
    BY <1>1
  <2>3. wake' \in Nat
    BY <2>1, <2>2, HttpNumbers
  <2>4. (IF budget = 0 THEN 1 ELSE 0) \in Nat
    OBVIOUS
  <2>. QED
    BY <1>1, <2>1, <2>3, <2>4
<1>4. Numbers'
  BY <1>1, <1>3, HttpNumbers DEF HttpInv, Numbers
<1>5. Words' /\ Flags' /\ Budgeted'
  BY <1>1 DEF HttpInv, Words, Flags, Budgeted
<1>6. InCall'
  BY <1>1 DEF HttpInv, InCall
<1>7. Calls'
  BY <1>1 DEF HttpInv, Calls
<1>8. Slots'
  BY <1>1, HttpNumbers DEF Slots
<1>9. Lateness'
  <2>1. overdue = 0
    BY <1>1, HttpNumbers DEF HttpInv, Lateness, OutOfTime
  <2>2. overdue' = IF budget = 0 THEN 1 ELSE 0
    BY <1>1, <2>1
  <2>. QED
    BY <1>1, <2>2 DEF Lateness
<1>. QED
  BY <1>1, <1>2, <1>4, <1>5, <1>6, <1>7, <1>8, <1>9, SamePages DEF HttpInv

(* A failure worth a retry. *)
LEMMA RetryKeeps ==
    ASSUME HttpInv, at = "sending", NEW after \in Nat \cup {None}, NEW e, Retry(after, e)
    PROVE  HttpInv'
<1>1. CASE TooMany \/ (after # None /\ after > MaxRetryAfter)
  BY <1>1, RaiseKeeps DEF Retry
<1>2. CASE ~(TooMany \/ (after # None /\ after > MaxRetryAfter))
  <2>0. PICK delay \in Backoff(after) :
            IF WouldPass(delay) THEN Raise("budget", FALSE)
            ELSE /\ at' = "backoff" /\ wake' = delay
                 /\ UNCHANGED <<config, session, op, budget, slotIn, sinceSend, callVars,
                                outcome, storeVars>>
    BY <1>2 DEF Retry
  <2>1. delay \in Nat
    <3>1. attempt \in Nat
      BY HttpNumbers DEF HttpInv, Numbers
    <3>. QED
      BY <2>0, <3>1, BackoffType
  <2>2. CASE WouldPass(delay)
    BY <2>0, <2>2, RaiseKeeps
  <2>3. CASE ~WouldPass(delay)
    <3>1. /\ at' = "backoff" /\ wake' = delay
          /\ UNCHANGED <<style, enumerates, session, op, budget, slotIn, sinceSend, attempt, cut,
                         overdue, to, pages, biggest, raw, status, outcome, held, atStart>>
      BY <2>0, <2>3 DEF config, callVars, pageVars, storeVars
    <3>2. Numbers'
      BY <2>1, <3>1 DEF HttpInv, Numbers
    <3>3. Words' /\ Flags' /\ Budgeted'
      BY <3>1 DEF HttpInv, Words, Flags, Budgeted
    <3>4. InCall'
      BY <3>1 DEF HttpInv, InCall
    <3>5. Calls'
      <4>1. attempt < RetryMax
        BY <1>2, HttpNumbers DEF HttpInv, Numbers, TooMany
      <4>. QED
        BY <3>1, <4>1 DEF HttpInv, Calls
    <3>6. Slots'
      BY <3>1 DEF HttpInv, Slots
    <3>7. Lateness'
      BY <2>1, <2>3, <3>1, HttpNumbers DEF HttpInv, Lateness, WouldPass
    <3>. QED
      BY <3>1, <3>2, <3>3, <3>4, <3>5, <3>6, <3>7, SamePages DEF HttpInv
  <2>. QED
    BY <2>2, <2>3
<1>. QED
  BY <1>1, <1>2

(* The responses that are not a page, and the checks of the preflight. *)
LEMMA ResponseKeeps ==
    ASSUME HttpInv, \/ SendFails \/ TimesOut \/ ServerFails \/ CheckRefused \/ CheckPassed
                    \/ PageUnreadable
    PROVE  HttpInv'
<1>1. CASE SendFails \/ TimesOut
  BY <1>1, RetryKeeps DEF SendFails, TimesOut
<1>2. CASE ServerFails
  <2>1. PICK r \in Failures : Retry(r.after, FALSE)
    BY <1>2 DEF ServerFails
  <2>2. r.after \in RetryAfters \cup {None}
    BY <2>1, Zenon DEF Failures
  <2>3. r.after \in Nat \cup {None}
    BY <2>2, TimesAreNumbers
  <2>. QED
    BY <1>2, <2>1, <2>3, RetryKeeps DEF ServerFails
<1>3. CASE CheckRefused \/ PageUnreadable
  BY <1>3, RaiseKeeps DEF CheckRefused, PageUnreadable
<1>4. CASE CheckPassed
  <2>1. /\ at = "sending" /\ session = "preflight"
        /\ \/ op' = "probe list" /\ at' = "request" /\ session' = session
           \/ op' = None /\ at' = "idle" /\ session' = "reading"
        /\ attempt' = 0 /\ cut' = FALSE /\ wake' = 0
        /\ UNCHANGED <<style, enumerates, budget, slotIn, sinceSend, overdue, to, pages, biggest,
                       raw, status, outcome, held, atStart>>
    BY <1>4 DEF CheckPassed, config, pageVars, storeVars
  <2>2. Numbers'
    <3>1. attempt' = 0 /\ wake' = 0
          /\ UNCHANGED <<slotIn, sinceSend, overdue, pages, biggest, status>>
      BY <2>1
    <3>. QED
      BY <3>1, HttpNumbers DEF HttpInv, Numbers
  <2>3. Words' /\ Flags' /\ Budgeted'
    BY <2>1 DEF HttpInv, Words, Flags, Budgeted
  <2>4. InCall'
    BY <2>1, NoneIsNoCall DEF HttpInv, InCall
  <2>5. Calls' /\ Slots'
    BY <2>1 DEF HttpInv, Calls, Slots
  <2>6. Lateness'
    <3>1. budget = None /\ overdue' = overdue
      BY <2>1 DEF HttpInv, Calls
    <3>2. None # 0
      BY HttpNumbers
    <3>. QED
      BY <3>1, <3>2 DEF HttpInv, Lateness
  <2>7. pages = 0
    BY <2>1 DEF HttpInv, Pages
  <2>. QED
    BY <2>1, <2>2, <2>3, <2>4, <2>5, <2>6, <2>7, SamePages DEF HttpInv
<1>. QED
  BY <1>1, <1>2, <1>3, <1>4
-----------------------------------------------------------------------------
(* _collect. *)

(* The length of a page of at most p, after the first a of n. *)
PageLength(a, p, n) == IF n <= a THEN 0 ELSE IF a + p <= n THEN p ELSE n - a

(* g is the slice of h after its first a elements, of at most p, and r     *)
(* holds those elements.                                                   *)
Sliced(S, h, r, a, p, g) ==
    /\ h \in Seq(S) /\ r \in Seq(S) /\ a \in Nat /\ p \in Nat \ {0}
    /\ Len(r) = Least(a, Len(h)) /\ Agrees(r, h)
    /\ g = SubSeq(h, a + 1, Least(a + p, Len(h)))

(* Then g continues r. *)
Continues(h, r, a, p, g) ==
    /\ Len(g) = PageLength(a, p, Len(h))
    /\ Len(r \o g) = Least(a + p, Len(h))
    /\ Agrees(r \o g, h)

(* A page continues what the pages before it hold. *)
LEMMA NextSlice ==
    ASSUME NEW S, NEW h, NEW r, NEW a, NEW p, NEW g, Sliced(S, h, r, a, p, g)
    PROVE  Continues(h, r, a, p, g)
<1>. h \in Seq(S) /\ r \in Seq(S) /\ a \in Nat /\ p \in Nat \ {0}
  BY DEF Sliced
<1>. DEFINE m == Least(a + p, Len(h))
<1>0. Len(r) = (IF a < Len(h) THEN a ELSE Len(h)) /\ \A i \in 1..Len(r) : r[i] = h[i]
  BY DEF Least, Agrees, Sliced
<1>1. /\ Len(h) \in Nat /\ m \in Nat /\ m <= Len(h) /\ Len(r) \in Nat
      /\ \A i \in 1..Len(h) : h[i] \in S
  BY DEF Least
<1>2. CASE Len(h) <= a
  <2>1. a + 1 > m /\ a + 1 \in Nat /\ Len(r) = Len(h) /\ m = Len(h)
    BY <1>0, <1>1, <1>2 DEF Least
  <2>2. g = <<>>
    BY <1>1, <2>1, SubSeqEmpty DEF Sliced
  <2>3. g \in Seq(S) /\ Len(g) = 0 /\ r \o g = r
    BY <2>2, EmptySeq, ConcatEmptySeq
  <2>4. PageLength(a, p, Len(h)) = 0
    BY <1>2 DEF PageLength
  <2>. QED
    BY <1>0, <2>1, <2>3, <2>4 DEF Continues, Agrees
<1>3. CASE ~(Len(h) <= a)
  <2>1. a + 1 \in 1..Len(h) /\ m \in 1..Len(h) /\ a + 1 <= m /\ Len(r) = a
    BY <1>0, <1>1, <1>3 DEF Least
  <2>. HIDE DEF m
  <2>2. g = SubSeq(h, a + 1, m)
    BY DEF m, Sliced
  <2>3. g \in Seq(S) /\ Len(g) = m - a /\ \A i \in 1..(m - a) : g[i] = h[a + i]
    <3>0. a \in Int /\ a + 1 \in Int /\ m \in Int
      BY <1>1
    <3>1. m - (a + 1) + 1 = m - a /\ \A i \in 1..(m - a) : a + 1 + i - 1 = a + i
      BY <3>0
    <3>2. \A i \in (a + 1)..m : h[i] \in S
      BY <1>1, <2>1
    <3>3. /\ SubSeq(h, a + 1, m) \in Seq(S)
          /\ Len(SubSeq(h, a + 1, m)) = IF a + 1 <= m THEN m - (a + 1) + 1 ELSE 0
          /\ \A i \in 1..(m - (a + 1) + 1) : SubSeq(h, a + 1, m)[i] = h[a + 1 + i - 1]
      BY <3>0, <3>2, SubSeqProperties
    <3>. QED
      BY <2>1, <2>2, <3>1, <3>3
  <2>4. /\ Len(r \o g) = m
        /\ \A i \in 1..m : (r \o g)[i] = IF i <= a THEN r[i] ELSE g[i - a]
    <3>1. a \in Int /\ m \in Int
      BY <1>1
    <3>2. Len(r) = a /\ Len(g) = m - a /\ a + (m - a) = m
      BY <2>1, <2>3, <3>1
    <3>3. /\ Len(r \o g) = Len(r) + Len(g)
          /\ \A i \in 1..(Len(r) + Len(g)) : (r \o g)[i] = IF i <= Len(r) THEN r[i]
                                                           ELSE g[i - Len(r)]
      <4>1. g \in Seq(S)
        BY <2>3
      <4>. QED
        BY <4>1, ConcatProperties, Zenon
    <3>. QED
      BY <3>2, <3>3
  <2>5. ASSUME NEW i \in 1..m PROVE (r \o g)[i] = h[i]
    <3>1. CASE i <= a
      BY <1>0, <1>1, <2>1, <2>4, <3>1
    <3>2. CASE ~(i <= a)
      <4>1. i - a \in 1..(m - a) /\ a + (i - a) = i
        BY <1>1, <3>2
      <4>2. g[i - a] = h[a + (i - a)]
        BY <2>3, <4>1
      <4>. QED
        BY <2>4, <3>2, <4>1, <4>2
    <3>. QED
      BY <3>1, <3>2
  <2>6. m - a = PageLength(a, p, Len(h))
    BY <1>1, <1>3 DEF m, Least, PageLength
  <2>. QED
    BY <2>3, <2>4, <2>5, <2>6 DEF m, Agrees, Continues
<1>. QED
  BY <1>2, <1>3

(* Two sequences of one length with the same elements. *)
LEMMA SameElements ==
    ASSUME NEW S, NEW h \in Seq(S), NEW r \in Seq(S), Len(r) = Len(h),
           \A i \in 1..Len(r) : r[i] = h[i]
    PROVE  r = h
OBVIOUS

(* The beginning of a sequence, all of it or less. *)
LEMMA PrefixByElements ==
    ASSUME NEW S, NEW h \in Seq(S), NEW r \in Seq(S), Len(r) <= Len(h),
           \A i \in 1..Len(r) : r[i] = h[i]
    PROVE  IsPrefix(r, h)
<1>. DEFINE n == Len(r)
            x == SubSeq(r, 1, n)
            y == SubSeq(h, 1, n)
<1>1. n \in Int /\ n >= 0 /\ 1 \in Int /\ n - 1 + 1 = n /\ \A i \in 1..n : 1 + i - 1 = i
  BY LenProperties
<1>2. (\A i \in 1..n : r[i] \in S) /\ (\A i \in 1..n : h[i] \in S)
  BY LenProperties
<1>. HIDE DEF n
<1>3. /\ SubSeq(r, 1, n) \in Seq(S) /\ Len(SubSeq(r, 1, n)) = (IF 1 <= n THEN n - 1 + 1 ELSE 0)
      /\ \A i \in 1..(n - 1 + 1) : SubSeq(r, 1, n)[i] = r[1 + i - 1]
  BY <1>1, <1>2, SubSeqProperties
<1>4. /\ SubSeq(h, 1, n) \in Seq(S) /\ Len(SubSeq(h, 1, n)) = (IF 1 <= n THEN n - 1 + 1 ELSE 0)
      /\ \A i \in 1..(n - 1 + 1) : SubSeq(h, 1, n)[i] = h[1 + i - 1]
  BY <1>1, <1>2, SubSeqProperties
<1>. HIDE DEF x, y
<1>5. x \in Seq(S) /\ Len(x) = n /\ \A i \in 1..n : x[i] = r[i]
  BY <1>1, <1>3 DEF x
<1>6. y \in Seq(S) /\ Len(y) = n /\ \A i \in 1..n : y[i] = h[i]
  BY <1>1, <1>4 DEF y
<1>7. \A i \in 1..Len(x) : x[i] = y[i]
  BY <1>5, <1>6 DEF n
<1>8. x = y
  BY <1>5, <1>6, <1>7, SeqEqual, Zenon
<1>. QED
  BY <1>8 DEF IsPrefix, x, y, n

(* Sequences of identifiers, and of identifiers or none. *)
LEMMA HeldType ==
    ASSUME Lists
    PROVE  /\ held \in Seq(0..MaxHeld) /\ atStart \in Seq(0..MaxHeld) /\ raw \in Seq(0..MaxHeld)
           /\ Len(held) \in Nat /\ Len(atStart) \in Nat /\ Len(raw) \in Nat
BY HttpNumbers DEF Lists

(* A page of a server that pages, by its bounds. *)
LEMMA ThisPageIs ==
    ASSUME HttpInv, style # "none"
    PROVE  ThisPage = SubSeq(held, pages * PageSize + 1, Min({(pages + 1) * PageSize, Len(held)}))
<1>1. pages \in Int /\ pages + 1 - 1 = pages
  BY HttpNumbers DEF HttpInv, Numbers
<1>2. ASSUME NEW k
      PROVE  PageOf(k) = SubSeq(held, (k - 1) * PageSize + 1, Min({k * PageSize, Len(held)}))
  <2>1. PageOf(k) = IF style = "none" THEN IF k = 1 THEN held ELSE <<>>
                    ELSE SubSeq(held, (k - 1) * PageSize + 1, Min({k * PageSize, Len(held)}))
    BY DEF PageOf
  <2>. DEFINE q == SubSeq(held, (k - 1) * PageSize + 1, Min({k * PageSize, Len(held)}))
  <2>. HIDE DEF q
  <2>2. PageOf(k) = IF style = "none" THEN IF k = 1 THEN held ELSE <<>> ELSE q
    BY <2>1 DEF q
  <2>. QED
    BY <2>2 DEF q
<1>. DEFINE k == pages + 1
<1>. HIDE DEF k
<1>3. k - 1 = pages /\ ThisPage = PageOf(k)
  <2>1. ThisPage = PageOf(k)
    BY Zenon DEF k, ThisPage
  <2>. QED
    BY <1>1, <2>1 DEF k
<1>4. ThisPage = SubSeq(held, (k - 1) * PageSize + 1, Min({k * PageSize, Len(held)}))
  BY <1>2, <1>3
<1>5. ThisPage = SubSeq(held, pages * PageSize + 1, Min({k * PageSize, Len(held)}))
  BY <1>3, <1>4, Zenon
<1>. QED
  BY <1>5 DEF k

(* A page is part of what the server holds. *)
LEMMA PageType ==
    ASSUME HttpInv
    PROVE  ThisPage \in Seq(0..MaxHeld) /\ Len(ThisPage) \in 0..MaxHeld
<1>. DEFINE S == 0..MaxHeld
            a == pages * PageSize
            b == (pages + 1) * PageSize
            n == Min({b, Len(held)})
<1>1. pages \in Nat /\ pages + 1 - 1 = pages
  BY HttpNumbers DEF HttpInv, Numbers
<1>2. a \in Nat /\ b \in Nat
  BY <1>1, HttpNumbers
<1>3. held \in Seq(S) /\ Len(held) \in Nat /\ Len(held) <= MaxHeld
  BY HeldType DEF HttpInv, Pages
<1>4. CASE style = "none"
  <2>1. ThisPage = held \/ ThisPage = <<>>
    BY <1>4 DEF ThisPage, PageOf
  <2>2. held \in Seq(S) /\ Len(held) \in S
    BY <1>3, HttpNumbers
  <2>3. <<>> \in Seq(S) /\ Len(<<>>) \in S
    BY EmptySeq, HttpNumbers
  <2>. QED
    BY <2>1, <2>2, <2>3, Zenon
<1>5. CASE style # "none"
  <2>1. ThisPage = SubSeq(held, a + 1, n)
    BY <1>5, ThisPageIs
  <2>. HIDE DEF a, b
  <2>2. n \in Nat /\ n <= Len(held)
    BY <1>2, <1>3, MinMaxOfTwo
  <2>. HIDE DEF n
  <2>3. a + 1 \in Int /\ n \in Int /\ \A i \in (a + 1)..n : i \in 1..Len(held)
    BY <1>2, <1>3, <2>2
  <2>4. \A i \in 1..Len(held) : held[i] \in S
    BY <1>3, LenProperties
  <2>5. \A i \in (a + 1)..n : held[i] \in S
    BY <2>3, <2>4
  <2>6. SubSeq(held, a + 1, n) \in Seq(S)
        /\ Len(SubSeq(held, a + 1, n)) = (IF a + 1 <= n THEN n - (a + 1) + 1 ELSE 0)
    BY <2>3, <2>5, SubSeqProperties
  <2>7. (IF a + 1 <= n THEN n - (a + 1) + 1 ELSE 0) \in 0..MaxHeld
    BY <1>2, <1>3, <2>2, HttpNumbers
  <2>. QED
    BY <2>1, <2>6, <2>7
<1>. QED
  BY <1>4, <1>5

(* What a page adds, from a server that has not changed. *)
LEMMA PageContinues ==
    ASSUME HttpInv, Collected, style # "none"
    PROVE  /\ (pages + 1) * PageSize = pages * PageSize + PageSize
           /\ Len(ThisPage) = PageLength(pages * PageSize, PageSize, Len(held))
           /\ Len(raw \o ThisPage) = Upto(pages + 1)
           /\ Begins(raw \o ThisPage)
<1>. DEFINE S == 0..MaxHeld
            a == pages * PageSize
            b == (pages + 1) * PageSize
            n == Min({b, Len(held)})
<1>1. pages \in Nat /\ pages + 1 - 1 = pages /\ PageSize \in Nat
  BY HttpNumbers DEF HttpInv, Numbers
<1>2. a \in Nat /\ b = a + PageSize
  BY <1>1
<1>3. held \in Seq(S) /\ raw \in Seq(S) /\ Len(held) \in Nat
  BY HeldType DEF HttpInv
<1>4. ThisPage = SubSeq(held, a + 1, n)
  BY ThisPageIs
<1>5. Len(raw) = Least(a, Len(held)) /\ Agrees(raw, held)
  BY DEF Collected, Upto, Begins
<1>6. Upto(pages + 1) = Least(b, Len(held))
  BY DEF Upto
<1>. HIDE DEF a, b, S
<1>7. b \in Nat
  BY <1>1, <1>2
<1>8. n = Least(a + PageSize, Len(held))
  BY <1>2, <1>3, <1>7, MinMaxOfTwo DEF Least
<1>. HIDE DEF n
<1>9. Continues(held, raw, a, PageSize, ThisPage)
  <2>1. PageSize \in Nat \ {0}
    BY HttpNumbers
  <2>2. ThisPage = SubSeq(held, a + 1, Least(a + PageSize, Len(held)))
    BY <1>4, <1>8, Zenon
  <2>3. Sliced(S, held, raw, a, PageSize, ThisPage)
    BY <1>2, <1>3, <1>5, <2>1, <2>2 DEF Sliced
  <2>. QED
    BY <2>3, NextSlice, Zenon
<1>. QED
  BY <1>2, <1>6, <1>9 DEF Begins, Continues, a, b

(* A concatenation has the elements of both parts. *)
LEMMA ConcatRange ==
    ASSUME NEW S, NEW s \in Seq(S), NEW t \in Seq(S)
    PROVE  Range(s) \subseteq Range(s \o t) /\ Range(t) \subseteq Range(s \o t)
<1>. DEFINE u == s \o t
<1>1. /\ u \in Seq(S) /\ Len(u) = Len(s) + Len(t)
      /\ \A i \in 1..(Len(s) + Len(t)) : u[i] = IF i <= Len(s) THEN s[i] ELSE t[i - Len(s)]
  BY ConcatProperties, Zenon
<1>. HIDE DEF u
<1>2. /\ Len(s) \in Nat /\ Len(t) \in Nat
      /\ DOMAIN s = 1..Len(s) /\ DOMAIN t = 1..Len(t) /\ DOMAIN u = 1..(Len(s) + Len(t))
  BY <1>1, LenProperties
<1>3. ASSUME NEW i \in DOMAIN s PROVE s[i] \in Range(u)
  <2>1. i \in DOMAIN u /\ u[i] = s[i]
    BY <1>1, <1>2
  <2>. QED
    BY <2>1 DEF Range
<1>4. ASSUME NEW i \in DOMAIN t PROVE t[i] \in Range(u)
  <2>1. Len(s) + i \in DOMAIN u /\ ~(Len(s) + i <= Len(s)) /\ Len(s) + i - Len(s) = i
    BY <1>2
  <2>2. u[Len(s) + i] = t[i]
    BY <1>1, <1>2, <2>1
  <2>. QED
    BY <2>1, <2>2 DEF Range
<1>. QED
  BY <1>3, <1>4 DEF Range, u

(* The records of a readable body are the page, or one of them has no      *)
(* identifier.                                                             *)
LEMMA RecordsAre ==
    ASSUME HttpInv, NEW r \in PageResponses, Honest(r)
    PROVE  /\ Records(r.shape) \in Seq(0..MaxHeld)
           /\ Len(Records(r.shape)) = Len(ThisPage)
           /\ Records(r.shape) = ThisPage \/ 0 \in Range(Records(r.shape))
<1>. DEFINE p == ThisPage
<1>1. p \in Seq(0..MaxHeld) /\ Len(p) \in Nat
  BY PageType
<1>2. CASE r.shape # "no id"
  BY <1>1, <1>2 DEF Records
<1>3. CASE r.shape = "no id"
  <2>1. Len(p) > 0
    BY <1>3 DEF Honest
  <2>. DEFINE z == [i \in DOMAIN p |-> 0]
  <2>. HIDE DEF p
  <2>2. DOMAIN p = 1..Len(p)
    BY <1>1, LenProperties
  <2>3. z \in [1..Len(p) -> 0..MaxHeld]
    BY <2>2, HttpNumbers
  <2>4. z \in Seq(0..MaxHeld) /\ Len(z) = Len(p)
    BY <1>1, <2>3
  <2>5. 0 \in Range(z)
    <3>1. 1 \in DOMAIN z /\ z[1] = 0
      BY <1>1, <2>1, <2>2
    <3>. QED
      BY <3>1 DEF Range
  <2>6. Records(r.shape) = z
    BY <1>3 DEF Records, p
  <2>. HIDE DEF z
  <2>. QED
    BY <2>4, <2>5, <2>6 DEF p
<1>. QED
  BY <1>2, <1>3

(* The pages read so far and this one, from a server that did not change:  *)
(* all it holds, or the beginning of it when there is another page.        *)
LEMMA AllOrMore ==
    ASSUME HttpInv, session # "preflight", NEW r \in PageResponses, Honest(r),
           held = atStart, NEW got, got = Records(r.shape), 0 \notin Range(raw \o got)
    PROVE  /\ got = ThisPage /\ Collected
           /\ IF HasNext(r, Len(got)) THEN IsPrefix(raw \o got, atStart)
              ELSE raw \o got = atStart
<1>. DEFINE S == 0..MaxHeld
            x == raw \o got
<1>1. got \in Seq(S) /\ (got = ThisPage \/ 0 \in Range(got)) /\ Len(got) = Len(ThisPage)
  BY RecordsAre
<1>2. raw \in Seq(S) /\ held \in Seq(S) /\ Len(held) \in Nat
  BY HeldType DEF HttpInv
<1>3. x \in Seq(S)
  BY <1>1, <1>2, ConcatProperties, Zenon
<1>4. got = ThisPage /\ 0 \notin Range(raw)
  BY <1>1, <1>2, ConcatRange
<1>5. Collected
  BY <1>4 DEF HttpInv, Pages
<1>6. CASE style = "none"
  <2>1. pages = 0 /\ raw = <<>>
    BY <1>5, <1>6 DEF HttpInv, Pages, Collected
  <2>2. ThisPage = held
    BY <1>6, <2>1 DEF ThisPage, PageOf
  <2>3. x = held
    BY <1>2, <1>4, <2>1, <2>2, ConcatEmptySeq
  <2>4. ~HasNext(r, Len(got))
    BY <1>6 DEF HasNext
  <2>. QED
    BY <1>4, <1>5, <2>3, <2>4
<1>7. CASE style # "none"
  <2>. DEFINE a == pages * PageSize
              h == Len(held)
  <2>1. /\ (pages + 1) * PageSize = a + PageSize
        /\ Len(got) = PageLength(a, PageSize, h)
        /\ Len(x) = Upto(pages + 1) /\ Agrees(x, held)
    BY <1>4, <1>5, <1>7, PageContinues DEF Begins
  <2>2. Upto(pages + 1) = Least(a + PageSize, h)
    BY <2>1 DEF Upto
  <2>3. a \in Nat /\ h \in Nat /\ PageSize \in Nat \ {0}
    BY <1>2, HttpNumbers DEF HttpInv, Numbers
  <2>. HIDE DEF a, h, x
  <2>4. Len(x) <= h
    BY <2>1, <2>2, <2>3 DEF Least
  <2>5. CASE HasNext(r, Len(got))
    <3>1. IsPrefix(x, held)
      BY <1>2, <1>3, <2>1, <2>4, PrefixByElements DEF Agrees, h
    <3>. QED
      BY <1>4, <1>5, <2>5, <3>1 DEF x
  <2>6. CASE ~HasNext(r, Len(got))
    <3>1. ~(a + PageSize < h)
      <4>1. CASE style = "next"
        BY <2>1, <2>6, <4>1 DEF HasNext, Honest, h
      <4>2. CASE style \in {"page", "sized"}
        <5>1. biggest \in Nat /\ biggest <= PageSize
          BY <1>5, HttpNumbers DEF HttpInv, Numbers, Collected
        <5>2. Len(got) \in Nat
          BY <1>1, LenProperties
        <5>3. Len(got) = 0 \/ Len(got) < PageSize
          BY <2>3, <2>6, <4>2, <5>1, <5>2 DEF HasNext, Full
        <5>. QED
          BY <2>1, <2>3, <5>3 DEF PageLength
      <4>3. style \in {"none", "next", "page", "sized"}
        BY HttpAssumption DEF HttpInv, Words
      <4>. QED
        BY <1>7, <4>1, <4>2, <4>3
    <3>2. Len(x) = h
      BY <2>1, <2>2, <2>3, <3>1 DEF Least
    <3>3. x = held
      BY <1>2, <1>3, <2>1, <3>2, SeqEqual, Zenon DEF Agrees, h
    <3>. QED
      BY <1>4, <1>5, <2>6, <3>3 DEF x
  <2>. QED
    BY <2>5, <2>6
<1>. QED
  BY <1>6, <1>7

(* A 404, for a lookup or past the first page. *)
LEMMA MissingKeeps ==
    ASSUME HttpInv, PageMissing
    PROVE  HttpInv'
<1>1. PICK s \in Refusals :
        IF s = 404 /\ (op = "lookup" \/ pages > 0)
        THEN (pages > 0 => ThisPage = <<>>) /\ Answer(raw, FALSE, FirstStatus(s))
        ELSE Raise("error", FALSE)
  BY DEF PageMissing
<1>2. CASE Raise("error", FALSE)
  BY <1>2, RaiseKeeps
<1>3. CASE s = 404 /\ (pages > 0 => ThisPage = <<>>) /\ Answer(raw, FALSE, FirstStatus(s))
  <2>1. ASSUME 0 \notin Range(raw), held = atStart, FirstStatus(s) = 200
        PROVE  raw = atStart
    <3>1. status = 200
      BY <1>3, <2>1 DEF FirstStatus
    <3>2. pages > 0 /\ pages \in Nat
      BY <3>1, HttpNumbers DEF HttpInv, Pages, Numbers
    <3>3. Collected /\ style # "none"
      BY <2>1, <3>2 DEF HttpInv, Pages, Collected
    <3>. DEFINE a == pages * PageSize
                h == Len(held)
    <3>4. Len(ThisPage) = PageLength(a, PageSize, h) /\ Len(ThisPage) = 0
      <4>1. ThisPage = <<>>
        BY <1>3, <3>2
      <4>. QED
        BY <3>3, <4>1, PageContinues
    <3>5. Len(raw) = Least(a, h) /\ Agrees(raw, held)
      BY <3>3 DEF Collected, Upto, Begins
    <3>6. a \in Nat /\ h \in Nat /\ PageSize \in Nat \ {0}
      BY <3>2, HeldType, HttpNumbers DEF HttpInv
    <3>. HIDE DEF a
    <3>7. Len(raw) = Len(held)
      <4>. HIDE DEF h
      <4>1. h <= a
        BY <3>4, <3>6 DEF PageLength
      <4>2. Least(a, h) = h
        BY <3>6, <4>1 DEF Least
      <4>. QED
        BY <3>5, <4>2 DEF h
    <3>8. raw \in Seq(0..MaxHeld) /\ held \in Seq(0..MaxHeld)
      BY HeldType DEF HttpInv
    <3>9. raw = held
      BY <3>5, <3>7, <3>8, SeqEqual, Zenon DEF Agrees
    <3>. QED
      BY <2>1, <3>9
  <2>. QED
    BY <1>3, <2>1, AnswerKeeps
<1>. QED
  BY <1>1, <1>2, <1>3

(* Another page is asked for. *)
LEMMA NextPageKeeps ==
    ASSUME HttpInv, at = "sending", session # "preflight", NEW r \in PageResponses, Honest(r),
           NEW got, got = Records(r.shape), HasNext(r, Len(got)), Follows(r.link),
           pages + 1 < MaxPages, NextPage(r, got)
    PROVE  HttpInv'
<1>. DEFINE S == 0..MaxHeld
<1>1. /\ raw' = raw \o got /\ biggest' = Max({biggest, Len(got)}) /\ status' = FirstStatus(200)
      /\ pages' = pages + 1 /\ at' = "request" /\ attempt' = 0 /\ wake' = 0
      /\ UNCHANGED <<style, enumerates, session, op, budget, slotIn, sinceSend, cut, overdue,
                     outcome, held, atStart>>
  BY DEF NextPage, config, storeVars
<1>2. to' = "home"
  <2>1. to' = IF style = "next" THEN r.link ELSE to
    BY DEF NextPage
  <2>2. r.link \in {"none", "home", "elsewhere"}
    BY DEF PageResponses
  <2>. QED
    BY <2>1, <2>2 DEF HasNext, Follows, HttpInv
<1>3. style # "none"
  BY DEF HasNext
<1>4. got \in Seq(S) /\ Len(got) = Len(ThisPage)
  BY RecordsAre
<1>5. biggest \in 0..MaxHeld /\ Len(got) \in 0..MaxHeld
  BY <1>4, PageType DEF HttpInv, Numbers
<1>6. biggest' \in 0..MaxHeld /\ biggest' = (IF biggest <= Len(got) THEN Len(got) ELSE biggest)
  <2>1. biggest \in Nat /\ Len(got) \in Nat
    BY <1>5, HttpNumbers
  <2>2. biggest' = (IF biggest <= Len(got) THEN Len(got) ELSE biggest)
    BY <1>1, <2>1, MinMaxOfTwo
  <2>. QED
    BY <1>5, <2>2
<1>7. status' = 200
  <2>1. pages \in Nat /\ (pages = 0 => status = 0) /\ (pages > 0 => status = 200)
    BY HttpNumbers DEF HttpInv, Pages, Numbers
  <2>2. status \in {0, 200}
    BY <2>1
  <2>. QED
    BY <1>1, <2>2 DEF FirstStatus
<1>8. Numbers'
  BY <1>1, <1>6, <1>7, HttpNumbers DEF HttpInv, Numbers
<1>9. Lists'
  <2>1. raw \o got \in Seq(S)
    BY <1>4, HeldType, ConcatProperties, Zenon DEF HttpInv
  <2>. QED
    BY <1>1, <2>1 DEF HttpInv, Lists
<1>10. Words' /\ Flags' /\ Budgeted'
  BY <1>1 DEF HttpInv, Words, Flags, Budgeted
<1>11. InCall'
  BY <1>1 DEF HttpInv, InCall
<1>12. Calls' /\ Slots' /\ Lateness'
  BY <1>1 DEF HttpInv, Calls, Slots, Lateness
<1>13. Pages'
  <2>1. ASSUME held' = atStart', 0 \notin Range(raw') PROVE Collected'
    <3>1. held = atStart /\ 0 \notin Range(raw \o got)
      BY <1>1, <2>1
    <3>2. got = ThisPage /\ Collected
      BY <3>1, AllOrMore
    <3>3. /\ Len(ThisPage) = PageLength(pages * PageSize, PageSize, Len(held))
          /\ Len(raw \o got) = Upto(pages + 1) /\ Begins(raw \o got)
      BY <1>3, <3>2, PageContinues
    <3>4. Len(raw') = Upto(pages)' /\ Begins(raw)'
      BY <1>1, <3>3 DEF Upto, Begins
    <3>5. biggest' <= PageSize
      <4>1. biggest <= PageSize
        BY <3>2 DEF Collected
      <4>2. Len(got) <= PageSize
        <5>1. pages * PageSize \in Nat /\ Len(held) \in Nat /\ PageSize \in Nat
          BY HeldType, HttpNumbers DEF HttpInv, Numbers
        <5>. DEFINE a == pages * PageSize
                    h == Len(held)
        <5>. HIDE DEF a, h
        <5>2. PageLength(a, PageSize, h) <= PageSize
          BY <5>1 DEF PageLength, a, h
        <5>. QED
          BY <1>4, <3>3, <5>2 DEF a, h
      <4>. QED
        BY <1>6, <4>1, <4>2
    <3>. QED
      BY <1>1, <1>3, <3>4, <3>5 DEF Collected
  <2>2. pages' > 0 /\ pages' # 0
    BY <1>1, HttpNumbers DEF HttpInv, Numbers
  <2>. QED
    BY <1>1, <1>7, <2>1, <2>2 DEF HttpInv, Pages
<1>14. AnswerIsExact'
  BY <1>1 DEF HttpInv, AnswerIsExact
<1>. QED
  BY <1>2, <1>8, <1>9, <1>10, <1>11, <1>12, <1>13, <1>14 DEF HttpInv

(* A page arrives: another is asked for, or the call ends. *)
LEMMA ArrivalKeeps ==
    ASSUME HttpInv, PageArrives
    PROVE  HttpInv'
<1>1. PICK r \in PageResponses :
        /\ Honest(r) /\ ~Unreadable(r.shape)
        /\ IF HasNext(r, Len(Records(r.shape))) /\ ~Follows(r.link) THEN Raise("error", FALSE)
           ELSE IF ~HasNext(r, Len(Records(r.shape))) \/ pages + 1 >= MaxPages
           THEN Answer(raw \o Records(r.shape), HasNext(r, Len(Records(r.shape))), FirstStatus(200))
           ELSE NextPage(r, Records(r.shape))
  BY DEF PageArrives
<1>. DEFINE got == Records(r.shape)
            more == HasNext(r, Len(got))
<1>2. at = "sending" /\ session # "preflight"
  BY DEF PageArrives
<1>. HIDE DEF got, more
<1>3. IF more /\ ~Follows(r.link) THEN Raise("error", FALSE)
      ELSE IF ~more \/ pages + 1 >= MaxPages THEN Answer(raw \o got, more, FirstStatus(200))
      ELSE NextPage(r, got)
  BY <1>1 DEF got, more
<1>4. CASE Raise("error", FALSE)
  BY <1>4, RaiseKeeps
<1>5. CASE Answer(raw \o got, more, FirstStatus(200))
  <2>1. ASSUME 0 \notin Range(raw \o got), held = atStart
        PROVE  IF more THEN IsPrefix(raw \o got, atStart) ELSE raw \o got = atStart
    BY <1>1, <1>2, <2>1, AllOrMore DEF got, more
  <2>. QED
    BY <1>5, <2>1, AnswerKeeps
<1>6. CASE more /\ Follows(r.link) /\ pages + 1 < MaxPages /\ NextPage(r, got)
  BY <1>1, <1>2, <1>6, NextPageKeeps DEF got, more
<1>7. pages + 1 >= MaxPages \/ pages + 1 < MaxPages
  BY HttpNumbers DEF HttpInv, Numbers
<1>. QED
  BY <1>3, <1>4, <1>5, <1>6, <1>7
-----------------------------------------------------------------------------
(* Time, the pipeline, and the whole adapter. *)

(* Time passes: sleeps and slots run down together. *)
LEMMA TickKeeps ==
    ASSUME HttpInv, HttpTick
    PROVE  HttpInv'
<1>1. /\ at # "request" /\ budget' = Less(budget) /\ slotIn' = Less(slotIn) /\ wake' = Less(wake)
      /\ sinceSend' = Min({sinceSend + 1, Gap})
      /\ UNCHANGED <<style, enumerates, session, op, at, attempt, cut, overdue, to, pages,
                     biggest, raw, status, outcome, held, atStart>>
  BY DEF HttpTick, config, callVars, pageVars, storeVars
<1>2. slotIn \in 0..Gap /\ wake \in Nat /\ sinceSend \in 0..Gap /\ Gap \in Nat
  BY HttpNumbers DEF HttpInv, Numbers
<1>3. /\ slotIn' = IF slotIn = 0 THEN 0 ELSE slotIn - 1
      /\ wake' = IF wake = 0 THEN 0 ELSE wake - 1
      /\ sinceSend' = IF sinceSend + 1 <= Gap THEN sinceSend + 1 ELSE Gap
  <2>1. slotIn # None /\ wake # None
    BY <1>2, HttpNumbers
  <2>2. sinceSend + 1 \in Nat
    BY <1>2
  <2>3. Min({sinceSend + 1, Gap}) = IF sinceSend + 1 <= Gap THEN sinceSend + 1 ELSE Gap
    BY <1>2, <2>2, MinMaxOfTwo
  <2>. QED
    BY <1>1, <2>1, <2>3 DEF Less
<1>4. Numbers'
  <2>1. slotIn' \in 0..Gap /\ wake' \in Nat /\ sinceSend' \in 0..Gap
    BY <1>2, <1>3
  <2>. QED
    BY <1>1, <2>1 DEF HttpInv, Numbers
<1>5. Words' /\ Flags'
  BY <1>1 DEF HttpInv, Words, Flags
<1>6. Budgeted' /\ (budget = None => budget' = None) /\ (budget = 0 => budget' = 0)
  <2>1. CASE budget = None
    BY <1>1, <2>1 DEF Less, Budgeted
  <2>2. CASE budget \in Nat
    <3>1. budget' = IF budget = 0 THEN 0 ELSE budget - 1
      BY <1>1, <2>2, HttpNumbers DEF Less
    <3>2. budget' \in Nat
      BY <2>2, <3>1
    <3>. QED
      BY <2>2, <3>1, <3>2, HttpNumbers DEF Budgeted
  <2>. QED
    BY <2>1, <2>2 DEF HttpInv, Budgeted
<1>7. InCall'
  BY <1>1 DEF HttpInv, InCall
<1>8. Calls'
  BY <1>1, <1>6 DEF HttpInv, Calls
<1>9. Slots'
  <2>1. slotIn' + sinceSend' >= Gap
    BY <1>2, <1>3 DEF HttpInv, Slots
  <2>2. wake >= slotIn => wake' >= slotIn'
    BY <1>2, <1>3
  <2>. QED
    BY <1>1, <2>1, <2>2 DEF HttpInv, Slots
<1>10. Lateness'
  BY <1>1, <1>6 DEF HttpInv, Lateness
<1>11. to' = "home" /\ Lists' /\ Pages' /\ AnswerIsExact'
  <2>1. at' # "idle" \/ pages = 0
    BY <1>1 DEF HttpInv, Pages
  <2>. QED
    BY <1>1, <2>1, SamePages
<1>. QED
  BY <1>4, <1>5, <1>6, <1>7, <1>8, <1>9, <1>10, <1>11 DEF HttpInv

(* A record filed during a call: what was collected is compared with a     *)
(* server that stayed the same, and this one did not.                      *)
LEMMA FilingKeeps ==
    ASSUME HttpInv, ServerFiles
    PROVE  HttpInv'
<1>1. /\ Len(held) < MaxHeld /\ held' = Append(held, Len(held) + 1)
      /\ UNCHANGED <<style, enumerates, session, op, at, budget, slotIn, wake, sinceSend, attempt,
                     cut, overdue, to, pages, biggest, raw, status, outcome, atStart>>
  BY DEF ServerFiles, config, timeVars, callVars, pageVars
<1>2. held \in Seq(1..MaxHeld) /\ Len(held) \in Nat /\ Len(atStart) \in Nat
  BY HeldType DEF HttpInv, Lists
<1>3. Len(held) + 1 \in 1..MaxHeld
  BY <1>1, <1>2, HttpNumbers
<1>4. held' \in Seq(1..MaxHeld) /\ Len(held') = Len(held) + 1
  BY <1>1, <1>2, <1>3
<1>5. Len(atStart) <= Len(held)
  BY DEF HttpInv, Pages
<1>6. held' # atStart'
  BY <1>1, <1>2, <1>4, <1>5
<1>7. Numbers' /\ Words' /\ Flags' /\ Budgeted'
  <2>1. Numbers'
    BY <1>1 DEF HttpInv, Numbers
  <2>. QED
    BY <1>1, <2>1 DEF HttpInv, Words, Flags, Budgeted
<1>8. Lists'
  BY <1>1, <1>4 DEF HttpInv, Lists
<1>9. InCall'
  BY <1>1 DEF HttpInv, InCall
<1>10. Calls' /\ Slots' /\ Lateness' /\ to' = "home"
  BY <1>1 DEF HttpInv, Calls, Slots, Lateness
<1>11. Pages'
  <2>1. Len(held') <= MaxHeld /\ Len(atStart') <= Len(held')
    BY <1>1, <1>2, <1>4, <1>5, HttpNumbers
  <2>. QED
    BY <1>1, <1>6, <2>1 DEF HttpInv, Pages
<1>12. AnswerIsExact'
  BY <1>1 DEF HttpInv, AnswerIsExact
<1>. QED
  BY <1>7, <1>8, <1>9, <1>10, <1>11, <1>12 DEF HttpInv

(* The adapter as it is built. *)
LEMMA HttpStart ==
    ASSUME HttpInit
    PROVE  HttpInv
<1>1. PICK n \in 0..MaxHeld : held = [i \in 1..n |-> i]
  BY DEF HttpInit
<1>2. n \in Nat /\ n <= MaxHeld
  BY <1>1, HttpNumbers
<1>3. held \in [1..n -> 1..MaxHeld]
  BY <1>1, <1>2, HttpNumbers
<1>4. held \in Seq(1..MaxHeld) /\ Len(held) = n
  <2>1. held \in Seq(1..MaxHeld)
    BY <1>2, <1>3, SeqDef, Zenon
  <2>2. DOMAIN held = 1..n
    BY <1>3
  <2>. QED
    BY <1>2, <2>1, <2>2
<1>5. /\ session = "preflight" /\ op = None /\ at = "idle"
      /\ budget = None /\ slotIn = 0 /\ wake = 0 /\ sinceSend = Gap
      /\ attempt = 0 /\ cut = FALSE /\ overdue = 0
      /\ to = "home" /\ pages = 0 /\ biggest = 0 /\ raw = <<>> /\ status = 0
      /\ outcome = NoOutcome /\ atStart = held
  BY DEF HttpInit
<1>6. Numbers
  BY <1>5, HttpNumbers DEF Numbers
<1>7. Lists
  BY <1>4, <1>5 DEF Lists
<1>8. Words /\ Flags
  BY <1>5, NoOutcomeIsNone DEF HttpInit, Words, Flags
<1>9. Budgeted /\ InCall
  BY <1>5 DEF Budgeted, InCall
<1>10. Calls
  BY <1>5 DEF Calls
<1>11. Slots
  BY <1>5, HttpNumbers DEF Slots
<1>12. Lateness
  BY <1>5 DEF Lateness
<1>13. Pages
  <2>1. \A k \in Nat : 0 * k = 0
    OBVIOUS
  <2>2. pages * PageSize = 0 /\ Len(held) \in Nat /\ Len(raw) = 0
    BY <1>2, <1>4, <1>5, <2>1, HttpNumbers
  <2>3. Upto(pages) = 0
    BY <2>2 DEF Upto, Least
  <2>4. Collected
    BY <1>5, <2>2, <2>3, HttpNumbers DEF Collected, Begins, Agrees
  <2>. QED
    BY <1>2, <1>4, <1>5, <2>4 DEF Pages
<1>14. AnswerIsExact
  BY <1>5, NoOutcomeIsNone DEF AnswerIsExact
<1>. QED
  BY <1>5, <1>6, <1>7, <1>8, <1>9, <1>10, <1>11, <1>12, <1>13, <1>14 DEF HttpInv

(* No step of the adapter. *)
LEMMA HttpStays ==
    ASSUME HttpInv, UNCHANGED httpVars
    PROVE  HttpInv'
<1>1. UNCHANGED <<style, enumerates, session, op, at, budget, slotIn, wake, sinceSend, attempt,
                  cut, overdue, to, pages, biggest, raw, status, outcome, held, atStart>>
  BY DEF httpVars, config, timeVars, callVars, pageVars, storeVars
<1>2. Numbers' /\ Words' /\ Flags' /\ Budgeted'
  <2>1. Numbers'
    BY <1>1 DEF HttpInv, Numbers
  <2>. QED
    BY <1>1, <2>1 DEF HttpInv, Words, Flags, Budgeted
<1>3. InCall'
  BY <1>1 DEF HttpInv, InCall
<1>4. Calls' /\ Slots' /\ Lateness'
  BY <1>1 DEF HttpInv, Calls, Slots, Lateness
<1>5. to' = "home" /\ Lists' /\ Pages' /\ AnswerIsExact'
  <2>1. at' # "idle" \/ pages = 0
    BY <1>1 DEF HttpInv, Pages
  <2>. QED
    BY <1>1, <2>1, SamePages
<1>. QED
  BY <1>2, <1>3, <1>4, <1>5 DEF HttpInv

(* Every step of the adapter keeps its invariant. *)
LEMMA HttpStep ==
    ASSUME HttpInv, HttpNext
    PROVE  HttpInv'
BY CallKeeps, BetweenCalls, RequestKeeps, SendKeeps, ResponseKeeps, MissingKeeps, ArrivalKeeps,
   TickKeeps, FilingKeeps, Zenon DEF HttpNext, RequestSteps, ResponseSteps
-----------------------------------------------------------------------------
(* The adapter a table is built into. *)

(* A lookup of a table that was accepted does not ask the same for all. *)
LEMMA AcceptedLookups ==
    ASSUME NEW t \in HttpTables, Prepared(t) = "http"
    PROVE  Lookup(t) \in {"names the tag", "bare"}
<1>1. t.kind = "http" /\ parse_readback_config(t)
  BY DEF HttpTables, Prepared
<1>2. t.method \in {"GET", "POST"} /\ t.query # "without tag" /\ t.body # "without tag"
  BY <1>1 DEF parse_readback_config, QueryAccepted, PlaceholderGiven
<1>. QED
  BY <1>2 DEF Lookup

(* A run starts in the invariant. *)
LEMMA AdaptersStart == AdaptersInit => AdaptersInv
BY HttpStart DEF AdaptersInit, AdaptersInv, Built, HttpInit

(* Every step of a run keeps it. *)
LEMMA AdaptersStep == AdaptersInv /\ [AdaptersNext]_adapterVars => AdaptersInv'
<1>. SUFFICES ASSUME AdaptersInv, [AdaptersNext]_adapterVars PROVE AdaptersInv'
  OBVIOUS
<1>0. HttpInv /\ Built
  BY DEF AdaptersInv
<1>1. CASE BuildHttp
  <2>1. PICK t \in HttpTables : Prepared(t) = "http" /\ asks' = Lookup(t)
    BY <1>1 DEF BuildHttp
  <2>2. built' = "http" /\ UNCHANGED httpVars
    BY <1>1 DEF BuildHttp
  <2>3. Built'
    BY <2>1, <2>2, AcceptedLookups DEF Built
  <2>. QED
    BY <1>0, <2>2, <2>3, HttpStays DEF AdaptersInv
<1>2. CASE BuildMailbox \/ BuildCustom \/ Refuse
  <2>1. built = "nothing" /\ built' \in {"mailbox", "custom", "refused"} /\ UNCHANGED httpVars
    BY <1>2 DEF BuildMailbox, BuildCustom, Refuse
  <2>2. Built'
    BY <1>0, <2>1 DEF Built, httpVars
  <2>. QED
    BY <1>0, <2>1, <2>2, HttpStays DEF AdaptersInv
<1>3. CASE HttpRuns
  <2>1. built = "http" /\ HttpNext /\ UNCHANGED <<built, asks>>
    BY <1>3 DEF HttpRuns
  <2>2. Built'
    BY <1>0, <2>1 DEF Built
  <2>. QED
    BY <1>0, <2>1, <2>2, HttpStep DEF AdaptersInv
<1>4. CASE MailboxRuns \/ Over \/ UNCHANGED adapterVars
  <2>1. UNCHANGED <<built, asks, httpVars>>
    BY <1>4 DEF MailboxRuns, Over, adapterVars
  <2>2. Built'
    BY <1>0, <2>1 DEF Built, httpVars
  <2>. QED
    BY <1>0, <2>1, <2>2, HttpStays DEF AdaptersInv
<1>. QED
  BY <1>1, <1>2, <1>3, <1>4 DEF AdaptersNext

(* The inductive invariant of the adapters. *)
THEOREM AdaptersInvariant == AdaptersSpec => []AdaptersInv
BY AdaptersStart, AdaptersStep, PTL DEF AdaptersSpec

(* What the http adapter asks and answers is right, for every page size,   *)
(* page limit, store, retry and rate setting and deadline: a lookup names  *)
(* its tag, an answer is what an unchanged server holds or is marked as    *)
(* partial, and no request leaves the configured origin.                   *)
THEOREM LookupsAreRightHolds == AdaptersSpec => []LookupsAreRight
<1>1. AdaptersInv => LookupsAreRight
  <2>. SUFFICES ASSUME AdaptersInv PROVE LookupsAreRight
    OBVIOUS
  <2>1. HttpTypeOK /\ AnswerIsExact /\ CredentialsStayHome
    BY PartsAreTheType DEF AdaptersInv, HttpInv, CredentialsStayHome
  <2>2. LookupsNameTheirTag
    BY DEF AdaptersInv, Built, LookupsNameTheirTag
  <2>. QED
    BY <2>1, <2>2 DEF LookupsAreRight, AdaptersTypeOK, AdaptersInv, Built
<1>. QED
  BY <1>1, AdaptersInvariant, PTL

(* Whatever is retried, paged and slept for, one request of a call at most *)
(* is sent with the budget spent: the deadline is looked at before each.   *)
THEOREM AtMostOneOverdueHolds == AdaptersSpec => []AtMostOneOverdue
<1>1. AdaptersInv => AtMostOneOverdue
  BY DEF AdaptersInv, HttpInv, Lateness, AtMostOneOverdue
<1>. QED
  BY <1>1, AdaptersInvariant, PTL

(* Two requests are never closer than the rate allows. *)
THEOREM RequestsArePacedHolds == AdaptersSpec => RequestsArePaced
<1>1. AdaptersInv => [Send => sinceSend >= Gap]_httpVars
  BY SendKeeps DEF AdaptersInv
<1>. QED
  BY <1>1, AdaptersInvariant, PTL DEF RequestsArePaced
=============================================================================
