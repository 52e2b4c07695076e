---------------------------- MODULE SenderProofs ----------------------------
(***************************************************************************)
(* What a load run's sender tells of its requests and connections, for any *)
(* number of worker threads and requests.                                  *)
(***************************************************************************)
EXTENDS Sender, FiniteSetTheorems, TLAPS

Clients == [has : BOOLEAN, used : BOOLEAN, sock : {"none", "fresh", "carried", "dropped"},
            opened : Nat, reconnects : Nat]

Results == {None, "answered", "error", "connect failed"}

Types ==
    /\ main \in {"running", "closing", "over"}
    /\ known \subseteq Threads
    /\ toClose \subseteq known
    /\ client \in [Threads -> Clients]
    /\ pc \in [Threads -> {"idle", "connect", "send", "capture", "request", "response"}]
    /\ job \in [Threads -> Requests \cup {None}]
    /\ attempt \in [Threads -> 0..1]
    /\ reused \in [Threads -> BOOLEAN]
    /\ delivered \in [Requests -> Nat]
    /\ firstOn \in [Requests -> {"none", "fresh", "carried", "dropped"}]
    /\ accepted \in Nat
    /\ result \in [Requests -> Results]
    /\ stragglers \subseteq Requests

(* A request is in the hands of one thread at most, and has no result yet. *)
OwnerOf(t) ==
    /\ pc[t] = "idle" <=> job[t] = None
    /\ job[t] # None => result[job[t]] = None /\ t \in known
    /\ job[t] = None => attempt[t] = 0

OneOwner ==
    /\ \A t \in Threads : OwnerOf(t)
    /\ \A t, u \in Threads : job[t] = job[u] /\ job[t] # None => t = u

(* What is in hand while main closes was in hand when it began. *)
InHand ==
    /\ main # "running" => \A t \in Threads : job[t] # None => job[t] \in stragglers
    /\ main = "running" => stragglers = {} /\ toClose = {}
    /\ main # "over" => summary = None
    /\ main = "over" => toClose = {}

(* A request in hand was delivered at most once per attempt, and unless    *)
(* main is closing the client, a retry is of one that went out on a        *)
(* connection that had carried another.                                    *)
DeliveryOf(t) ==
    job[t] # None =>
        /\ delivered[job[t]] <= attempt[t] + (IF pc[t] = "response" THEN 1 ELSE 0)
        /\ attempt[t] = 0 /\ pc[t] # "response" => firstOn[job[t]] = "none"
        /\ attempt[t] = 0 /\ pc[t] = "response" /\ reused[t] /\ delivered[job[t]] > 0
              /\ job[t] \notin stragglers => firstOn[job[t]] = "carried"
        /\ attempt[t] = 1 /\ delivered[job[t]] > 0 /\ job[t] \notin stragglers
              => firstOn[job[t]] = "carried" \/ (pc[t] = "response" /\ delivered[job[t]] = 1)
        /\ pc[t] = "connect" => attempt[t] = 0

Deliveries ==
    /\ \A t \in Threads : DeliveryOf(t)
    /\ \A r \in Requests :
          result[r] = None /\ (\A t \in Threads : job[t] # r) =>
              delivered[r] = 0 /\ firstOn[r] = "none"

(* Until main closes it underneath, a client has a connection exactly when *)
(* it has a socket, and one it used before has carried a request.          *)
Undisturbed == main = "running" \/ stragglers = {}

ConnectionOf(t) ==
    /\ t \notin known => client[t] = FreshClient
    /\ client[t].reconnects <= client[t].opened
    /\ client[t].has \/ pc[t] \in {"request", "response"}
          => client[t].reconnects < client[t].opened
    /\ Undisturbed =>
          /\ client[t].has <=> client[t].sock # "none"
          /\ client[t].has /\ client[t].used => client[t].sock \in {"carried", "dropped"}
          /\ pc[t] \in {"capture", "request", "response"} => client[t].has
          /\ pc[t] \in {"request", "response"} => (reused[t] <=> client[t].used)
    /\ main # "running" /\ stragglers = {} /\ t \notin toClose => client[t].sock = "none"

Connections == \A t \in Threads : ConnectionOf(t)

(* While nobody closes clients in use, their counters are what the server  *)
(* accepted.                                                               *)
Counts ==
    /\ IsFiniteSet(Counted(opened))
    /\ Undisturbed => Cardinality(Counted(opened)) = accepted

SenderInv ==
    /\ Types
    /\ OneOwner
    /\ InHand
    /\ Deliveries
    /\ Connections
    /\ Counts
    /\ TwiceOnlyOnAReusedConnection
    /\ ResultsAreTrue
    /\ SummaryIsTrue
-----------------------------------------------------------------------------
(* PersistentHttpClient.close and _open. *)
LEMMA ClosedClient ==
    ASSUME NEW c \in Clients
    PROVE  /\ Closed(c) \in Clients
           /\ Closed(c).has = FALSE
           /\ Closed(c).used = c.used
           /\ Closed(c).opened = c.opened
           /\ Closed(c).reconnects = c.reconnects
           /\ Closed(c).sock = IF c.has THEN "none" ELSE c.sock
BY DEF Clients, Closed

(* A client after a connect. *)
LEMMA OpenedClient ==
    ASSUME NEW c \in Clients
    PROVE  /\ Opened(c) \in Clients
           /\ Opened(c).has = TRUE
           /\ Opened(c).used = FALSE
           /\ Opened(c).opened = c.opened + 1
           /\ Opened(c).reconnects = c.reconnects
           /\ Opened(c).sock = "fresh"
<1>. DEFINE n == c.opened + 1
<1>1. n \in Nat
  BY DEF Clients
<1>2. Opened(c) = [c EXCEPT !.has = TRUE, !.used = FALSE, !.sock = "fresh", !.opened = n]
  BY DEF Opened
<1>. HIDE DEF n
<1>3. Opened(c) = [has |-> TRUE, used |-> FALSE, sock |-> "fresh",
                   opened |-> n, reconnects |-> c.reconnects]
  BY <1>2, Zenon DEF Clients
<1>4. Opened(c) \in Clients
  BY <1>1, <1>3 DEF Clients
<1>. QED
  BY <1>3, <1>4 DEF n

(* What a step of thread t leaves alone: the other threads, the requests   *)
(* in their hands, and the main thread.                                    *)
Frame(t) ==
    /\ UNCHANGED <<main, toClose, summary, stragglers, known>>
    /\ \A u \in Threads : u # t =>
          /\ client'[u] = client[u] /\ pc'[u] = pc[u] /\ job'[u] = job[u]
          /\ attempt'[u] = attempt[u] /\ reused'[u] = reused[u]
    /\ \A r \in Requests : r # job[t] =>
          delivered'[r] = delivered[r] /\ firstOn'[r] = firstOn[r] /\ result'[r] = result[r]
    /\ job[t] # None /\ job[t] \in Requests /\ t \in known
    /\ job'[t] = job[t] \/ (job'[t] = None /\ result'[job[t]] # None)

(* The thread's request ends. *)
Ends(t, how) ==
    /\ result'[job[t]] = how
    /\ pc'[t] = "idle" /\ job'[t] = None /\ attempt'[t] = 0 /\ reused'[t] = FALSE

(* A request that ends touches its own thread and result only. *)
LEMMA FinishEnds ==
    ASSUME Types, NEW t \in Threads, job[t] # None, NEW how, Finish(t, how)
    PROVE  /\ Ends(t, how)
           /\ result' = [result EXCEPT ![job[t]] = how]
           /\ \A u \in Threads : u # t => /\ pc'[u] = pc[u] /\ job'[u] = job[u]
                                          /\ attempt'[u] = attempt[u] /\ reused'[u] = reused[u]
           /\ \A r \in Requests : r # job[t] => result'[r] = result[r]
           /\ pc' \in [Threads -> {"idle", "connect", "send", "capture", "request", "response"}]
           /\ job' \in [Threads -> Requests \cup {None}]
           /\ attempt' \in [Threads -> 0..1]
           /\ reused' \in [Threads -> BOOLEAN]
           /\ how \in Results => result' \in [Requests -> Results]
<1>1. /\ result' = [result EXCEPT ![job[t]] = how]
      /\ pc' = [pc EXCEPT ![t] = "idle"]
      /\ job' = [job EXCEPT ![t] = None]
      /\ attempt' = [attempt EXCEPT ![t] = 0]
      /\ reused' = [reused EXCEPT ![t] = FALSE]
  BY DEF Finish, Goto
<1>2. job[t] \in Requests
  BY DEF Types
<1>3. Ends(t, how)
  BY <1>1, <1>2 DEF Ends, Types
<1>4. reused' \in [Threads -> BOOLEAN]
  BY <1>1 DEF Types
<1>5. /\ pc' \in [Threads -> {"idle", "connect", "send", "capture", "request", "response"}]
      /\ job' \in [Threads -> Requests \cup {None}]
      /\ attempt' \in [Threads -> 0..1]
  BY <1>1 DEF Types
<1>. QED
  BY <1>1, <1>2, <1>3, <1>4, <1>5 DEF Types

(* What is said of one request, whoever has it. *)
Told(r) ==
    /\ delivered[r] <= 2
    /\ delivered[r] = 2 /\ r \notin stragglers => firstOn[r] = "carried"
    /\ result[r] = "answered" => delivered[r] > 0
    /\ result[r] = "connect failed" => delivered[r] = 0

(* The properties of results, request by request. *)
LEMMA AllTold ==
    (\A r \in Requests : Told(r)) <=> TwiceOnlyOnAReusedConnection /\ ResultsAreTrue
BY DEF Told, TwiceOnlyOnAReusedConnection, ResultsAreTrue

(* A step of one thread keeps the invariant when it keeps that thread's    *)
(* part of it, its request's, and the count of connections.                *)
LEMMA FrameKeeps ==
    ASSUME SenderInv, NEW t \in Threads, Frame(t), Types', OwnerOf(t)', DeliveryOf(t)',
           ConnectionOf(t)', NEW r0 \in Requests, r0 = job[t], Told(r0)', Counts'
    PROVE  SenderInv'
<1>1. OneOwner'
  <2>1. ASSUME NEW u \in Threads, u # t PROVE OwnerOf(u)'
    <3>1. job[u] # None => job[u] # job[t] /\ job[u] \in Requests
      BY <2>1 DEF SenderInv, OneOwner, Types
    <3>. QED
      BY <2>1, <3>1 DEF SenderInv, OneOwner, OwnerOf, Frame
  <2>2. ASSUME NEW u \in Threads, NEW v \in Threads, job'[u] = job'[v], job'[u] # None
        PROVE  u = v
    BY <2>2 DEF SenderInv, OneOwner, Frame
  <2>. QED
    BY <2>1, <2>2 DEF OneOwner
<1>2. InHand'
  BY DEF SenderInv, InHand, Frame
<1>3. Deliveries'
  <2>1. ASSUME NEW u \in Threads, u # t PROVE DeliveryOf(u)'
    <3>1. job[u] # None => job[u] # job[t] /\ job[u] \in Requests
      BY <2>1 DEF SenderInv, OneOwner, Types
    <3>2. DeliveryOf(u)
      BY DEF SenderInv, Deliveries
    <3>. QED
      BY <2>1, <3>1, <3>2 DEF DeliveryOf, Frame
  <2>2. ASSUME NEW r \in Requests, result'[r] = None, \A u \in Threads : job'[u] # r
        PROVE  delivered'[r] = 0 /\ firstOn'[r] = "none"
    <3>1. r # job[t]
      BY <2>2 DEF Frame
    <3>2. \A u \in Threads : job[u] # r
      BY <2>2, <3>1 DEF Frame
    <3>. QED
      BY <2>2, <3>1, <3>2 DEF Frame, SenderInv, Deliveries
  <2>. QED
    BY <2>1, <2>2 DEF Deliveries
<1>4. Connections'
  <2>1. ASSUME NEW u \in Threads, u # t PROVE ConnectionOf(u)'
    BY <2>1 DEF SenderInv, Connections, ConnectionOf, Undisturbed, Frame
  <2>. QED
    BY <2>1 DEF Connections
<1>5. \A r \in Requests : Told(r)'
  <2>1. ASSUME NEW r \in Requests, r # job[t] PROVE Told(r)'
    BY <2>1, AllTold DEF SenderInv, Told, Frame
  <2>. QED
    BY <2>1
<1>6. TwiceOnlyOnAReusedConnection' /\ ResultsAreTrue'
  BY <1>5 DEF Told, TwiceOnlyOnAReusedConnection, ResultsAreTrue
<1>7. SummaryIsTrue'
  <2>1. main = "over" => stragglers # {}
    BY DEF Frame, SenderInv, InHand
  <2>2. main # "over" => summary = None
    BY DEF SenderInv, InHand
  <2>. QED
    BY <2>1, <2>2 DEF SummaryIsTrue, Frame
<1>. QED
  BY <1>1, <1>2, <1>3, <1>4, <1>6, <1>7 DEF SenderInv

(* The count of connections, when no client opens one. *)
LEMMA CountsKept ==
    ASSUME Counts, UNCHANGED <<main, stragglers, known, accepted>>,
           \A u \in known : client'[u].opened = client[u].opened
    PROVE  Counts'
<1>1. opened' = opened
  BY DEF opened
<1>. QED
  BY <1>1 DEF Counts, Undisturbed, Counted

(* One client opens one connection more. *)
LEMMA CountsOneMore ==
    ASSUME Types, Counts, NEW t \in known, UNCHANGED <<main, stragglers, known>>,
           client'[t].opened = client[t].opened + 1, accepted' = accepted + 1,
           \A u \in known : u # t => client'[u].opened = client[u].opened
    PROVE  Counts'
<1>. DEFINE n == client[t].opened
            S == Counted(opened)
            e == <<t, n + 1>>
<1>1. n \in Nat /\ \A u \in known : client[u].opened \in Nat
  BY DEF Types, Clients
<1>2. /\ opened = [u \in known |-> client[u].opened]
      /\ opened' = [u \in known |-> client'[u].opened]
  BY DEF opened
<1>3. \A x : x \in S <=> \E u \in known : \E i \in 1..client[u].opened : x = <<u, i>>
  BY <1>2 DEF Counted
<1>4. \A x : x \in S' <=> \E u \in known : \E i \in 1..client'[u].opened : x = <<u, i>>
  BY <1>2 DEF Counted
<1>. HIDE DEF S
<1>5. e \notin S
  BY <1>1, <1>3
<1>6. S' = S \cup {e}
  <2>1. ASSUME NEW x \in S PROVE x \in S'
    <3>0. PICK u \in known : \E i \in 1..client[u].opened : x = <<u, i>>
      BY <1>3
    <3>1. PICK i \in 1..client[u].opened : x = <<u, i>>
      BY <3>0
    <3>2. i \in 1..client'[u].opened
      BY <1>1
    <3>. QED
      BY <3>1, <3>2, <1>4
  <2>2. e \in S'
    BY <1>1, <1>4
  <2>3. ASSUME NEW x \in S', x # e PROVE x \in S
    <3>0. PICK u \in known : \E i \in 1..client'[u].opened : x = <<u, i>>
      BY <1>4
    <3>1. PICK i \in 1..client'[u].opened : x = <<u, i>>
      BY <3>0
    <3>2. i \in 1..client[u].opened
      BY <1>1, <2>3, <3>1
    <3>. QED
      BY <3>1, <3>2, <1>3
  <2>. QED
    BY <2>1, <2>2, <2>3
<1>7. IsFiniteSet(S)
  BY DEF Counts, S
<1>8. IsFiniteSet(S') /\ Cardinality(S') = Cardinality(S) + 1
  BY <1>5, <1>6, <1>7, FS_AddElement
<1>. QED
  BY <1>8 DEF Counts, S, Undisturbed

-----------------------------------------------------------------------------
(* A step of thread t, as its effect on the thread's own record of the     *)
(* client, on where it is and on its request.                              *)

(* A thread makes its client, or connects it. *)
LEMMA ConnectKeeps ==
    ASSUME SenderInv, NEW t \in Threads, Connect(t) \/ Open(t)
    PROVE  SenderInv'
<1>. DEFINE c == client[t]
            r == job[t]
<1>0. /\ client \in [Threads -> Clients] /\ c \in Clients
      /\ r \in Requests /\ t \in known /\ pc[t] \in {"connect", "send"}
  BY DEF Connect, Open, SenderInv, Types, OneOwner, OwnerOf
<1>1. /\ client' = [client EXCEPT ![t] = Opened(c)]
      /\ accepted' = accepted + 1
      /\ pc' = [pc EXCEPT ![t] = IF pc[t] = "connect" THEN "send" ELSE "capture"]
      /\ UNCHANGED <<main, toClose, summary, stragglers, known, failures, job, attempt,
                     reused, delivered, firstOn, result>>
  BY DEF Connect, Open, Goto, mainVars
<1>2. /\ client'[t] = Opened(c)
      /\ pc'[t] = IF pc[t] = "connect" THEN "send" ELSE "capture"
      /\ \A u \in Threads : u # t => client'[u] = client[u] /\ pc'[u] = pc[u]
  BY <1>0, <1>1 DEF SenderInv, Types
<1>3. Types'
  <2>1. Opened(c) \in Clients
    BY <1>0, OpenedClient
  <2>2. client' \in [Threads -> Clients]
    BY <1>0, <1>1, <2>1
  <2>3. pc' \in [Threads -> {"idle", "connect", "send", "capture", "request", "response"}]
    BY <1>1 DEF SenderInv, Types
  <2>. QED
    BY <1>1, <2>2, <2>3 DEF SenderInv, Types
<1>4. Frame(t)
  BY <1>0, <1>1, <1>2, SenderAssumption DEF Frame
<1>5. OwnerOf(t)'
  BY <1>0, <1>1, <1>2 DEF SenderInv, OneOwner, OwnerOf
<1>6. DeliveryOf(t)'
  BY <1>0, <1>1, <1>2 DEF SenderInv, Deliveries, DeliveryOf
<1>7. ConnectionOf(t)'
  <2>1. c.reconnects \in Nat /\ c.opened \in Nat /\ c.reconnects <= c.opened
    BY <1>0 DEF SenderInv, Connections, ConnectionOf, Clients
  <2>2. Undisturbed' => main = "running"
    BY <1>0, <1>1, SenderAssumption DEF SenderInv, InHand, Undisturbed
  <2>3. /\ client'[t].has /\ ~client'[t].used /\ client'[t].sock = "fresh"
        /\ client'[t].opened = c.opened + 1 /\ client'[t].reconnects = c.reconnects
    BY <1>0, <1>2, OpenedClient
  <2>. HIDE DEF c
  <2>4. t \in known' /\ pc'[t] \notin {"request", "response"}
    BY <1>0, <1>1, <1>2
  <2>5. client'[t].reconnects < client'[t].opened /\ client'[t].reconnects <= client'[t].opened
    BY <2>1, <2>3
  <2>. QED
    BY <1>1, <2>2, <2>3, <2>4, <2>5 DEF ConnectionOf, Undisturbed
<1>8. Told(r)
  BY <1>0, AllTold DEF SenderInv
<1>9. Counts'
  <2>1. client'[t].opened = c.opened + 1
    BY <1>0, <1>2, OpenedClient
  <2>. QED
    BY <1>0, <1>1, <1>2, <2>1, CountsOneMore DEF SenderInv, Types
<1>. HIDE DEF r
<1>10. PICK r0 \in Requests : r0 = r
  BY <1>0
<1>11. Told(r0)'
  BY <1>1, <1>8, <1>10 DEF Told
<1>. QED
  BY <1>3, <1>4, <1>5, <1>6, <1>7, <1>9, <1>10, <1>11, FrameKeeps DEF r

(* A client that went through close, or that was only used: no connection  *)
(* is opened, and a socket goes with its connection.                       *)
Tidy(c, d) ==
    /\ d \in Clients
    /\ d.opened = c.opened /\ d.reconnects = c.reconnects
    /\ d.has => c.has
    /\ (c.has <=> c.sock # "none") /\ (c.has /\ c.used => c.sock \in {"carried", "dropped"})
          => (d.has <=> d.sock # "none") /\ (d.has /\ d.used => d.sock \in {"carried", "dropped"})

(* A client left alone. *)
LEMMA SameIsTidy == ASSUME NEW c \in Clients PROVE Tidy(c, c)
BY DEF Tidy

(* A client closed. *)
LEMMA ClosedIsTidy == ASSUME NEW c \in Clients PROVE Tidy(c, Closed(c))
<1>1. /\ Closed(c) \in Clients
      /\ ~Closed(c).has
      /\ Closed(c).opened = c.opened
      /\ Closed(c).reconnects = c.reconnects
      /\ c.has => Closed(c).sock = "none"
      /\ ~c.has => Closed(c).sock = c.sock
  BY ClosedClient
<1>. QED
  BY <1>1 DEF Tidy

(* The request in hand ends. *)
LEMMA EndingKeeps ==
    ASSUME SenderInv, NEW t \in Threads, job[t] # None,
           NEW how \in {"answered", "error", "connect failed"}, Finish(t, how),
           NEW d, Tidy(client[t], d), client' = [client EXCEPT ![t] = d],
           UNCHANGED <<main, toClose, summary, stragglers, known>>,
           UNCHANGED <<delivered, firstOn, accepted>>,
           how = "answered" => delivered[job[t]] > 0,
           how = "connect failed" => delivered[job[t]] = 0
    PROVE  SenderInv'
<1>. DEFINE c == client[t]
<1>0. c \in Clients /\ job[t] \in Requests /\ t \in known
  BY DEF SenderInv, Types, OneOwner, OwnerOf
<1>1. /\ Ends(t, how)
      /\ \A u \in Threads : u # t => /\ pc'[u] = pc[u] /\ job'[u] = job[u]
                                     /\ attempt'[u] = attempt[u] /\ reused'[u] = reused[u]
      /\ \A r \in Requests : r # job[t] => result'[r] = result[r]
      /\ pc' \in [Threads -> {"idle", "connect", "send", "capture", "request", "response"}]
      /\ job' \in [Threads -> Requests \cup {None}]
      /\ attempt' \in [Threads -> 0..1]
      /\ reused' \in [Threads -> BOOLEAN]
      /\ result' \in [Requests -> Results]
  BY FinishEnds DEF SenderInv, Results
<1>2. client'[t] = d /\ \A u \in Threads : u # t => client'[u] = client[u]
  BY DEF SenderInv, Types
<1>3. Types'
  <2>1. client' \in [Threads -> Clients]
    BY DEF SenderInv, Types, Tidy
  <2>. QED
    BY <1>1, <2>1 DEF SenderInv, Types
<1>4. Frame(t)
  BY <1>0, <1>1, <1>2, SenderAssumption DEF Frame, Ends
<1>5. OwnerOf(t)' /\ DeliveryOf(t)'
  BY <1>1 DEF OwnerOf, DeliveryOf, Ends
<1>6. ConnectionOf(t)'
  <2>1. ConnectionOf(t)
    BY DEF SenderInv, Connections
  <2>2. Undisturbed' => main = "running"
    BY <1>0 DEF SenderInv, InHand, Undisturbed
  <2>3. Undisturbed => (d.has <=> d.sock # "none") /\ (d.has /\ d.used => d.sock \in {"carried", "dropped"})
    BY <2>1 DEF ConnectionOf, Tidy
  <2>4. d.reconnects <= d.opened /\ (d.has => d.reconnects < d.opened)
    BY <2>1 DEF ConnectionOf, Tidy
  <2>5. pc'[t] = "idle" /\ t \in known'
    BY <1>0, <1>1 DEF Ends
  <2>. QED
    BY <1>2, <2>2, <2>3, <2>4, <2>5 DEF ConnectionOf, Undisturbed
<1>7. Counts'
  <2>1. \A u \in known : client'[u].opened = client[u].opened
    BY <1>2 DEF Tidy, SenderInv, Types
  <2>. QED
    BY <2>1, CountsKept DEF SenderInv
<1>8. PICK r0 \in Requests : r0 = job[t]
  BY <1>0
<1>9. Told(r0)'
  <2>1. Told(r0)
    BY AllTold DEF SenderInv
  <2>2. result'[r0] = how
    BY <1>1, <1>8 DEF Ends
  <2>. QED
    BY <1>8, <2>1, <2>2 DEF Told
<1>. QED
  BY <1>3, <1>4, <1>5, <1>6, <1>7, <1>8, <1>9, FrameKeeps

(* Every way a request ends. *)
LEMMA EndsKeep ==
    ASSUME SenderInv, NEW t \in Threads,
           \/ ConnectFails(t) \/ OpenFails(t) \/ Answered(t) \/ Fails(t)
           \/ Capture(t) /\ ~client[t].has
           \/ Stale(t) /\ ~Retried(t)
    PROVE  SenderInv'
<1>. DEFINE c == client[t]
<1>0. /\ client \in [Threads -> Clients] /\ c \in Clients
      /\ pc[t] # "idle" /\ job[t] # None
  BY DEF ConnectFails, OpenFails, Answered, Fails, Capture, Stale, SenderInv, Types,
     OneOwner, OwnerOf
<1>1. UNCHANGED <<main, toClose, summary, stragglers, known>>
      /\ UNCHANGED <<delivered, firstOn, accepted>>
  BY DEF ConnectFails, OpenFails, Answered, Fails, Capture, Stale, mainVars, clientVars, serverVars
<1>2. client = [client EXCEPT ![t] = c]
  BY <1>0
<1>3. CASE ConnectFails(t)
  <2>0. pc[t] = "connect" /\ delivered[job[t]] \in Nat
    BY <1>0, <1>3 DEF ConnectFails, SenderInv, Types
  <2>1. delivered[job[t]] = 0
    BY <1>0, <2>0 DEF SenderInv, Deliveries, DeliveryOf
  <2>2. Finish(t, "connect failed") /\ client' = [client EXCEPT ![t] = c]
    BY <1>2, <1>3 DEF ConnectFails
  <2>. QED
    BY <1>0, <1>1, <2>1, <2>2, SameIsTidy, EndingKeeps
<1>4. ASSUME OpenFails(t) \/ (Capture(t) /\ ~client[t].has) PROVE SenderInv'
  <2>1. Finish(t, "error") /\ client' = [client EXCEPT ![t] = c]
    BY <1>2, <1>4 DEF OpenFails, Capture, clientVars
  <2>. QED
    BY <1>0, <1>1, <2>1, SameIsTidy, EndingKeeps
<1>5. ASSUME Fails(t) \/ (Stale(t) /\ ~Retried(t)) PROVE SenderInv'
  <2>1. Finish(t, "error") /\ client' = [client EXCEPT ![t] = Closed(c)]
    BY <1>5 DEF Fails, Stale
  <2>. QED
    BY <1>0, <1>1, <2>1, ClosedIsTidy, EndingKeeps
<1>6. CASE Answered(t)
  <2>. DEFINE d == [c EXCEPT !.used = TRUE, !.sock = IF @ = "none" THEN @ ELSE "carried"]
  <2>1. PICK will_close \in BOOLEAN :
             client' = [client EXCEPT ![t] = IF will_close THEN Closed(d) ELSE d]
    BY <1>6 DEF Answered
  <2>2. /\ d \in Clients
        /\ d.opened = c.opened /\ d.reconnects = c.reconnects /\ d.has = c.has
        /\ d.sock = IF c.sock = "none" THEN "none" ELSE "carried"
    BY <1>0 DEF Clients
  <2>. HIDE DEF d
  <2>3. Tidy(c, d)
    BY <2>2 DEF Tidy
  <2>4. Tidy(c, Closed(d))
    <3>1. Tidy(d, Closed(d))
      BY <2>2, ClosedIsTidy
    <3>. QED
      BY <2>3, <3>1 DEF Tidy
  <2>5. Finish(t, "answered") /\ delivered[job[t]] > 0
    BY <1>6 DEF Answered
  <2>6. PICK e : Tidy(c, e) /\ client' = [client EXCEPT ![t] = e]
    BY <2>1, <2>3, <2>4
  <2>. QED
    BY <1>0, <1>1, <2>5, <2>6, EndingKeeps
<1>. QED
  BY <1>3, <1>4, <1>5, <1>6, Zenon

(* send has a connection, and takes conn and reused from the client. *)
LEMMA CaptureKeeps ==
    ASSUME SenderInv, NEW t \in Threads, HasConnection(t) \/ (Capture(t) /\ client[t].has)
    PROVE  SenderInv'
<1>. DEFINE c == client[t]
<1>0. /\ c \in Clients /\ pc[t] \in {"send", "capture"} /\ c.has /\ job[t] # None
      /\ job[t] \in Requests /\ t \in known
  BY DEF HasConnection, Capture, SenderInv, Types, OneOwner, OwnerOf
<1>1. /\ UNCHANGED <<main, toClose, summary, stragglers, known, client, job, attempt>>
      /\ UNCHANGED <<delivered, firstOn, accepted, result>>
      /\ pc' = [pc EXCEPT ![t] = IF pc[t] = "send" THEN "capture" ELSE "request"]
      /\ \/ pc[t] = "send" /\ UNCHANGED reused
         \/ pc[t] = "capture" /\ reused' = [reused EXCEPT ![t] = c.used]
  BY DEF HasConnection, Capture, Goto, mainVars, clientVars, serverVars
<1>2. /\ pc'[t] = IF pc[t] = "send" THEN "capture" ELSE "request"
      /\ pc[t] = "capture" => (reused'[t] <=> c.used)
      /\ \A u \in Threads : u # t => pc'[u] = pc[u] /\ reused'[u] = reused[u]
  BY <1>0, <1>1 DEF SenderInv, Types
<1>3. Types'
  <2>1. c.used \in BOOLEAN
    BY <1>0 DEF Clients
  <2>2. reused' \in [Threads -> BOOLEAN]
    BY <1>1, <2>1 DEF SenderInv, Types
  <2>3. pc' \in [Threads -> {"idle", "connect", "send", "capture", "request", "response"}]
    BY <1>1 DEF SenderInv, Types
  <2>. QED
    BY <1>1, <2>2, <2>3 DEF SenderInv, Types
<1>4. Frame(t)
  BY <1>0, <1>1, <1>2 DEF Frame
<1>5. OwnerOf(t)'
  BY <1>0, <1>1, <1>2 DEF SenderInv, OneOwner, OwnerOf
<1>6. DeliveryOf(t)'
  <2>1. pc[t] # "response" /\ pc'[t] # "response" /\ pc'[t] # "connect"
    BY <1>0, <1>2
  <2>2. DeliveryOf(t)
    BY DEF SenderInv, Deliveries
  <2>. QED
    BY <1>1, <2>1, <2>2 DEF DeliveryOf
<1>7. ConnectionOf(t)'
  <2>1. ConnectionOf(t)
    BY DEF SenderInv, Connections
  <2>2. pc'[t] = "request" => pc[t] = "capture"
    BY <1>0, <1>2
  <2>. QED
    BY <1>0, <1>1, <1>2, <2>1, <2>2 DEF ConnectionOf, Undisturbed
<1>8. Counts'
  BY <1>1, CountsKept DEF SenderInv
<1>9. PICK r0 \in Requests : r0 = job[t]
  BY <1>0
<1>10. Told(r0)'
  BY <1>1, AllTold DEF SenderInv, Told
<1>. QED
  BY <1>3, <1>4, <1>5, <1>6, <1>7, <1>8, <1>9, <1>10, FrameKeeps

(* The request goes out. *)
LEMMA RequestKeeps ==
    ASSUME SenderInv, NEW t \in Threads, Request(t)
    PROVE  SenderInv'
<1>. DEFINE c == client[t]
            r == job[t]
            sock == IF c.sock = "none" THEN "fresh" ELSE c.sock
            d == [c EXCEPT !.sock = sock]
<1>0. /\ c \in Clients /\ pc[t] = "request" /\ r # None
      /\ r \in Requests /\ t \in known
  BY DEF Request, SenderInv, Types, OneOwner, OwnerOf
<1>1. /\ UNCHANGED <<main, toClose, summary, stragglers, known, job, attempt, reused, result>>
      /\ client' = [client EXCEPT ![t].sock = sock]
      /\ accepted' = accepted + (IF c.sock = "none" THEN 1 ELSE 0)
      /\ firstOn' = [firstOn EXCEPT ![r] = IF @ = "none" THEN sock ELSE @]
      /\ delivered' = [delivered EXCEPT ![r] = IF sock = "dropped" THEN @ ELSE @ + 1]
      /\ pc' = [pc EXCEPT ![t] = "response"]
  BY DEF Request, Goto, mainVars
<1>2. /\ sock \in {"fresh", "carried", "dropped"}
      /\ d \in Clients /\ d.has = c.has /\ d.used = c.used /\ d.opened = c.opened
      /\ d.reconnects = c.reconnects /\ d.sock = sock
  BY <1>0 DEF Clients
<1>3. client' = [client EXCEPT ![t] = d]
  BY <1>1 DEF SenderInv, Types
<1>. HIDE DEF d
<1>4. /\ client'[t] = d /\ pc'[t] = "response"
      /\ \A u \in Threads : u # t => client'[u] = client[u] /\ pc'[u] = pc[u]
  BY <1>1, <1>3 DEF SenderInv, Types
<1>5. /\ delivered[r] \in Nat
      /\ delivered'[r] = IF sock = "dropped" THEN delivered[r] ELSE delivered[r] + 1
      /\ firstOn'[r] = IF firstOn[r] = "none" THEN sock ELSE firstOn[r]
      /\ \A q \in Requests : q # r => delivered'[q] = delivered[q] /\ firstOn'[q] = firstOn[q]
  BY <1>0, <1>1 DEF SenderInv, Types
<1>6. Types'
  <2>1. client' \in [Threads -> Clients]
    BY <1>2, <1>3 DEF SenderInv, Types
  <2>2. delivered' \in [Requests -> Nat]
    BY <1>0, <1>1 DEF SenderInv, Types
  <2>3. firstOn' \in [Requests -> {"none", "fresh", "carried", "dropped"}]
    BY <1>0, <1>1, <1>2 DEF SenderInv, Types
  <2>4. pc' \in [Threads -> {"idle", "connect", "send", "capture", "request", "response"}]
    BY <1>1 DEF SenderInv, Types
  <2>5. accepted' \in Nat
    BY <1>1 DEF SenderInv, Types
  <2>. QED
    BY <1>1, <2>1, <2>2, <2>3, <2>4, <2>5 DEF SenderInv, Types
<1>7. Frame(t)
  BY <1>0, <1>1, <1>4, <1>5 DEF Frame
<1>8. OwnerOf(t)'
  BY <1>0, <1>1, <1>4 DEF SenderInv, OneOwner, OwnerOf
<1>9. ConnectionOf(t)
  BY DEF SenderInv, Connections
<1>10. r \notin stragglers => main = "running"
  BY <1>0 DEF SenderInv, InHand
<1>11. r \notin stragglers /\ reused[t] => sock \in {"carried", "dropped"}
  BY <1>0, <1>9, <1>10 DEF ConnectionOf, Undisturbed
<1>. HIDE DEF sock
<1>12. DeliveryOf(t)
  BY DEF SenderInv, Deliveries
<1>13. /\ attempt[t] \in 0..1
       /\ delivered[r] <= attempt[t]
       /\ attempt[t] = 0 => firstOn[r] = "none"
       /\ attempt[t] = 1 /\ delivered[r] > 0 /\ r \notin stragglers => firstOn[r] = "carried"
  BY <1>0, <1>12 DEF DeliveryOf, SenderInv, Types
<1>. HIDE DEF r
<1>14. DeliveryOf(t)'
  <2>1. job'[t] = r
    BY <1>1 DEF r
  <2>2. delivered'[r] <= attempt[t] + 1
    BY <1>5, <1>13
  <2>3. attempt[t] = 0 /\ reused[t] /\ delivered'[r] > 0 /\ r \notin stragglers
           => firstOn'[r] = "carried"
    BY <1>5, <1>11, <1>13
  <2>4. attempt[t] = 1 /\ delivered'[r] > 0 /\ r \notin stragglers
           => firstOn'[r] = "carried" \/ delivered'[r] = 1
    BY <1>5, <1>13
  <2>. QED
    BY <1>1, <1>4, <1>5, <1>13, <2>1, <2>2, <2>3, <2>4 DEF DeliveryOf
<1>15. ConnectionOf(t)'
  <2>1. Undisturbed' => main = "running"
    BY <1>0, <1>1 DEF SenderInv, InHand, Undisturbed, r
  <2>2. main = "running" => sock = c.sock /\ c.has
    BY <1>0, <1>9 DEF ConnectionOf, Undisturbed, sock
  <2>3. main = "running" =>
          /\ d.has <=> d.sock # "none"
          /\ d.has /\ d.used => d.sock \in {"carried", "dropped"}
          /\ d.has
          /\ reused[t] <=> d.used
    BY <1>0, <1>2, <1>9, <2>2 DEF ConnectionOf, Undisturbed
  <2>4. d.reconnects < d.opened /\ d.reconnects <= d.opened
    BY <1>0, <1>2, <1>9 DEF ConnectionOf
  <2>. QED
    BY <1>0, <1>1, <1>4, <2>1, <2>3, <2>4 DEF ConnectionOf, Undisturbed
<1>16. Counts'
  <2>1. \A u \in known : client'[u].opened = client[u].opened
    BY <1>2, <1>4 DEF SenderInv, Types
  <2>2. CASE c.sock # "none"
    <3>1. accepted' = accepted
      BY <1>1, <2>2 DEF SenderInv, Types
    <3>. QED
      BY <1>1, <2>1, <3>1, CountsKept DEF SenderInv
  <2>3. CASE c.sock = "none"
    <3>1. ~Undisturbed'
      BY <1>0, <1>1, <1>9, <2>3 DEF ConnectionOf, Undisturbed
    <3>2. opened' = opened
      BY <1>1, <2>1 DEF opened
    <3>. QED
      BY <3>1, <3>2 DEF SenderInv, Counts, Counted
  <2>. QED
    BY <2>2, <2>3
<1>17. PICK r0 \in Requests : r0 = r
  BY <1>0
<1>18. Told(r0)'
  <2>1. delivered'[r0] <= 2
    BY <1>5, <1>13, <1>17
  <2>2. delivered'[r0] = 2 /\ r0 \notin stragglers => firstOn'[r0] = "carried"
    BY <1>5, <1>13, <1>17
  <2>3. result[r0] = None
    BY <1>0, <1>17 DEF SenderInv, OneOwner, OwnerOf, r
  <2>. QED
    BY <1>1, <2>1, <2>2, <2>3, SenderAssumption DEF Told
<1>. QED
  BY <1>6, <1>7, <1>8, <1>14, <1>15, <1>16, <1>17, <1>18, FrameKeeps DEF r

(* A stale connection is replaced and the request tried once more. *)
LEMMA RetryKeeps ==
    ASSUME SenderInv, NEW t \in Threads, Stale(t), Retried(t)
    PROVE  SenderInv'
<1>. DEFINE c == client[t]
            d == Discarded(c)
<1>0. /\ c \in Clients /\ pc[t] = "response" /\ job[t] # None
      /\ job[t] \in Requests /\ t \in known /\ reused[t] /\ attempt[t] = 0
  BY DEF Stale, Retried, SenderInv, Types, OneOwner, OwnerOf
<1>1. /\ UNCHANGED <<main, toClose, summary, stragglers, known, job, reused, result>>
      /\ UNCHANGED <<delivered, firstOn, accepted>>
      /\ client' = [client EXCEPT ![t] = d]
      /\ attempt' = [attempt EXCEPT ![t] = 1]
      /\ pc' = [pc EXCEPT ![t] = "send"]
  <2>1. client' = [client EXCEPT ![t] = d]
    BY Zenon DEF Stale
  <2>2. /\ UNCHANGED <<job, reused, result>>
        /\ attempt' = [attempt EXCEPT ![t] = 1]
        /\ pc' = [pc EXCEPT ![t] = "send"]
    BY Zenon DEF Stale, Goto
  <2>3. UNCHANGED <<mainVars, known, failures, serverVars>>
    BY DEF Stale
  <2>. QED
    BY <2>1, <2>2, <2>3 DEF mainVars, serverVars
<1>2. /\ Closed(c) \in Clients
      /\ ~Closed(c).has
      /\ Closed(c).opened = c.opened
      /\ Closed(c).reconnects = c.reconnects
      /\ c.has => Closed(c).sock = "none"
      /\ ~c.has => Closed(c).sock = c.sock
  BY <1>0, ClosedClient
<1>3. /\ d \in Clients /\ d.opened = Closed(c).opened /\ d.sock = Closed(c).sock
      /\ d.reconnects = Closed(c).reconnects + 1
      /\ d.has = Closed(c).has
  <2>. DEFINE n == Closed(c).reconnects + 1
  <2>1. n \in Nat /\ d = [Closed(c) EXCEPT !.reconnects = n]
    BY <1>2 DEF Clients, Discarded
  <2>. HIDE DEF n, d
  <2>. QED
    BY <1>2, <2>1 DEF Clients, n
<1>. HIDE DEF d
<1>4. /\ client'[t] = d /\ pc'[t] = "send" /\ attempt'[t] = 1
      /\ \A u \in Threads : u # t => client'[u] = client[u] /\ pc'[u] = pc[u] /\ attempt'[u] = attempt[u]
  BY <1>1 DEF SenderInv, Types
<1>5. Types'
  <2>1. client' \in [Threads -> Clients]
    BY <1>1, <1>3 DEF SenderInv, Types
  <2>2. pc' \in [Threads -> {"idle", "connect", "send", "capture", "request", "response"}]
    BY <1>1 DEF SenderInv, Types
  <2>3. attempt' \in [Threads -> 0..1]
    BY <1>1 DEF SenderInv, Types
  <2>. QED
    BY <1>1, <2>1, <2>2, <2>3 DEF SenderInv, Types
<1>6. Frame(t)
  BY <1>0, <1>1, <1>4 DEF Frame
<1>7. OwnerOf(t)'
  BY <1>0, <1>1, <1>4 DEF SenderInv, OneOwner, OwnerOf
<1>8. DeliveryOf(t)'
  <2>1. DeliveryOf(t)
    BY DEF SenderInv, Deliveries
  <2>. QED
    BY <1>0, <1>1, <1>4, <2>1 DEF DeliveryOf
<1>9. ConnectionOf(t)'
  <2>1. ConnectionOf(t)
    BY DEF SenderInv, Connections
  <2>2. Undisturbed' => main = "running"
    BY <1>0, <1>1 DEF SenderInv, InHand, Undisturbed
  <2>3. main = "running" => d.sock = "none"
    BY <1>0, <1>2, <1>3, <2>1 DEF ConnectionOf, Undisturbed
  <2>4. d.reconnects <= d.opened
    BY <1>0, <1>2, <1>3, <2>1 DEF ConnectionOf, Clients
  <2>. QED
    BY <1>0, <1>1, <1>2, <1>3, <1>4, <2>2, <2>3, <2>4 DEF ConnectionOf, Undisturbed
<1>10. Counts'
  <2>1. \A u \in known : client'[u].opened = client[u].opened
    BY <1>2, <1>3, <1>4 DEF SenderInv, Types
  <2>. QED
    BY <1>1, <2>1, CountsKept DEF SenderInv
<1>11. PICK r0 \in Requests : r0 = job[t]
  BY <1>0
<1>12. Told(r0)'
  BY <1>1, AllTold DEF SenderInv, Told
<1>. QED
  BY <1>5, <1>6, <1>7, <1>8, <1>9, <1>10, <1>11, <1>12, FrameKeeps

(* A request on its way, with the one retry. *)
LEMMA SendingKeeps ==
    ASSUME SenderInv, NEW t \in Threads, Sending(t)
    PROVE  SenderInv'
<1>1. CASE Connect(t) \/ Open(t)
  BY <1>1, ConnectKeeps
<1>2. CASE ConnectFails(t) \/ OpenFails(t) \/ Answered(t) \/ Fails(t)
  BY <1>2, EndsKeep
<1>3. CASE HasConnection(t)
  BY <1>3, CaptureKeeps
<1>4. CASE Capture(t)
  BY <1>4, CaptureKeeps, EndsKeep
<1>5. CASE Request(t)
  BY <1>5, RequestKeeps
<1>6. CASE Stale(t)
  BY <1>6, RetryKeeps, EndsKeep
<1>. QED
  BY <1>1, <1>2, <1>3, <1>4, <1>5, <1>6 DEF Sending

-----------------------------------------------------------------------------
(* The runner, the server and the main thread. *)

(* A worker is given a request nobody has. *)
LEMMA CallKeeps ==
    ASSUME SenderInv, NEW t \in Threads, Call(t)
    PROVE  SenderInv'
<1>1. PICK r \in Requests :
           /\ result[r] = None /\ \A u \in Threads : job[u] # r
           /\ job' = [job EXCEPT ![t] = r]
  BY DEF Call
<1>2. /\ main = "running" /\ pc[t] = "idle"
      /\ pc' = [pc EXCEPT ![t] = IF t \in known THEN "send" ELSE "connect"]
      /\ known' = known \cup {t}
      /\ UNCHANGED <<main, toClose, summary, stragglers, client, failures, attempt, reused>>
      /\ UNCHANGED <<delivered, firstOn, accepted, result>>
  BY DEF Call, Goto, mainVars, serverVars
<1>3. /\ job'[t] = r /\ pc'[t] \in {"send", "connect"}
      /\ \A u \in Threads : u # t => job'[u] = job[u] /\ pc'[u] = pc[u]
  BY <1>1, <1>2 DEF SenderInv, Types
<1>4. r # None /\ delivered[r] = 0 /\ firstOn[r] = "none"
  BY <1>1, SenderAssumption DEF SenderInv, Deliveries
<1>5. attempt[t] = 0
  BY <1>2 DEF SenderInv, OneOwner, OwnerOf
<1>6. Types'
  <2>1. job' \in [Threads -> Requests \cup {None}]
    BY <1>1 DEF SenderInv, Types
  <2>2. pc' \in [Threads -> {"idle", "connect", "send", "capture", "request", "response"}]
    BY <1>2 DEF SenderInv, Types
  <2>. QED
    BY <1>2, <2>1, <2>2 DEF SenderInv, Types
<1>7. OneOwner'
  <2>1. \A u \in Threads : OwnerOf(u)'
    BY <1>1, <1>2, <1>3, <1>4 DEF SenderInv, OneOwner, OwnerOf
  <2>2. ASSUME NEW u \in Threads, NEW v \in Threads, job'[u] = job'[v], job'[u] # None
        PROVE  u = v
    BY <2>2, <1>1, <1>3 DEF SenderInv, OneOwner
  <2>. QED
    BY <2>1, <2>2 DEF OneOwner
<1>8. InHand'
  BY <1>2 DEF SenderInv, InHand
<1>9. Deliveries'
  <2>1. ASSUME NEW u \in Threads PROVE DeliveryOf(u)'
    <3>1. CASE u = t
      BY <1>2, <1>3, <1>4, <1>5, <3>1 DEF DeliveryOf
    <3>2. CASE u # t
      BY <1>2, <1>3, <3>2 DEF SenderInv, Deliveries, DeliveryOf
    <3>. QED
      BY <3>1, <3>2
  <2>2. ASSUME NEW q \in Requests, result'[q] = None, \A u \in Threads : job'[u] # q
        PROVE  delivered'[q] = 0 /\ firstOn'[q] = "none"
    <3>1. job[t] = None
      BY <1>2 DEF SenderInv, OneOwner, OwnerOf
    <3>2. \A u \in Threads : job[u] # q
      BY <1>3, <2>2, <3>1, SenderAssumption
    <3>. QED
      BY <1>2, <2>2, <3>2 DEF SenderInv, Deliveries
  <2>. QED
    BY <2>1, <2>2 DEF Deliveries
<1>10. Connections'
  BY <1>2, <1>3 DEF SenderInv, Connections, ConnectionOf, Undisturbed, InHand
<1>11. Counts'
  <2>1. CASE t \in known
    BY <1>2, <2>1, CountsKept DEF SenderInv
  <2>2. CASE t \notin known
    <3>1. client[t].opened = 0
      BY <2>2 DEF SenderInv, Connections, ConnectionOf, FreshClient
    <3>2. /\ opened = [u \in known |-> client[u].opened]
          /\ opened' = [u \in known' |-> client'[u].opened]
      BY DEF opened
    <3>3. \A x : x \in Counted(opened) <=> \E u \in known : \E i \in 1..client[u].opened : x = <<u, i>>
      BY <3>2 DEF Counted
    <3>4. \A x : x \in Counted(opened)' <=> \E u \in known' : \E i \in 1..client'[u].opened : x = <<u, i>>
      BY <3>2 DEF Counted
    <3>5. Counted(opened)' = Counted(opened)
      BY <1>2, <3>1, <3>3, <3>4
    <3>. QED
      BY <1>2, <3>5 DEF SenderInv, Counts, Undisturbed
  <2>. QED
    BY <2>1, <2>2
<1>12. TwiceOnlyOnAReusedConnection' /\ ResultsAreTrue'
  BY <1>2 DEF SenderInv, TwiceOnlyOnAReusedConnection, ResultsAreTrue
<1>13. SummaryIsTrue'
  BY <1>2 DEF SenderInv, InHand, SummaryIsTrue
<1>. QED
  BY <1>6, <1>7, <1>8, <1>9, <1>10, <1>11, <1>12, <1>13 DEF SenderInv

(* The main thread closes a client, or the server drops one it has no      *)
(* request on.                                                             *)
LEMMA ClosingKeeps ==
    ASSUME SenderInv, NEW t \in Threads, CloseClient(t) \/ ServerDrops(t)
    PROVE  SenderInv'
<1>. DEFINE c == client[t]
            d == IF CloseClient(t) THEN Closed(c) ELSE [c EXCEPT !.sock = "dropped"]
<1>0. c \in Clients
  BY DEF SenderInv, Types
<1>1. /\ client' = [client EXCEPT ![t] = d]
      /\ UNCHANGED <<main, summary, stragglers, known, failures, pc, job, attempt, reused>>
      /\ UNCHANGED <<delivered, firstOn, accepted, result>>
  <2>1. CASE CloseClient(t)
    BY <2>1 DEF CloseClient, sendVars, serverVars
  <2>2. CASE ServerDrops(t) /\ ~CloseClient(t)
    BY <2>2 DEF ServerDrops, mainVars, sendVars, serverVars, SenderInv, Types
  <2>. QED
    BY <2>1, <2>2
<1>2. toClose' \subseteq toClose /\ toClose \ toClose' \subseteq {t}
  BY DEF CloseClient, ServerDrops, mainVars
<1>3. /\ d \in Clients /\ d.opened = c.opened /\ d.reconnects = c.reconnects /\ d.used = c.used
      /\ d.has => c.has
  BY <1>0, ClosedClient DEF Clients
<1>. HIDE DEF d
<1>4. client'[t] = d /\ \A u \in Threads : u # t => client'[u] = client[u]
  BY <1>1 DEF SenderInv, Types
<1>5. Types'
  <2>1. client' \in [Threads -> Clients]
    BY <1>1, <1>3 DEF SenderInv, Types
  <2>. QED
    BY <1>1, <1>2, <2>1 DEF SenderInv, Types
<1>6. OneOwner' /\ InHand' /\ Deliveries'
  BY <1>1, <1>2 DEF SenderInv, OneOwner, OwnerOf, InHand, Deliveries, DeliveryOf
<1>7. Connections'
  <2>1. ASSUME NEW u \in Threads, u # t PROVE ConnectionOf(u)'
    BY <1>1, <1>2, <1>4, <2>1 DEF SenderInv, Connections, ConnectionOf, Undisturbed
  <2>2. ConnectionOf(t)
    BY DEF SenderInv, Connections
  <2>3. ASSUME CloseClient(t) PROVE ConnectionOf(t)'
    <3>1. d = Closed(c) /\ t \in known /\ main = "closing"
      BY <2>3 DEF d, CloseClient, SenderInv, Types
    <3>2. ~d.has /\ (c.has => d.sock = "none") /\ (~c.has => d.sock = c.sock)
      BY <1>0, <3>1, ClosedClient
    <3>3. Undisturbed => pc[t] = "idle" /\ d.sock = "none"
      BY <2>2, <3>1, <3>2 DEF Undisturbed, SenderInv, InHand, OneOwner, OwnerOf, ConnectionOf
    <3>. QED
      BY <1>1, <1>3, <1>4, <2>2, <3>1, <3>2, <3>3 DEF ConnectionOf, Undisturbed
  <2>4. ASSUME ServerDrops(t), ~CloseClient(t) PROVE ConnectionOf(t)'
    <3>1. d = [c EXCEPT !.sock = "dropped"] /\ c.sock = "carried" /\ toClose' = toClose
      BY <2>4 DEF d, ServerDrops, mainVars
    <3>2. d.sock = "dropped" /\ d.has = c.has
      BY <1>0, <3>1 DEF Clients
    <3>3. t \in known
      BY <2>2, <3>1 DEF ConnectionOf, FreshClient
    <3>4. ~(main # "running" /\ stragglers = {} /\ t \notin toClose)
      BY <2>2, <3>1 DEF ConnectionOf
    <3>. QED
      BY <1>1, <1>3, <1>4, <2>2, <3>1, <3>2, <3>3, <3>4 DEF ConnectionOf, Undisturbed
  <2>5. ConnectionOf(t)'
    BY <2>3, <2>4
  <2>. QED
    BY <2>1, <2>5 DEF Connections
<1>8. Counts'
  <2>1. \A u \in known : client'[u].opened = client[u].opened
    BY <1>3, <1>4 DEF SenderInv, Types
  <2>. QED
    BY <1>1, <2>1, CountsKept DEF SenderInv
<1>9. TwiceOnlyOnAReusedConnection' /\ ResultsAreTrue' /\ SummaryIsTrue'
  BY <1>1 DEF SenderInv, TwiceOnlyOnAReusedConnection, ResultsAreTrue, SummaryIsTrue
<1>. QED
  BY <1>5, <1>6, <1>7, <1>8, <1>9 DEF SenderInv

(* The main thread begins to close. *)
LEMMA BeginCloseKeeps ==
    ASSUME SenderInv, BeginClose
    PROVE  SenderInv'
<1>1. /\ main = "running" /\ main' = "closing" /\ toClose' = known
      /\ stragglers' = {job[t] : t \in Threads} \ {None}
      /\ UNCHANGED <<summary, known, client, failures, pc, job, attempt, reused>>
      /\ UNCHANGED <<delivered, firstOn, accepted, result>>
  BY DEF BeginClose, ClientsToClose, clientVars, sendVars, serverVars
<1>2. Types'
  BY <1>1 DEF SenderInv, Types
<1>3. stragglers = {}
  BY <1>1 DEF SenderInv, InHand
<1>4. OneOwner'
  BY <1>1 DEF SenderInv, OneOwner, OwnerOf
<1>5. InHand'
  BY <1>1 DEF SenderInv, InHand
<1>6. Deliveries'
  <2>1. ASSUME NEW t \in Threads PROVE DeliveryOf(t)'
    BY <1>1, <1>3 DEF SenderInv, Deliveries, DeliveryOf
  <2>. QED
    BY <1>1, <2>1 DEF SenderInv, Deliveries
<1>7. Connections'
  <2>1. ASSUME NEW t \in Threads PROVE ConnectionOf(t)'
    <3>1. ConnectionOf(t)
      BY DEF SenderInv, Connections
    <3>2. t \notin toClose' => client'[t].sock = "none"
      BY <1>1, <3>1 DEF ConnectionOf, FreshClient
    <3>. QED
      BY <1>1, <3>1, <3>2 DEF ConnectionOf, Undisturbed
  <2>. QED
    BY <2>1 DEF Connections
<1>8. Counts'
  <2>1. opened' = opened
    BY <1>1 DEF opened
  <2>. QED
    BY <1>1, <2>1 DEF SenderInv, Counts, Undisturbed, Counted
<1>9. TwiceOnlyOnAReusedConnection' /\ ResultsAreTrue' /\ SummaryIsTrue'
  BY <1>1, <1>3 DEF SenderInv, TwiceOnlyOnAReusedConnection, ResultsAreTrue, SummaryIsTrue, InHand
<1>. QED
  BY <1>2, <1>4, <1>5, <1>6, <1>7, <1>8, <1>9 DEF SenderInv

(* A client is reconnected no more often than it connects, so neither are  *)
(* all of them together.                                                   *)
LEMMA ReconnectsCounted ==
    ASSUME SenderInv
    PROVE  /\ Total(reconnects) <= Total(opened)
           /\ Cardinality({t \in known : client[t].opened > 0}) <= Cardinality(known)
<1>1. /\ opened = [u \in known |-> client[u].opened]
      /\ reconnects = [u \in known |-> client[u].reconnects]
  BY DEF opened, reconnects
<1>2. \A x : x \in Counted(opened) <=> \E u \in known : \E i \in 1..client[u].opened : x = <<u, i>>
  BY <1>1 DEF Counted
<1>3. \A x : x \in Counted(reconnects) <=> \E u \in known : \E i \in 1..client[u].reconnects : x = <<u, i>>
  BY <1>1 DEF Counted
<1>4. ASSUME NEW u \in known, NEW i \in 1..client[u].reconnects
      PROVE  i \in 1..client[u].opened
  <2>1. u \in Threads
    BY DEF SenderInv, Types
  <2>2. client[u].reconnects <= client[u].opened
    BY <2>1 DEF SenderInv, Connections, ConnectionOf
  <2>3. client[u].reconnects \in Nat /\ client[u].opened \in Nat
    BY <2>1 DEF SenderInv, Types, Clients
  <2>. QED
    BY <2>2, <2>3
<1>5. Counted(reconnects) \subseteq Counted(opened)
  BY <1>2, <1>3, <1>4
<1>6. IsFiniteSet(Counted(opened))
  BY DEF SenderInv, Counts
<1>7. Total(reconnects) <= Total(opened)
  BY <1>5, <1>6, FS_Subset DEF Total
<1>8. IsFiniteSet(known)
  BY SenderAssumption, FS_Subset DEF SenderInv, Types
<1>9. {t \in known : client[t].opened > 0} \subseteq known
  OBVIOUS
<1>. QED
  BY <1>7, <1>8, <1>9, FS_Subset

(* The counts are read while threads may still connect. *)
LEMMA SummaryKeeps ==
    ASSUME SenderInv, connection_summary
    PROVE  SenderInv'
<1>1. /\ main = "closing" /\ toClose = {} /\ main' = "over"
      /\ summary' = [workers_connected |-> Cardinality({t \in known : client[t].opened > 0}),
                     opened |-> Total(opened),
                     reconnects |-> Total(reconnects),
                     failures |-> failures]
      /\ UNCHANGED <<toClose, stragglers, known, client, failures, pc, job, attempt, reused>>
      /\ UNCHANGED <<delivered, firstOn, accepted, result>>
  BY DEF connection_summary, clientVars, sendVars, serverVars
<1>2. Types' /\ OneOwner' /\ InHand' /\ Deliveries'
  <2>1. Types'
    BY <1>1 DEF SenderInv, Types
  <2>2. OneOwner' /\ InHand'
    BY <1>1 DEF SenderInv, OneOwner, OwnerOf, InHand
  <2>3. Deliveries'
    BY <1>1 DEF SenderInv, Deliveries, DeliveryOf
  <2>. QED
    BY <2>1, <2>2, <2>3
<1>3. Connections'
  BY <1>1 DEF SenderInv, Connections, ConnectionOf, Undisturbed
<1>4. Counts'
  <2>1. opened' = opened
    BY <1>1 DEF opened
  <2>. QED
    BY <1>1, <2>1 DEF SenderInv, Counts, Undisturbed, Counted
<1>5. TwiceOnlyOnAReusedConnection' /\ ResultsAreTrue'
  BY <1>1 DEF SenderInv, TwiceOnlyOnAReusedConnection, ResultsAreTrue
<1>6. SummaryIsTrue'
  <2>1. stragglers = {} => Total(opened) = accepted
    BY DEF SenderInv, Counts, Undisturbed, Total
  <2>2. /\ Total(reconnects) <= Total(opened)
        /\ Cardinality({t \in known : client[t].opened > 0}) <= Cardinality(known)
    BY ReconnectsCounted
  <2>3. /\ summary'.opened = Total(opened) /\ summary'.reconnects = Total(reconnects)
        /\ summary'.workers_connected = Cardinality({t \in known : client[t].opened > 0})
    BY <1>1
  <2>. QED
    BY <1>1, <2>1, <2>2, <2>3 DEF SummaryIsTrue
<1>. QED
  BY <1>2, <1>3, <1>4, <1>5, <1>6 DEF SenderInv

(* No step. *)
LEMMA SenderStutters ==
    ASSUME SenderInv, UNCHANGED senderVars
    PROVE  SenderInv'
<1>1. /\ UNCHANGED <<main, toClose, summary, stragglers, known, client, failures>>
      /\ UNCHANGED <<pc, job, attempt, reused, delivered, firstOn, accepted, result>>
  BY DEF senderVars, mainVars, clientVars, sendVars, serverVars
<1>2. Types'
  BY <1>1 DEF SenderInv, Types
<1>3. OneOwner' /\ InHand' /\ Deliveries'
  BY <1>1 DEF SenderInv, OneOwner, OwnerOf, InHand, Deliveries, DeliveryOf
<1>4. Connections'
  BY <1>1 DEF SenderInv, Connections, ConnectionOf, Undisturbed
<1>5. Counts'
  BY <1>1, CountsKept DEF SenderInv
<1>6. TwiceOnlyOnAReusedConnection' /\ ResultsAreTrue' /\ SummaryIsTrue'
  BY <1>1 DEF SenderInv, TwiceOnlyOnAReusedConnection, ResultsAreTrue, SummaryIsTrue
<1>. QED
  BY <1>2, <1>3, <1>4, <1>5, <1>6 DEF SenderInv

(* A sender starts in the invariant. *)
LEMMA SenderInitInv == SenderInit => SenderInv
<1>. SUFFICES ASSUME SenderInit PROVE SenderInv
  OBVIOUS
<1>1. FreshClient \in Clients
  BY DEF FreshClient, Clients
<1>2. Types
  <2>1. reused \in [Threads -> BOOLEAN]
    BY DEF SenderInit
  <2>. QED
    BY <1>1, <2>1 DEF SenderInit, Types, Results
<1>3. OneOwner /\ InHand /\ Deliveries
  BY SenderAssumption DEF SenderInit, OneOwner, OwnerOf, InHand, Deliveries, DeliveryOf
<1>4. Connections
  BY DEF SenderInit, Connections, ConnectionOf, FreshClient, Undisturbed
<1>5. Counts
  <2>1. Counted(opened) = {}
    BY DEF SenderInit, opened, Counted
  <2>. QED
    BY <2>1, FS_EmptySet DEF SenderInit, Counts
<1>6. TwiceOnlyOnAReusedConnection /\ ResultsAreTrue /\ SummaryIsTrue
  <2>1. SummaryIsTrue
    BY DEF SenderInit, SummaryIsTrue
  <2>2. ResultsAreTrue
    BY SenderAssumption DEF SenderInit, ResultsAreTrue
  <2>3. TwiceOnlyOnAReusedConnection
    BY DEF SenderInit, TwiceOnlyOnAReusedConnection
  <2>. QED
    BY <2>1, <2>2, <2>3
<1>. QED
  BY <1>2, <1>3, <1>4, <1>5, <1>6 DEF SenderInv

(* Every step keeps it. *)
LEMMA SenderNextInv == SenderInv /\ [SenderNext]_senderVars => SenderInv'
<1>. SUFFICES ASSUME SenderInv, [SenderNext]_senderVars PROVE SenderInv'
  OBVIOUS
<1>1. ASSUME NEW t \in Threads, Call(t) \/ Sending(t) \/ ServerDrops(t) \/ CloseClient(t)
      PROVE  SenderInv'
  BY <1>1, CallKeeps, SendingKeeps, ClosingKeeps
<1>2. CASE BeginClose
  BY <1>2, BeginCloseKeeps
<1>3. CASE connection_summary
  BY <1>3, SummaryKeeps
<1>4. CASE UNCHANGED senderVars
  BY <1>4, SenderStutters
<1>. QED
  BY <1>1, <1>2, <1>3, <1>4 DEF SenderNext, Done

(* The inductive invariant of the sender. *)
LEMMA SenderInvariance == SenderSpec => []SenderInv
BY SenderInitInv, SenderNextInv, PTL DEF SenderSpec

-----------------------------------------------------------------------------
(* The keep-alive client never sends a request a third time, and a second  *)
(* time only in place of one that went out on a connection the server had  *)
(* already answered on: for any number of worker threads and requests.     *)
THEOREM TwiceOnlyOnAReusedConnectionHolds ==
    SenderSpec => []TwiceOnlyOnAReusedConnection
<1>1. SenderInv => TwiceOnlyOnAReusedConnection
  BY DEF SenderInv
<1>. QED
  BY <1>1, SenderInvariance, PTL

(* What the sender tells of its requests and its connections is true, and  *)
(* closing it leaves no connection open: for any number of threads.        *)
THEOREM ReportsAreTrueHolds == SenderSpec => []ReportsAreTrue
<1>1. SenderInv => ReportsAreTrue
  <2>. SUFFICES ASSUME SenderInv PROVE ReportsAreTrue
    OBVIOUS
  <2>1. SenderTypeOK
    <3>1. ASSUME NEW t \in Threads
          PROVE  /\ client[t].sock \in {"none", "fresh", "carried", "dropped"}
                 /\ pc[t] \in {"idle", "connect", "send", "capture", "request", "response"}
                 /\ (pc[t] = "idle") <=> (job[t] = None)
                 /\ attempt[t] \in 0..1
      BY DEF SenderInv, Types, Clients, OneOwner, OwnerOf
    <3>2. \A t \in Threads : reused[t] \in BOOLEAN
      BY DEF SenderInv, Types
    <3>. QED
      BY <3>1, <3>2 DEF SenderTypeOK, SenderInv, Types, Results
  <2>2. NothingStaysOpen
    BY DEF NothingStaysOpen, SenderInv, InHand, Connections, ConnectionOf
  <2>. QED
    BY <2>1, <2>2 DEF ReportsAreTrue, SenderInv
<1>. QED
  BY <1>1, SenderInvariance, PTL
=============================================================================
