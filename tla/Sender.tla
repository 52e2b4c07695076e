------------------------------- MODULE Sender -------------------------------
(***************************************************************************)
(* The send hook of a load run (barrage/fire.py, _Sender) over the client   *)
(* that keeps a connection alive (core/transport.py, PersistentHttpClient). *)
(* Each worker thread has a client of its own; the main thread closes all   *)
(* of them when the run is over, whatever the workers still have in hand.   *)
(*                                                                          *)
(* A client's connection object is shared by `_conn` and by the local of    *)
(* the send in progress, so it is one record per thread: `has` says that    *)
(* `_conn` still refers to it.  `sock` is its socket as the server sees it. *)
(***************************************************************************)
EXTENDS Naturals, FiniteSets

CONSTANTS Threads, Requests, None

ASSUME SenderAssumption ==
    /\ IsFiniteSet(Threads)
    /\ None \notin Requests
    /\ None \notin {"answered", "error", "connect failed"}

VARIABLES
    main,       \* "running", "closing", "over"
    toClose,    \* the clients close still has to close
    known,      \* _clients: threads whose client is in the list
    client,     \* thread -> [has, used, sock, opened, reconnects]
    failures,   \* _connect_failures
    pc,         \* thread -> where it is in __call__ and send
    job,        \* thread -> the request in hand, or None
    attempt,    \* thread -> attempt of send
    reused,     \* thread -> reused of send
    delivered,  \* request -> how often the server got it
    result,     \* request -> the TransportResult: None, "answered", "error", "connect failed"
    summary,    \* connection_summary, None before
    firstOn,    \* request -> the socket it first went out on, a history variable
    accepted,   \* connections the server accepted, a history variable
    stragglers  \* the requests in hand when the main thread began to close

clientVars == <<known, client, failures>>
sendVars == <<pc, job, attempt, reused>>
serverVars == <<delivered, firstOn, accepted>>
mainVars == <<main, toClose, summary, stragglers>>
senderVars == <<mainVars, clientVars, sendVars, serverVars, result>>

(* PersistentHttpClient.__init__ *)
FreshClient == [has |-> FALSE, used |-> FALSE, sock |-> "none", opened |-> 0, reconnects |-> 0]

SenderInit ==
    /\ main = "running" /\ toClose = {} /\ summary = None /\ stragglers = {}
    /\ known = {} /\ failures = 0
    /\ client = [t \in Threads |-> FreshClient]
    /\ pc = [t \in Threads |-> "idle"] /\ job = [t \in Threads |-> None]
    /\ attempt = [t \in Threads |-> 0] /\ reused = [t \in Threads |-> FALSE]
    /\ delivered = [r \in Requests |-> 0] /\ firstOn = [r \in Requests |-> "none"]
    /\ accepted = 0
    /\ result = [r \in Requests |-> None]

-----------------------------------------------------------------------------
(* The client. *)

Closed(c) == [c EXCEPT !.has = FALSE, !.sock = IF c.has THEN "none" ELSE @]

(* Mutant: a connection that replaces another one is not counted. *)
CountsTheFirst(c) == [c EXCEPT !.has = TRUE, !.used = FALSE, !.sock = "fresh", !.opened = 1]

Opened(c) == [c EXCEPT !.has = TRUE, !.used = FALSE, !.sock = "fresh", !.opened = @ + 1]

(* A stale connection is closed, to be replaced. *)
Discarded(c) == [Closed(c) EXCEPT !.reconnects = @ + 1]

Goto(t, where) == pc' = [pc EXCEPT ![t] = where]

(* The request in hand ends with `how`; the worker is free again. *)
Finish(t, how) ==
    /\ result' = [result EXCEPT ![job[t]] = how]
    /\ Goto(t, "idle")
    /\ job' = [job EXCEPT ![t] = None]
    /\ attempt' = [attempt EXCEPT ![t] = 0]
    /\ reused' = [reused EXCEPT ![t] = FALSE]

(* The runner calls the hook while the run lasts.  The client of a new     *)
(* thread enters the list under the lock.                                  *)
Call(t) ==
    /\ main = "running" /\ pc[t] = "idle"
    /\ \E r \in Requests :
        /\ result[r] = None /\ \A u \in Threads : job[u] # r
        /\ job' = [job EXCEPT ![t] = r]
    /\ Goto(t, IF t \in known THEN "send" ELSE "connect")
    /\ known' = known \cup {t}
    /\ UNCHANGED <<mainVars, client, failures, attempt, reused, serverVars, result>>

(* connect, and _ConnectFailed, which is not tried again. *)
Connect(t) ==
    /\ pc[t] = "connect"
    /\ client' = [client EXCEPT ![t] = Opened(@)]
    /\ accepted' = accepted + 1
    /\ Goto(t, "send")
    /\ UNCHANGED <<mainVars, known, failures, job, attempt, reused, delivered, firstOn, result>>

(* Mutant: a request whose connect failed is given to send all the same. *)
TriedAgain(t) ==
    /\ pc[t] = "connect"
    /\ failures' = failures + 1
    /\ Goto(t, "send")
    /\ result' = [result EXCEPT ![job[t]] = "connect failed"]
    /\ UNCHANGED <<mainVars, known, client, job, attempt, reused, serverVars>>

ConnectFails(t) ==
    /\ pc[t] = "connect"
    /\ failures' = failures + 1
    /\ Finish(t, "connect failed")
    /\ UNCHANGED <<mainVars, known, client, serverVars>>

(* send: _open when there is no connection. *)
Open(t) ==
    /\ pc[t] = "send" /\ ~client[t].has
    /\ client' = [client EXCEPT ![t] = Opened(@)]
    /\ accepted' = accepted + 1
    /\ Goto(t, "capture")
    /\ UNCHANGED <<mainVars, known, failures, job, attempt, reused, delivered, firstOn, result>>

OpenFails(t) ==
    /\ pc[t] = "send" /\ ~client[t].has
    /\ Finish(t, "error")
    /\ UNCHANGED <<mainVars, clientVars, serverVars>>

HasConnection(t) ==
    /\ pc[t] = "send" /\ client[t].has
    /\ Goto(t, "capture")
    /\ UNCHANGED <<mainVars, clientVars, job, attempt, reused, serverVars, result>>

(* Mutant: a client that was closed meanwhile is waited for. *)
WaitsForAConnection(t) ==
    /\ pc[t] = "capture" /\ client[t].has
    /\ reused' = [reused EXCEPT ![t] = client[t].used]
    /\ Goto(t, "request")
    /\ UNCHANGED <<mainVars, clientVars, serverVars, job, attempt, result>>

(* conn, reused = self._conn, self._used: another thread may have closed   *)
(* the client since, and then conn is None.                                *)
Capture(t) ==
    /\ pc[t] = "capture"
    /\ IF client[t].has
       THEN /\ reused' = [reused EXCEPT ![t] = client[t].used]
            /\ Goto(t, "request")
            /\ UNCHANGED <<job, attempt, result>>
       ELSE Finish(t, "error")
    /\ UNCHANGED <<mainVars, clientVars, serverVars>>

(* conn.request: a connection closed meanwhile opens itself again.  What   *)
(* goes to a socket the server has dropped does not arrive.                *)
Request(t) ==
    /\ pc[t] = "request"
    /\ LET sock == IF client[t].sock = "none" THEN "fresh" ELSE client[t].sock
           r == job[t]
       IN  /\ client' = [client EXCEPT ![t].sock = sock]
           /\ accepted' = accepted + (IF client[t].sock = "none" THEN 1 ELSE 0)
           /\ firstOn' = [firstOn EXCEPT ![r] = IF @ = "none" THEN sock ELSE @]
           /\ delivered' = [delivered EXCEPT ![r] = IF sock = "dropped" THEN @ ELSE @ + 1]
    /\ Goto(t, "response")
    /\ UNCHANGED <<mainVars, known, failures, job, attempt, reused, result>>

(* getresponse and read: the whole answer, and whether the server keeps    *)
(* the connection.  A response being read outlives a close of its client.  *)
Answered(t) ==
    /\ pc[t] = "response" /\ client[t].sock # "dropped" /\ delivered[job[t]] > 0
    /\ \E will_close \in BOOLEAN :
        LET c == [client[t] EXCEPT !.used = TRUE, !.sock = IF @ = "none" THEN @ ELSE "carried"]
        IN  client' = [client EXCEPT ![t] = IF will_close THEN Closed(c) ELSE c]
    /\ Finish(t, "answered")
    /\ UNCHANGED <<mainVars, known, failures, serverVars>>

(* Mutant: a stale connection is retried whether it was used before. *)
RetriedAnyway(t) == attempt[t] = 0

Retried(t) == reused[t] /\ attempt[t] = 0

(* One of _STALE_CONNECTION_ERRORS: retried once, on a connection that     *)
(* carried a request before.  The server may have read this one.           *)
Stale(t) ==
    /\ pc[t] = "response"
    /\ IF Retried(t)
       THEN /\ client' = [client EXCEPT ![t] = Discarded(@)]
            /\ attempt' = [attempt EXCEPT ![t] = 1]
            /\ Goto(t, "send")
            /\ UNCHANGED <<job, reused, result>>
       ELSE client' = [client EXCEPT ![t] = Closed(@)] /\ Finish(t, "error")
    /\ UNCHANGED <<mainVars, known, failures, serverVars>>

(* A timeout, or anything else that is not a stale connection. *)
Fails(t) ==
    /\ pc[t] \in {"request", "response"}
    /\ client' = [client EXCEPT ![t] = Closed(@)]
    /\ Finish(t, "error")
    /\ UNCHANGED <<mainVars, known, failures, serverVars>>

(* The server drops a connection it has no request on. *)
ServerDrops(t) ==
    /\ client[t].sock = "carried" /\ pc[t] # "response"
    /\ client' = [client EXCEPT ![t].sock = "dropped"]
    /\ UNCHANGED <<mainVars, known, failures, sendVars, serverVars, result>>

-----------------------------------------------------------------------------
(* The main thread, after run has returned: close, connection_summary. *)

(* Mutant: the first client is forgotten. *)
AllButOne == known \ {CHOOSE t \in Threads : TRUE}

ClientsToClose == known

BeginClose ==
    /\ main = "running"
    /\ main' = "closing" /\ toClose' = ClientsToClose
    /\ stragglers' = {job[t] : t \in Threads} \ {None}
    /\ UNCHANGED <<summary, clientVars, sendVars, serverVars, result>>

CloseClient(t) ==
    /\ main = "closing" /\ t \in toClose
    /\ toClose' = toClose \ {t}
    /\ client' = [client EXCEPT ![t] = Closed(@)]
    /\ UNCHANGED <<main, summary, stragglers, known, failures, sendVars, serverVars, result>>

(* sum(... for client in self._clients), as the size of a disjoint union. *)
Counted(of) == UNION {{t} \X (1..of[t]) : t \in DOMAIN of}
Total(of) == Cardinality(Counted(of))

opened == [t \in known |-> client[t].opened]
reconnects == [t \in known |-> client[t].reconnects]

connection_summary ==
    /\ main = "closing" /\ toClose = {}
    /\ main' = "over"
    /\ summary' = [workers_connected |-> Cardinality({t \in known : client[t].opened > 0}),
                   opened |-> Total(opened),
                   reconnects |-> Total(reconnects),
                   failures |-> failures]
    /\ UNCHANGED <<toClose, stragglers, clientVars, sendVars, serverVars, result>>

Sending(t) ==
    \/ Connect(t) \/ ConnectFails(t) \/ Open(t) \/ OpenFails(t) \/ HasConnection(t)
    \/ Capture(t) \/ Request(t) \/ Answered(t) \/ Stale(t) \/ Fails(t)

Done == main = "over" /\ UNCHANGED senderVars

SenderNext ==
    \/ \E t \in Threads : Call(t) \/ Sending(t) \/ ServerDrops(t) \/ CloseClient(t)
    \/ BeginClose \/ connection_summary \/ Done

(* A worker runs, and every request carries a timeout; so does main. *)
SenderFairness ==
    /\ \A t \in Threads : WF_senderVars(Sending(t)) /\ WF_senderVars(CloseClient(t))
    /\ WF_senderVars(BeginClose) /\ WF_senderVars(connection_summary)

SenderSpec == SenderInit /\ [][SenderNext]_senderVars /\ SenderFairness

-----------------------------------------------------------------------------
(* Every variable holds a value of its type. *)
SenderTypeOK ==
    /\ main \in {"running", "closing", "over"} /\ toClose \subseteq known /\ known \subseteq Threads
    /\ \A t \in Threads :
        /\ client[t].sock \in {"none", "fresh", "carried", "dropped"}
        /\ pc[t] \in {"idle", "connect", "send", "capture", "request", "response"}
        /\ (pc[t] = "idle") <=> (job[t] = None)
        /\ attempt[t] \in 0..1 /\ reused[t] \in BOOLEAN
    /\ \A r \in Requests : result[r] \in {None, "answered", "error", "connect failed"}

(* A request reaches the server at most twice, and twice only when the     *)
(* first time was on a connection that had carried another one before - as *)
(* long as the main thread was not closing that client underneath it.      *)
TwiceOnlyOnAReusedConnection ==
    \A r \in Requests :
        /\ delivered[r] <= 2
        /\ delivered[r] = 2 /\ r \notin stragglers => firstOn[r] = "carried"

(* What a result says is true of the server: an answered request reached   *)
(* it, and one reported as "connect failed" did not.                       *)
ResultsAreTrue ==
    \A r \in Requests :
        /\ result[r] = "answered" => delivered[r] > 0
        /\ result[r] = "connect failed" => delivered[r] = 0

(* The artifact counts what the server saw: when nothing was in hand at    *)
(* the end of the run, connections_opened is the number of connections the *)
(* server accepted, over reconnects, server closes and failed connects,    *)
(* and no more workers connected than have a client.                       *)
SummaryIsTrue ==
    summary # None /\ stragglers = {} =>
        /\ summary.opened = accepted
        /\ summary.workers_connected <= Cardinality(known)
        /\ summary.reconnects <= summary.opened

(* Closing the sender leaves no connection open, if no request was in hand *)
(* when it began: a client of any thread is in the list before it connects.*)
NothingStaysOpen ==
    main = "over" /\ stragglers = {} => \A t \in Threads : client[t].sock \in {"none", "dropped"}

(* What the sender tells of its requests and connections is true, and it   *)
(* leaves none open.                                                       *)
ReportsAreTrue ==
    /\ SenderTypeOK
    /\ ResultsAreTrue
    /\ SummaryIsTrue
    /\ NothingStaysOpen

(* Every request a worker took ends, with the main thread closing its      *)
(* client at any point or not at all.                                      *)
EveryRequestEnds == \A t \in Threads : (job[t] # None) ~> (job[t] = None)
=============================================================================
