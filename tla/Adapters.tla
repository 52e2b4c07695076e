------------------------------ MODULE Adapters ------------------------------
(***************************************************************************)
(* prepare_readback: a [readback] table is read, and refused or built into  *)
(* the http or the mailbox adapter, which then runs.                        *)
(***************************************************************************)
EXTENDS HttpAdapter, AdapterConfig

CONSTANTS MaxRecords, MaxTokens, Inodes, Tags, TagOf(_), WarnLines

VARIABLES
    built,      \* "nothing", "refused", "http", "mailbox", "custom"
    asks,       \* what a lookup asks
    path, sink, inode, touched, written, box, mailAt, call, want, answer,
    consumed, dirty, hidden

Mail == INSTANCE MailboxAdapter WITH at <- mailAt

mailVars == <<path, sink, inode, touched, written, box, mailAt, call, want, answer,
              consumed, dirty, hidden>>
adapterVars == <<built, asks, httpVars, mailVars>>

AdaptersInit ==
    /\ built = "nothing" /\ asks = "nothing"
    /\ HttpInit
    /\ Mail!MailInit

(* The table this configuration was read from; HttpInit has chosen what    *)
(* the rest of the model needs to know of it.                              *)
BuildHttp ==
    /\ built = "nothing" /\ path = "file"
    /\ \E t \in HttpTables :
        /\ Prepared(t) = "http" /\ Style(t) = style /\ CanEnumerate(t) = enumerates
        /\ asks' = Lookup(t)
    /\ built' = "http"
    /\ UNCHANGED <<httpVars, mailVars>>

BuildMailbox ==
    /\ built = "nothing" /\ style = "none" /\ ~enumerates /\ held = <<>>
    /\ \E t \in MailboxTables : Prepared(t) = "mailbox"
    /\ built' = "mailbox" /\ asks' = "names the tag"
    /\ UNCHANGED <<httpVars, mailVars>>

(* A custom adapter is other people's code: its run is not followed. *)
BuildCustom ==
    /\ built = "nothing"
    /\ \E t \in SpecTables : Prepared(t) \in {"fetcher", "function"}
    /\ built' = "custom" /\ asks' = "unknown"
    /\ UNCHANGED <<httpVars, mailVars>>

Refuse ==
    /\ built = "nothing"
    /\ \E t \in Tables : Prepared(t) = "refused"
    /\ built' = "refused" /\ UNCHANGED asks
    /\ UNCHANGED <<httpVars, mailVars>>

HttpRuns == built = "http" /\ HttpNext /\ UNCHANGED <<built, asks, mailVars>>
MailboxRuns == built = "mailbox" /\ Mail!MailNext /\ UNCHANGED <<built, asks, httpVars>>

Over ==
    /\ built \in {"refused", "custom"} \/ session = "closed"
    /\ UNCHANGED adapterVars

AdaptersNext ==
    BuildHttp \/ BuildMailbox \/ BuildCustom \/ Refuse \/ HttpRuns \/ MailboxRuns \/ Over

(* The adapter runs when it can, time passes, and a request ends: each     *)
(* carries a timeout.                                                      *)
AdaptersFairness ==
    LET Runs(A) == built = "http" /\ A /\ UNCHANGED <<built, asks, mailVars>>
    IN  /\ WF_adapterVars(Runs(RequestSteps))
        /\ WF_adapterVars(Runs(ResponseSteps))
        /\ WF_adapterVars(Runs(HttpTick))

AdaptersSpec == AdaptersInit /\ [][AdaptersNext]_adapterVars /\ AdaptersFairness

-----------------------------------------------------------------------------
(* Every variable holds a value of its type (those of the mailbox adapter: *)
(* see MailboxIsRight).                                                    *)
AdaptersTypeOK ==
    /\ built \in {"nothing", "refused", "http", "mailbox", "custom"}
    /\ HttpTypeOK

(* Every lookup a run sends says which message it is about, whatever the   *)
(* table said: a table whose query or body would ask the same question for *)
(* every tag is refused before anything is sent.  The one exception is a   *)
(* POST with neither, which parse_readback_config accepts.                 *)
LookupsNameTheirTag ==
    at = "sending" /\ op = "lookup" => asks \in {"names the tag", "bare"}

(* parse_readback_config refuses a table under which "every lookup would   *)
(* ask the same question".                                                 *)
NoLookupAsksTheSame == at = "sending" /\ op = "lookup" => asks = "names the tag"

(* What the http adapter asks and answers is right: a lookup names its     *)
(* tag, an answer is all a server that did not change holds or is marked   *)
(* partial, and no page or redirect takes the headers to another origin.   *)
LookupsAreRight ==
    /\ AdaptersTypeOK
    /\ LookupsNameTheirTag
    /\ AnswerIsExact
    /\ CredentialsStayHome

(* What the mailbox adapter answers is right: a file nobody touched during *)
(* a call is answered for completely, whatever happened to it before, and  *)
(* the line number an error would name is that of the line in the file.    *)
MailboxIsRight ==
    /\ Mail!MailTypeOK
    /\ Mail!AnswersAreCurrent
    /\ Mail!LineNumbersAreTrue

(* A line being written is never mistaken for a corrupt one.               *)
(* See MailboxAdapter.                                                     *)
OnlyCorruptLinesRaise == Mail!OnlyCorruptLinesRaise

(* MailboxAdapter: "A file that shrank or was replaced is read again from  *)
(* the start."  See MailboxAdapter.                                        *)
ShrunkIsReadAgain == Mail!ShrunkIsReadAgain
=============================================================================
