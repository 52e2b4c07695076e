--------------------------- MODULE MailboxAdapter ---------------------------
(***************************************************************************)
(* The mailbox readback adapter (pipeline/adapters.py, MailboxAdapter): an  *)
(* incremental reader of a JSON Lines file that the pipeline appends to,    *)
(* one write at a time, and that somebody may truncate, rewrite, replace or *)
(* delete between any two of the adapter's steps.                           *)
(*                                                                          *)
(* The file is a sequence of tokens.  Record r is the tokens 2r - 1 and 2r, *)
(* valid JSON only together and alone on a line; 0 is the newline.  Every   *)
(* write gives the file a new mtime.                                        *)
(***************************************************************************)
EXTENDS Naturals, Sequences, SequencesExt, FiniteSetsExt

CONSTANTS
    MaxRecords,     \* bound on the records ever written
    MaxTokens,      \* bound on the size of the file
    Inodes,         \* the identities a file can get: (st_dev, st_ino)
    Tags,
    TagOf(_),       \* _tag_of: the tag a record carries, or None
    WarnLines,      \* MAILBOX_WARN_LINES
    None

VARIABLES
    path,       \* what is at the path when the run starts
    sink,       \* the bytes of the file, None when there is none
    inode,      \* its identity
    touched,    \* its mtime is not the one of the adapter's last stat
    written,    \* the records the pipeline has begun to write
    box,        \* the adapter's state, as _reset makes it
    at,         \* "new", "idle", "reading", "dead"
    call,       \* the tag of the fetch in progress, or "list"
    want,       \* st_size of the stat
    answer,     \* what the last call returned or raised
    consumed,   \* the bytes before _offset, as they were when they were read
    dirty,      \* the file was written to since the stat of this call
    hidden      \* a stat met other bytes, and more of them, in the file it knows

fileVars == <<path, sink, inode, touched, written>>
mailVars == <<fileVars, box, at, call, want, answer, consumed, dirty, hidden>>

NL == 0
NoAnswer == [kind |-> "none", of |-> None, records |-> <<>>]

(* _reset *)
FreshBox ==
    [offset |-> 0, line_no |-> 0, identity |-> None, stamped |-> FALSE,
     records |-> <<>>, open |-> FALSE, warned |-> FALSE]

MailInit ==
    /\ path \in {"file", "directory", "orphan", "unreadable"}
    /\ sink = None /\ inode = CHOOSE i \in Inodes : TRUE
    /\ touched = TRUE /\ written = 0
    /\ box = FreshBox /\ at = "new" /\ call = None /\ want = 0
    /\ answer = NoAnswer /\ consumed = <<>> /\ dirty = FALSE /\ hidden = FALSE

-----------------------------------------------------------------------------
(* The pipeline, and whoever else touches the file. *)

Writes(new) ==
    /\ sink' = new
    /\ touched' = TRUE
    /\ dirty' = TRUE
    /\ UNCHANGED <<path, box, at, call, want, answer, consumed, hidden>>

(* The next bytes of a line: it may be cut short by a newline. *)
AppendBytes ==
    /\ sink # None /\ Len(sink) < MaxTokens /\ UNCHANGED inode
    /\ LET end == IF sink = <<>> THEN NL ELSE Last(sink)
       IN  \/ end = NL /\ written < MaxRecords /\ written' = written + 1
              /\ Writes(Append(sink, 2 * written + 1))
           \/ end % 2 = 1 /\ UNCHANGED written /\ Writes(Append(sink, end + 1))
           \/ UNCHANGED written /\ Writes(Append(sink, NL))

Truncate ==
    /\ sink # None /\ UNCHANGED <<inode, written>>
    /\ \E size \in 0..(Len(sink) - 1) : Writes(SubSeq(sink, 1, size))

ReplaceFile ==
    /\ sink # None /\ inode' \in Inodes \ {inode}
    /\ Writes(<<>>) /\ UNCHANGED written

CreateFile ==
    /\ sink = None /\ path = "file" /\ inode' \in Inodes
    /\ Writes(<<>>) /\ UNCHANGED written

DeleteFile ==
    /\ sink # None
    /\ Writes(None) /\ UNCHANGED <<inode, written>>

-----------------------------------------------------------------------------
(* _consume: the chunk, line by line.  `line` is the line so far, `first`  *)
(* that it is the chunk's first one.                                       *)

Valid(line) == Len(line) = 2 /\ line[1] % 2 = 1 /\ line[2] = line[1] + 1

(* Mutant: the newline of a line that was read without it counts as a line. *)
NeverContinued(s) == FALSE

Continued(s) == s.open /\ s.first

(* A line with text in it; its newline, if it has one, is skipped too. *)
TakeRecord(s, newline) ==
    [s EXCEPT !.line_no = @ + 1,
              !.offset = @ + Len(s.line) + newline,
              !.open = newline = 0,
              !.records = Append(@, s.line[2] \div 2),
              !.line = <<>>, !.first = FALSE]

Terminated(s) ==
    IF s.line = <<>>
    THEN [s EXCEPT !.offset = @ + 1,
                   !.line_no = IF Continued(s) THEN @ ELSE @ + 1,
                   !.open = FALSE, !.first = FALSE]
    ELSE IF Valid(s.line) THEN TakeRecord(s, 1) ELSE [s EXCEPT !.corrupt = TRUE]

(* Mutant: a line still being written is taken for a corrupt one. *)
RaisesOnPartial(s) ==
    IF s.line # <<>> /\ ~Valid(s.line) THEN [s EXCEPT !.corrupt = TRUE]
    ELSE IF Valid(s.line) THEN TakeRecord(s, 0) ELSE s

(* The unterminated rest: taken if it is valid already, else left unread. *)
Unterminated(s) == IF ~s.corrupt /\ Valid(s.line) THEN TakeRecord(s, 0) ELSE s

ConsumeToken(s, token) ==
    IF s.corrupt THEN s
    ELSE IF token = NL THEN Terminated(s)
    ELSE [s EXCEPT !.line = Append(@, token)]

(* The state after the chunk, and whether a corrupt line ended it. *)
Consume(chunk) ==
    LET start == [offset |-> box.offset, line_no |-> box.line_no, open |-> box.open,
                  records |-> box.records, line |-> <<>>, first |-> TRUE, corrupt |-> FALSE]
    IN  Unterminated(FoldLeft(ConsumeToken, start, chunk))

-----------------------------------------------------------------------------
(* The adapter. *)

Returns(records) ==
    /\ at' = "idle" /\ call' = None
    /\ answer' = [kind |-> "records", of |-> call,
                  records |-> IF call = "list" THEN records
                              ELSE SelectSeq(records, LAMBDA r : TagOf(r) = call)]

Raises ==
    /\ at' = "dead" /\ call' = None
    /\ answer' = [NoAnswer EXCEPT !.kind = "error"]

preflight ==
    /\ at = "new"
    /\ IF path = "file" THEN at' = "idle" /\ UNCHANGED <<call, answer>> ELSE Raises
    /\ UNCHANGED <<fileVars, box, want, consumed, dirty, hidden>>

Call ==
    /\ at = "idle" /\ call = None
    /\ call' \in Tags \cup {"list"}
    /\ answer' = NoAnswer /\ dirty' = FALSE
    /\ UNCHANGED <<fileVars, box, at, want, consumed, hidden>>

(* Mutant: only a shrunk file is read again. *)
ShrankOnly(size) == size < box.offset

(* replaced, shrank or rewritten *)
Changed(size) ==
    \/ box.identity # None /\ box.identity # inode
    \/ size < box.offset
    \/ size = box.offset /\ box.stamped /\ touched /\ box.offset > 0

(* The first half of _refresh: the stat. *)
StatMissing ==
    /\ at = "idle" /\ call # None /\ sink = None
    /\ box' = IF box.offset > 0 THEN FreshBox ELSE box
    /\ consumed' = IF box.offset > 0 THEN <<>> ELSE consumed
    /\ Returns(box'.records)
    /\ dirty' = FALSE
    /\ UNCHANGED <<fileVars, want, hidden>>

Stat ==
    /\ at = "idle" /\ call # None /\ sink # None
    /\ LET size == Len(sink)
           base == IF Changed(size) THEN FreshBox ELSE box
       IN  /\ box' = [base EXCEPT !.identity = inode, !.stamped = TRUE]
           /\ consumed' = IF Changed(size) THEN <<>> ELSE consumed
           /\ hidden' = (hidden \/ (inode = box.identity /\ size > box.offset /\ ~IsPrefix(consumed, sink)))
           /\ want' = size
           /\ IF size = base.offset
              THEN Returns(base.records)
              ELSE at' = "reading" /\ UNCHANGED <<call, answer>>
    /\ touched' = FALSE /\ dirty' = FALSE
    /\ UNCHANGED <<path, sink, inode, written>>

(* The second half: the file is opened, and read from _offset up to the    *)
(* size of the stat, whatever became of it meanwhile.                      *)
ReadMissing ==
    /\ at = "reading" /\ sink = None
    /\ Raises
    /\ UNCHANGED <<fileVars, box, want, consumed, dirty, hidden>>

(* handle.seek(self._offset), handle.read(size - self._offset) *)
Chunk == SubSeq(sink, box.offset + 1, Min({want, Len(sink)}))

Read ==
    /\ at = "reading" /\ sink # None
    /\ LET chunk == Chunk
           s == Consume(chunk)
       IN  /\ box' = [box EXCEPT !.offset = s.offset, !.line_no = s.line_no, !.open = s.open,
                                 !.records = s.records,
                                 !.warned = @ \/ (~s.corrupt /\ s.line_no > WarnLines)]
           /\ consumed' = consumed \o SubSeq(chunk, 1, s.offset - box.offset)
           /\ IF s.corrupt THEN Raises ELSE Returns(s.records)
    /\ UNCHANGED <<fileVars, want, dirty, hidden>>

Writer == AppendBytes \/ Truncate \/ ReplaceFile \/ CreateFile \/ DeleteFile
Adapter == preflight \/ Call \/ StatMissing \/ Stat \/ ReadMissing \/ Read

(* After an error the run closes the adapter, whose close does nothing. *)
Closed == at = "dead" /\ UNCHANGED mailVars

MailNext == Writer \/ Adapter \/ Closed
MailSpec == MailInit /\ [][MailNext]_mailVars

-----------------------------------------------------------------------------
(* Every variable holds a value of its type. *)
MailTypeOK ==
    /\ sink = None \/ sink \in Seq(0..(2 * MaxRecords))
    /\ inode \in Inodes /\ touched \in BOOLEAN /\ written \in 0..MaxRecords
    /\ box.offset \in 0..MaxTokens /\ box.line_no \in 0..MaxTokens
    /\ box.records \in Seq(1..MaxRecords)
    /\ at \in {"new", "idle", "reading", "dead"}
    /\ call \in Tags \cup {"list", None}

(* The records in some bytes: every one whose last byte is there. *)
RecordsIn(bytes) ==
    LET ends == SelectSeq(bytes, LAMBDA t : t > 0 /\ t % 2 = 0)
    IN  [i \in DOMAIN ends |-> ends[i] \div 2]

LinesIn(bytes) ==
    Cardinality({i \in DOMAIN bytes :
        bytes[i] = NL \/ (i = Len(bytes) /\ bytes[i] # NL)})

(* What the file holds for a tag, or for the listing. *)
HoldsOf(who) ==
    IF sink = None THEN <<>>
    ELSE IF who = "list" THEN RecordsIn(sink)
    ELSE SelectSeq(RecordsIn(sink), LAMBDA r : TagOf(r) = who)

(* A file nobody touched during a call is answered for completely: every   *)
(* finished line once, in order, and nothing of a file that was replaced,  *)
(* shrunk or rewritten before, however the writes and the reads of this    *)
(* and earlier calls interleaved - as long as no rewritten file grew past  *)
(* what had been read of the old one between two looks at it.              *)
AnswersAreCurrent ==
    answer.kind = "records" /\ ~dirty /\ ~hidden => answer.records = HoldsOf(answer.of)

(* The line number an error would name is the one of the line in the file, *)
(* over blank lines and lines read before their newline arrived.           *)
LineNumbersAreTrue ==
    sink # None /\ IsPrefix(consumed, sink) => box.line_no = LinesIn(consumed)

(* A line being written is never mistaken for a corrupt one: reading a     *)
(* file nobody is touching fails only on a line that was ended too early.  *)
OnlyCorruptLinesRaise ==
    [][Read /\ ~dirty /\ ~hidden /\ answer'.kind = "error" =>
        \E i \in DOMAIN sink : i > 1 /\ sink[i] = NL /\ sink[i - 1] % 2 = 1]_mailVars

(* MailboxAdapter: "A file that shrank or was replaced is read again from  *)
(* the start."  Here: an answer about a file nobody is touching holds what *)
(* the file holds.                                                         *)
ShrunkIsReadAgain ==
    answer.kind = "records" /\ ~dirty => answer.records = HoldsOf(answer.of)
=============================================================================
