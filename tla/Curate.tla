------------------------------- MODULE Curate -------------------------------
(***************************************************************************)
(* The curation of a generated dataset (jms_curate).  The decisions of the *)
(* user are appended to an overlay, decisions.jsonl, of which the last     *)
(* line of a row counts.  materialize compacts the overlay and writes the  *)
(* split, train.jsonl and holdout.jsonl.  The requests run on threads of   *)
(* the server, the worker appends rows to raw.jsonl meanwhile, and the     *)
(* server may crash.                                                       *)
(***************************************************************************)
EXTENDS Naturals, FiniteSets, Sequences, SequencesExt

CONSTANTS Rows,    \* ids of rows the worker may generate
          Threads, \* requests served at a time
          Splits,  \* for each holdout percentage, the rows whose hash is below it
          Faults,  \* see FaultKinds
          MaxLines \* bound: lines of decisions.jsonl when a request to decide comes

\* overlap: a request is made while materialize serves another one.
\* cut:     a crash between the writes of train.jsonl and of holdout.jsonl.
\* glued:   an append cut short after another one found the file to end a line.
FaultKinds == {"overlap", "cut", "glued"}

ASSUME CurateAssumption ==
  /\ IsFiniteSet(Rows) /\ "none" \notin Rows
  /\ Splits \subseteq SUBSET Rows
  /\ Faults \subseteq FaultKinds
  /\ MaxLines \in Nat

VARIABLES
  raw,    \* rows of raw.jsonl
  disk,   \* decisions.jsonl, train.jsonl, holdout.jsonl
  ended,  \* decisions.jsonl ends with a newline
  tmp,    \* the temporary file of each, named after the server's pid
  req,    \* the request of each thread
  reply,  \* what its last request to decide answered
  last    \* the split that the last materialize answered with

vars == <<raw, disk, ended, tmp, req, reply, last>>

Actions == {"accept", "reject", "edit", "reset"}
Files == <<"decisions", "train", "holdout">>  \* in the order materialize writes them
Torn == [row |-> "none", action |-> "reset"]  \* a line that does not parse
Entry(r, action) == [row |-> r, action |-> action]
Whole(data) == [there |-> TRUE, whole |-> TRUE, data |-> data]
Empty(f) == IF f = "decisions" THEN <<>> ELSE {}
Missing(f) == [there |-> FALSE, whole |-> TRUE, data |-> Empty(f)]
Truncated(f) == [there |-> TRUE, whole |-> FALSE, data |-> Empty(f)]
Idle == [pc |-> "idle", rows |-> {}, action |-> "reset", nl |-> FALSE, held |-> {}, raw |-> {},
         folded |-> {}, file |-> 1, fd |-> "none"]

Entries == [row : Rows, action : Actions]
Examples == [row : Rows, edited : BOOLEAN]
FileNames == {Files[i] : i \in 1..3}

Data(f) == IF f = "decisions" THEN Seq(Entries \cup {Torn}) ELSE SUBSET Examples
Stored(f) == [there : BOOLEAN, whole : BOOLEAN, data : Data(f)]
Request ==
  [pc : {"idle", "append", "write", "read", "open", "fill", "replace"}, rows : SUBSET Rows,
   action : Actions, nl : BOOLEAN, held : SUBSET Rows, raw : SUBSET Rows, folded : SUBSET Entries,
   file : 1..3, fd : {"none", "tmp", "disk"}]

TypeOK ==
  /\ raw \subseteq Rows /\ ended \in BOOLEAN
  /\ DOMAIN disk = FileNames /\ DOMAIN tmp = FileNames
  /\ \A f \in FileNames : disk[f] \in Stored(f) /\ tmp[f] \in Stored(f)
  /\ req \in [Threads -> Request]
  /\ reply \in [Threads -> {"none", "ok", "error"}]
  /\ last \in [train : SUBSET Examples, holdout : SUBSET Examples]

Init ==
  /\ raw = {} /\ ended = TRUE
  /\ disk = [f \in FileNames |-> Whole(Empty(f))]
  /\ tmp = [f \in FileNames |-> Missing(f)]
  /\ req = [t \in Threads |-> Idle]
  /\ reply = [t \in Threads |-> "none"]
  /\ last = [train |-> {}, holdout |-> {}]

-----------------------------------------------------------------------------
(* The overlay *)

Log == disk["decisions"].data

\* _read_decisions: the last line of every row.
LastOf(log) ==
  {log[i] : i \in {k \in 1..Len(log) : /\ log[k] # Torn
                                       /\ \A m \in k + 1..Len(log) : log[m].row # log[k].row}}

Folded == LastOf(Log)

\* _status_of: an action that is none of the three is an undo.
StatusOf(r, folded) ==
  IF Entry(r, "accept") \in folded THEN "accepted"
  ELSE IF Entry(r, "reject") \in folded THEN "rejected"
  ELSE IF Entry(r, "edit") \in folded THEN "edited"
  ELSE "pending"

\* The rows of the split, on one side or the other, edits applied.
Kept(t) ==
  {[row |-> r, edited |-> StatusOf(r, req[t].folded) = "edited"] :
     r \in {u \in req[t].raw : StatusOf(u, req[t].folded) \in {"accepted", "edited"}}}

-----------------------------------------------------------------------------
\* The worker appends a row (GenWorker).
Generate ==
  \E r \in Rows \ raw : raw' = raw \cup {r} /\ UNCHANGED <<disk, ended, tmp, req, reply, last>>

Building(t) == req[t].pc \notin {"idle", "append", "write"}

\* Whether a request is made now, one to materialize or one to decide.
Asked(t, build) ==
  /\ req[t].pc = "idle"
  /\ \/ "overlap" \in Faults
     \/ \A u \in Threads : ~Building(u) /\ (build => req[u].pc = "idle")

-----------------------------------------------------------------------------
(* decide_row and decide_page *)

\* They look the rows up in raw.jsonl: unknown ones are refused or skipped.  A
\* page is only accepted or rejected.
Decide(t) ==
  /\ Asked(t, FALSE)
  /\ \E rows \in (SUBSET raw) \ {{}}, action \in Actions :
       /\ action \in {"accept", "reject"} \/ \A r, u \in rows : r = u
       /\ Len(Log) + Cardinality(rows) <= MaxLines
       /\ req' = [req EXCEPT ![t] = [Idle EXCEPT !.pc = "append", !.rows = rows, !.action = action]]
  /\ reply' = [reply EXCEPT ![t] = "none"]
  /\ UNCHANGED <<raw, disk, ended, tmp, last>>

\* _append_decisions looks at the last byte...
ProbeEnd(t) ==
  /\ req[t].pc = "append"
  /\ req' = [req EXCEPT ![t].pc = "write", ![t].nl = ~ended]
  /\ UNCHANGED <<raw, disk, ended, tmp, reply, last>>

\* The first of the lines runs into a last line that is not ended.
Glued(lines) == Front(Log) \o <<Torn>> \o Tail(lines)

\* Mutant of Appended: no newline goes before the first record.
AppendedGlued(t, lines) == IF ended \/ lines = <<>> THEN Log \o lines ELSE Glued(lines)

\* ...and writes the lines at the end, after a newline where that byte was none.
Appended(t, lines) ==
  IF ended \/ req[t].nl \/ lines = <<>> THEN Log \o lines ELSE Glued(lines)

NewLines(t) == [i \in 1..Len(SetToSeq(req[t].rows)) |->
                  Entry(SetToSeq(req[t].rows)[i], req[t].action)]

Append_(t, lines, terminated, answer) ==
  /\ disk' = [disk EXCEPT !["decisions"].data = Appended(t, lines)]
  /\ ended' = terminated
  /\ req' = [req EXCEPT ![t] = Idle]
  /\ reply' = [reply EXCEPT ![t] = answer]
  /\ UNCHANGED <<raw, tmp, last>>

Record(t) == req[t].pc = "write" /\ Append_(t, NewLines(t), TRUE, "ok")

\* No other request counts on the newline it has seen at the end of the file.
Unseen(t) ==
  "glued" \in Faults \/ \A u \in Threads \ {t} : req[u].pc = "write" => req[u].nl

\* The disk is full, or the power fails: nothing is written, or the newline, or
\* part of the lines, the last of them cut short or lacking only its newline.
RecordPart(t) ==
  /\ req[t].pc = "write"
  /\ \/ \E terminated \in {ended, ended \/ req[t].nl} : Append_(t, <<>>, terminated, "error")
     \/ \E n \in 0..Len(NewLines(t)) :
          LET part == SubSeq(NewLines(t), 1, n) IN
          \/ n > 0 /\ Append_(t, part, TRUE, "error")
          \/ n > 0 /\ Unseen(t) /\ Append_(t, part, FALSE, "error")
          \/ n < Len(NewLines(t)) /\ Unseen(t) /\ Append_(t, Append(part, Torn), FALSE, "error")

-----------------------------------------------------------------------------
(* materialize *)

Materialize(t) ==
  /\ Asked(t, TRUE)
  /\ \E held \in Splits :
       req' = [req EXCEPT ![t] = [Idle EXCEPT !.pc = "read", !.held = held, !.raw = raw]]
  /\ UNCHANGED <<raw, disk, ended, tmp, reply, last>>

ReadDecisions(t) ==
  /\ req[t].pc = "read"
  /\ req' = [req EXCEPT ![t].pc = "open", ![t].folded = Folded]
  /\ UNCHANGED <<raw, disk, ended, tmp, reply, last>>

\* What the request writes to a file.
Content(t, f) ==
  CASE f = "decisions" -> SetToSeq(req[t].folded)
    [] f = "train"     -> {e \in Kept(t) : e.row \notin req[t].held}
    [] f = "holdout"   -> {e \in Kept(t) : e.row \in req[t].held}

File(t) == Files[req[t].file]

\* Mutant of OpenTmp: the file is written in place.
OpenInPlace(t) ==
  /\ req[t].pc = "open"
  /\ disk' = [disk EXCEPT ![File(t)] = Truncated(File(t))]
  /\ req' = [req EXCEPT ![t].pc = "fill", ![t].fd = "disk"]
  /\ UNCHANGED <<raw, ended, tmp, reply, last>>

\* _atomic_write: the temporary file is made or truncated...
OpenTmp(t) ==
  /\ req[t].pc = "open"
  /\ tmp' = [tmp EXCEPT ![File(t)] = Truncated(File(t))]
  /\ req' = [req EXCEPT ![t].pc = "fill", ![t].fd = "tmp"]
  /\ UNCHANGED <<raw, disk, ended, reply, last>>

\* ...written, wherever another request renamed it to...
FillTmp(t) ==
  /\ req[t].pc = "fill"
  /\ IF req[t].fd = "tmp"
     THEN tmp' = [tmp EXCEPT ![File(t)] = Whole(Content(t, File(t)))] /\ UNCHANGED disk
     ELSE disk' = [disk EXCEPT ![File(t)] = Whole(Content(t, File(t)))] /\ UNCHANGED tmp
  /\ req' = [req EXCEPT ![t].pc = "replace", ![t].fd = "none"]
  /\ UNCHANGED <<raw, ended, reply, last>>

\* Mutant of Refused: the guard comes after a first write.
RefusedLate(t) == File(t) = "train" /\ Kept(t) = {}

\* The guard between the compaction and the split.
Refused(t) == File(t) = "decisions" /\ Kept(t) = {}

\* ...and renamed; with the other request's rename it is gone, and the request
\* fails.  The last rename is followed by the answer.
Replace(t) ==
  /\ req[t].pc = "replace"
  /\ IF ~tmp[File(t)].there
     THEN req' = [req EXCEPT ![t] = Idle] /\ UNCHANGED <<disk, ended, tmp, last>>
     ELSE /\ disk' = [disk EXCEPT ![File(t)] = tmp[File(t)]]
          /\ tmp' = [tmp EXCEPT ![File(t)] = Missing(File(t))]
          /\ ended' = (ended \/ File(t) = "decisions")
          /\ LET done == Refused(t) \/ File(t) = "holdout"
                 moved == [u \in Threads |->
                             IF req[u].fd = "tmp" /\ File(u) = File(t)
                             THEN [req[u] EXCEPT !.fd = "disk"] ELSE req[u]]
             IN req' = [moved EXCEPT ![t] = IF done THEN Idle
                                            ELSE [req[t] EXCEPT !.pc = "open", !.file = @ + 1]]
          /\ last' = IF File(t) = "holdout"
                     THEN [train |-> Content(t, "train"), holdout |-> Content(t, "holdout")]
                     ELSE last
  /\ UNCHANGED <<raw, reply>>

-----------------------------------------------------------------------------
\* The server crashes; the next one has another pid.
Crash ==
  /\ "cut" \in Faults \/ \A t \in Threads : Building(t) => req[t].file < 3
  /\ tmp' = [f \in FileNames |-> Missing(f)]
  /\ req' = [t \in Threads |-> Idle]
  /\ reply' = [t \in Threads |-> "none"]
  /\ UNCHANGED <<raw, disk, ended, last>>

Next ==
  \/ Generate \/ Crash
  \/ \E t \in Threads :
       \/ Decide(t) \/ ProbeEnd(t) \/ Record(t) \/ RecordPart(t)
       \/ Materialize(t) \/ ReadDecisions(t) \/ OpenTmp(t) \/ FillTmp(t) \/ Replace(t)

Spec == Init /\ [][Next]_vars

-----------------------------------------------------------------------------
(* Properties *)

\* "A reader either sees the whole old file or the whole new one": a trainer that
\* opens the split, and a request that reads the overlay, at any time.
NeverTruncated == \A f \in FileNames : disk[f].whole

\* Unless a build is under way, the split on disk is the one the last build
\* answered with, both files of it: a build that failed or was refused has left
\* it alone, no row is on both sides, and none is kept that was decided against.
SplitIsTheLastBuilt ==
  (\A t \in Threads : ~Building(t)) =>
    disk["train"].data = last.train /\ disk["holdout"].data = last.holdout

\* No decision is lost or made up, by a compaction, by a crash, or by a record
\* that was cut short, and one that was answered counts: the overlay implements
\* a map of the last decisions.
Overlaid ==
  INSTANCE Overlay WITH
    status <- [r \in Rows |-> StatusOf(r, Folded)],
    asked <- [t \in Threads |-> IF req[t].pc \in {"append", "write"}
                                THEN [rows |-> req[t].rows, action |-> req[t].action]
                                ELSE [rows |-> {}, action |-> "reset"]]

LastDecisionCounts == Overlaid!Spec
=============================================================================
