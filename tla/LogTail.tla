------------------------------ MODULE LogTail -------------------------------
(***************************************************************************)
(* metrics.tail: the last lines of a log, read in blocks from its end      *)
(* while a worker appends to it.  Every live log view, and the search for  *)
(* a job's exit marker, reads through it.                                  *)
(***************************************************************************)
EXTENDS Integers, FiniteSets, Sequences, SequencesExt, FiniteSetsExt

CONSTANTS Block,   \* _TAIL_BLOCK, in bytes
          Lines,   \* how many lines are asked for
          MaxBytes \* bound: the length of the log

ASSUME LogTailAssumption ==
  Block \in Nat \ {0} /\ Lines \subseteq Nat /\ MaxBytes \in Nat

\* Bytes: one of a line, carriage return, line feed.
Bytes == {"x", "cr", "lf"}

VARIABLES
  log,         \* the file
  n,           \* lines asked for
  size, pos,   \* its size when the reader asked, and how far back it is
  buf, cut,    \* what it has read; where in it the lines start, or -1
  pc

tailVars == <<log, n, size, pos, buf, cut, pc>>

TailTypeOK ==
  /\ log \in BoundedSeq(Bytes, MaxBytes) /\ n \in Lines
  /\ size \in 0..MaxBytes /\ pos \in 0..size
  /\ buf \in BoundedSeq(Bytes, size) /\ cut \in -1..size
  /\ pc \in {"open", "read", "scan", "done"}

TailInit ==
  /\ log \in BoundedSeq(Bytes, MaxBytes) /\ n \in Lines
  /\ size = 0 /\ pos = 0 /\ buf = <<>> /\ cut = -1
  /\ pc = "open"

\* Mutant of TailCut: CRLF counts twice.
TailCutTwice(b, k) ==
  LET back[i \in 0..Len(b)] == [count \in 0..k - 1 |->
        IF i = 0 THEN -1
        ELSE IF b[i] = "x" THEN back[i - 1][count]
        ELSE IF count + 1 = k THEN i ELSE back[i - 1][count + 1]]
  IN back[Len(b)][0]

\* _tail_cut: how many bytes lie before the last k lines, or -1.
TailCut(b, k) ==
  LET back[i \in 0..Len(b)] == [count \in 0..k - 1 |->
        IF i = 0 THEN -1
        ELSE IF b[i] = "x" THEN back[i - 1][count]
        ELSE IF count + 1 = k THEN i
        ELSE back[IF b[i] = "lf" /\ i > 1 /\ b[i - 1] = "cr" THEN i - 2 ELSE i - 1][count + 1]]
  IN back[Len(b)][0]

Step == IF Block < pos THEN Block ELSE pos

\* No line asked for, no reading; else the size is taken once.
Open ==
  /\ pc = "open"
  /\ size' = IF n <= 0 THEN 0 ELSE Len(log)
  /\ pos' = size'
  /\ pc' = "scan"
  /\ UNCHANGED <<log, n, buf, cut>>

Read ==
  /\ pc = "read"
  /\ pos' = pos - Step
  /\ buf' = SubSeq(log, pos - Step + 1, pos) \o buf
  /\ cut' = TailCut(buf', n)
  /\ pc' = "scan"
  /\ UNCHANGED <<log, n, size>>

Scan ==
  /\ pc = "scan"
  /\ pc' = IF pos > 0 /\ cut < 0 THEN "read" ELSE "done"
  /\ UNCHANGED <<log, n, size, pos, buf, cut>>

\* The worker writes on, lines or parts of them.
Write ==
  /\ \E b \in Bytes : Len(log) < MaxBytes /\ log' = Append(log, b)
  /\ UNCHANGED <<n, size, pos, buf, cut, pc>>

Done == pc = "done" /\ UNCHANGED tailVars

TailNext == Open \/ Read \/ Scan \/ Write \/ Done

TailSpec == TailInit /\ [][TailNext]_tailVars

-----------------------------------------------------------------------------
(* Properties *)

\* Universal newlines: the bytes as text.
Text(f) ==
  LET text[i \in 0..Len(f)] ==
        IF i = 0 THEN <<>>
        ELSE IF f[i] = "x" THEN Append(text[i - 1], "x")
        ELSE IF f[i] = "cr" /\ i < Len(f) /\ f[i + 1] = "lf" THEN text[i - 1]
        ELSE Append(text[i - 1], "lf")
  IN text[Len(f)]

\* "read_text().split("\n")[-n:]"
LastLines(text, k) ==
  LET ends == {i \in 1..Len(text) : text[i] = "lf"}
      before == {i \in ends : Cardinality({m \in ends : i <= m}) >= k}
  IN SubSeq(text, Max({0} \cup before) + 1, Len(text))

\* However the blocks cut the lines and their CRLFs, and whatever is appended
\* meanwhile, the reader returns the last lines of the log it opened.
TailIsLastLines ==
  pc = "done" =>
    Text(SubSeq(buf, Max({0, cut}) + 1, Len(buf))) =
      IF n = 0 THEN <<>> ELSE LastLines(Text(SubSeq(log, 1, size)), n)
=============================================================================
