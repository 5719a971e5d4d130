---------------------------- MODULE CurateProofs -----------------------------
(***************************************************************************)
(* What curation keeps, for any rows, threads and splits, wherever an      *)
(* append is cut short and wherever the server crashes, as long as no      *)
(* request is made during a build.  Only that the two files of a split     *)
(* are of one build needs that no crash comes between them, and only that  *)
(* each decision counts needs that no append is cut short after another    *)
(* one has seen the newline at the end of the file.                        *)
(***************************************************************************)
EXTENDS Curate, FiniteSetTheorems, SequenceTheorems, TLAPS

Logs == Seq(Entries \cup {Torn})

\* No line of an overlay is of the row "none" but one that does not parse.
LEMMA TornIsNoEntry == Torn \notin Entries /\ \A e \in Entries : e.row # Torn.row
  BY CurateAssumption DEF Entries, Torn

LEMMA FiniteEntries == IsFiniteSet(Entries)
<1> DEFINE code == [e \in Entries |-> <<e.row, e.action>>]
<1>1. IsFiniteSet(Actions)
  <2>1. IsFiniteSet({"accept"}) /\ IsFiniteSet({"reject"}) /\ IsFiniteSet({"edit"}) /\ IsFiniteSet({"reset"})
    BY FS_Singleton
  <2>2. IsFiniteSet({"accept"} \cup {"reject"}) /\ IsFiniteSet({"edit"} \cup {"reset"})
    BY <2>1, FS_Union
  <2>3. IsFiniteSet(({"accept"} \cup {"reject"}) \cup ({"edit"} \cup {"reset"}))
    BY <2>2, FS_Union
  <2>4. Actions = ({"accept"} \cup {"reject"}) \cup ({"edit"} \cup {"reset"})
    BY DEF Actions
  <2>5. QED
    BY <2>3, <2>4
<1>2. IsFiniteSet(Rows \X Actions)
  BY <1>1, FS_Product, CurateAssumption
<1>3. code \in [Entries -> Rows \X Actions]
  BY DEF Entries
<1>4. ASSUME NEW e \in Entries, NEW d \in Entries, code[e] = code[d] PROVE e = d
  <2>1. e.row = d.row /\ e.action = d.action
    BY <1>4
  <2>2. QED
    BY <2>1 DEF Entries
<1>5. code \in Injection(Entries, Rows \X Actions)
  BY <1>3, <1>4 DEF Injection, IsInjective
<1>6. QED
  BY <1>2, <1>5, FS_Injection

\* SetToSeq lists the elements of a finite set, each of them once.
LEMMA Listed ==
  ASSUME NEW S, IsFiniteSet(S)
  PROVE  /\ SetToSeq(S) \in Seq(S)
         /\ \A i, k \in 1..Len(SetToSeq(S)) : SetToSeq(S)[i] = SetToSeq(S)[k] => i = k
         /\ S = {SetToSeq(S)[i] : i \in 1..Len(SetToSeq(S))}
<1>1. Cardinality(S) \in Nat /\ ExistsBijection(1..Cardinality(S), S)
  BY FS_CardinalityType
<1>2. SetToSeq(S) \in [1..Cardinality(S) -> S] /\ IsInjective(SetToSeq(S))
  <2>1. \E f \in [1..Cardinality(S) -> S] : IsInjective(f)
    BY <1>1 DEF ExistsBijection, Bijection, Injection
  <2>2. QED
    BY <2>1 DEF SetToSeq
<1>3. SetToSeq(S) \in Seq(S) /\ Len(SetToSeq(S)) = Cardinality(S)
  BY <1>1, <1>2
<1>4. Cardinality(1..Cardinality(S)) = Cardinality(S) /\ IsFiniteSet(1..Cardinality(S))
  BY <1>1, FS_Interval
<1>5. \A y \in S : \E i \in 1..Cardinality(S) : SetToSeq(S)[i] = y
  <2>1. SetToSeq(S) \in Injection(1..Cardinality(S), S)
    BY <1>2 DEF Injection
  <2> DEFINE image == {SetToSeq(S)[i] : i \in 1..Cardinality(S)}
  <2>2. SetToSeq(S) \in Bijection(1..Cardinality(S), image)
    BY <1>2 DEF Bijection, Injection, Surjection, IsInjective
  <2>3. Cardinality(image) = Cardinality(S)
    BY <2>2, <1>4, FS_Bijection DEF ExistsBijection
  <2>4. image \subseteq S
    BY <1>2
  <2>5. image = S
    BY <2>3, <2>4, FS_Subset
  <2>6. QED
    BY <2>5
<1>6. QED
  BY <1>2, <1>3, <1>5 DEF IsInjective

\* Lines of different rows at the end of an overlay take the place of the lines
\* of their rows; half a line takes no place.
LEMMA LastOfAppended ==
  ASSUME NEW log \in Logs, NEW lines \in Logs,
         \A i, k \in 1..Len(lines) : lines[i].row = lines[k].row => i = k
  PROVE  LastOf(log \o lines) =
           {e \in LastOf(log) : \A i \in 1..Len(lines) : lines[i].row # e.row}
             \cup {e \in Entries : \E i \in 1..Len(lines) : lines[i] = e}
<1> DEFINE both == log \o lines
<1>1. /\ both \in Logs /\ Len(both) = Len(log) + Len(lines)
      /\ \A i \in 1..Len(log) : both[i] = log[i]
      /\ \A i \in 1..Len(lines) : both[Len(log) + i] = lines[i]
      /\ Len(log) \in Nat /\ Len(lines) \in Nat
  BY ConcatProperties, LenProperties DEF Logs
<1> HIDE DEF both
<1>2. ASSUME NEW e \in LastOf(both)
      PROVE  \/ e \in LastOf(log) /\ \A i \in 1..Len(lines) : lines[i].row # e.row
             \/ e \in Entries /\ \E i \in 1..Len(lines) : lines[i] = e
  <2>1. PICK i \in 1..Len(both) :
          e = both[i] /\ both[i] # Torn /\ \A m \in i + 1..Len(both) : both[m].row # both[i].row
    BY <1>2 DEF LastOf
  <2>2. CASE i <= Len(log)
    <3>1. i \in 1..Len(log) /\ e = log[i]
      BY <2>1, <2>2, <1>1
    <3>2. \A m \in i + 1..Len(log) : log[m].row # log[i].row
      BY <2>1, <3>1, <1>1
    <3>3. \A k \in 1..Len(lines) : lines[k].row # e.row
      <4>1. SUFFICES ASSUME NEW k \in 1..Len(lines) PROVE lines[k].row # e.row
        OBVIOUS
      <4>2. Len(log) + k \in i + 1..Len(both)
        BY <2>2, <1>1
      <4>3. QED
        BY <4>2, <2>1, <1>1
    <3>4. QED
      BY <3>1, <3>2, <3>3, <2>1 DEF LastOf
  <2>3. CASE i > Len(log)
    <3>1. i - Len(log) \in 1..Len(lines) /\ lines[i - Len(log)] = e
      BY <2>1, <2>3, <1>1
    <3>2. e \in Entries
      BY <3>1, <2>1 DEF Logs
    <3>3. QED
      BY <3>1, <3>2
  <2>4. QED
    BY <2>2, <2>3, <1>1
<1>3. ASSUME NEW e \in LastOf(log), \A i \in 1..Len(lines) : lines[i].row # e.row
      PROVE  e \in LastOf(both)
  <2>1. PICK i \in 1..Len(log) :
          e = log[i] /\ log[i] # Torn /\ \A m \in i + 1..Len(log) : log[m].row # log[i].row
    BY <1>3 DEF LastOf
  <2>2. i \in 1..Len(both) /\ both[i] = e /\ both[i] # Torn
    BY <2>1, <1>1
  <2>3. ASSUME NEW m \in i + 1..Len(both) PROVE both[m].row # both[i].row
    <3>1. CASE m <= Len(log)
      BY <3>1, <2>1, <2>2, <1>1
    <3>2. CASE m > Len(log)
      <4>1. m - Len(log) \in 1..Len(lines) /\ both[m] = lines[m - Len(log)]
        BY <3>2, <1>1
      <4>2. QED
        BY <4>1, <1>3, <2>2
    <3>3. QED
      BY <3>1, <3>2, <1>1
  <2>4. QED
    BY <2>2, <2>3 DEF LastOf
<1>4. ASSUME NEW e \in Entries, NEW i \in 1..Len(lines), lines[i] = e
      PROVE  e \in LastOf(both)
  <2>1. Len(log) + i \in 1..Len(both) /\ both[Len(log) + i] = e /\ e # Torn
    BY <1>4, <1>1, TornIsNoEntry
  <2>2. ASSUME NEW m \in Len(log) + i + 1..Len(both) PROVE both[m].row # e.row
    <3>1. m - Len(log) \in 1..Len(lines) /\ m - Len(log) # i /\ both[m] = lines[m - Len(log)]
      BY <1>1
    <3>2. QED
      BY <3>1, <1>4
  <2>3. QED
    BY <2>1, <2>2 DEF LastOf
<1>5. QED
  BY <1>2, <1>3, <1>4 DEF both

\* A fold holds one decision per row.
LEMMA OnePerRow ==
  ASSUME NEW log \in Logs
  PROVE  /\ LastOf(log) \subseteq Entries
         /\ \A e, d \in LastOf(log) : e.row = d.row => e = d
<1>1. log \in [1..Len(log) -> Entries \cup {Torn}] /\ Len(log) \in Nat
  BY LenProperties DEF Logs
<1>2. LastOf(log) \subseteq Entries
  BY <1>1 DEF LastOf
<1>3. ASSUME NEW e \in LastOf(log), NEW d \in LastOf(log), e.row = d.row PROVE e = d
  <2>1. PICK i \in 1..Len(log) : e = log[i] /\ \A m \in i + 1..Len(log) : log[m].row # log[i].row
    BY DEF LastOf
  <2>2. PICK k \in 1..Len(log) : d = log[k] /\ \A m \in k + 1..Len(log) : log[m].row # log[k].row
    BY DEF LastOf
  <2>3. i = k
    BY <1>1, <1>3, <2>1, <2>2
  <2>4. QED
    BY <2>1, <2>2, <2>3
<1>4. QED
  BY <1>2, <1>3

\* Written down line by line, a fold is a fold of itself.
LEMMA Compacted ==
  ASSUME NEW S \in SUBSET Entries, \A e, d \in S : e.row = d.row => e = d
  PROVE  SetToSeq(S) \in Logs /\ LastOf(SetToSeq(S)) = S
<1> DEFINE list == SetToSeq(S)
<1>1. IsFiniteSet(S)
  BY FiniteEntries, FS_Subset
<1>2. /\ list \in Seq(S) /\ S = {list[i] : i \in 1..Len(list)}
      /\ \A i, k \in 1..Len(list) : list[i] = list[k] => i = k
  BY <1>1, Listed
<1>3. list \in [1..Len(list) -> S] /\ Len(list) \in Nat
  BY <1>2, LenProperties
<1>4. list \in Logs
  BY <1>2 DEF Logs
<1> HIDE DEF list
<1>5. \A i \in 1..Len(list) : list[i] # Torn /\ \A m \in i + 1..Len(list) : list[m].row # list[i].row
  BY <1>2, <1>3, TornIsNoEntry
<1>6. LastOf(list) = S
  BY <1>2, <1>5 DEF LastOf
<1>7. QED
  BY <1>4, <1>6 DEF list

\* The lines of a request: one per row it names, with its action.
LEMMA LinesOfRequest ==
  ASSUME NEW t \in Threads, req[t] \in Request
  PROVE  /\ NewLines(t) \in Seq(Entries) /\ NewLines(t) \in Logs
         /\ \A i, k \in 1..Len(NewLines(t)) : NewLines(t)[i].row = NewLines(t)[k].row => i = k
         /\ \A i \in 1..Len(NewLines(t)) :
              /\ NewLines(t)[i] = Entry(NewLines(t)[i].row, req[t].action)
              /\ NewLines(t)[i].row \in req[t].rows
         /\ \A r \in req[t].rows : \E i \in 1..Len(NewLines(t)) : NewLines(t)[i].row = r
<1> DEFINE list == SetToSeq(req[t].rows)
<1>1. req[t].rows \subseteq Rows /\ req[t].action \in Actions
  BY DEF Request
<1>2. IsFiniteSet(req[t].rows)
  BY <1>1, FS_Subset, CurateAssumption
<1>3. /\ list \in Seq(req[t].rows) /\ req[t].rows = {list[i] : i \in 1..Len(list)}
      /\ \A i, k \in 1..Len(list) : list[i] = list[k] => i = k
  BY <1>2, Listed
<1>4. list \in [1..Len(list) -> req[t].rows] /\ Len(list) \in Nat
  BY <1>3, LenProperties
<1>5. NewLines(t) = [i \in 1..Len(list) |-> Entry(list[i], req[t].action)]
  BY DEF NewLines
<1> HIDE DEF list
<1>6. NewLines(t) \in [1..Len(list) -> Entries]
  BY <1>1, <1>4, <1>5 DEF Entries, Entry
<1>7. NewLines(t) \in Seq(Entries) /\ Len(NewLines(t)) = Len(list)
  BY <1>4, <1>6
<1>8. \A i \in 1..Len(list) : NewLines(t)[i].row = list[i] /\ NewLines(t)[i] = Entry(list[i], req[t].action)
  BY <1>5 DEF Entry
<1>9. QED
  BY <1>3, <1>4, <1>7, <1>8 DEF Logs

-----------------------------------------------------------------------------
LEMMA Names == FileNames = {"decisions", "train", "holdout"}
  BY DEF FileNames, Files

LEMMA StoredTypes ==
  ASSUME NEW f \in FileNames
  PROVE  Missing(f) \in Stored(f) /\ Truncated(f) \in Stored(f) /\ Whole(Empty(f)) \in Stored(f)
<1>1. Empty(f) \in Data(f)
  <2>1. CASE f = "decisions"
    BY <2>1 DEF Empty, Data
  <2>2. CASE f # "decisions"
    BY <2>2 DEF Empty, Data
  <2>3. QED
    BY <2>1, <2>2
<1>2. QED
  BY <1>1 DEF Missing, Truncated, Whole, Stored

LEMMA RequestTypes ==
  /\ Idle \in Request
  /\ \A q \in Request :
       /\ \A pc \in {"open", "fill", "replace"}, fd \in {"none", "tmp", "disk"} :
            [q EXCEPT !.pc = pc, !.fd = fd] \in Request
       /\ \A folded \in SUBSET Entries : [q EXCEPT !.pc = "open", !.folded = folded] \in Request
       /\ \A n \in 1..3 : [q EXCEPT !.pc = "open", !.file = n] \in Request
       /\ \A nl \in BOOLEAN : [q EXCEPT !.pc = "write", !.nl = nl] \in Request
  /\ \A rows \in SUBSET Rows, action \in Actions :
       [Idle EXCEPT !.pc = "append", !.rows = rows, !.action = action] \in Request
  /\ \A held, rows \in SUBSET Rows :
       [Idle EXCEPT !.pc = "read", !.held = held, !.raw = rows] \in Request
<1>1. Idle \in Request
  BY DEF Idle, Request, Actions
<1>2. ASSUME NEW q \in Request, NEW set \in SUBSET Rows, NEW action \in Actions
      PROVE  [q EXCEPT !.pc = "append", !.rows = set, !.action = action] \in Request
  BY DEF Request
<1>3. ASSUME NEW q \in Request, NEW held \in SUBSET Rows, NEW set \in SUBSET Rows
      PROVE  [q EXCEPT !.pc = "read", !.held = held, !.raw = set] \in Request
  BY DEF Request
<1>4. ASSUME NEW q \in Request, NEW n \in 1..3 PROVE [q EXCEPT !.pc = "open", !.file = n] \in Request
  BY DEF Request
<1>5. ASSUME NEW q \in Request, NEW pc \in {"open", "fill", "replace"}, NEW fd \in {"none", "tmp", "disk"}
      PROVE  [q EXCEPT !.pc = pc, !.fd = fd] \in Request
  BY DEF Request
<1>6. ASSUME NEW q \in Request, NEW folded \in SUBSET Entries
      PROVE  [q EXCEPT !.pc = "open", !.folded = folded] \in Request
  BY DEF Request
<1>7. ASSUME NEW q \in Request, NEW nl \in BOOLEAN PROVE [q EXCEPT !.pc = "write", !.nl = nl] \in Request
  BY DEF Request
<1>8. QED
  BY <1>1, <1>2, <1>3, <1>4, <1>5, <1>6, <1>7

LEMMA FileTypes ==
  ASSUME TypeOK, NEW t \in Threads
  PROVE  /\ File(t) \in FileNames /\ Content(t, File(t)) \in Data(File(t))
         /\ Content(t, "train") \in SUBSET Examples /\ Content(t, "holdout") \in SUBSET Examples
<1>1. req[t] \in Request
  BY DEF TypeOK
<1>2. File(t) \in FileNames
  BY <1>1 DEF File, FileNames, Request
<1>3. Kept(t) \subseteq Examples
  <2>1. ASSUME NEW r \in Rows, NEW b \in BOOLEAN PROVE [row |-> r, edited |-> b] \in Examples
    BY DEF Examples
  <2>2. \A r \in Rows : (StatusOf(r, req[t].folded) = "edited") \in BOOLEAN
    OBVIOUS
  <2>3. req[t].raw \subseteq Rows
    BY <1>1 DEF Request
  <2>4. QED
    BY <2>1, <2>2, <2>3, Zenon DEF Kept
<1>4. Content(t, "train") \in SUBSET Examples /\ Content(t, "holdout") \in SUBSET Examples
  BY <1>3 DEF Content
<1>5. Content(t, "decisions") \in Seq(Entries \cup {Torn})
  <2>1. req[t].folded \subseteq Entries
    BY <1>1 DEF Request
  <2>2. SetToSeq(req[t].folded) \in Seq(req[t].folded)
    BY <2>1, FiniteEntries, FS_Subset, Listed
  <2>3. SetToSeq(req[t].folded) \in Seq(Entries \cup {Torn})
    BY <2>1, <2>2
  <2>4. QED
    BY <2>3 DEF Content
<1>6. QED
  BY <1>2, <1>4, <1>5, Names DEF Data

\* A step keeps the type of every variable, whatever overlaps.
LEMMA TypeStep == ASSUME TypeOK, [Next]_vars PROVE TypeOK'
<1>1. ASSUME Generate PROVE TypeOK'
  BY <1>1 DEF Generate, TypeOK
<1>2. ASSUME Crash PROVE TypeOK'
  BY <1>2, StoredTypes, RequestTypes DEF Crash, TypeOK
<1>3. ASSUME NEW t \in Threads, Decide(t) PROVE TypeOK'
  <2>1. PICK rows \in SUBSET raw, action \in Actions :
          req' = [req EXCEPT ![t] = [Idle EXCEPT !.pc = "append", !.rows = rows, !.action = action]]
    BY <1>3 DEF Decide
  <2>2. [Idle EXCEPT !.pc = "append", !.rows = rows, !.action = action] \in Request
    BY RequestTypes DEF TypeOK
  <2>3. QED
    BY <1>3, <2>1, <2>2 DEF Decide, TypeOK
<1>4. ASSUME NEW t \in Threads, NEW lines \in Logs, NEW b \in BOOLEAN, NEW answer \in {"ok", "error"},
             Append_(t, lines, b, answer)
      PROVE  TypeOK'
  <2>1. Log \in Seq(Entries \cup {Torn})
    BY Names DEF TypeOK, Stored, Data, Log
  <2>2. Appended(t, lines) \in Seq(Entries \cup {Torn})
    <3>1. CASE ended \/ req[t].nl \/ lines = <<>>
      BY <2>1, <3>1 DEF Appended, Logs
    <3>2. CASE ~(ended \/ req[t].nl \/ lines = <<>>)
      <4>1. Appended(t, lines) = Front(Log) \o <<Torn>> \o Tail(lines)
        BY <3>2 DEF Appended, Glued
      <4>2. Front(Log) \in Seq(Entries \cup {Torn})
        <5>1. Front(Log) = SubSeq(Log, 1, Len(Log) - 1) /\ Len(Log) \in Nat
          BY <2>1 DEF Front
        <5>2. \A i \in 1..Len(Log) - 1 : Log[i] \in Entries \cup {Torn}
          BY <2>1
        <5>3. QED
          BY <2>1, <5>1, <5>2
      <4>3. Tail(lines) \in Seq(Entries \cup {Torn})
        BY <3>2 DEF Logs
      <4>4. QED
        BY <4>1, <4>2, <4>3
    <3>3. QED
      BY <3>1, <3>2
  <2>3. [disk["decisions"] EXCEPT !.data = Appended(t, lines)] \in Stored("decisions")
    <3>1. "decisions" \in FileNames
      BY Names
    <3>2. disk["decisions"] \in Stored("decisions") /\ Data("decisions") = Seq(Entries \cup {Torn})
      BY <3>1 DEF TypeOK, Data
    <3> DEFINE new == Appended(t, lines)
    <3>3. new \in Seq(Entries \cup {Torn})
      BY <2>2
    <3> HIDE DEF new
    <3>4. [disk["decisions"] EXCEPT !.data = new] \in Stored("decisions")
      BY <3>2, <3>3 DEF Stored
    <3>5. QED
      BY <3>4 DEF new
  <2>4. QED
    BY <1>4, <2>3, RequestTypes, Names DEF Append_, TypeOK
<1>5. ASSUME NEW t \in Threads, Record(t) PROVE TypeOK'
  BY <1>5, <1>4, LinesOfRequest DEF Record, TypeOK
<1>6. ASSUME NEW t \in Threads, RecordPart(t) PROVE TypeOK'
  <2>1. NewLines(t) \in Logs /\ <<>> \in Logs /\ ended \in BOOLEAN /\ (ended \/ req[t].nl) \in BOOLEAN
    BY LinesOfRequest DEF TypeOK, Logs
  <2>2. ASSUME NEW n \in 0..Len(NewLines(t))
        PROVE  SubSeq(NewLines(t), 1, n) \in Logs /\ Append(SubSeq(NewLines(t), 1, n), Torn) \in Logs
    BY <2>1 DEF Logs
  <2>3. QED
    BY <2>1, <2>2, <1>4, <1>6 DEF RecordPart
<1>7. ASSUME NEW t \in Threads, Materialize(t) PROVE TypeOK'
  <2>1. PICK held \in Splits :
          req' = [req EXCEPT ![t] = [Idle EXCEPT !.pc = "read", !.held = held, !.raw = raw]]
    BY <1>7 DEF Materialize
  <2>2. [Idle EXCEPT !.pc = "read", !.held = held, !.raw = raw] \in Request
    BY RequestTypes, CurateAssumption DEF TypeOK
  <2>3. QED
    BY <1>7, <2>1, <2>2 DEF Materialize, TypeOK
<1>8. ASSUME NEW t \in Threads, ReadDecisions(t) PROVE TypeOK'
  <2>1. Log \in Logs
    BY Names DEF TypeOK, Stored, Data, Log, Logs
  <2>2. Folded \in SUBSET Entries
    BY <2>1, OnePerRow DEF Folded
  <2>3. QED
    BY <1>8, <2>2, RequestTypes DEF ReadDecisions, TypeOK
<1>9. ASSUME NEW t \in Threads, OpenTmp(t) PROVE TypeOK'
  <2>1. File(t) \in FileNames /\ Truncated(File(t)) \in Stored(File(t))
    BY FileTypes, StoredTypes
  <2>2. req' \in [Threads -> Request]
    BY <1>9, RequestTypes DEF OpenTmp, TypeOK
  <2>3. QED
    BY <1>9, <2>1, <2>2 DEF OpenTmp, TypeOK
<1>10. ASSUME NEW t \in Threads, FillTmp(t) PROVE TypeOK'
  <2>1. File(t) \in FileNames /\ Whole(Content(t, File(t))) \in Stored(File(t))
    BY FileTypes DEF Whole, Stored
  <2>2. req' \in [Threads -> Request]
    BY <1>10, RequestTypes DEF FillTmp, TypeOK
  <2>3. QED
    BY <1>10, <2>1, <2>2 DEF FillTmp, TypeOK
<1>11. ASSUME NEW t \in Threads, Replace(t) PROVE TypeOK'
  <2>1. File(t) \in FileNames /\ Missing(File(t)) \in Stored(File(t)) /\ tmp[File(t)] \in Stored(File(t))
    BY FileTypes, StoredTypes DEF TypeOK
  <2>3. req' \in [Threads -> Request]
    <3>1. Idle \in Request
      BY RequestTypes
    <3>2. CASE ~tmp[File(t)].there
      BY <1>11, <3>1, <3>2 DEF Replace, TypeOK
    <3>3. CASE tmp[File(t)].there
      <4> DEFINE done == Refused(t) \/ File(t) = "holdout"
                 moved == [u \in Threads |->
                             IF req[u].fd = "tmp" /\ File(u) = File(t)
                             THEN [req[u] EXCEPT !.fd = "disk"] ELSE req[u]]
                 next == [req[t] EXCEPT !.pc = "open", !.file = @ + 1]
      <4>1. req' = [moved EXCEPT ![t] = IF done THEN Idle ELSE next]
        BY <1>11, <3>3 DEF Replace
      <4>2. moved \in [Threads -> Request]
        BY DEF TypeOK, Request
      <4>3. ~done => next \in Request
        <5>1. req[t] \in Request
          BY DEF TypeOK
        <5>2. ~done => req[t].file \in 1..2
          BY <5>1 DEF File, Files, Request
        <5>3. ~done => req[t].file + 1 \in 1..3
          BY <5>2
        <5>4. QED
          BY <5>1, <5>3, RequestTypes
      <4>4. QED
        BY <4>1, <4>2, <4>3, <3>1
    <3>4. QED
      BY <3>2, <3>3
  <2>4. last' \in [train : SUBSET Examples, holdout : SUBSET Examples]
    BY <1>11, FileTypes DEF Replace, TypeOK
  <2>5. ended' \in BOOLEAN /\ raw' \subseteq Rows
    BY <1>11 DEF Replace, TypeOK
  <2>6. QED
    BY <1>11, <2>1, <2>3, <2>4, <2>5 DEF Replace, TypeOK
<1>12. ASSUME NEW t \in Threads, ProbeEnd(t) PROVE TypeOK'
  <2>1. (~ended) \in BOOLEAN /\ req \in [Threads -> Request]
    BY DEF TypeOK
  <2>2. req' \in [Threads -> Request]
    BY <1>12, <2>1, RequestTypes DEF ProbeEnd
  <2>3. QED
    BY <1>12, <2>2 DEF ProbeEnd, TypeOK
<1>13. ASSUME UNCHANGED vars PROVE TypeOK'
  BY <1>13 DEF vars, TypeOK
<1>14. QED
  BY <1>1, <1>2, <1>3, <1>5, <1>6, <1>7, <1>8, <1>9, <1>10, <1>11, <1>12, <1>13 DEF Next

LEMMA TypeInit == Init => TypeOK
<1>1. ASSUME Init PROVE DOMAIN disk = FileNames /\ DOMAIN tmp = FileNames
  BY <1>1 DEF Init
<1>2. ASSUME Init, NEW f \in FileNames PROVE disk[f] \in Stored(f) /\ tmp[f] \in Stored(f)
  BY <1>2, StoredTypes DEF Init
<1>3. ASSUME Init PROVE req \in [Threads -> Request] /\ reply \in [Threads -> {"none", "ok", "error"}]
  BY <1>3, RequestTypes DEF Init
<1>4. ASSUME Init PROVE last \in [train : SUBSET Examples, holdout : SUBSET Examples]
  BY <1>4 DEF Init
<1>5. ASSUME Init PROVE raw \subseteq Rows /\ ended \in BOOLEAN
  BY <1>5 DEF Init
<1>6. QED
  BY <1>1, <1>2, <1>3, <1>4, <1>5 DEF TypeOK

\* Every variable keeps its type, also when requests overlap.
THEOREM TypeCorrect == Spec => []TypeOK
BY TypeInit, TypeStep, PTL DEF Spec

-----------------------------------------------------------------------------
\* A build runs alone.
Solo == \A t, u \in Threads : t # u /\ Building(t) => req[u].pc = "idle"

\* What the request of a thread has read and written so far.
Progress(t) ==
  /\ req[t].fd = IF req[t].pc = "fill" THEN "tmp" ELSE "none"
  /\ req[t].pc \in {"append", "write"} => req[t].rows # {}
  /\ req[t].pc = "read" => req[t].file = 1
  /\ req[t].pc = "replace" => tmp[File(t)] = Whole(Content(t, File(t)))
  /\ req[t].pc \in {"open", "fill", "replace"} /\ req[t].file = 1 => req[t].folded = Folded
  /\ "cut" \notin Faults /\ Building(t) =>
       /\ disk["holdout"].data = last.holdout
       /\ disk["train"].data = IF req[t].file = 3 THEN Content(t, "train") ELSE last.train

\* The split is one of one build, unless a crash may come between its files.
Settled == "cut" \notin Faults => SplitIsTheLastBuilt

IInv ==
  /\ TypeOK /\ Solo /\ \A t \in Threads : Progress(t)
  /\ NeverTruncated /\ Settled

\* What a request writes was settled when it read the overlay.
LEMMA SameContent ==
  ASSUME NEW t, NEW f, req'[t].raw = req[t].raw, req'[t].folded = req[t].folded,
         req'[t].held = req[t].held
  PROVE  Content(t, f)' = Content(t, f) /\ (Kept(t) = {})' = (Kept(t) = {})
<1>1. Kept(t)' = Kept(t)
  BY DEF Kept
<1>2. QED
  BY <1>1 DEF Content

\* A request is where it was if neither it nor, during a build, a file moved.
LEMMA Undisturbed ==
  ASSUME NEW t \in Threads, Progress(t), req'[t] = req[t], Building(t) => UNCHANGED <<disk, tmp, last>>
  PROVE  Progress(t)'
<1>1. \A f : Content(t, f)' = Content(t, f)
  BY SameContent
<1>2. File(t)' = File(t) /\ Building(t)' = Building(t)
  BY DEF File, Building
<1>3. CASE Building(t)
  <2>1. Folded' = Folded
    BY <1>3 DEF Folded, Log
  <2>2. QED
    BY <1>1, <1>2, <1>3, <2>1 DEF Progress
<1>4. CASE ~Building(t)
  BY <1>2, <1>4 DEF Progress, Building
<1>5. QED
  BY <1>3, <1>4

\* A thread without a request, also one whose request has just ended.
LEMMA AtRest == ASSUME NEW t \in Threads, req'[t] = Idle PROVE Progress(t)' /\ ~Building(t)'
  BY DEF Progress, Building, Idle

\* While one thread builds, the others have no request.
LEMMA Others ==
  ASSUME IInv, NEW t \in Threads, Building(t), NEW u \in Threads \ {t}, req'[u] = req[u]
  PROVE  Progress(u)' /\ req'[u].pc = "idle" /\ ~Building(u)'
<1>1. req[u].pc = "idle" /\ req[u].fd = "none"
  BY DEF IInv, Solo, Progress
<1>2. QED
  BY <1>1 DEF Progress, Building

\* Nobody builds while a thread decides.
LEMMA NoBuild ==
  ASSUME IInv, NEW t \in Threads, req[t].pc \in {"append", "write"} PROVE \A u \in Threads : ~Building(u)
  BY DEF IInv, Solo, Building

LEMMA DecideStep ==
  ASSUME IInv, TypeOK', "overlap" \notin Faults, NEW t \in Threads, Decide(t) PROVE IInv'
<1>1. PICK rows \in (SUBSET raw) \ {{}}, action \in Actions :
        req' = [req EXCEPT ![t] = [Idle EXCEPT !.pc = "append", !.rows = rows, !.action = action]]
  BY DEF Decide
<1>2. req'[t].pc = "append" /\ req'[t].rows # {} /\ req'[t].fd = "none"
  <2>1. Idle \in Request /\ Idle.fd = "none"
    BY RequestTypes DEF Idle
  <2>2. req'[t] = [Idle EXCEPT !.pc = "append", !.rows = rows, !.action = action]
    BY <1>1 DEF IInv, TypeOK
  <2>3. \A q \in Request : req'[t] = [q EXCEPT !.pc = "append", !.rows = rows, !.action = action]
           => req'[t].pc = "append" /\ req'[t].rows = rows /\ req'[t].fd = q.fd
    BY DEF Request
  <2>4. QED
    BY <2>1, <2>2, <2>3
<1>3. \A u \in Threads \ {t} : req'[u] = req[u]
  BY <1>1 DEF IInv, TypeOK
<1>4. \A u \in Threads : ~Building(u) /\ ~Building(u)'
  BY <1>2, <1>3 DEF Decide, Asked, Building
<1>5. \A u \in Threads : Progress(u)'
  <2>1. Progress(t)'
    BY <1>2, <1>4 DEF Progress
  <2>2. \A u \in Threads \ {t} : Progress(u)'
    BY <1>3, <1>4, Undisturbed DEF IInv
  <2>3. QED
    BY <2>1, <2>2
<1>6. QED
  BY <1>4, <1>5 DEF IInv, Solo, NeverTruncated, Settled, SplitIsTheLastBuilt, Decide

LEMMA ProbeStep ==
  ASSUME IInv, TypeOK', NEW t \in Threads, ProbeEnd(t) PROVE IInv'
<1>1. \A u \in Threads : ~Building(u)
  BY NoBuild DEF ProbeEnd
<1>2. /\ req'[t].pc = "write" /\ req'[t].rows = req[t].rows /\ req'[t].fd = req[t].fd
      /\ \A u \in Threads \ {t} : req'[u] = req[u]
  BY DEF ProbeEnd, IInv, TypeOK, Request
<1>3. req[t].pc = "append" /\ req[t].rows # {} /\ req[t].fd = "none"
  BY DEF ProbeEnd, IInv, Progress
<1>4. Progress(t)' /\ ~Building(t)'
  BY <1>2, <1>3 DEF Progress, Building
<1>5. \A u \in Threads \ {t} : Progress(u)' /\ ~Building(u)'
  BY <1>1, <1>2, Undisturbed DEF IInv, Building
<1>6. QED
  BY <1>1, <1>4, <1>5 DEF IInv, Solo, NeverTruncated, Settled, SplitIsTheLastBuilt, ProbeEnd

LEMMA AppendStep ==
  ASSUME IInv, TypeOK', NEW t \in Threads, req[t].pc = "write", NEW lines, NEW b, NEW answer,
         Append_(t, lines, b, answer)
  PROVE  IInv'
<1>1. \A u \in Threads : ~Building(u)
  BY NoBuild
<1>2. req'[t] = Idle /\ \A u \in Threads \ {t} : req'[u] = req[u]
  BY DEF Append_, IInv, TypeOK
<1>3. \A u \in Threads : Progress(u)' /\ ~Building(u)'
  <2>1. \A u \in Threads \ {t} : Progress(u)' /\ ~Building(u)'
    BY <1>1, <1>2, Undisturbed DEF IInv, Building
  <2>2. QED
    BY <1>2, <2>1, AtRest
<1>4. /\ disk'["train"] = disk["train"] /\ disk'["holdout"] = disk["holdout"]
      /\ \A f \in FileNames : disk'[f].whole = disk[f].whole
  BY Names DEF Append_, IInv, TypeOK, Stored
<1>5. QED
  BY <1>1, <1>3, <1>4 DEF IInv, Solo, NeverTruncated, Settled, SplitIsTheLastBuilt, Append_

LEMMA MaterializeStep ==
  ASSUME IInv, TypeOK', "overlap" \notin Faults, NEW t \in Threads, Materialize(t) PROVE IInv'
<1>1. PICK held \in Splits :
        req' = [req EXCEPT ![t] = [Idle EXCEPT !.pc = "read", !.held = held, !.raw = raw]]
  BY DEF Materialize
<1>2. req'[t].pc = "read" /\ req'[t].file = 1 /\ req'[t].fd = "none"
  BY <1>1 DEF Idle, IInv, TypeOK
<1>3. \A u \in Threads \ {t} : req'[u] = req[u] /\ req[u].pc = "idle"
  BY <1>1 DEF IInv, TypeOK, Materialize, Asked
<1>4. \A u \in Threads : ~Building(u)
  BY DEF Materialize, Asked
<1>5. "cut" \notin Faults =>
        disk["train"].data = last.train /\ disk["holdout"].data = last.holdout
  BY <1>4 DEF IInv, Settled, SplitIsTheLastBuilt
<1>6. Progress(t)'
  BY <1>2, <1>5 DEF Progress, Materialize
<1>7. \A u \in Threads \ {t} : Progress(u)'
  BY <1>3, <1>4, Undisturbed DEF IInv
<1>8. Solo'
  BY <1>3 DEF Solo, Building
<1>9. Building(t)'
  BY <1>2 DEF Building
<1>10. QED
  BY <1>6, <1>7, <1>8, <1>9 DEF IInv, NeverTruncated, Settled, SplitIsTheLastBuilt, Materialize

\* A step of a build that leaves its files and its answer alone.
LEMMA BuildStep ==
  ASSUME IInv, TypeOK', NEW t \in Threads, Building(t), Building(t)', UNCHANGED <<disk, last>>,
         \A u \in Threads \ {t} : req'[u] = req[u], Progress(t)'
  PROVE  IInv'
<1>1. \A u \in Threads \ {t} : Progress(u)' /\ req'[u].pc = "idle" /\ ~Building(u)'
  BY Others
<1>2. Solo' /\ \A u \in Threads : Progress(u)'
  BY <1>1 DEF Solo
<1>3. QED
  BY <1>2 DEF IInv, NeverTruncated, Settled, SplitIsTheLastBuilt

LEMMA ReadStep == ASSUME IInv, TypeOK', NEW t \in Threads, ReadDecisions(t) PROVE IInv'
<1>1. /\ req[t].pc = "read" /\ req'[t].pc = "open" /\ req'[t].folded = Folded
      /\ req'[t].file = req[t].file /\ req'[t].fd = req[t].fd
      /\ \A u \in Threads \ {t} : req'[u] = req[u]
  BY DEF ReadDecisions, IInv, TypeOK, Request
<1>2. UNCHANGED <<disk, tmp, last>> /\ Folded' = Folded
  BY DEF ReadDecisions, Folded, Log
<1>3. Progress(t)'
  BY <1>1, <1>2 DEF IInv, Progress, Building
<1>4. QED
  BY <1>1, <1>2, <1>3, BuildStep DEF Building

LEMMA OpenStep == ASSUME IInv, TypeOK', NEW t \in Threads, OpenTmp(t) PROVE IInv'
<1>1. /\ req[t].pc = "open" /\ req'[t].pc = "fill" /\ req'[t].fd = "tmp"
      /\ req'[t].file = req[t].file /\ req'[t].folded = req[t].folded
      /\ req'[t].raw = req[t].raw /\ req'[t].held = req[t].held
      /\ \A u \in Threads \ {t} : req'[u] = req[u]
  BY DEF OpenTmp, IInv, TypeOK, Request
<1>2. UNCHANGED <<disk, last>> /\ Folded' = Folded
  BY DEF OpenTmp, Folded, Log
<1>3. Content(t, "train")' = Content(t, "train")
  BY <1>1, SameContent
<1>4. Progress(t)'
  BY <1>1, <1>2, <1>3 DEF IInv, Progress, Building
<1>5. QED
  BY <1>1, <1>2, <1>4, BuildStep DEF Building

LEMMA FillStep == ASSUME IInv, TypeOK', NEW t \in Threads, FillTmp(t) PROVE IInv'
<1>1. /\ req[t].pc = "fill" /\ req[t].fd = "tmp" /\ req'[t].pc = "replace" /\ req'[t].fd = "none"
      /\ req'[t].file = req[t].file /\ req'[t].folded = req[t].folded
      /\ req'[t].raw = req[t].raw /\ req'[t].held = req[t].held
      /\ \A u \in Threads \ {t} : req'[u] = req[u]
  BY DEF FillTmp, IInv, TypeOK, Request, Progress
<1>2. UNCHANGED <<disk, last>> /\ Folded' = Folded
  BY <1>1 DEF FillTmp, Folded, Log
<1>3. \A f : Content(t, f)' = Content(t, f)
  BY <1>1, SameContent
<1>4. File(t)' = File(t) /\ File(t) \in FileNames
  BY <1>1, FileTypes DEF File, IInv
<1>5. tmp'[File(t)] = Whole(Content(t, File(t)))
  BY <1>1, <1>4 DEF FillTmp, IInv, TypeOK
<1>6. Progress(t)'
  BY <1>1, <1>2, <1>3, <1>4, <1>5 DEF IInv, Progress, Building
<1>7. QED
  BY <1>1, <1>2, <1>6, BuildStep DEF Building

\* A rename during a lonely build: what is moved is what the request wrote.
LEMMA Replaced ==
  ASSUME IInv, NEW t \in Threads, Replace(t)
  PROVE  /\ req[t].pc = "replace" /\ Building(t)
         /\ \A u \in Threads \ {t} : req'[u] = req[u] /\ req[u].pc = "idle"
         /\ disk' = [disk EXCEPT ![File(t)] = Whole(Content(t, File(t)))]
         /\ req'[t] = IF Refused(t) \/ File(t) = "holdout"
                      THEN Idle ELSE [req[t] EXCEPT !.pc = "open", !.file = @ + 1]
         /\ last' = IF File(t) = "holdout"
                    THEN [train |-> Content(t, "train"), holdout |-> Content(t, "holdout")]
                    ELSE last
<1>1. req[t].pc = "replace" /\ Building(t)
  BY DEF Replace, Building
<1>2. tmp[File(t)] = Whole(Content(t, File(t))) /\ tmp[File(t)].there
  BY <1>1 DEF IInv, Progress, Whole
<1>3. \A u \in Threads : req[u].fd = "none" /\ (u # t => req[u].pc = "idle")
  BY <1>1 DEF IInv, Solo, Progress
<1>4. req' = [req EXCEPT ![t] = IF Refused(t) \/ File(t) = "holdout"
                                THEN Idle ELSE [req[t] EXCEPT !.pc = "open", !.file = @ + 1]]
  <2> DEFINE moved == [u \in Threads |->
                         IF req[u].fd = "tmp" /\ File(u) = File(t)
                         THEN [req[u] EXCEPT !.fd = "disk"] ELSE req[u]]
  <2>1. moved = req
    BY <1>3 DEF IInv, TypeOK
  <2>2. req' = [moved EXCEPT ![t] = IF Refused(t) \/ File(t) = "holdout"
                                    THEN Idle ELSE [req[t] EXCEPT !.pc = "open", !.file = @ + 1]]
    BY <1>2 DEF Replace
  <2>3. QED
    BY <2>1, <2>2
<1>5. /\ \A u \in Threads \ {t} : req'[u] = req[u]
      /\ req'[t] = IF Refused(t) \/ File(t) = "holdout"
                   THEN Idle ELSE [req[t] EXCEPT !.pc = "open", !.file = @ + 1]
  BY <1>4 DEF IInv, TypeOK
<1>6. QED
  BY <1>1, <1>2, <1>3, <1>5 DEF Replace

LEMMA ReplaceStep == ASSUME IInv, TypeOK', NEW t \in Threads, Replace(t) PROVE IInv'
<1>0. /\ req[t].pc = "replace" /\ Building(t)
      /\ \A u \in Threads \ {t} : req'[u] = req[u] /\ req[u].pc = "idle"
      /\ disk' = [disk EXCEPT ![File(t)] = Whole(Content(t, File(t)))]
      /\ req'[t] = IF Refused(t) \/ File(t) = "holdout"
                   THEN Idle ELSE [req[t] EXCEPT !.pc = "open", !.file = @ + 1]
      /\ last' = IF File(t) = "holdout"
                 THEN [train |-> Content(t, "train"), holdout |-> Content(t, "holdout")]
                 ELSE last
  BY Replaced
<1>1. File(t) \in FileNames /\ req[t].file \in 1..3
  BY FileTypes DEF IInv, TypeOK, Request
<1>2. NeverTruncated'
  BY <1>1, <1>0 DEF NeverTruncated, IInv, TypeOK, Whole
<1>3. \A u \in Threads \ {t} : Progress(u)' /\ req'[u].pc = "idle" /\ ~Building(u)'
  BY <1>0, Others
<1>4. Solo'
  BY <1>3 DEF Solo
<1>5. ASSUME req[t].file # 3 PROVE disk'["holdout"] = disk["holdout"] /\ last' = last
  BY <1>5, <1>1, <1>0, Names DEF File, Files, IInv, TypeOK
<1>6. ASSUME Refused(t) PROVE Progress(t)' /\ Settled'
  <2>1. File(t) = "decisions" /\ req[t].file = 1 /\ req'[t] = Idle
    BY <1>1, <1>6, <1>0 DEF Refused, File, Files
  <2>2. disk'["train"] = disk["train"]
    BY <2>1, <1>0, Names DEF IInv, TypeOK
  <2>3. "cut" \notin Faults =>
        disk'["train"].data = last'.train /\ disk'["holdout"].data = last'.holdout
    BY <1>5, <2>1, <2>2, <1>0 DEF IInv, Progress
  <2>4. QED
    BY <2>1, <2>3, AtRest DEF Settled, SplitIsTheLastBuilt
<1>7. ASSUME ~Refused(t), req[t].file # 3 PROVE Progress(t)' /\ Settled'
  <2>1. File(t) # "holdout"
    BY <1>1, <1>7 DEF File, Files
  <2>2. /\ req'[t].pc = "open" /\ req'[t].file = req[t].file + 1 /\ req'[t].fd = "none"
        /\ req'[t].folded = req[t].folded /\ req'[t].raw = req[t].raw
        /\ req'[t].held = req[t].held
    BY <1>7, <2>1, <1>0 DEF IInv, TypeOK, Request, Progress
  <2>3. Content(t, "train")' = Content(t, "train")
    BY <2>2, SameContent
  <2>4. "cut" \notin Faults =>
        disk'["train"].data = IF req'[t].file = 3 THEN Content(t, "train") ELSE last.train
    <3>1. CASE req[t].file = 1
      <4>1. File(t) = "decisions"
        BY <3>1 DEF File, Files
      <4>2. disk'["train"] = disk["train"]
        BY <4>1, <1>0, Names DEF IInv, TypeOK
      <4>3. QED
        BY <2>2, <3>1, <4>2, <1>0 DEF IInv, Progress
    <3>2. CASE req[t].file = 2
      <4>1. File(t) = "train"
        BY <3>2 DEF File, Files
      <4>2. disk'["train"] = Whole(Content(t, "train"))
        BY <4>1, <1>0, Names DEF IInv, TypeOK
      <4>3. QED
        BY <2>2, <3>2, <4>2 DEF Whole
    <3>3. QED
      BY <1>1, <1>7, <3>1, <3>2
  <2>5. "cut" \notin Faults => disk'["holdout"].data = last'.holdout
    BY <1>5, <1>7, <1>0 DEF IInv, Progress
  <2>6. Building(t)' /\ req'[t].file # 1
    BY <1>1, <2>2 DEF Building
  <2>7. Progress(t)'
    BY <1>5, <1>7, <2>2, <2>3, <2>4, <2>5, <2>6 DEF Progress
  <2>8. QED
    BY <2>6, <2>7 DEF Settled, SplitIsTheLastBuilt
<1>8. ASSUME req[t].file = 3 PROVE Progress(t)' /\ Settled'
  <2>1. File(t) = "holdout" /\ req'[t] = Idle
    BY <1>8, <1>0 DEF File, Files
  <2>2. /\ disk'["train"] = disk["train"]
        /\ disk'["holdout"] = Whole(Content(t, "holdout"))
    BY <2>1, <1>0, Names DEF IInv, TypeOK
  <2>3. "cut" \notin Faults =>
        disk'["train"].data = last'.train /\ disk'["holdout"].data = last'.holdout
    BY <1>8, <2>1, <2>2, <1>0 DEF IInv, Progress, Whole
  <2>4. QED
    BY <2>1, <2>3, AtRest DEF Settled, SplitIsTheLastBuilt
<1>9. QED
  <2>1. Progress(t)' /\ Settled'
    BY <1>6, <1>7, <1>8
  <2>2. QED
    BY <1>2, <1>3, <1>4, <2>1 DEF IInv

LEMMA CrashStep == ASSUME IInv, TypeOK', Crash PROVE IInv'
<1>1. \A t \in Threads : req'[t] = Idle
  BY DEF Crash
<1>2. \A t \in Threads : Progress(t)' /\ ~Building(t)'
  BY <1>1, AtRest
<1>3. ASSUME "cut" \notin Faults
      PROVE  disk["train"].data = last.train /\ disk["holdout"].data = last.holdout
  <2>1. CASE \A t \in Threads : ~Building(t)
    BY <1>3, <2>1 DEF IInv, Settled, SplitIsTheLastBuilt
  <2>2. ASSUME NEW t \in Threads, Building(t)
        PROVE  disk["train"].data = last.train /\ disk["holdout"].data = last.holdout
    <3>1. req[t].file # 3
      BY <1>3, <2>2 DEF Crash
    <3>2. QED
      BY <1>3, <2>2, <3>1 DEF IInv, Progress
  <2>3. QED
    BY <2>1, <2>2
<1>4. QED
  BY <1>2, <1>3 DEF IInv, Solo, NeverTruncated, Settled, SplitIsTheLastBuilt, Crash

LEMMA Invariance == ASSUME "overlap" \notin Faults PROVE Spec => []IInv
<1>1. ASSUME Init PROVE IInv
  <2>1. \A t \in Threads : req[t] = Idle
    BY <1>1 DEF Init
  <2>2. \A t \in Threads : Progress(t) /\ ~Building(t)
    BY <2>1 DEF Progress, Building, Idle
  <2>3. NeverTruncated /\ disk["train"].data = {} /\ disk["holdout"].data = {}
    BY <1>1, Names DEF Init, NeverTruncated, Whole, Empty
  <2>4. TypeOK
    BY <1>1, TypeInit
  <2>5. QED
    BY <1>1, <2>2, <2>3, <2>4 DEF Init, IInv, Solo, Settled, SplitIsTheLastBuilt
<1>2. ASSUME "overlap" \notin Faults, IInv, [Next]_vars PROVE IInv'
  <2>1. TypeOK'
    BY <1>2, TypeStep DEF IInv
  <2>2. ASSUME UNCHANGED <<disk, tmp, req, last>> PROVE IInv'
    <3>1. \A t \in Threads : Progress(t)' /\ Building(t)' = Building(t)
      BY <1>2, <2>2, Undisturbed DEF IInv, Building
    <3>2. QED
      BY <1>2, <2>1, <2>2, <3>1 DEF IInv, Solo, NeverTruncated, Settled, SplitIsTheLastBuilt
  <2>3. ASSUME NEW t \in Threads, Record(t) \/ RecordPart(t) PROVE IInv'
    BY <1>2, <2>1, <2>3, AppendStep DEF Record, RecordPart
  <2>4. ASSUME NEW t \in Threads,
               \/ Decide(t) \/ ProbeEnd(t) \/ Materialize(t) \/ ReadDecisions(t)
               \/ OpenTmp(t) \/ FillTmp(t) \/ Replace(t)
        PROVE  IInv'
    BY <1>2, <2>1, <2>4, DecideStep, ProbeStep, MaterializeStep, ReadStep, OpenStep, FillStep, ReplaceStep
  <2>5. QED
    BY <1>2, <2>1, <2>2, <2>3, <2>4, CrashStep DEF Next, Generate, vars
<1>3. QED
  BY <1>1, <1>2, PTL DEF Spec

\* No reader of the split or of the overlay finds half a file, wherever an
\* append is cut short and the server crashes.
THEOREM WholeFiles == ASSUME "overlap" \notin Faults PROVE Spec => []NeverTruncated
BY Invariance, PTL DEF IInv

\* Without a build under way, both files of the split are those of the last
\* build that was answered.
THEOREM SplitOfOneBuild == ASSUME Faults = {} PROVE Spec => []SplitIsTheLastBuilt
<1>1. IInv => SplitIsTheLastBuilt
  BY DEF IInv, Settled
<1>2. Spec => []IInv
  BY Invariance
<1>3. QED
  BY <1>1, <1>2, PTL

-----------------------------------------------------------------------------
\* A request that writes has seen what the file ends with.
Probed == \A t \in Threads : req[t].pc = "write" => ended \/ req[t].nl

LEMMA Probes ==
  ASSUME "overlap" \notin Faults, "glued" \notin Faults PROVE Spec => [](IInv /\ Probed)
<1>1. Init => Probed
  BY DEF Init, Probed, Idle
<1>2. ASSUME "glued" \notin Faults, IInv, Probed, [Next]_vars PROVE Probed'
  <2>1. ASSUME UNCHANGED <<ended, req>> PROVE Probed'
    BY <1>2, <2>1 DEF Probed
  <2>2. ASSUME NEW t \in Threads, ended => ended', \A u \in Threads \ {t} : req'[u] = req[u],
               req'[t].pc = "write" => ended' \/ req'[t].nl
        PROVE  Probed'
    BY <1>2, <2>2 DEF Probed
  <2>3. ASSUME Crash PROVE Probed'
    BY <2>3 DEF Crash, Probed, Idle
  <2>4. ASSUME NEW t \in Threads, Decide(t) PROVE Probed'
    <3>1. PICK rows \in (SUBSET raw) \ {{}}, action \in Actions :
            req' = [req EXCEPT ![t] = [Idle EXCEPT !.pc = "append", !.rows = rows, !.action = action]]
      BY <2>4 DEF Decide
    <3>2. req'[t] = [Idle EXCEPT !.pc = "append", !.rows = rows, !.action = action]
      BY <1>2, <3>1 DEF IInv, TypeOK
    <3>3. req'[t].pc = "append"
      BY <3>2 DEF Idle
    <3>4. ended' = ended /\ \A u \in Threads \ {t} : req'[u] = req[u]
      BY <1>2, <2>4, <3>1 DEF Decide, IInv, TypeOK
    <3>5. QED
      BY <2>2, <3>3, <3>4
  <2>5. ASSUME NEW t \in Threads, ProbeEnd(t) PROVE Probed'
    <3>1. /\ ended' = ended /\ req'[t].nl = ~ended
          /\ \A u \in Threads \ {t} : req'[u] = req[u]
      BY <1>2, <2>5 DEF ProbeEnd, IInv, TypeOK, Request
    <3>2. QED
      BY <2>2, <3>1
  <2>6. ASSUME NEW t \in Threads, NEW lines, NEW b, NEW answer, Append_(t, lines, b, answer),
               (ended => b) \/ Unseen(t)
        PROVE  Probed'
    <3>1. /\ ended' = b /\ req'[t] = Idle /\ Idle.pc = "idle"
          /\ \A u \in Threads \ {t} : req'[u] = req[u]
      BY <1>2, <2>6 DEF Append_, Idle, IInv, TypeOK
    <3>2. CASE ended => b
      BY <2>2, <3>1, <3>2
    <3>3. CASE Unseen(t)
      BY <1>2, <3>1, <3>3 DEF Unseen, Probed
    <3>4. QED
      BY <2>6, <3>2, <3>3
  <2>7. ASSUME NEW t \in Threads, Record(t) \/ RecordPart(t) PROVE Probed'
    BY <2>6, <2>7 DEF Record, RecordPart
  <2>8. ASSUME NEW t \in Threads,
               Materialize(t) \/ ReadDecisions(t) \/ OpenTmp(t) \/ FillTmp(t) \/ Replace(t)
        PROVE  Probed'
    <3>1. ended => ended'
      BY <2>8 DEF Materialize, ReadDecisions, OpenTmp, FillTmp, Replace
    <3>2. \A u \in Threads \ {t} : req'[u] = req[u]
      BY <1>2, <2>8, Replaced DEF Materialize, ReadDecisions, OpenTmp, FillTmp, IInv, TypeOK
    <3>3. req'[t].pc # "write"
      <4>1. CASE Materialize(t)
        BY <1>2, <4>1 DEF Materialize, Idle, IInv, TypeOK
      <4>2. CASE ReadDecisions(t) \/ OpenTmp(t) \/ FillTmp(t)
        BY <1>2, <4>2 DEF ReadDecisions, OpenTmp, FillTmp, IInv, TypeOK, Request
      <4>3. CASE Replace(t)
        <5>1. req'[t] = Idle \/ req'[t] = [req[t] EXCEPT !.pc = "open", !.file = @ + 1]
          BY <1>2, <4>3, Replaced
        <5>2. [req[t] EXCEPT !.pc = "open", !.file = @ + 1].pc = "open" /\ Idle.pc = "idle"
          BY <1>2 DEF Idle, IInv, TypeOK, Request
        <5>3. QED
          BY <5>1, <5>2
      <4>4. QED
        BY <2>8, <4>1, <4>2, <4>3
    <3>4. QED
      BY <2>2, <3>1, <3>2, <3>3
  <2>9. QED
    BY <1>2, <2>1, <2>3, <2>4, <2>5, <2>7, <2>8 DEF Next, Generate, vars
<1>3. QED
  BY <1>1, <1>2, Invariance, PTL DEF Spec

-----------------------------------------------------------------------------
\* Lines with one action, one for each of some rows, give these rows the status
\* of the action and leave the others theirs.
OneEach(lines) == \A i, k \in 1..Len(lines) : lines[i].row = lines[k].row => i = k
Says(lines, rows, action) ==
  \A e \in Entries : (\E i \in 1..Len(lines) : lines[i] = e) <=> e.row \in rows /\ e.action = action

LEMMA Decided ==
  ASSUME NEW log \in Logs, NEW lines \in Logs, NEW rows \in SUBSET Rows, NEW action \in Actions,
         OneEach(lines), Says(lines, rows, action)
  PROVE  \A r \in Rows : StatusOf(r, LastOf(log \o lines)) =
           IF r \in rows THEN Overlaid!StatusAfter(action) ELSE StatusOf(r, LastOf(log))
<1> DEFINE fold == LastOf(log \o lines)
<1>1. \A r \in Rows, a \in Actions : Entry(r, a) \in Entries /\ Entry(r, a).row = r /\ Entry(r, a).action = a
  BY DEF Entry, Entries
<1>2. \A r \in Rows : (\E i \in 1..Len(lines) : lines[i].row = r) <=> r \in rows
  <2>1. \A i \in 1..Len(lines) : lines[i] \in Entries \cup {Torn}
    BY DEF Logs
  <2>2. \A r \in Rows : r # Torn.row
    BY <1>1, TornIsNoEntry DEF Actions
  <2>3. ASSUME NEW r \in rows PROVE \E i \in 1..Len(lines) : lines[i].row = r
    BY <1>1 DEF Says
  <2>4. QED
    BY <2>1, <2>2, <2>3, <1>1 DEF Says
<1>3. fold = {e \in LastOf(log) : \A i \in 1..Len(lines) : lines[i].row # e.row}
               \cup {e \in Entries : \E i \in 1..Len(lines) : lines[i] = e}
  BY LastOfAppended DEF OneEach
<1> HIDE DEF fold
<1>4. \A r \in Rows, a \in Actions :
        Entry(r, a) \in fold <=> IF r \in rows THEN a = action ELSE Entry(r, a) \in LastOf(log)
  BY <1>1, <1>2, <1>3 DEF Says
<1>5. \A r \in Rows : StatusOf(r, fold) =
           IF r \in rows THEN Overlaid!StatusAfter(action) ELSE StatusOf(r, LastOf(log))
  BY <1>4 DEF StatusOf, Overlaid!StatusAfter, Actions
<1>6. QED
  BY <1>5 DEF fold

\* What the abstraction sees of a thread.
AskedOf(t) == IF req[t].pc \in {"append", "write"} THEN [rows |-> req[t].rows, action |-> req[t].action]
              ELSE [rows |-> {}, action |-> "reset"]

\* The decision of a thread on some rows, seen from the abstraction.
Takes(t, rows) ==
  /\ \A r \in Rows : StatusOf(r, Folded)' =
       IF r \in rows THEN Overlaid!StatusAfter(req[t].action) ELSE StatusOf(r, Folded)
  /\ \A u \in Threads : AskedOf(u)' = IF u = t THEN [rows |-> {}, action |-> "reset"] ELSE AskedOf(u)

\* An append whose lines say the decision of its thread on some rows.
AppendSays(t, lines, rows) ==
  /\ Log' = Log \o lines /\ req' = [req EXCEPT ![t] = Idle]
  /\ lines \in Logs /\ OneEach(lines) /\ Says(lines, rows, req[t].action)

LEMMA AppendTakes ==
  ASSUME IInv, NEW t \in Threads, NEW rows \in SUBSET Rows, NEW lines, AppendSays(t, lines, rows)
  PROVE  Takes(t, rows)
<1>1. req[t].action \in Actions
  BY DEF IInv, TypeOK, Request
<1>2. Log \in Logs
  BY Names DEF IInv, TypeOK, Stored, Data, Log, Logs
<1>3. \A r \in Rows : StatusOf(r, LastOf(Log \o lines)) =
        IF r \in rows THEN Overlaid!StatusAfter(req[t].action) ELSE StatusOf(r, LastOf(Log))
  BY <1>1, <1>2, Decided DEF AppendSays
<1>4. Folded' = LastOf(Log \o lines) /\ Folded = LastOf(Log)
  BY DEF Folded, AppendSays
<1>5. \A u \in Threads : AskedOf(u)' = IF u = t THEN [rows |-> {}, action |-> "reset"] ELSE AskedOf(u)
  BY DEF AppendSays, AskedOf, Idle, IInv, TypeOK
<1>6. QED
  BY <1>3, <1>4, <1>5 DEF Takes

LEMMA RecordSimulation ==
  ASSUME IInv, Probed, NEW t \in Threads, Record(t) \/ RecordPart(t)
  PROVE  (Record(t) => Overlaid!Answer(t)) /\ (RecordPart(t) => Overlaid!Fail(t))
<1> DEFINE new == NewLines(t)
<1>1. req[t].pc = "write" /\ req[t] \in Request /\ req[t].rows # {}
  BY DEF Record, RecordPart, IInv, TypeOK, Progress
<1>2. AskedOf(t) = [rows |-> req[t].rows, action |-> req[t].action] /\ AskedOf(t).rows # {}
  BY <1>1 DEF AskedOf
<1>3. /\ new \in Seq(Entries) /\ new \in Logs
      /\ \A i, k \in 1..Len(new) : new[i].row = new[k].row => i = k
      /\ \A i \in 1..Len(new) : new[i] = Entry(new[i].row, req[t].action) /\ new[i].row \in req[t].rows
      /\ \A r \in req[t].rows : \E i \in 1..Len(new) : new[i].row = r
  BY <1>1, LinesOfRequest
<1>4. \A e \in Entries : e = Entry(e.row, e.action)
  BY DEF Entries, Entry
<1>5. \A r : Entry(r, req[t].action).action = req[t].action
  BY DEF Entry
<1> HIDE DEF new
<1>6. ASSUME NEW lines, disk' = [disk EXCEPT !["decisions"].data = Appended(t, lines)]
      PROVE  Log' = Log \o lines
  BY <1>1, <1>6, Names DEF Appended, Probed, Log, IInv, TypeOK, Stored
<1>7. ASSUME Record(t) PROVE Overlaid!Answer(t)
  <2>1. OneEach(new) /\ Says(new, req[t].rows, req[t].action)
    BY <1>3, <1>4, <1>5 DEF OneEach, Says
  <2>2. /\ disk' = [disk EXCEPT !["decisions"].data = Appended(t, new)] /\ req' = [req EXCEPT ![t] = Idle]
        /\ reply' = [reply EXCEPT ![t] = "ok"]
    BY <1>7 DEF Record, Append_, new
  <2>3. AppendSays(t, new, req[t].rows)
    BY <1>3, <1>6, <2>1, <2>2 DEF AppendSays
  <2>4. Takes(t, req[t].rows)
    BY <1>1, <2>3, AppendTakes DEF Request
  <2>5. QED
    BY <1>2, <2>2, <2>4 DEF Takes, AskedOf, Overlaid!Answer, Overlaid!Take, Overlaid!NotAsked
<1>8. ASSUME NEW n \in 0..Len(new), NEW lines, lines = SubSeq(new, 1, n) \/ lines = Append(SubSeq(new, 1, n), Torn),
             disk' = [disk EXCEPT !["decisions"].data = Appended(t, lines)], req' = [req EXCEPT ![t] = Idle],
             reply' = [reply EXCEPT ![t] = "error"]
      PROVE  Overlaid!Fail(t)
  <2> DEFINE rows == {new[i].row : i \in 1..n}
  <2>1. Len(new) \in Nat /\ n \in Nat /\ n <= Len(new)
    BY <1>3, LenProperties
  <2>2. SubSeq(new, 1, n) \in Seq(Entries) /\ Len(SubSeq(new, 1, n)) = n
        /\ \A i \in 1..n : SubSeq(new, 1, n)[i] = new[i]
    BY <1>3, <2>1
  <2>3. /\ lines \in Logs /\ Len(lines) \in {n, n + 1}
        /\ \A i \in 1..n : lines[i] = new[i]
        /\ Len(lines) = n + 1 => lines[n + 1] = Torn
    <3>1. CASE lines = SubSeq(new, 1, n)
      BY <3>1, <2>1, <2>2 DEF Logs
    <3>2. CASE lines = Append(SubSeq(new, 1, n), Torn)
      <4> DEFINE part == SubSeq(new, 1, n)
      <4>1. part \in Logs
        BY <2>2 DEF Logs
      <4>2. /\ Append(part, Torn) \in Logs /\ Len(Append(part, Torn)) = Len(part) + 1
            /\ \A i \in 1..Len(part) : Append(part, Torn)[i] = part[i]
            /\ Append(part, Torn)[Len(part) + 1] = Torn
        BY <4>1, AppendProperties DEF Logs
      <4>3. QED
        BY <2>1, <2>2, <3>2, <4>2
    <3>3. QED
      BY <1>8, <3>1, <3>2
  <2>4. rows \in SUBSET req[t].rows
    <3>1. \A i \in 1..n : new[i].row \in req[t].rows
      BY <1>3, <2>1
    <3>2. QED
      BY <3>1
  <2>5. \A i \in 1..n : new[i] \in Entries /\ new[i].row # Torn.row
    BY <1>3, <2>1, TornIsNoEntry
  <2>6. OneEach(lines)
    BY <1>3, <2>1, <2>3, <2>5 DEF OneEach
  <2> HIDE DEF rows
  <2>7. ASSUME NEW e \in Entries
        PROVE  (\E i \in 1..Len(lines) : lines[i] = e) <=> e.row \in rows /\ e.action = req[t].action
    <3>1. (\E i \in 1..Len(lines) : lines[i] = e) <=> \E i \in 1..n : new[i] = e
      BY <2>1, <2>3, TornIsNoEntry
    <3>2. (\E i \in 1..n : new[i] = e) <=> e.row \in rows /\ e.action = req[t].action
      <4>1. ASSUME NEW i \in 1..n, new[i] = e PROVE e.row \in rows /\ e.action = req[t].action
        BY <4>1, <1>3, <1>5, <2>1 DEF rows
      <4>2. ASSUME e.row \in rows, e.action = req[t].action PROVE \E i \in 1..n : new[i] = e
        <5>1. PICK i \in 1..n : new[i].row = e.row
          BY <4>2 DEF rows
        <5>2. new[i] = Entry(new[i].row, req[t].action)
          BY <1>3, <2>1
        <5>3. QED
          BY <4>2, <5>1, <5>2, <1>4
      <4>3. QED
        BY <4>1, <4>2
    <3>3. QED
      BY <3>1, <3>2
  <2>8. AppendSays(t, lines, rows)
    BY <1>6, <1>8, <2>3, <2>6, <2>7 DEF AppendSays, Says
  <2>9. Takes(t, rows)
    BY <1>1, <2>4, <2>8, AppendTakes DEF Request
  <2>10. QED
    BY <1>2, <1>8, <2>4, <2>9 DEF Takes, AskedOf, Overlaid!Fail, Overlaid!Take, Overlaid!NotAsked
<1>9. ASSUME RecordPart(t) PROVE Overlaid!Fail(t)
  <2>1. SubSeq(new, 1, 0) = <<>> /\ 0 \in 0..Len(new)
    BY <1>3
  <2>2. QED
    BY <1>8, <1>9, <2>1 DEF RecordPart, Append_, new
<1>10. QED
  BY <1>7, <1>9

\* A step that decides nothing is none of the overlay.
LEMMA Stutters ==
  ASSUME Folded' = Folded, \A t \in Threads : AskedOf(t)' = AskedOf(t), reply' = reply
  PROVE  UNCHANGED Overlaid!vars
BY DEF Overlaid!vars, AskedOf

LEMMA StepSimulation ==
  ASSUME "overlap" \notin Faults, IInv, Probed, [Next]_vars PROVE [Overlaid!Next]_(Overlaid!vars)
<1> DEFINE Goal == [Overlaid!Next]_(Overlaid!vars)
<1>1. ASSUME UNCHANGED <<disk, req, reply>> PROVE Goal
  BY <1>1, Stutters DEF Folded, Log, AskedOf
<1>2. ASSUME NEW t \in Threads, UNCHANGED <<disk, reply>>, AskedOf(t)' = AskedOf(t),
             \A u \in Threads \ {t} : req'[u] = req[u]
      PROVE  Goal
  <2>1. \A u \in Threads : AskedOf(u)' = AskedOf(u)
    BY <1>2 DEF AskedOf
  <2>2. QED
    BY <1>2, <2>1, Stutters DEF Folded, Log
<1>3. ASSUME NEW t \in Threads, Materialize(t) \/ ReadDecisions(t) \/ OpenTmp(t) PROVE Goal
  <2>1. /\ UNCHANGED <<disk, reply>> /\ req[t].pc \notin {"append", "write"} /\ \A u \in Threads \ {t} : req'[u] = req[u]
    BY <1>3 DEF Materialize, Asked, ReadDecisions, OpenTmp, IInv, TypeOK
  <2>2. CASE Materialize(t)
    <3>1. PICK held \in Splits :
            req' = [req EXCEPT ![t] = [Idle EXCEPT !.pc = "read", !.held = held, !.raw = raw]]
      BY <2>2 DEF Materialize
    <3>2. req'[t] = [Idle EXCEPT !.pc = "read", !.held = held, !.raw = raw]
      BY <3>1 DEF IInv, TypeOK
    <3>3. req'[t].pc = "read"
      BY <3>2 DEF Idle
    <3>4. QED
      BY <1>2, <2>1, <3>3 DEF AskedOf
  <2>3. CASE ReadDecisions(t) \/ OpenTmp(t)
    <3>1. req'[t].pc \notin {"append", "write"}
      BY <2>3 DEF ReadDecisions, OpenTmp, IInv, TypeOK, Request
    <3>2. QED
      BY <1>2, <2>1, <3>1 DEF AskedOf
  <2>4. QED
    BY <1>3, <2>2, <2>3
<1>4. ASSUME NEW t \in Threads, FillTmp(t) PROVE Goal
  <2>1. req[t].pc = "fill" /\ req[t].fd = "tmp"
    BY <1>4 DEF FillTmp, IInv, Progress
  <2>2. /\ UNCHANGED <<disk, reply>> /\ req'[t].pc \notin {"append", "write"}
        /\ \A u \in Threads \ {t} : req'[u] = req[u]
    BY <1>4, <2>1 DEF FillTmp, IInv, TypeOK, Request
  <2>3. QED
    BY <1>2, <2>1, <2>2 DEF AskedOf
<1>5. ASSUME NEW t \in Threads, Replace(t) PROVE Goal
  <2>1. /\ req[t].pc = "replace" /\ req[t] \in Request /\ File(t) \in FileNames
        /\ \A u \in Threads \ {t} : req'[u] = req[u]
        /\ disk' = [disk EXCEPT ![File(t)] = Whole(Content(t, File(t)))]
        /\ req'[t] = IF Refused(t) \/ File(t) = "holdout"
                     THEN Idle ELSE [req[t] EXCEPT !.pc = "open", !.file = @ + 1]
    BY <1>5, Replaced, FileTypes DEF IInv, TypeOK
  <2>2. req'[t].pc \notin {"append", "write"}
    BY <2>1 DEF Idle, Request
  <2>3. \A u \in Threads : AskedOf(u)' = AskedOf(u)
    BY <2>1, <2>2 DEF AskedOf
  <2>4. Folded' = Folded
    <3>1. CASE File(t) = "decisions"
      <4>1. req[t].file = 1
        BY <2>1, <3>1 DEF File, Files, Request
      <4>2. req[t].folded = Folded
        BY <2>1, <4>1 DEF IInv, Progress
      <4>3. Log \in Logs
        BY Names DEF IInv, TypeOK, Stored, Data, Log, Logs
      <4>4. LastOf(SetToSeq(Folded)) = Folded
        BY <4>3, OnePerRow, Compacted DEF Folded
      <4>5. Log' = SetToSeq(Folded)
        BY <2>1, <3>1, <4>2 DEF Log, Content, Whole, IInv, TypeOK
      <4>6. QED
        BY <4>4, <4>5 DEF Folded
    <3>2. CASE File(t) # "decisions"
      BY <2>1, <3>2 DEF Folded, Log, IInv, TypeOK
    <3>3. QED
      BY <3>1, <3>2
  <2>5. QED
    BY <1>5, <2>3, <2>4, Stutters DEF Replace
<1>6. ASSUME NEW t \in Threads, Decide(t) PROVE Overlaid!Ask(t)
  <2>1. PICK rows \in (SUBSET raw) \ {{}}, action \in Actions :
          req' = [req EXCEPT ![t] = [Idle EXCEPT !.pc = "append", !.rows = rows, !.action = action]]
    BY <1>6 DEF Decide
  <2>2. rows \in (SUBSET Rows) \ {{}} /\ action \in Overlaid!Actions
    BY DEF IInv, TypeOK, Actions, Overlaid!Actions
  <2>3. AskedOf(t) = [rows |-> {}, action |-> "reset"]
    BY <1>6 DEF Decide, Asked, AskedOf
  <2>4. AskedOf(t)' = [rows |-> rows, action |-> action]
    <3>1. req'[t] = [Idle EXCEPT !.pc = "append", !.rows = rows, !.action = action]
      BY <2>1 DEF IInv, TypeOK
    <3>2. req'[t].pc = "append" /\ req'[t].rows = rows /\ req'[t].action = action
      BY <3>1 DEF Idle
    <3>3. QED
      BY <3>2 DEF AskedOf
  <2>5. \A u \in Threads \ {t} : AskedOf(u)' = AskedOf(u)
    BY <2>1 DEF AskedOf, IInv, TypeOK
  <2>6. Folded' = Folded
    BY <1>6 DEF Decide, Folded, Log
  <2> DEFINE asked == [u \in Threads |-> AskedOf(u)]
  <2>7. asked[t] = [rows |-> {}, action |-> "reset"]
    BY <2>3
  <2>8. asked' = [asked EXCEPT ![t] = [rows |-> rows, action |-> action]]
    BY <2>4, <2>5
  <2>9. UNCHANGED [r \in Rows |-> StatusOf(r, Folded)]
    BY <2>6
  <2>10. QED
    BY <1>6, <2>2, <2>7, <2>8, <2>9, Zenon DEF Decide, Overlaid!Ask, Overlaid!NotAsked, AskedOf
<1>7. ASSUME Crash PROVE Overlaid!Crash
  <2>1. \A t \in Threads : AskedOf(t)' = [rows |-> {}, action |-> "reset"]
    BY <1>7 DEF Crash, AskedOf, Idle
  <2>2. Folded' = Folded
    BY <1>7 DEF Crash, Folded, Log
  <2>3. QED
    BY <1>7, <2>1, <2>2 DEF Crash, Overlaid!Crash, Overlaid!NotAsked, AskedOf
<1>8. ASSUME NEW t \in Threads, ProbeEnd(t) PROVE Goal
  <2>1. /\ UNCHANGED <<disk, reply>> /\ \A u \in Threads \ {t} : req'[u] = req[u]
        /\ req'[t].rows = req[t].rows /\ req'[t].action = req[t].action
        /\ req[t].pc = "append" /\ req'[t].pc = "write"
    BY <1>8 DEF ProbeEnd, IInv, TypeOK, Request
  <2>2. QED
    BY <1>2, <2>1 DEF AskedOf
<1>9. ASSUME NEW t \in Threads, Decide(t) \/ Record(t) \/ RecordPart(t) PROVE Goal
  BY <1>6, <1>9, RecordSimulation DEF Overlaid!Next
<1>10. ASSUME Crash PROVE Goal
  BY <1>7, <1>10 DEF Overlaid!Next
<1> HIDE DEF Goal
<1>11. Goal
  BY <1>1, <1>3, <1>4, <1>5, <1>8, <1>9, <1>10 DEF Next, Generate, vars
<1>12. QED
  BY <1>11 DEF Goal

\* The overlay implements the map of last decisions, through compactions, lines
\* cut short and crashes: what is answered is recorded, and stays.
THEOREM Refinement ==
  ASSUME "overlap" \notin Faults, "glued" \notin Faults PROVE Spec => LastDecisionCounts
<1>1. Init => Overlaid!Init
  <2>1. ASSUME Init PROVE Folded = {}
    BY <2>1, Names DEF Init, Folded, LastOf, Log, Whole, Empty
  <2>2. ASSUME Init PROVE \A t \in Threads : AskedOf(t) = [rows |-> {}, action |-> "reset"]
    BY <2>2 DEF Init, AskedOf, Idle
  <2>3. ASSUME Init PROVE reply = [t \in Threads |-> "none"]
    BY <2>3 DEF Init
  <2>4. QED
    BY <2>1, <2>2, <2>3 DEF Overlaid!Init, Overlaid!NotAsked, AskedOf, StatusOf
<1>2. QED
  BY <1>1, StepSimulation, Probes, PTL DEF Spec, LastDecisionCounts, Overlaid!Spec
=============================================================================
