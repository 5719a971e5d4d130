--------------------------- MODULE GenWorkerProofs ---------------------------
(***************************************************************************)
(* What the worker counts, and that SIGTERM ends the appends, for any row  *)
(* types, targets and batches, whatever the model answers.  The cap holds  *)
(* whatever an earlier worker left in raw.jsonl, the counts if it left no  *)
(* half row there.                                                         *)
(***************************************************************************)
EXTENDS GenWorker, FiniteSetTheorems, TLAPS

-----------------------------------------------------------------------------
(* Sums over the types *)

LEMMA RowsOfElement ==
  ASSUME NEW f \in [Types -> Nat]
  PROVE  \A t \in Types : \A k : <<t, k>> \in RowsOf(f) <=> k \in 1..f[t]
  BY DEF RowsOf

LEMMA SumType ==
  ASSUME NEW f \in [Types -> Nat]
  PROVE  IsFiniteSet(RowsOf(f)) /\ Sum(f) \in Nat
<1> DEFINE g == [t \in Types |-> {t} \X (1..f[t])]
           S == {{t} \X (1..f[t]) : t \in Types}
<1>1. g \in Surjection(Types, S)
  BY DEF Surjection
<1>2. IsFiniteSet(S)
  <2> HIDE DEF g, S
  <2>1. QED
    BY <1>1, GenWorkerAssumption, FS_Surjection
<1>3. ASSUME NEW T \in S PROVE IsFiniteSet(T)
  <2>1. PICK t \in Types : T = {t} \X (1..f[t])
    OBVIOUS
  <2>2. 1 \in Int /\ f[t] \in Int
    OBVIOUS
  <2>3. IsFiniteSet({t}) /\ IsFiniteSet(1..f[t])
    BY <2>2, FS_Singleton, FS_Interval
  <2>4. QED
    BY <2>1, <2>3, FS_Product
<1>4. IsFiniteSet(RowsOf(f))
  <2>1. RowsOf(f) = UNION S
    BY DEF RowsOf
  <2> HIDE DEF S
  <2>2. QED
    BY <1>2, <1>3, <2>1, FS_UNION
<1>5. QED
  BY <1>4, FS_CardinalityType DEF Sum

LEMMA SumOfNoRows == Sum(NoRows) = 0 /\ NoRows \in [Types -> Nat]
<1>1. RowsOf(NoRows) = {}
  BY DEF RowsOf, NoRows
<1>2. QED
  BY <1>1, FS_EmptySet DEF Sum, NoRows

\* n more of a type are n more.
LEMMA SumOfMore ==
  ASSUME NEW f \in [Types -> Nat], NEW t \in Types, NEW n \in Nat
  PROVE  /\ [f EXCEPT ![t] = @ + n] \in [Types -> Nat]
         /\ Sum([f EXCEPT ![t] = @ + n]) = Sum(f) + n
<1> DEFINE g == [f EXCEPT ![t] = @ + n]
           new == {t} \X (f[t] + 1..f[t] + n)
<1>1. g \in [Types -> Nat] /\ f[t] \in Nat /\ g[t] = f[t] + n
      /\ \A u \in Types \ {t} : g[u] = f[u]
  OBVIOUS
<1>2. IsFiniteSet(new) /\ Cardinality(new) = n
  <2>1. IsFiniteSet({t}) /\ Cardinality({t}) = 1
    BY FS_Singleton
  <2> DEFINE a == f[t] + 1
             b == f[t] + n
  <2>2. a \in Int /\ b \in Int /\ (IF a > b THEN 0 ELSE b - a + 1) = n
    BY <1>1
  <2> HIDE DEF a, b
  <2>3. IsFiniteSet(a..b) /\ Cardinality(a..b) = n
    BY <2>2, FS_Interval
  <2>4. IsFiniteSet({t} \X (a..b)) /\ Cardinality({t} \X (a..b)) = 1 * n
    BY <2>1, <2>3, FS_Product
  <2>5. QED
    BY <2>4 DEF a, b
<1> HIDE DEF g
<1>3. RowsOf(g) = RowsOf(f) \cup new
  <2>1. ASSUME NEW u \in Types
        PROVE  {u} \X (1..g[u]) \subseteq RowsOf(f) \cup new
    BY <1>1, RowsOfElement
  <2>2. RowsOf(g) \subseteq RowsOf(f) \cup new
    BY <2>1 DEF RowsOf
  <2>3. ASSUME NEW u \in Types
        PROVE  {u} \X (1..f[u]) \subseteq RowsOf(g)
    BY <1>1, RowsOfElement
  <2>4. RowsOf(f) \subseteq RowsOf(g)
    BY <2>3 DEF RowsOf
  <2>5. new \subseteq RowsOf(g)
    BY <1>1, RowsOfElement
  <2>6. QED
    BY <2>2, <2>4, <2>5
<1>4. RowsOf(f) \cap new = {}
  BY <1>1, RowsOfElement
<1>5. Sum(g) = Sum(f) + n
  <2>1. IsFiniteSet(RowsOf(f)) /\ Cardinality(RowsOf(f)) \in Nat
    BY SumType DEF Sum
  <2> HIDE DEF new
  <2>2. Cardinality(RowsOf(f) \cap new) = 0
    BY <1>4, FS_EmptySet
  <2>3. Cardinality(RowsOf(f) \cup new) = Cardinality(RowsOf(f)) + n
    <3>1. Cardinality(RowsOf(f) \cup new)
            = Cardinality(RowsOf(f)) + Cardinality(new) - Cardinality(RowsOf(f) \cap new)
      BY <1>2, <2>1, FS_Union
    <3>2. QED
      BY <1>2, <2>1, <2>2, <3>1
  <2>4. QED
    BY <1>3, <2>3 DEF Sum
<1>6. QED
  BY <1>1, <1>5 DEF g

-----------------------------------------------------------------------------
(* SIGTERM *)

\* The flag is set only where the worker is inside a write, and from there every
\* path to the next batch leads through the check at the top of the loop.
Heeded ==
  /\ stopped => stop \/ pc = "over"
  /\ stop => pc \notin {"boot", "batch", "last"}

LEMMA HeededStep == ASSUME Heeded, [Next]_vars PROVE Heeded'
<1> USE DEF Heeded, Goto, Exit, server
<1>1. ASSUME Boot PROVE Heeded'
  BY <1>1 DEF Boot
<1>2. ASSUME Top PROVE Heeded'
  BY <1>2 DEF Top, StopNow
<1>3. ASSUME Miss PROVE Heeded'
  BY <1>3 DEF Miss, Unusable
<1>4. ASSUME ApiError PROVE Heeded'
  BY <1>4 DEF ApiError
<1>5. ASSUME Rows PROVE Heeded'
  BY <1>5 DEF Rows
<1>6. ASSUME AppendRows \/ Count PROVE Heeded'
  BY <1>6 DEF AppendRows, Count
<1>7. ASSUME OpenProgress \/ WriteProgress PROVE Heeded'
  BY <1>7 DEF OpenProgress, WriteProgress
<1>8. ASSUME Kill PROVE Heeded'
  BY <1>8 DEF Kill
<1>9. ASSUME StopGen PROVE Heeded'
  BY <1>9 DEF StopGen, Writing
<1>10. ASSUME Resolve PROVE Heeded'
  BY <1>10 DEF Resolve
<1>11. ASSUME UNCHANGED vars PROVE Heeded'
  BY <1>11 DEF vars
<1>12. QED
  BY <1>1, <1>2, <1>3, <1>4, <1>5, <1>6, <1>7, <1>8, <1>9, <1>10, <1>11 DEF Next, Work, Over

\* A worker begins an append only from a batch.
LEMMA AppendStep ==
  ASSUME Heeded, [Next]_vars, stopped, pc' = "append"
  PROVE  pc = "append"
<1> USE DEF Heeded, Goto, Exit
<1>1. ASSUME Work PROVE FALSE
  BY <1>1 DEF Work, Boot, Top, Miss, Unusable, ApiError, Rows, AppendRows, Count, OpenProgress,
              WriteProgress
<1>2. ASSUME Kill \/ StopGen PROVE FALSE
  BY <1>2 DEF Kill, StopGen
<1>3. ASSUME Resolve \/ UNCHANGED vars PROVE pc = "append"
  BY <1>3 DEF Resolve, vars
<1>4. QED
  BY <1>1, <1>2, <1>3 DEF Next, Over

\* After SIGTERM no append begins, wherever in the loop the signal arrives.
THEOREM StopIsHeeded == Spec => StopEndsAppends
<1>1. Init => Heeded
  BY DEF Init, Heeded
<1>2. Heeded /\ [Next]_vars => Heeded' /\ [stopped /\ pc' = "append" => pc = "append"]_vars
  BY HeededStep, AppendStep
<1>3. QED
  BY <1>1, <1>2, PTL DEF Spec, StopEndsAppends

-----------------------------------------------------------------------------
(* The hard cap *)

\* The batch that is in raw.jsonl and not yet counted.
Pending == IF pc = "count" THEN accepted.rows ELSE 0

\* A batch fits what is left, raw.jsonl holds at most what was counted and what
\* is about to be, and for no type more than is not left to regenerate.
Capped ==
  /\ pc \in {"append", "count"} => accepted.rows \in 1..Cap(accepted.type)
  /\ InRaw <= job.max
  /\ pc # "over" => InRaw <= rowsDone + Pending
  /\ job.regen =>
       \A t \in Types :
         /\ raw[t] <= job.of[t]
         /\ pc # "over" =>
              raw[t] + remaining[t] <= job.of[t] + (IF accepted.type = t THEN Pending ELSE 0)

\* The loop enters a batch only below the budget of batches.
InBudget == pc = "batch" => batches < BatchBudget

LEMMA BudgetType == ASSUME job.max \in Nat PROVE BatchBudget \in Nat
<1>1. (job.max + Batch - 1) \div Batch \in Nat
  BY GenWorkerAssumption
<1>2. QED
  BY <1>1 DEF BatchBudget

\* An append, whole or cut off by a kill, adds some rows of the batch.
LEMMA Appended ==
  ASSUME TypeOK, Capped, pc = "append", AppendRows \/ Kill
  PROVE  \E n \in 0..accepted.rows :
           /\ raw' = [raw EXCEPT ![accepted.type] = @ + n]
           /\ raw' \in [Types -> Nat] /\ InRaw' = InRaw + n
           /\ AppendRows /\ ~torn => n = accepted.rows
<1>1. raw \in [Types -> Nat] /\ accepted.type \in Types /\ accepted.rows \in Nat \ {0}
  BY DEF TypeOK, Capped
<1>2. PICK n \in 0..accepted.rows :
        /\ raw' = [raw EXCEPT ![accepted.type] = @ + n]
        /\ AppendRows /\ ~torn => n = accepted.rows
  <2>1. CASE AppendRows
    <3>1. CASE torn
      <4>1. accepted.rows - 1 \in 0..accepted.rows
        BY <1>1
      <4>2. raw' = [raw EXCEPT ![accepted.type] = @ + (accepted.rows - 1)]
        BY <1>1, <2>1, <3>1 DEF AppendRows
      <4>3. QED
        BY <3>1, <4>1, <4>2
    <3>2. CASE ~torn
      <4>1. raw[accepted.type] + accepted.rows - 0 = raw[accepted.type] + accepted.rows
        BY <1>1
      <4>2. raw' = [raw EXCEPT ![accepted.type] = raw[accepted.type] + accepted.rows - 0]
        BY <2>1, <3>2 DEF AppendRows
      <4>3. raw' = [raw EXCEPT ![accepted.type] = @ + accepted.rows]
        BY <4>1, <4>2
      <4>4. accepted.rows \in 0..accepted.rows
        BY <1>1
      <4>5. QED
        BY <4>3, <4>4
    <3>3. QED
      BY <3>1, <3>2
  <2>2. CASE Kill
    <3>1. PICK n \in 0..accepted.rows - 1 : raw' = [raw EXCEPT ![accepted.type] = @ + n]
      BY <2>2 DEF Kill
    <3>2. n \in 0..accepted.rows /\ ~AppendRows
      BY <1>1, <2>2 DEF Kill, AppendRows, Exit, Goto
    <3>3. QED
      BY <3>1, <3>2
  <2>3. QED
    BY <2>1, <2>2
<1>3. raw' \in [Types -> Nat] /\ InRaw' = InRaw + n
  <2>1. n \in Nat
    OBVIOUS
  <2>2. Sum([raw EXCEPT ![accepted.type] = @ + n]) = Sum(raw) + n
        /\ [raw EXCEPT ![accepted.type] = @ + n] \in [Types -> Nat]
    BY <1>1, <2>1, SumOfMore
  <2>3. QED
    BY <1>2, <2>2 DEF InRaw
<1>4. QED
  BY <1>2, <1>3

LEMMA CappedInit == Init => TypeOK /\ Capped /\ InBudget
<1> SUFFICES ASSUME Init PROVE TypeOK /\ Capped /\ InBudget
  OBVIOUS
<1>1. Asked \subseteq Nat /\ Types # {}
  BY GenWorkerAssumption
<1>2. /\ job \in [target : Nat, max : Nat, provider : Providers, regen : BOOLEAN, of : [Types -> Nat]]
  <2>1. CASE job \in [target : Asked, max : Asked, provider : Providers, regen : {FALSE}, of : {NoRows}]
    BY <1>1, <2>1, SumOfNoRows
  <2>2. ASSUME NEW of \in [Types -> {0} \cup Asked],
               job \in [target : {Sum(of)}, max : {Sum(of)}, provider : Providers,
                       regen : {TRUE}, of : {of}]
        PROVE  job \in [target : Nat, max : Nat, provider : Providers, regen : BOOLEAN,
                       of : [Types -> Nat]]
    <3>1. of \in [Types -> Nat]
      <4>1. {0} \cup Asked \subseteq Nat
        BY <1>1
      <4>2. QED
        BY <4>1
    <3>2. Sum(of) \in Nat
      BY <3>1, SumType
    <3>3. QED
      BY <2>2, <3>1, <3>2
  <2>3. QED
    BY <2>1, <2>2 DEF Init
<1>3. BatchBudget \in Nat
  BY <1>2, BudgetType
<1>4. accepted \in [type : Types, rows : 0..job.max] /\ raw = NoRows /\ InRaw = 0
  BY <1>1, <1>2, SumOfNoRows DEF Init, InRaw
<1>5. TypeOK
  <2>1. job.max \in Nat /\ job.of \in [Types -> Nat]
    BY <1>2
  <2>2. remaining \in [Types -> Nat] /\ raw \in [Types -> Nat]
    BY <1>4, <2>1, SumOfNoRows DEF Init
  <2>3. /\ rowsDone \in 0..job.max /\ batches \in 0..BatchBudget
        /\ progress \in [there : BOOLEAN, rows : 0..job.max]
        /\ node \in [status : {"running", "completed", "failed", "stopped"}, rows : 0..job.max]
    BY <1>3, <2>1 DEF Init
  <2>4. QED
    <3>1. stop \in BOOLEAN /\ stopped \in BOOLEAN /\ torn \in BOOLEAN
      BY DEF Init
    <3>2. /\ pc \in {"boot", "top", "batch", "append", "count", "open", "write", "last", "closing", "over"}
          /\ exit \in {Running, 0, 1, 2, 137, 143}
          /\ skipStreak \in 0..3 /\ apiErrs \in 0..1
      BY DEF Init
    <3>3. QED
      BY <1>2, <1>4, <2>2, <2>3, <3>1, <3>2 DEF TypeOK
<1>6. Capped
  BY <1>2, <1>4 DEF Init, Capped, Pending, NoRows
<1>7. QED
  BY <1>5, <1>6 DEF Init, InBudget

LEMMA CappedStep ==
  ASSUME TypeOK, Capped, InBudget, [Next]_vars
  PROVE  TypeOK' /\ Capped' /\ InBudget'
<1> DEFINE Kept == TypeOK' /\ Capped' /\ InBudget'
<1>0. /\ job.max \in Nat /\ BatchBudget \in Nat /\ rowsDone \in 0..job.max
      /\ accepted.type \in Types /\ accepted.rows \in 0..job.max
      /\ batches \in 0..BatchBudget /\ InRaw \in Nat
      /\ remaining \in [Types -> Nat] /\ raw \in [Types -> Nat]
  BY BudgetType, SumType DEF TypeOK, InRaw
<1>1. job' = job => BatchBudget' = BatchBudget
  BY DEF BatchBudget
<1>2. raw' = raw => InRaw' = InRaw
  BY DEF InRaw
<1> USE <1>0, <1>1, <1>2 DEF TypeOK, InBudget, Goto, Exit, counters, disk, server
<1>3. ASSUME Boot \/ Top \/ Miss \/ ApiError PROVE Kept
  BY <1>3 DEF Boot, Top, Miss, ApiError, Unusable, Capped, Pending, Running
<1>4. ASSUME Rows PROVE Kept
  BY <1>4 DEF Rows, Capped, Pending, Cap, Least
<1>5. ASSUME AppendRows PROVE Kept
  <2>1. pc = "append" /\ pc' = "count" /\ UNCHANGED <<job, counters, accepted, progress, server, stop, exit>>
    BY <1>5 DEF AppendRows
  <2>2. PICK n \in 0..accepted.rows :
          /\ raw' = [raw EXCEPT ![accepted.type] = @ + n]
          /\ raw' \in [Types -> Nat] /\ InRaw' = InRaw + n
    BY <1>5, <2>1, Appended
  <2>3. TypeOK' /\ InBudget'
    <3>1. torn' = FALSE
      BY <1>5 DEF AppendRows
    <3>2. InBudget'
      BY <2>1
    <3>3. TypeOK'
      <4>1. job' \in [target : Nat, max : Nat, provider : Providers, regen : BOOLEAN,
                      of : [Types -> Nat]]
        BY <2>1
      <4>2. /\ rowsDone' \in 0..job'.max /\ batches' \in 0..BatchBudget'
            /\ skipStreak' \in 0..3 /\ apiErrs' \in 0..1
            /\ accepted' \in [type : Types, rows : 0..job'.max]
        BY <2>1
      <4>3. /\ progress' \in [there : BOOLEAN, rows : 0..job'.max]
            /\ node' \in [status : {"running", "completed", "failed", "stopped"}, rows : 0..job'.max]
            /\ exit' \in {Running, 0, 1, 2, 137, 143} /\ stop' \in BOOLEAN /\ stopped' \in BOOLEAN
        BY <2>1
      <4>4. remaining' \in [Types -> Nat] /\ raw' \in [Types -> Nat]
        BY <2>1, <2>2
      <4>5. QED
        BY <2>1, <3>1, <4>1, <4>2, <4>3, <4>4
    <3>4. QED
      BY <3>2, <3>3
  <2>4. accepted.rows \in 1..Cap(accepted.type) /\ InRaw <= rowsDone
        /\ (job.regen => \A t \in Types : raw[t] + remaining[t] <= job.of[t])
    BY <2>1 DEF Capped, Pending
  <2>5. accepted.rows <= job.max - rowsDone
        /\ (job.regen => accepted.rows <= remaining[accepted.type])
    BY <2>4 DEF Cap, Least
  <2>6. InRaw' <= job.max /\ InRaw' <= rowsDone + accepted.rows
    BY <2>2, <2>4, <2>5
  <2>7. ASSUME job.regen, NEW t \in Types
        PROVE  /\ raw'[t] <= job.of[t]
               /\ raw'[t] + remaining[t]
                    <= job.of[t] + (IF accepted.type = t THEN accepted.rows ELSE 0)
    BY <2>2, <2>4, <2>5, <2>7
  <2>8. Capped'
    BY <2>1, <2>4, <2>6, <2>7 DEF Capped, Pending, Cap
  <2>9. QED
    BY <2>3, <2>8
<1>6. ASSUME Count PROVE Kept
  BY <1>6 DEF Count, Capped, Pending, Cap, Least
<1>7. ASSUME OpenProgress \/ WriteProgress PROVE Kept
  <2>1. TypeOK' /\ InBudget'
    <3>1. CASE OpenProgress
      BY <3>1 DEF OpenProgress
    <3>2. CASE WriteProgress
      BY <3>2 DEF WriteProgress, Counted
    <3>3. QED
      BY <1>7, <3>1, <3>2
  <2>2. Capped'
    BY <1>7 DEF OpenProgress, WriteProgress, Capped, Pending
  <2>3. QED
    BY <2>1, <2>2
<1>8. ASSUME Kill PROVE Kept
  BY <1>8, Appended DEF Kill, Capped, Pending, Cap, Least
<1>9. ASSUME StopGen PROVE Kept
  <2>1. TypeOK' /\ InBudget'
    <3>1. /\ stopped' = TRUE /\ UNCHANGED <<job, counters, accepted, disk, node>>
          /\ (stop' = TRUE /\ UNCHANGED <<pc, exit>>) \/ (pc' = "over" /\ exit' = 143 /\ stop' = stop)
      BY <1>9 DEF StopGen
    <3>2. stop' \in BOOLEAN /\ stopped' \in BOOLEAN
      BY <3>1
    <3>3. /\ pc' \in {"boot", "top", "batch", "append", "count", "open", "write", "last", "closing", "over"}
          /\ exit' \in {Running, 0, 1, 2, 137, 143}
      BY <3>1
    <3>4. QED
      BY <3>1, <3>2, <3>3
  <2>2. Capped'
    BY <1>9 DEF StopGen, Writing, Capped, Pending, Cap
  <2>3. QED
    BY <2>1, <2>2
<1>10. ASSUME Resolve \/ UNCHANGED vars PROVE Kept
  <2>1. TypeOK' /\ InBudget'
    BY <1>10 DEF Resolve, LiveStatus, vars
  <2>2. Capped'
    BY <1>10 DEF Resolve, Capped, Pending, Cap, vars
  <2>3. QED
    BY <2>1, <2>2
<1> HIDE DEF Kept
<1>11. Kept
  BY <1>3, <1>4, <1>5, <1>6, <1>7, <1>8, <1>9, <1>10 DEF Next, Work, Over
<1>12. QED
  BY <1>11 DEF Kept

\* Every state of a worker has its types: no batch beyond the budget, no row
\* counted beyond the cap.
THEOREM TypeCorrect == Spec => []TypeOK
<1>1. TypeOK /\ Capped /\ InBudget /\ [Next]_vars => TypeOK' /\ Capped' /\ InBudget'
  BY CappedStep
<1>2. QED
  BY <1>1, CappedInit, PTL DEF Spec

\* Whatever the model sends, however the batches fail, wherever the worker is
\* killed and whatever an earlier one left behind: no more rows than the cap, and
\* in a regeneration no more of a type than it replaces.
THEOREM CapIsHard == Spec => []HardCap
<1>1. TypeOK /\ Capped /\ InBudget /\ [Next]_vars => TypeOK' /\ Capped' /\ InBudget'
  BY CappedStep
<1>2. Capped => HardCap
  BY DEF Capped, HardCap
<1>3. QED
  BY <1>1, <1>2, CappedInit, PTL DEF Spec

-----------------------------------------------------------------------------
(* What is counted *)

\* raw.jsonl holds what was counted and what is about to be; what was written
\* down is less, since rows are appended first.
Counts ==
  /\ progress.rows <= InRaw /\ node.rows <= InRaw
  /\ pc # "over" => ~torn /\ InRaw = rowsDone + Pending

\* A worker ends well only when the loop is through, and then what it wrote down is
\* what raw.jsonl holds; until the node is written it counts nothing.
Whole ==
  /\ exit = Running <=> pc # "over"
  /\ pc \in {"last", "closing"} => rowsDone >= Goal
  /\ pc = "boot" => rowsDone = 0 /\ ~progress.there
  /\ node.status = "running" => node.rows = 0
  /\ node.status \in {"completed", "failed"} => pc = "over"
  /\ exit = 0 => InRaw >= Goal /\ progress.rows = InRaw /\ (progress.there \/ InRaw = 0)
  /\ node.status = "completed" => node.rows = InRaw /\ InRaw >= Goal

LEMMA CountsStep ==
  ASSUME TypeOK, Capped, Counts, [Next]_vars
  PROVE  Counts'
<1>0. /\ InRaw \in Nat /\ rowsDone \in Nat /\ accepted.rows \in Nat
      /\ progress.rows \in Nat /\ node.rows \in Nat
  BY SumType DEF TypeOK, InRaw
<1>1. raw' = raw => InRaw' = InRaw
  BY DEF InRaw
<1> USE <1>0, <1>1 DEF Counts, Pending, Goto, Exit, counters, disk, server
<1>2. ASSUME Boot \/ Top \/ Miss \/ ApiError \/ Rows PROVE Counts'
  BY <1>2 DEF Boot, Top, Miss, ApiError, Unusable, Rows
<1>3. ASSUME AppendRows PROVE Counts'
  <2>1. pc = "append" /\ pc' = "count" /\ ~torn /\ torn' = FALSE
        /\ UNCHANGED <<rowsDone, accepted, progress, node>>
    BY <1>3 DEF AppendRows
  <2>2. InRaw' = InRaw + accepted.rows
    BY <1>3, <2>1, Appended
  <2>3. QED
    BY <2>1, <2>2
<1>4. ASSUME Count PROVE Counts'
  BY <1>4 DEF Count
<1>5. ASSUME OpenProgress \/ WriteProgress PROVE Counts'
  BY <1>5 DEF OpenProgress, WriteProgress, Counted
<1>6. ASSUME Kill PROVE Counts'
  BY <1>6, Appended DEF Kill
<1>7. ASSUME StopGen PROVE Counts'
  BY <1>7 DEF StopGen, Writing
<1>8. ASSUME Resolve \/ UNCHANGED vars PROVE Counts'
  BY <1>8 DEF Resolve, vars
<1>9. QED
  BY <1>2, <1>3, <1>4, <1>5, <1>6, <1>7, <1>8 DEF Next, Work, Over

LEMMA WholeStep ==
  ASSUME TypeOK, Capped, Counts, Whole, [Next]_vars
  PROVE  Whole'
<1>0. /\ InRaw \in Nat /\ rowsDone \in Nat /\ accepted.rows \in Nat
      /\ progress.rows \in Nat /\ node.rows \in Nat /\ Goal \in Nat
  BY SumType DEF TypeOK, InRaw, Goal, Least
<1>1. (raw' = raw => InRaw' = InRaw) /\ (job' = job => Goal' = Goal)
  BY DEF InRaw, Goal
<1> USE <1>0, <1>1 DEF Whole, Goto, Exit, counters, disk, server
<1>2. ASSUME Boot PROVE Whole'
  <2>1. job.target = 0 => Goal = 0
    BY DEF Goal, Least, TypeOK
  <2>2. pc = "boot" /\ InRaw = 0 /\ progress.rows = 0
    BY <1>2 DEF Boot, Counts, Pending
  <2>3. QED
    BY <1>2, <2>1, <2>2 DEF Boot, Running
<1>3. ASSUME Top \/ Miss \/ ApiError \/ Rows PROVE Whole'
  BY <1>3 DEF Top, Miss, ApiError, Unusable, Rows, Running
<1>4. ASSUME AppendRows PROVE Whole'
  <2>1. exit # 0 /\ node.status \notin {"completed", "failed"}
    BY <1>4 DEF AppendRows, Running
  <2>2. QED
    BY <1>4, <2>1 DEF AppendRows
<1>5. ASSUME Count PROVE Whole'
  BY <1>5 DEF Count
<1>6. ASSUME OpenProgress PROVE Whole'
  <2>1. exit # 0 /\ node.status \notin {"completed", "failed"}
    BY <1>6 DEF OpenProgress, Running
  <2>2. QED
    BY <1>6, <2>1 DEF OpenProgress
<1>7. ASSUME WriteProgress PROVE Whole'
  BY <1>7 DEF WriteProgress, Counted, Counts, Pending, Running
<1>8. ASSUME Kill PROVE Whole'
  BY <1>8, Appended DEF Kill, Running
<1>9. ASSUME StopGen PROVE Whole'
  BY <1>9 DEF StopGen, Writing, Running
<1>10. ASSUME Resolve PROVE Whole'
  BY <1>10 DEF Resolve, LiveStatus, Running
<1>11. ASSUME UNCHANGED vars PROVE Whole'
  BY <1>11 DEF vars
<1>12. QED
  BY <1>2, <1>3, <1>4, <1>5, <1>6, <1>7, <1>8, <1>9, <1>10, <1>11 DEF Next, Work, Over

LEMMA CountsInit == ASSUME Faults = {}, Init PROVE Counts /\ Whole
<1>1. InRaw = 0 /\ rowsDone = 0 /\ Pending = 0
  BY SumOfNoRows DEF Init, InRaw, Pending
<1>2. Counts
  BY <1>1 DEF Init, Counts
<1>3. Whole
  BY <1>1 DEF Init, Whole, Running
<1>4. QED
  BY <1>2, <1>3

\* If no earlier worker left half a row: whenever the worker dies, what
\* progress.json and the node count is in raw.jsonl.
THEOREM CountsAreTrue == ASSUME Faults = {} PROVE Spec => []NeverOvercounts
<1>1. /\ TypeOK /\ Capped /\ InBudget /\ [Next]_vars => TypeOK' /\ Capped' /\ InBudget'
      /\ TypeOK /\ Capped /\ Counts /\ [Next]_vars => Counts'
  BY CappedStep, CountsStep
<1>2. Counts => NeverOvercounts
  BY DEF Counts, NeverOvercounts
<1>3. QED
  BY <1>1, <1>2, CappedInit, CountsInit, PTL DEF Spec

\* If no earlier worker left half a row: a job that the server calls completed has
\* counted all of its rows, and as many as were asked for.
THEOREM CompletedJobsAreWhole == ASSUME Faults = {} PROVE Spec => []CompletedIsWhole
<1>1. /\ TypeOK /\ Capped /\ InBudget /\ [Next]_vars => TypeOK' /\ Capped' /\ InBudget'
      /\ TypeOK /\ Capped /\ Counts /\ [Next]_vars => Counts'
      /\ TypeOK /\ Capped /\ Counts /\ Whole /\ [Next]_vars => Whole'
  BY CappedStep, CountsStep, WholeStep
<1>2. Whole => CompletedIsWhole
  BY DEF Whole, CompletedIsWhole, Goal
<1>3. QED
  BY <1>1, <1>2, CappedInit, CountsInit, PTL DEF Spec
=============================================================================
