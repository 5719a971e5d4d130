---------------------------- MODULE ServerProofs ----------------------------
(***************************************************************************)
(* The two protocols that are the server's own.                            *)
(*                                                                         *)
(* Clusters: no saved cluster loses its key, for any keys, clusters, runs  *)
(* and threads, wherever the server crashes, as long as no key is deleted  *)
(* while another request is about it; no live run on a saved cluster loses *)
(* its key file, whatever requests overlap.                                *)
(*                                                                         *)
(* LogTail: tail returns the last lines of the log it opened, whatever the *)
(* block size, the number of lines, the bytes and the length of the log,   *)
(* and whatever is appended meanwhile.  What TailCut and Text compute is   *)
(* proved by induction over the bytes.  The principle comes from           *)
(* well-foundedness of inclusion on finite sets (Least, Induction), over   *)
(* sets rather than predicates; so does the existence of the functions     *)
(* that TailCut and Text are defined by (Defined).                         *)
(***************************************************************************)
EXTENDS Clusters, LogTail, FiniteSetTheorems, TLAPS

-----------------------------------------------------------------------------
(* Keys and clusters *)

\* A key that a request is about has been made.
Made == \A t \in Threads : req[t] # Idle => req[t].key \in Keys \ fresh

\* A cluster that is being added is nobody else's, and no run is on it.
AddsNew ==
  \A t \in Threads : req[t].op = "add" =>
    /\ req[t].id \in Ids /\ cluster[req[t].id] = NoKey
    /\ \A u \in Threads \ {t} : req[u].id # req[t].id
    /\ \A r \in Runs : run[r].id # req[t].id

\* What holds whatever overlaps.
Always == TypeOK /\ Made /\ AddsNew /\ RunKeepsItsKey

\* What a request relies on between its checks and its answer: nobody else is
\* about its key.
Alone ==
  \A t \in Threads :
    /\ req[t] # Idle => \A u \in Threads \ {t} : req[u].key # req[t].key
    /\ req[t].op = "delete" => \A i \in Ids : cluster[i] # req[t].key
    /\ req[t].op = "add" => req[t].key \in node

IInv == Always /\ Alone /\ NotStranded

\* A key counted zero times is in no cluster.
LEMMA Unused == ASSUME NEW k, KeyUse(k) = 0 PROVE \A i \in Ids : cluster[i] # k
<1> DEFINE users == {i \in Ids : cluster[i] = k}
<1>1. IsFiniteSet(users)
  BY FS_Subset, ClustersAssumption
<1>2. users = {}
  BY <1>1, FS_EmptySet DEF KeyUse
<1>3. QED
  BY <1>2

\* Types, and that only keys that were made are used, whatever overlaps.
LEMMA TypeStep == ASSUME TypeOK, Made, [Next]_vars PROVE TypeOK' /\ Made'
<1> USE ClustersAssumption DEF TypeOK, Made, Idle, NotStarted, Begin, Answer
<1>1. ASSUME NEW t \in Threads, NEW k \in Keys, Keygen(t, k) PROVE TypeOK' /\ Made'
  BY <1>1 DEF Keygen
<1>2. ASSUME NEW t \in Threads, NEW k \in Keys, Unlink(t, k) PROVE TypeOK' /\ Made'
  BY <1>2 DEF Unlink
<1>3. ASSUME NEW t \in Threads, NEW i \in Ids, NEW k \in Keys, Probe(t, i, k)
      PROVE  TypeOK' /\ Made'
  BY <1>3 DEF Probe
<1>4. ASSUME NEW t \in Threads, SaveKey(t) PROVE TypeOK' /\ Made'
  BY <1>4 DEF SaveKey
<1>5. ASSUME NEW t \in Threads, DropKey(t) PROVE TypeOK' /\ Made'
  BY <1>5 DEF DropKey
<1>6. ASSUME NEW t \in Threads, SaveCluster(t) PROVE TypeOK' /\ Made'
  BY <1>6 DEF SaveCluster
<1>7. ASSUME NEW i \in Ids, RemoveCluster(i) PROVE TypeOK' /\ Made'
  BY <1>7 DEF RemoveCluster
<1>8. ASSUME NEW r \in Runs, EndRun(r) PROVE TypeOK' /\ Made'
  <2>1. run[r] \in [id : Ids, key : Keys, live : BOOLEAN]
    BY <1>8 DEF EndRun
  <2>2. [run[r] EXCEPT !.live = FALSE] \in [id : Ids, key : Keys, live : BOOLEAN]
    BY <2>1
  <2>3. QED
    BY <1>8, <2>2 DEF EndRun
<1>9. ASSUME NEW r \in Runs, NEW i \in Ids, StartRun(r, i) PROVE TypeOK' /\ Made'
  BY <1>9 DEF StartRun, Override
<1>10. CASE Crash
  BY <1>10 DEF Crash
<1>11. CASE UNCHANGED vars
  BY <1>11 DEF vars
<1>12. QED
  BY <1>1, <1>2, <1>3, <1>4, <1>5, <1>6, <1>7, <1>8, <1>9, <1>10, <1>11 DEF Next

\* Every variable keeps its type, also with overlapping requests.
THEOREM TypeCorrect == Spec => []TypeOK
<1>1. Init => TypeOK /\ Made
  BY DEF Init, TypeOK, Made, Idle, NotStarted
<1>2. QED
  BY <1>1, TypeStep, PTL DEF Spec

-----------------------------------------------------------------------------
\* A step keeps the key files of the runs, whatever overlaps.
LEMMA AlwaysStep == ASSUME Always, [Next]_vars PROVE Always'
<1> DEFINE Goal == AddsNew' /\ RunKeepsItsKey'
<1>0. TypeOK' /\ Made'
  BY TypeStep DEF Always
<1> USE ClustersAssumption
    DEF Always, TypeOK, Made, AddsNew, RunKeepsItsKey, Idle, NotStarted, Begin, Answer
<1>1. ASSUME NEW t \in Threads, NEW k \in Keys, Keygen(t, k) PROVE Goal
  BY <1>1 DEF Keygen
<1>2. ASSUME NEW t \in Threads, NEW k \in Keys, Unlink(t, k) PROVE Goal
  <2>1. \A i \in Ids : cluster[i] # k
    BY <1>2, Unused DEF Unlink
  <2>2. QED
    BY <1>2, <2>1 DEF Unlink
<1>3. ASSUME NEW t \in Threads, NEW i \in Ids, NEW k \in Keys, Probe(t, i, k) PROVE Goal
  BY <1>3 DEF Probe
<1>4. ASSUME NEW t \in Threads, SaveKey(t) \/ DropKey(t) PROVE Goal
  BY <1>4 DEF SaveKey, DropKey
<1>5. ASSUME NEW t \in Threads, SaveCluster(t) PROVE Goal
  BY <1>5 DEF SaveCluster
<1>6. ASSUME NEW i \in Ids, RemoveCluster(i) PROVE Goal
  BY <1>6 DEF RemoveCluster
<1>7. ASSUME NEW r \in Runs, EndRun(r) PROVE Goal
  BY <1>7 DEF EndRun
<1>8. ASSUME NEW r \in Runs, NEW i \in Ids, StartRun(r, i) PROVE Goal
  <2>1. \A t \in Threads : req[t].op = "add" => req[t].id # i
    BY <1>8 DEF StartRun, Override
  <2>2. AddsNew'
    BY <1>8, <2>1 DEF StartRun
  <2>3. cluster[i] \in file
    BY <1>8 DEF StartRun, Override
  <2>4. run' = [run EXCEPT ![r] = [id |-> i, key |-> cluster[i], live |-> TRUE]]
    BY <1>8 DEF StartRun
  <2>5. run'[r].key \in file /\ \A u \in Runs \ {r} : run'[u] = run[u]
    BY <2>3, <2>4
  <2>6. RunKeepsItsKey'
    BY <1>8, <2>5 DEF StartRun
  <2>7. QED
    BY <2>2, <2>6
<1>9. ASSUME Crash PROVE Goal
  BY <1>9 DEF Crash
<1>10. ASSUME UNCHANGED vars PROVE Goal
  BY <1>10 DEF vars
<1> HIDE DEF Goal, Always, TypeOK, Made, AddsNew, RunKeepsItsKey, Idle, NotStarted, Begin, Answer
<1>11. Goal
  BY <1>1, <1>2, <1>3, <1>4, <1>5, <1>6, <1>7, <1>8, <1>9, <1>10 DEF Next
<1>12. QED
  BY <1>0, <1>11 DEF Goal, Always

LEMMA AlwaysInit == Init => Always
BY ClustersAssumption
   DEF Init, Always, TypeOK, Made, AddsNew, RunKeepsItsKey, Idle, NotStarted

\* The supervisor of a run keeps its key file as long as its cluster is saved,
\* also when a key is deleted while another request uses it.
THEOREM KeysOfRuns == Spec => []RunKeepsItsKey
<1>1. Always => RunKeepsItsKey
  BY DEF Always
<1>2. QED
  BY <1>1, AlwaysInit, AlwaysStep, PTL DEF Spec

\* Without overlapping requests, a step keeps the clusters' keys as well.
LEMMA Inductive == ASSUME Faults = {}, IInv, [Next]_vars PROVE IInv'
<1> DEFINE Goal == Alone' /\ NotStranded'
<1>0. Always'
  BY AlwaysStep DEF IInv
<1> USE ClustersAssumption
    DEF IInv, Always, TypeOK, Made, AddsNew, Alone, NotStranded, Idle, Begin, Answer, Busy
<1>1. ASSUME NEW t \in Threads, NEW k \in Keys, Keygen(t, k) PROVE Goal
  BY <1>1 DEF Keygen
<1>2. ASSUME NEW t \in Threads, NEW k \in Keys, Unlink(t, k) PROVE Goal
  <2>1. \A i \in Ids : cluster[i] # k
    BY <1>2, Unused DEF Unlink
  <2>2. QED
    BY <1>2, <2>1 DEF Unlink
<1>3. ASSUME NEW t \in Threads, NEW i \in Ids, NEW k \in Keys, Probe(t, i, k) PROVE Goal
  BY <1>3 DEF Probe
<1>4. ASSUME NEW t \in Threads, SaveKey(t) PROVE Goal
  BY <1>4 DEF SaveKey
<1>5. ASSUME NEW t \in Threads, DropKey(t) PROVE Goal
  BY <1>5 DEF DropKey
<1>6. ASSUME NEW t \in Threads, SaveCluster(t) PROVE Goal
  BY <1>6 DEF SaveCluster
<1>7. ASSUME NEW i \in Ids, RemoveCluster(i) PROVE Goal
  BY <1>7 DEF RemoveCluster
<1>8. ASSUME NEW r \in Runs, EndRun(r) \/ (\E i \in Ids : StartRun(r, i)) PROVE Goal
  BY <1>8 DEF EndRun, StartRun
<1>9. ASSUME Crash PROVE Goal
  BY <1>9 DEF Crash
<1>10. ASSUME UNCHANGED vars PROVE Goal
  BY <1>10 DEF vars
<1> HIDE DEF Goal, IInv, Always, TypeOK, Made, AddsNew, Alone, NotStranded, Idle, Begin, Answer, Busy
<1>11. Goal
  BY <1>1, <1>2, <1>3, <1>4, <1>5, <1>6, <1>7, <1>8, <1>9, <1>10 DEF Next
<1>12. QED
  BY <1>0, <1>11 DEF Goal, IInv

LEMMA Invariance == ASSUME Faults = {} PROVE Spec => []IInv
<1>1. Init => IInv
  BY AlwaysInit, ClustersAssumption DEF Init, IInv, Alone, NotStranded, Idle
<1>2. QED
  BY <1>1, Inductive, PTL DEF Spec

\* The refusal of delete_ssh_key does what it is there for: no saved cluster is
\* left without its key.
THEOREM KeysOfClusters == ASSUME Faults = {} PROVE Spec => []NotStranded
<1>1. IInv => NotStranded
  BY DEF IInv
<1>2. QED
  BY <1>1, Invariance, PTL
-----------------------------------------------------------------------------
(* Log tails: induction, from the least-element principle *)

\* Every non-empty set of naturals has a least element: the sets 1..w of its
\* members, ordered by inclusion, are finite.
LEMMA Least == ASSUME NEW S \in SUBSET Nat, S # {} PROVE \E w \in S : \A m \in S : w <= m
<1> DEFINE T == {1..w : w \in S}
<1>1. IsWellFoundedOn(StrictSubsetOrdering(Nat), FiniteSubsetsOf(Nat))
  BY FS_StrictSubsetOrderingWellFounded
<1>2. T \subseteq FiniteSubsetsOf(Nat) /\ T # {}
  <2>1. ASSUME NEW w \in S PROVE 1..w \in FiniteSubsetsOf(Nat)
    <3>1. 1 \in Int /\ w \in Int /\ 1..w \subseteq Nat
      OBVIOUS
    <3>2. IsFiniteSet(1..w)
      BY <3>1, FS_Interval
    <3>3. QED
      BY <3>1, <3>2 DEF FiniteSubsetsOf
  <2>2. QED
    BY <2>1
<1>3. PICK U \in T : \A V \in T : ~(<<V, U>> \in StrictSubsetOrdering(Nat))
  <2> HIDE DEF T
  <2>1. QED
    BY <1>1, <1>2, WFMin
<1>4. PICK w \in S : U = 1..w
  OBVIOUS
<1>5. ASSUME NEW m \in S, m < w PROVE FALSE
  <2>1. 1..m \subseteq 1..w /\ 1..m # 1..w
    <3>1. w \in 1..w /\ w \notin 1..m
      BY <1>5
    <3>2. QED
      BY <3>1, <1>5
  <2>2. <<1..m, 1..w>> \in StrictSubsetOrdering(Nat)
    BY <2>1 DEF StrictSubsetOrdering
  <2>3. QED
    BY <1>3, <1>4, <2>2
<1>6. QED
  BY <1>5

\* Strong induction up to w, over a set in place of a predicate.
LEMMA Induction ==
  ASSUME NEW w \in Nat, NEW S, \A i \in 0..w : (\A j \in 0..w : j < i => j \in S) => i \in S
  PROVE  0..w \subseteq S
<1> DEFINE bad == {i \in 0..w : i \notin S}
<1>1. SUFFICES ASSUME bad # {} PROVE FALSE
  OBVIOUS
<1>2. PICK i \in bad : \A j \in bad : i <= j
  <2>1. bad \in SUBSET Nat
    OBVIOUS
  <2> HIDE DEF bad
  <2>2. QED
    BY <1>1, <2>1, Least
<1>3. \A j \in 0..w : j < i => j \in S
  BY <1>2
<1>4. QED
  BY <1>2, <1>3

\* step[<<h, i>>], the value at i, depends on the values of h below i.
Causal(w, V, step) ==
  /\ step \in [[0..w -> V] \X (0..w) -> V]
  /\ \A i \in 0..w, g \in [0..w -> V], h \in [0..w -> V] :
       (\A j \in 0..w : j < i => g[j] = h[j]) => step[<<g, i>>] = step[<<h, i>>]

Solves(h, w, step) == \A i \in 0..w : h[i] = step[<<h, i>>]

\* A function defined by the values below each argument exists.
LEMMA Defined ==
  ASSUME NEW w \in Nat, NEW V, V # {}, NEW step, Causal(w, V, step)
  PROVE  \E h \in [0..w -> V] : Solves(h, w, step)
<1> USE DEF Causal, Solves
<1> DEFINE F == [0..w -> V]
           Upto(h, m) == \A i \in 0..w : i < m => h[i] = step[<<h, i>>]
           S == {m \in 0..w + 1 : \E h \in F : Upto(h, m)}
<1>1. ASSUME NEW m \in 0..w + 1, \A j \in 0..w + 1 : j < m => j \in S PROVE m \in S
  <2>1. CASE m = 0
    <3>1. PICK v \in V : TRUE
      OBVIOUS
    <3> DEFINE h == [i \in 0..w |-> v]
    <3>2. h \in F
      OBVIOUS
    <3>3. Upto(h, m)
      BY <2>1
    <3> HIDE DEF F, Upto, h
    <3>4. QED
      BY <3>2, <3>3
  <2>2. CASE m > 0
    <3>1. m \in Int /\ m - 1 \in 0..w /\ m - 1 \in S
      <4>1. m \in Int /\ m - 1 \in 0..w /\ m - 1 \in 0..w + 1 /\ m - 1 < m
        BY <2>2
      <4> HIDE DEF S
      <4>2. QED
        BY <1>1, <4>1
    <3>2. PICK g \in F : Upto(g, m - 1)
      BY <3>1
    <3> DEFINE h == [g EXCEPT ![m - 1] = step[<<g, m - 1>>]]
    <3>3. h \in F
      <4>1. step[<<g, m - 1>>] \in V
        BY <3>1
      <4>2. QED
        BY <4>1
    <3>4. ASSUME NEW i \in 0..w, i < m PROVE h[i] = step[<<h, i>>]
      <4>1. h[i] = step[<<g, i>>]
        <5>1. CASE i = m - 1
          BY <5>1
        <5>2. CASE i < m - 1
          BY <3>2, <5>2
        <5>3. QED
          BY <3>1, <3>4, <5>1, <5>2
      <4>2. \A j \in 0..w : j < i => g[j] = h[j]
        BY <3>1, <3>4
      <4> HIDE DEF h
      <4>3. step[<<g, i>>] = step[<<h, i>>]
        BY <3>3, <4>2
      <4>4. QED
        BY <4>1, <4>3
    <3>5. Upto(h, m)
      BY <3>4
    <3> HIDE DEF F, Upto, h
    <3>6. QED
      BY <3>3, <3>5
  <2>3. m = 0 \/ m > 0
    OBVIOUS
  <2> HIDE DEF S
  <2>4. QED
    BY <2>1, <2>2, <2>3
<1>2. 0..w + 1 \subseteq S
  <2>1. w + 1 \in Nat
    OBVIOUS
  <2> HIDE DEF S
  <2>2. QED
    BY <1>1, <2>1, Induction
<1>3. PICK h \in F : Upto(h, w + 1)
  <2>1. w + 1 \in 0..w + 1
    OBVIOUS
  <2> HIDE DEF F, Upto
  <2>2. QED
    BY <1>2, <2>1
<1>4. QED
  BY <1>3
LEMMA SeqEqual ==
  ASSUME NEW D, NEW s \in Seq(D), NEW t \in Seq(D), Len(s) = Len(t),
         \A i \in 1..Len(s) : s[i] = t[i]
  PROVE  s = t
  OBVIOUS

-----------------------------------------------------------------------------
(* Log tails: line ends *)

\* The line ends among the first i bytes of b, each at its last byte.
EndsTo(b, i) == {e \in 1..i : b[e] = "lf" \/ (b[e] = "cr" /\ ~(e < i /\ b[e + 1] = "lf"))}

Ends(b) == EndsTo(b, Len(b))

\* Those from c on.
EndsFrom(b, c) == {e \in Ends(b) : c <= e}

\* The byte after which the count goes on, past the line end at i.
Prev(b, i) == IF b[i] = "lf" /\ i > 1 /\ b[i - 1] = "cr" THEN i - 2 ELSE i - 1

LEMMA EndsFinite ==
  ASSUME NEW b, NEW i \in Nat
  PROVE  IsFiniteSet(EndsTo(b, i)) /\ EndsTo(b, i) \in SUBSET (1..i)
<1>1. IsFiniteSet(1..i)
  <2>1. 1 \in Int /\ i \in Int
    OBVIOUS
  <2>2. QED
    BY <2>1, FS_Interval
<1>2. EndsTo(b, i) \in SUBSET (1..i)
  BY DEF EndsTo
<1>3. QED
  BY <1>1, <1>2, FS_Subset

LEMMA EndsStep ==
  ASSUME NEW b \in Seq(Bytes), NEW i \in 1..Len(b)
  PROVE  /\ Prev(b, i) \in 0..i - 1
         /\ b[i] = "x" => EndsTo(b, i) = EndsTo(b, i - 1)
         /\ b[i] # "x" => EndsTo(b, i) = EndsTo(b, Prev(b, i)) \cup {i}
<1>1. Len(b) \in Nat /\ \A e \in 1..Len(b) : b[e] \in Bytes
  OBVIOUS
<1>2. Prev(b, i) \in 0..i - 1
  BY <1>1 DEF Prev
<1>3. ASSUME b[i] = "x" PROVE EndsTo(b, i) = EndsTo(b, i - 1)
  BY <1>1, <1>3 DEF EndsTo
<1>4. CASE b[i] = "cr"
  <2>1. EndsTo(b, i) = EndsTo(b, i - 1) \cup {i}
    BY <1>1, <1>4 DEF EndsTo
  <2>2. QED
    BY <1>2, <1>4, <2>1 DEF Prev
<1>5. CASE b[i] = "lf" /\ i > 1 /\ b[i - 1] = "cr"
  <2>1. EndsTo(b, i) = EndsTo(b, i - 2) \cup {i}
    BY <1>1, <1>5 DEF EndsTo
  <2>2. QED
    BY <1>2, <1>5, <2>1 DEF Prev
<1>6. CASE b[i] = "lf" /\ ~(i > 1 /\ b[i - 1] = "cr")
  <2>1. EndsTo(b, i) = EndsTo(b, i - 1) \cup {i}
    BY <1>1, <1>6 DEF EndsTo
  <2>2. QED
    BY <1>2, <1>6, <2>1 DEF Prev
<1>7. QED
  BY <1>1, <1>2, <1>3, <1>4, <1>5, <1>6 DEF Bytes

\* The backward count of _tail_cut is defined.
LEMMA CutDefined ==
  ASSUME NEW b \in Seq(Bytes), NEW k \in Nat \ {0}
  PROVE  \E back \in [0..Len(b) -> [0..k - 1 -> Int]] :
           /\ TailCut(b, k) = back[Len(b)][0]
           /\ \A i \in 0..Len(b), count \in 0..k - 1 :
                back[i][count] = IF i = 0 THEN -1
                                 ELSE IF b[i] = "x" THEN back[i - 1][count]
                                 ELSE IF count + 1 = k THEN i ELSE back[Prev(b, i)][count + 1]
<1> DEFINE V == [0..k - 1 -> Int]
           Val(h, i, count) == IF i = 0 THEN -1
                               ELSE IF b[i] = "x" THEN h[i - 1][count]
                               ELSE IF count + 1 = k THEN i ELSE h[Prev(b, i)][count + 1]
           Row(h, i) == [count \in 0..k - 1 |-> Val(h, i, count)]
           step == [a \in [0..Len(b) -> V] \X (0..Len(b)) |-> Row(a[1], a[2])]
<1>1. Len(b) \in Nat /\ k \in Nat /\ k > 0 /\ V # {}
  <2>1. [count \in 0..k - 1 |-> 0] \in V
    OBVIOUS
  <2> HIDE DEF V
  <2>2. QED
    BY <2>1
<1>2. ASSUME NEW h, NEW i \in 0..Len(b), \A j \in 0..Len(b) : j < i => h[j] \in V
      PROVE  Row(h, i) \in V
  <2>1. ASSUME NEW count \in 0..k - 1 PROVE Val(h, i, count) \in Int
    <3>1. CASE i = 0
      BY <3>1
    <3>2. CASE i \in 1..Len(b)
      <4>1. /\ Prev(b, i) \in 0..Len(b) /\ Prev(b, i) < i
            /\ i - 1 \in 0..Len(b) /\ i - 1 < i /\ i \in Int /\ i # 0
        BY <1>1, <3>2, EndsStep
      <4>2. h[i - 1][count] \in Int
        BY <1>2, <4>1
      <4>3. count + 1 # k => h[Prev(b, i)][count + 1] \in Int
        <5>1. count + 1 # k => count + 1 \in 0..k - 1
          BY <1>1
        <5>2. QED
          BY <1>2, <4>1, <5>1
      <4>4. QED
        BY <4>1, <4>2, <4>3
    <3>3. i = 0 \/ i \in 1..Len(b)
      BY <1>1
    <3>4. QED
      BY <3>1, <3>2, <3>3
  <2> HIDE DEF Val
  <2>2. QED
    BY <2>1
<1>3. ASSUME NEW i \in 0..Len(b), NEW g \in [0..Len(b) -> V], NEW h \in [0..Len(b) -> V],
             \A j \in 0..Len(b) : j < i => g[j] = h[j]
      PROVE  Row(g, i) = Row(h, i)
  <2>1. CASE i = 0
    BY <2>1
  <2>2. CASE i \in 1..Len(b)
    <3>1. Prev(b, i) \in 0..Len(b) /\ Prev(b, i) < i /\ i - 1 \in 0..Len(b) /\ i - 1 < i
      BY <1>1, <2>2, EndsStep
    <3>2. g[i - 1] = h[i - 1] /\ g[Prev(b, i)] = h[Prev(b, i)]
      BY <1>3, <3>1
    <3>3. QED
      BY <3>2
  <2>3. i = 0 \/ i \in 1..Len(b)
    BY <1>1
  <2> HIDE DEF Row
  <2>4. QED
    BY <2>1, <2>2, <2>3
<1>4. PICK h \in [0..Len(b) -> V] : h = [i \in 0..Len(b) |-> Row(h, i)]
  <2> HIDE DEF V, Row
  <2>1. step \in [[0..Len(b) -> V] \X (0..Len(b)) -> V]
    BY <1>2
  <2>2. \A i \in 0..Len(b), g \in [0..Len(b) -> V] : step[<<g, i>>] = Row(g, i)
    OBVIOUS
  <2> HIDE DEF step
  <2>3. Causal(Len(b), V, step)
    <3>1. ASSUME NEW i \in 0..Len(b), NEW g \in [0..Len(b) -> V], NEW h \in [0..Len(b) -> V],
                 \A j \in 0..Len(b) : j < i => g[j] = h[j]
          PROVE  step[<<g, i>>] = step[<<h, i>>]
      <4>1. Row(g, i) = Row(h, i)
        BY <1>3, <3>1
      <4>2. QED
        BY <2>2, <4>1
    <3>2. QED
      BY <2>1, <3>1 DEF Causal
  <2>4. V # {} /\ Len(b) \in Nat
    BY <1>1
  <2>5. PICK h \in [0..Len(b) -> V] : Solves(h, Len(b), step)
    BY <2>3, <2>4, Defined
  <2>6. QED
    BY <2>2, <2>5 DEF Solves
<1> DEFINE Back == CHOOSE back : back = [i \in 0..Len(b) |-> Row(back, i)]
<1>5. Back = [i \in 0..Len(b) |-> Row(Back, i)]
  <2> HIDE DEF Row
  <2>1. QED
    BY <1>4
<1>6. TailCut(b, k) = Back[Len(b)][0]
  BY DEF TailCut, Prev
<1>7. Back \in [0..Len(b) -> V]
  <2> DEFINE S == {i \in 0..Len(b) : Back[i] \in V}
  <2> HIDE DEF V, Row, Back
  <2>1. ASSUME NEW i \in 0..Len(b), \A j \in 0..Len(b) : j < i => j \in S PROVE i \in S
    <3>1. Row(Back, i) \in V
      BY <1>2, <2>1
    <3>2. QED
      BY <1>5, <3>1
  <2>2. 0..Len(b) \subseteq S
    <3> HIDE DEF S
    <3>1. QED
      BY <1>1, <2>1, Induction
  <2>3. \A i \in 0..Len(b) : Back[i] \in V
    BY <2>2
  <2>4. Back = [i \in 0..Len(b) |-> Back[i]]
    BY <1>5
  <2>5. QED
    BY <2>3, <2>4
<1>8. ASSUME NEW i \in 0..Len(b), NEW count \in 0..k - 1 PROVE Back[i][count] = Val(Back, i, count)
  <2>1. Back[i] = Row(Back, i)
    <3> HIDE DEF Row, Back
    <3>1. QED
      BY <1>5
  <2> HIDE DEF Val, Back
  <2>2. QED
    BY <2>1
<1>9. QED
  <2> HIDE DEF Back
  <2>1. QED
    BY <1>6, <1>7, <1>8

\* What _tail_cut returns: the k-th line end from the end, if there are k.
LEMMA CutCounts ==
  ASSUME NEW b \in Seq(Bytes), NEW k \in Nat \ {0}
  PROVE  /\ TailCut(b, k) \in Int
         /\ TailCut(b, k) < 0 => TailCut(b, k) = -1 /\ Cardinality(Ends(b)) < k
         /\ TailCut(b, k) >= 0 =>
              TailCut(b, k) \in Ends(b) /\ Cardinality(EndsFrom(b, TailCut(b, k))) = k
<1>1. PICK back \in [0..Len(b) -> [0..k - 1 -> Int]] :
           /\ TailCut(b, k) = back[Len(b)][0]
           /\ \A i \in 0..Len(b), count \in 0..k - 1 :
                back[i][count] = IF i = 0 THEN -1
                                 ELSE IF b[i] = "x" THEN back[i - 1][count]
                                 ELSE IF count + 1 = k THEN i ELSE back[Prev(b, i)][count + 1]
  BY CutDefined
<1> DEFINE After(i, r) == {e \in EndsTo(b, i) : r <= e}
           Right(i, count, r) ==
             \/ r = -1 /\ Cardinality(EndsTo(b, i)) < k - count
             \/ r \in EndsTo(b, i) /\ Cardinality(After(i, r)) = k - count
           S == {i \in 0..Len(b) : \A count \in 0..k - 1 : Right(i, count, back[i][count])}
<1>2. Len(b) \in Nat /\ k \in Nat /\ k > 0
  OBVIOUS
<1>3. ASSUME NEW i \in 0..Len(b), \A j \in 0..Len(b) : j < i => j \in S,
             NEW count \in 0..k - 1
      PROVE  Right(i, count, back[i][count])
  <2>1. CASE i = 0
    <3>1. EndsTo(b, 0) = {}
      BY DEF EndsTo
    <3>2. Cardinality(EndsTo(b, i)) = 0
      BY <2>1, <3>1, FS_EmptySet
    <3>3. back[i][count] = -1
      BY <1>1, <2>1
    <3>4. QED
      BY <1>2, <3>2, <3>3
  <2>2. CASE i \in 1..Len(b) /\ b[i] = "x"
    <3>1. i - 1 \in 0..Len(b) /\ i - 1 < i /\ i # 0 /\ EndsTo(b, i) = EndsTo(b, i - 1)
      BY <1>2, <2>2, EndsStep
    <3>2. back[i][count] = back[i - 1][count]
      BY <1>1, <2>2, <3>1
    <3>3. Right(i - 1, count, back[i - 1][count])
      <4> HIDE DEF Right
      <4>1. QED
        BY <1>3, <3>1
    <3>4. QED
      BY <3>1, <3>2, <3>3
  <2>3. CASE i \in 1..Len(b) /\ b[i] # "x"
    <3> DEFINE p == Prev(b, i)
    <3>1. /\ i \in Nat /\ i # 0 /\ p \in Nat /\ p \in 0..Len(b) /\ p < i
          /\ EndsTo(b, i) = EndsTo(b, p) \cup {i}
      BY <1>2, <2>3, EndsStep
    <3> HIDE DEF p
    <3>2. IsFiniteSet(EndsTo(b, p)) /\ EndsTo(b, p) \in SUBSET (1..p)
      BY <3>1, EndsFinite
    <3>3. i \notin EndsTo(b, p)
      BY <3>1, <3>2
    <3>4. CASE count + 1 = k
      <4>1. back[i][count] = i
        BY <1>1, <2>3, <3>1, <3>4
      <4>2. After(i, i) = {i}
        BY <3>1, <3>2
      <4>3. Cardinality(After(i, i)) = k - count
        <5>1. Cardinality({i}) = 1
          BY FS_Singleton
        <5> HIDE DEF After
        <5>2. QED
          BY <1>2, <3>4, <4>2, <5>1
      <4>4. QED
        BY <3>1, <4>1, <4>3
    <3>5. CASE count + 1 # k
      <4> DEFINE r == back[p][count + 1]
      <4>1. count + 1 \in 0..k - 1 /\ back[i][count] = r
        BY <1>1, <1>2, <2>3, <3>1, <3>5 DEF p
      <4>2. Right(p, count + 1, r)
        <5> HIDE DEF Right
        <5>1. QED
          BY <1>3, <3>1, <4>1
      <4> HIDE DEF r
      <4>3. CASE r = -1 /\ Cardinality(EndsTo(b, p)) < k - (count + 1)
        <5>1. Cardinality(EndsTo(b, i)) = Cardinality(EndsTo(b, p)) + 1
          BY <3>1, <3>2, <3>3, FS_AddElement
        <5>2. Cardinality(EndsTo(b, p)) \in Nat
          BY <3>2, FS_CardinalityType
        <5>3. QED
          BY <1>2, <4>1, <4>3, <5>1, <5>2
      <4>4. CASE r \in EndsTo(b, p) /\ Cardinality(After(p, r)) = k - (count + 1)
        <5>1. r \in Nat /\ r <= i
          BY <3>1, <3>2, <4>4
        <5>2. After(i, r) = After(p, r) \cup {i}
          BY <3>1, <5>1
        <5>3. IsFiniteSet(After(p, r)) /\ i \notin After(p, r)
          BY <3>2, <3>3, FS_Subset
        <5>4. Cardinality(After(i, r)) = Cardinality(After(p, r)) + 1
          BY <5>2, <5>3, FS_AddElement
        <5>5. QED
          BY <1>2, <3>1, <4>1, <4>4, <5>4
      <4>5. QED
        BY <4>2, <4>3, <4>4
    <3>6. QED
      BY <3>4, <3>5
  <2>4. i = 0 \/ i \in 1..Len(b)
    BY <1>2
  <2> HIDE DEF Right
  <2>5. QED
    BY <2>1, <2>2, <2>3, <2>4
<1>4. 0..Len(b) \subseteq S
  <2>1. ASSUME NEW i \in 0..Len(b), \A j \in 0..Len(b) : j < i => j \in S PROVE i \in S
    <3> HIDE DEF Right
    <3>1. QED
      BY <1>3, <2>1
  <2> HIDE DEF S
  <2>2. QED
    BY <1>2, <2>1, Induction
<1>5. Right(Len(b), 0, back[Len(b)][0])
  <2> HIDE DEF Right
  <2>1. Len(b) \in 0..Len(b) /\ 0 \in 0..k - 1
    BY <1>2
  <2>2. QED
    BY <1>4, <2>1
<1>6. Ends(b) \in SUBSET (1..Len(b))
  BY <1>2, EndsFinite DEF Ends
<1>7. QED
  BY <1>1, <1>2, <1>5, <1>6 DEF Ends, EndsFrom

-----------------------------------------------------------------------------
(* Log tails: text *)

Chars == {"x", "lf"}

LEMMA ConcatAssociative ==
  ASSUME NEW r \in Seq(Chars), NEW s \in Seq(Chars), NEW t \in Seq(Chars)
  PROVE  r \o (s \o t) = (r \o s) \o t
<1>1. /\ r \o (s \o t) \in Seq(Chars) /\ (r \o s) \o t \in Seq(Chars)
      /\ Len(r \o (s \o t)) = Len(r) + Len(s) + Len(t)
      /\ Len((r \o s) \o t) = Len(r) + Len(s) + Len(t)
  OBVIOUS
<1>2. ASSUME NEW i \in 1..Len(r) + Len(s) + Len(t)
      PROVE  (r \o (s \o t))[i] = ((r \o s) \o t)[i]
  <2>1. CASE i \in 1..Len(r)
    BY <2>1
  <2>2. CASE i \in Len(r) + 1..Len(r) + Len(s)
    BY <2>2
  <2>3. CASE i \in Len(r) + Len(s) + 1..Len(r) + Len(s) + Len(t)
    BY <2>3
  <2>4. QED
    BY <2>1, <2>2, <2>3
<1>3. QED
  BY <1>1, <1>2, SeqEqual

\* The line feeds of a text.
Feeds(t) == {m \in 1..Len(t) : t[m] = "lf"}

\* What byte i of f adds to the text t of the bytes before it.
Read1(f, i, t) ==
  IF f[i] = "x" THEN Append(t, "x")
  ELSE IF f[i] = "cr" /\ i < Len(f) /\ f[i + 1] = "lf" THEN t
  ELSE Append(t, "lf")

\* The text of the first i bytes, for each i.
IsText(f, t) ==
  /\ t \in [0..Len(f) -> Seq(Chars)]
  /\ t[0] = <<>>
  /\ \A i \in 1..Len(f) : t[i] = Read1(f, i, t[i - 1])

LEMMA Read1Type ==
  ASSUME NEW f, NEW i, NEW t \in Seq(Chars)
  PROVE  Read1(f, i, t) \in Seq(Chars)
<1>1. Append(t, "x") \in Seq(Chars) /\ Append(t, "lf") \in Seq(Chars)
  BY DEF Chars
<1>2. QED
  BY <1>1 DEF Read1

LEMMA TextDefined ==
  ASSUME NEW f \in Seq(Bytes)
  PROVE  \E t : IsText(f, t) /\ Text(f) = t[Len(f)]
<1> DEFINE V == Seq(Chars)
           Val(h, i) == IF i = 0 THEN <<>> ELSE Read1(f, i, h[i - 1])
           step == [a \in [0..Len(f) -> V] \X (0..Len(f)) |-> Val(a[1], a[2])]
<1>1. Len(f) \in Nat /\ V # {}
  <2>1. <<>> \in V
    OBVIOUS
  <2> HIDE DEF V
  <2>2. QED
    BY <2>1
<1>2. ASSUME NEW h, NEW i \in 0..Len(f), \A j \in 0..Len(f) : j < i => h[j] \in V
      PROVE  Val(h, i) \in V
  <2>1. CASE i = 0
    BY <2>1
  <2>2. CASE i # 0
    <3>1. h[i - 1] \in Seq(Chars)
      BY <1>1, <1>2, <2>2
    <3>2. QED
      BY <2>2, <3>1, Read1Type
  <2>3. QED
    BY <2>1, <2>2
<1>3. ASSUME NEW i \in 0..Len(f), NEW g, NEW h, \A j \in 0..Len(f) : j < i => g[j] = h[j]
      PROVE  Val(g, i) = Val(h, i)
  <2>1. i # 0 => g[i - 1] = h[i - 1]
    BY <1>1, <1>3
  <2>2. QED
    BY <2>1
<1>4. PICK h \in [0..Len(f) -> V] : h = [i \in 0..Len(f) |-> Val(h, i)]
  <2> HIDE DEF V, Val
  <2>1. step \in [[0..Len(f) -> V] \X (0..Len(f)) -> V]
    BY <1>2
  <2>2. \A i \in 0..Len(f), g \in [0..Len(f) -> V] : step[<<g, i>>] = Val(g, i)
    OBVIOUS
  <2> HIDE DEF step
  <2>3. Causal(Len(f), V, step)
    <3>1. ASSUME NEW i \in 0..Len(f), NEW g \in [0..Len(f) -> V], NEW h \in [0..Len(f) -> V],
                 \A j \in 0..Len(f) : j < i => g[j] = h[j]
          PROVE  step[<<g, i>>] = step[<<h, i>>]
      <4>1. Val(g, i) = Val(h, i)
        BY <1>3, <3>1
      <4>2. QED
        BY <2>2, <4>1
    <3>2. QED
      BY <2>1, <3>1 DEF Causal
  <2>4. PICK h \in [0..Len(f) -> V] : Solves(h, Len(f), step)
    BY <1>1, <2>3, Defined
  <2>5. QED
    BY <2>2, <2>4 DEF Solves
<1> DEFINE T == CHOOSE text : text = [i \in 0..Len(f) |-> Val(text, i)]
<1>5. T = [i \in 0..Len(f) |-> Val(T, i)]
  <2> HIDE DEF Val
  <2>1. QED
    BY <1>4
<1>6. Text(f) = T[Len(f)]
  BY DEF Text, Read1
<1>7. T \in [0..Len(f) -> V]
  <2> DEFINE S == {i \in 0..Len(f) : T[i] \in V}
  <2> HIDE DEF V, Val, T
  <2>1. ASSUME NEW i \in 0..Len(f), \A j \in 0..Len(f) : j < i => j \in S PROVE i \in S
    <3>1. Val(T, i) \in V
      BY <1>2, <2>1
    <3>2. QED
      BY <1>5, <3>1
  <2>2. 0..Len(f) \subseteq S
    <3> HIDE DEF S
    <3>1. QED
      BY <1>1, <2>1, Induction
  <2>3. \A i \in 0..Len(f) : T[i] \in V
    BY <2>2
  <2>4. T = [i \in 0..Len(f) |-> T[i]]
    BY <1>5
  <2>5. QED
    BY <2>3, <2>4
<1>8. \A i \in 0..Len(f) : T[i] = Val(T, i)
  <2> HIDE DEF Val, T
  <2>1. QED
    BY <1>5
<1>9. QED
  <2> HIDE DEF T
  <2>1. T[0] = <<>>
    BY <1>1, <1>8
  <2>2. ASSUME NEW i \in 1..Len(f) PROVE T[i] = Read1(f, i, T[i - 1])
    <3>1. i \in 0..Len(f) /\ i # 0
      BY <1>1
    <3>2. QED
      BY <1>8, <3>1
  <2>3. QED
    BY <1>6, <1>7, <2>1, <2>2 DEF IsText

LEMMA FeedsAppend ==
  ASSUME NEW t \in Seq(Chars)
  PROVE  /\ IsFiniteSet(Feeds(t)) /\ Cardinality(Feeds(t)) \in Nat
         /\ Feeds(Append(t, "x")) = Feeds(t)
         /\ Cardinality(Feeds(Append(t, "lf"))) = Cardinality(Feeds(t)) + 1
<1>1. Len(t) \in Nat /\ IsFiniteSet(1..Len(t)) /\ Feeds(t) \in SUBSET (1..Len(t))
  <2>1. 1 \in Int /\ Len(t) \in Int /\ Len(t) \in Nat
    OBVIOUS
  <2>2. QED
    BY <2>1, FS_Interval DEF Feeds
<1>2. IsFiniteSet(Feeds(t)) /\ Cardinality(Feeds(t)) \in Nat
  <2>1. IsFiniteSet(Feeds(t))
    BY <1>1, FS_Subset
  <2>2. QED
    BY <2>1, FS_CardinalityType
<1>3. ASSUME NEW c \in Chars
      PROVE  /\ Len(Append(t, c)) = Len(t) + 1 /\ Append(t, c)[Len(t) + 1] = c
             /\ \A m \in 1..Len(t) : Append(t, c)[m] = t[m]
  OBVIOUS
<1>4. Feeds(Append(t, "x")) = Feeds(t)
  <2>1. "x" \in Chars
    BY DEF Chars
  <2>2. QED
    BY <1>1, <1>3, <2>1 DEF Feeds
<1>5. Feeds(Append(t, "lf")) = Feeds(t) \cup {Len(t) + 1}
  <2>1. "lf" \in Chars
    BY DEF Chars
  <2>2. QED
    BY <1>1, <1>3, <2>1 DEF Feeds
<1>6. Len(t) + 1 \notin Feeds(t)
  BY <1>1
<1>7. QED
  BY <1>2, <1>4, <1>5, <1>6, FS_AddElement

\* The bytes of the rest of f, from c on.
LEMMA RestOf ==
  ASSUME NEW f \in Seq(Bytes), NEW c \in 0..Len(f)
  PROVE  LET g == SubSeq(f, c + 1, Len(f))
         IN  /\ g \in Seq(Bytes) /\ Len(g) = Len(f) - c
             /\ \A j \in 1..Len(g) : g[j] = f[c + j]
<1> DEFINE g == SubSeq(f, c + 1, Len(f))
<1>1. Len(f) \in Nat /\ c \in Nat /\ c + 1 \in 1..Len(f) + 1
  OBVIOUS
<1>2. g \in Seq(Bytes) /\ Len(g) = Len(f) - c
  BY <1>1
<1>3. \A j \in 1..Len(g) : g[j] = f[c + j]
  BY <1>1
<1>4. QED
  BY <1>2, <1>3

\* A byte of the rest adds to a text what it adds in f.
LEMMA RestReads ==
  ASSUME NEW f \in Seq(Bytes), NEW c \in 0..Len(f),
         NEW j \in 1..Len(SubSeq(f, c + 1, Len(f))), NEW t \in Seq(Chars), NEW u \in Seq(Chars)
  PROVE  LET g == SubSeq(f, c + 1, Len(f))
         IN  Read1(f, c + j, t \o u) = t \o Read1(g, j, u)
<1> DEFINE g == SubSeq(f, c + 1, Len(f))
<1>1. /\ Len(f) \in Nat /\ c \in Nat /\ j \in Nat /\ Len(g) = Len(f) - c
      /\ \A i \in 1..Len(g) : g[i] = f[c + i]
  BY RestOf
<1> HIDE DEF g
<1>2. g[j] = f[c + j]
  BY <1>1 DEF g
<1>3. (j < Len(g) /\ g[j + 1] = "lf") <=> (c + j < Len(f) /\ f[c + j + 1] = "lf")
  <2>1. j < Len(g) <=> c + j < Len(f)
    BY <1>1
  <2>2. j < Len(g) => g[j + 1] = f[c + j + 1]
    <3>1. ASSUME j < Len(g) PROVE g[j + 1] = f[c + (j + 1)]
      BY <1>1, <3>1
    <3>2. c + (j + 1) = c + j + 1
      BY <1>1
    <3>3. QED
      BY <3>1, <3>2
  <2>3. QED
    BY <2>1, <2>2
<1>4. ASSUME NEW ch \in Chars PROVE Append(t \o u, ch) = t \o Append(u, ch)
  <2>1. /\ Append(t \o u, ch) \in Seq(Chars) /\ t \o Append(u, ch) \in Seq(Chars)
        /\ Len(Append(t \o u, ch)) = Len(t) + Len(u) + 1
        /\ Len(t \o Append(u, ch)) = Len(t) + Len(u) + 1
    OBVIOUS
  <2>2. ASSUME NEW i \in 1..Len(t) + Len(u) + 1
        PROVE  Append(t \o u, ch)[i] = (t \o Append(u, ch))[i]
    <3>1. CASE i \in 1..Len(t)
      BY <3>1
    <3>2. CASE i \in Len(t) + 1..Len(t) + Len(u)
      BY <3>2
    <3>3. CASE i = Len(t) + Len(u) + 1
      BY <3>3
    <3>4. QED
      BY <3>1, <3>2, <3>3
  <2>3. QED
    BY <2>1, <2>2, SeqEqual
<1>5. QED
  BY <1>2, <1>3, <1>4 DEF Read1, Chars, g

\* The text of a log is the text up to a byte and that of the rest.
LEMMA TextSplits ==
  ASSUME NEW f \in Seq(Bytes), NEW c \in 0..Len(f), NEW t, IsText(f, t)
  PROVE  /\ t[c] \in Seq(Chars) /\ t[Len(f)] \in Seq(Chars)
         /\ Text(SubSeq(f, c + 1, Len(f))) \in Seq(Chars)
         /\ t[Len(f)] = t[c] \o Text(SubSeq(f, c + 1, Len(f)))
<1> DEFINE g == SubSeq(f, c + 1, Len(f))
<1>1. Len(f) \in Nat /\ c \in Nat /\ g \in Seq(Bytes) /\ Len(g) = Len(f) - c /\ Len(g) \in Nat
  BY RestOf
<1>2. PICK u : IsText(g, u) /\ Text(g) = u[Len(g)]
  <2> HIDE DEF g
  <2>1. QED
    BY <1>1, TextDefined
<1> DEFINE S == {j \in 0..Len(g) : t[c + j] = t[c] \o u[j]}
<1>3. ASSUME NEW j \in 0..Len(g), \A i \in 0..Len(g) : i < j => i \in S PROVE j \in S
  <2>1. t[c] \in Seq(Chars)
    BY <1>1 DEF IsText
  <2>2. CASE j = 0
    <3>1. u[0] = <<>> /\ c + 0 = c
      BY <1>1, <1>2 DEF IsText
    <3>2. t[c] \o <<>> = t[c]
      BY <2>1
    <3>3. QED
      BY <2>2, <3>1, <3>2
  <2>3. CASE j # 0
    <3>1. /\ j \in 1..Len(g) /\ j - 1 \in 0..Len(g) /\ j - 1 < j
          /\ c + j \in 1..Len(f) /\ c + j - 1 = c + (j - 1)
      <4> HIDE DEF g
      <4>1. QED
        BY <1>1, <2>3
    <3>2. t[c + (j - 1)] = t[c] \o u[j - 1] /\ u[j - 1] \in Seq(Chars)
      <4>1. j - 1 \in S
        <5> HIDE DEF S, g
        <5>1. QED
          BY <1>3, <3>1
      <4> HIDE DEF g
      <4>2. QED
        BY <1>2, <3>1, <4>1 DEF IsText
    <3>3. t[c + j] = Read1(f, c + j, t[c] \o u[j - 1]) /\ u[j] = Read1(g, j, u[j - 1])
      <4> HIDE DEF g
      <4>1. t[c + j] = Read1(f, c + j, t[c + j - 1]) /\ u[j] = Read1(g, j, u[j - 1])
        BY <1>2, <3>1 DEF IsText
      <4>2. QED
        BY <3>1, <3>2, <4>1
    <3>4. Read1(f, c + j, t[c] \o u[j - 1]) = t[c] \o Read1(g, j, u[j - 1])
      BY <2>1, <3>1, <3>2, RestReads
    <3>5. QED
      BY <3>3, <3>4
  <2>4. QED
    BY <2>2, <2>3
<1>4. 0..Len(g) \subseteq S
  <2> HIDE DEF S, g
  <2>1. QED
    BY <1>1, <1>3, Induction
<1> HIDE DEF g
<1>5. c + Len(g) = Len(f) /\ Len(g) \in 0..Len(g) /\ Len(f) \in 0..Len(f)
  BY <1>1
<1>6. t[Len(f)] = t[c] \o u[Len(g)]
  BY <1>4, <1>5
<1> HIDE DEF S
<1>7. t[c] \in Seq(Chars) /\ t[Len(f)] \in Seq(Chars)
  BY <1>5 DEF IsText
<1>8. u[Len(g)] \in Seq(Chars)
  BY <1>2, <1>5 DEF IsText
<1>9. QED
  BY <1>2, <1>6, <1>7, <1>8 DEF g

\* Every line end is one line feed of the text: of the rest from c on, those past c.
LEMMA FeedsAreEnds ==
  ASSUME NEW f \in Seq(Bytes), NEW c \in 0..Len(f)
  PROVE  Cardinality(Feeds(Text(SubSeq(f, c + 1, Len(f))))) = Cardinality({e \in Ends(f) : c < e})
<1> DEFINE g == SubSeq(f, c + 1, Len(f))
           past(j) == {e \in Ends(f) : c < e /\ e <= c + j}
<1>1. /\ Len(f) \in Nat /\ c \in Nat /\ g \in Seq(Bytes) /\ Len(g) = Len(f) - c /\ Len(g) \in Nat
      /\ \A j \in 1..Len(g) : g[j] = f[c + j] /\ f[c + j] \in Bytes
  BY RestOf
<1> HIDE DEF g
<1>2. PICK u : IsText(g, u) /\ Text(g) = u[Len(g)]
  BY <1>1, TextDefined
<1> DEFINE S == {j \in 0..Len(g) : Cardinality(Feeds(u[j])) = Cardinality(past(j))}
<1>3. Ends(f) \in SUBSET (1..Len(f)) /\ IsFiniteSet(Ends(f))
  BY <1>1, EndsFinite DEF Ends
<1>4. ASSUME NEW j \in 0..Len(g), \A i \in 0..Len(g) : i < j => i \in S PROVE j \in S
  <2>1. CASE j = 0
    <3>1. past(j) = {}
      BY <1>1, <1>3, <2>1
    <3>2. Feeds(u[j]) = {}
      BY <1>2, <2>1 DEF IsText, Feeds
    <3> HIDE DEF past
    <3>3. QED
      BY <3>1, <3>2
  <2>2. CASE j # 0
    <3> DEFINE e == c + j
    <3>1. /\ j \in 1..Len(g) /\ j - 1 \in 0..Len(g) /\ j - 1 < j /\ e \in 1..Len(f)
          /\ g[j] = f[e] /\ f[e] \in Bytes
      BY <1>1, <2>2
    <3>2. Cardinality(Feeds(u[j - 1])) = Cardinality(past(j - 1))
      <4>1. j - 1 \in S
        <5> HIDE DEF S
        <5>1. QED
          BY <1>4, <3>1
      <4> HIDE DEF past
      <4>2. QED
        BY <4>1
    <3>3. u[j - 1] \in Seq(Chars) /\ u[j] = Read1(g, j, u[j - 1])
      BY <1>2, <3>1 DEF IsText
    <3>4. past(j) = IF e \in Ends(f) THEN past(j - 1) \cup {e} ELSE past(j - 1)
      <4>1. \A d \in 1..Len(f) : (c < d /\ d <= c + j) <=> ((c < d /\ d <= c + (j - 1)) \/ d = e)
        BY <1>1, <3>1
      <4>2. QED
        BY <1>3, <4>1
    <3>5. IsFiniteSet(past(j - 1)) /\ e \notin past(j - 1)
      <4>1. e \notin past(j - 1)
        BY <1>1
      <4>2. QED
        BY <1>3, <4>1, FS_Subset
    <3>6. e \in Ends(f) <=> f[e] = "lf" \/ (f[e] = "cr" /\ ~(e < Len(f) /\ f[e + 1] = "lf"))
      BY <3>1 DEF Ends, EndsTo
    <3>7. (j < Len(g) /\ g[j + 1] = "lf") <=> (e < Len(f) /\ f[e + 1] = "lf")
      <4>1. j < Len(g) <=> e < Len(f)
        BY <1>1
      <4>2. ASSUME j < Len(g) PROVE g[j + 1] = f[e + 1]
        <5>1. j + 1 \in 1..Len(g) /\ c + (j + 1) = e + 1
          BY <1>1, <4>2
        <5>2. g[j + 1] = f[c + (j + 1)]
          BY <1>1, <5>1
        <5>3. QED
          BY <5>1, <5>2
      <4>3. QED
        BY <4>1, <4>2
    <3> HIDE DEF past, e
    <3>8. CASE e \in Ends(f)
      <4>1. u[j] = Append(u[j - 1], "lf")
        BY <3>1, <3>3, <3>6, <3>7, <3>8 DEF Read1
      <4>2. Cardinality(Feeds(u[j])) = Cardinality(Feeds(u[j - 1])) + 1
        BY <3>3, <4>1, FeedsAppend
      <4>3. Cardinality(past(j)) = Cardinality(past(j - 1)) + 1
        BY <3>4, <3>5, <3>8, FS_AddElement
      <4>4. QED
        BY <3>2, <4>2, <4>3
    <3>9. CASE e \notin Ends(f)
      <4>1. u[j] = Append(u[j - 1], "x") \/ u[j] = u[j - 1]
        BY <3>1, <3>3, <3>6, <3>7, <3>9 DEF Read1, Bytes
      <4>2. Feeds(u[j]) = Feeds(u[j - 1])
        BY <3>3, <4>1, FeedsAppend
      <4>3. QED
        BY <3>2, <3>4, <3>9, <4>2
    <3>10. QED
      BY <3>8, <3>9
  <2>3. QED
    BY <2>1, <2>2
<1>5. 0..Len(g) \subseteq S
  <2> HIDE DEF S
  <2>1. QED
    BY <1>1, <1>4, Induction
<1>6. Cardinality(Feeds(Text(g))) = Cardinality(past(Len(g)))
  <2>1. Len(g) \in 0..Len(g)
    BY <1>1
  <2> HIDE DEF past
  <2>2. QED
    BY <1>2, <1>5, <2>1
<1>7. past(Len(g)) = {e \in Ends(f) : c < e}
  BY <1>1, <1>3
<1>8. QED
  BY <1>6, <1>7 DEF g

\* The text up to a line end ends with a line feed.
LEMMA EndFeeds ==
  ASSUME NEW f \in Seq(Bytes), NEW t, IsText(f, t), NEW c \in Ends(f)
  PROVE  /\ c \in 1..Len(f) /\ t[c] \in Seq(Chars)
         /\ Len(t[c]) > 0 /\ t[c][Len(t[c])] = "lf"
<1>1. /\ c \in 1..Len(f) /\ c - 1 \in 0..Len(f) /\ c \in 0..Len(f)
      /\ f[c] = "lf" \/ (f[c] = "cr" /\ ~(c < Len(f) /\ f[c + 1] = "lf"))
  BY DEF Ends, EndsTo
<1>2. t[c - 1] \in Seq(Chars) /\ t[c] \in Seq(Chars) /\ t[c] = Append(t[c - 1], "lf")
  BY <1>1 DEF IsText, Read1
<1>3. QED
  BY <1>1, <1>2

-----------------------------------------------------------------------------
(* Log tails: the last lines of a text *)

\* The line feeds that more than k lines of t begin after.
Before(t, k) == {i \in Feeds(t) : Cardinality({m \in Feeds(t) : i <= m}) >= k}

LEMMA LastLinesFrom ==
  ASSUME NEW t \in Seq(Chars), NEW k \in Nat, NEW d \in {0} \cup Before(t, k),
         \A i \in Before(t, k) : i <= d
  PROVE  LastLines(t, k) = SubSeq(t, d + 1, Len(t))
<1>1. Len(t) \in Nat /\ Feeds(t) \in SUBSET (1..Len(t)) /\ Before(t, k) \in SUBSET (1..Len(t))
  BY DEF Feeds, Before
<1>2. Max({0} \cup Before(t, k)) = d
  <2>1. \A y \in {0} \cup Before(t, k) : d >= y /\ y \in Int
    BY <1>1
  <2>2. \A x \in {0} \cup Before(t, k) :
          (\A y \in {0} \cup Before(t, k) : x >= y) => x = d
    BY <1>1, <2>1
  <2>3. QED
    BY <2>1, <2>2 DEF Max
<1>3. QED
  BY <1>2 DEF LastLines, Before, Feeds

\* A text of at most k lines is its last k lines.
LEMMA FewLines ==
  ASSUME NEW t \in Seq(Chars), NEW k \in Nat, Cardinality(Feeds(t)) < k
  PROVE  LastLines(t, k) = t
<1>1. Before(t, k) = {}
  <2>1. ASSUME NEW i \in Before(t, k) PROVE FALSE
    <3>1. /\ Cardinality({m \in Feeds(t) : i <= m}) <= Cardinality(Feeds(t))
          /\ IsFiniteSet({m \in Feeds(t) : i <= m})
      BY FeedsAppend, FS_Subset
    <3>2. Cardinality({m \in Feeds(t) : i <= m}) \in Nat /\ Cardinality(Feeds(t)) \in Nat
      BY <3>1, FeedsAppend, FS_CardinalityType
    <3>3. Cardinality({m \in Feeds(t) : i <= m}) >= k
      BY <2>1 DEF Before
    <3> HIDE DEF Before
    <3>4. QED
      BY <3>1, <3>2, <3>3
  <2>2. QED
    BY <2>1
<1>2. LastLines(t, k) = SubSeq(t, 0 + 1, Len(t))
  BY <1>1, LastLinesFrom
<1>3. SubSeq(t, 0 + 1, Len(t)) = t
  <2>1. Len(t) \in Nat /\ SubSeq(t, 1, Len(t)) \in Seq(Chars) /\ Len(SubSeq(t, 1, Len(t))) = Len(t)
    OBVIOUS
  <2>2. \A i \in 1..Len(t) : SubSeq(t, 1, Len(t))[i] = t[i]
    BY <2>1
  <2>3. QED
    BY <2>1, <2>2, SeqEqual
<1>4. QED
  BY <1>2, <1>3

\* A text whose line feeds are those of s and of t.
LEMMA FeedsOfBoth ==
  ASSUME NEW s \in Seq(Chars), NEW t \in Seq(Chars)
  PROVE  /\ \A m \in Nat : Len(s) < m => (m \in Feeds(s \o t) <=> m - Len(s) \in Feeds(t))
         /\ \A m \in Nat : m <= Len(s) => (m \in Feeds(s \o t) <=> m \in Feeds(s))
         /\ Cardinality({m \in Feeds(s \o t) : Len(s) < m}) = Cardinality(Feeds(t))
<1>1. /\ Len(s) \in Nat /\ Len(t) \in Nat /\ Len(s \o t) = Len(s) + Len(t)
      /\ \A i \in 1..Len(s) : (s \o t)[i] = s[i]
      /\ \A i \in 1..Len(t) : (s \o t)[Len(s) + i] = t[i]
  OBVIOUS
<1>2. ASSUME NEW m \in Nat, Len(s) < m
      PROVE  m \in Feeds(s \o t) <=> m - Len(s) \in Feeds(t)
  <2>1. m - Len(s) \in Nat /\ Len(s) + (m - Len(s)) = m
    BY <1>1, <1>2
  <2>2. m - Len(s) \in 1..Len(t) <=> m \in 1..Len(s \o t)
    BY <1>1, <1>2
  <2>3. m - Len(s) \in 1..Len(t) => (s \o t)[m] = t[m - Len(s)]
    BY <1>1, <2>1
  <2>4. QED
    BY <2>2, <2>3 DEF Feeds
<1>3. ASSUME NEW m \in Nat, m <= Len(s)
      PROVE  m \in Feeds(s \o t) <=> m \in Feeds(s)
  <2>1. m \in 1..Len(s) <=> m \in 1..Len(s \o t)
    BY <1>1, <1>3
  <2>2. m \in 1..Len(s) => (s \o t)[m] = s[m]
    BY <1>1
  <2>3. QED
    BY <2>1, <2>2 DEF Feeds
<1> DEFINE R == {m \in Feeds(s \o t) : Len(s) < m}
           shift == [i \in Feeds(t) |-> Len(s) + i]
<1>4. shift \in Bijection(Feeds(t), R)
  <2>1. Feeds(t) \subseteq Nat \ {0} /\ R \subseteq Nat
    BY <1>1 DEF Feeds
  <2>2. ASSUME NEW i \in Feeds(t) PROVE Len(s) + i \in R
    <3>1. PICK m \in Nat : m = Len(s) + i
      BY <1>1, <2>1
    <3>2. Len(s) < m /\ m - Len(s) = i
      BY <1>1, <2>1, <3>1
    <3>3. m \in Feeds(s \o t)
      <4> HIDE DEF R, shift
      <4>1. QED
        BY <1>2, <3>2
    <3>4. QED
      BY <3>1, <3>2, <3>3
  <2>3. ASSUME NEW m \in R PROVE m - Len(s) \in Feeds(t) /\ Len(s) + (m - Len(s)) = m
    BY <1>1, <1>2, <2>1
  <2> HIDE DEF R
  <2>4. \A i, j \in Feeds(t) : Len(s) + i = Len(s) + j => i = j
    BY <1>1, <2>1
  <2>5. QED
    <3>1. shift \in [Feeds(t) -> R]
      BY <2>2
    <3>2. \A i \in Feeds(t) : shift[i] = Len(s) + i
      OBVIOUS
    <3> HIDE DEF shift
    <3>3. shift \in Injection(Feeds(t), R)
      BY <2>4, <3>1, <3>2 DEF Injection, IsInjective
    <3>4. shift \in Surjection(Feeds(t), R)
      <4>1. \A m \in R : \E i \in Feeds(t) : shift[i] = m
        BY <2>3, <3>2
      <4>2. QED
        BY <3>1, <4>1 DEF Surjection
    <3>5. QED
      BY <3>3, <3>4 DEF Bijection
<1>5. Cardinality(R) = Cardinality(Feeds(t))
  <2> HIDE DEF R, shift
  <2>1. ExistsBijection(Feeds(t), R)
    BY <1>4 DEF ExistsBijection
  <2>2. QED
    BY <2>1, FeedsAppend, FS_Bijection
<1>6. QED
  BY <1>2, <1>3, <1>5

\* After a line feed, a text of k lines is the last k lines.
LEMMA LinesAfterFeed ==
  ASSUME NEW s \in Seq(Chars), NEW t \in Seq(Chars), NEW k \in Nat \ {0},
         Len(s) > 0, s[Len(s)] = "lf", Cardinality(Feeds(t)) = k - 1
  PROVE  LastLines(s \o t, k) = t
<1> DEFINE st == s \o t
           from(i) == {m \in Feeds(st) : i <= m}
           past == {m \in Feeds(st) : Len(s) < m}
<1>1. /\ Len(s) \in Nat /\ Len(t) \in Nat /\ st \in Seq(Chars) /\ Len(st) = Len(s) + Len(t)
      /\ Feeds(st) \subseteq Nat
  BY DEF Feeds
<1>2. Len(s) \in Feeds(st)
  <2>1. Len(s) \in Feeds(s)
    BY DEF Feeds
  <2>2. Len(s) <= Len(s)
    BY <1>1
  <2>3. QED
    BY <1>1, <2>1, <2>2, FeedsOfBoth
<1>3. Cardinality(past) = k - 1
  BY FeedsOfBoth
<1> HIDE DEF st
<1>4. IsFiniteSet(past) /\ IsFiniteSet(Feeds(st))
  BY <1>1, FeedsAppend, FS_Subset
<1>5. Len(s) \in Before(st, k)
  <2>1. from(Len(s)) = past \cup {Len(s)} /\ Len(s) \notin past
    BY <1>1, <1>2
  <2>2. Cardinality(from(Len(s))) = k
    <3> HIDE DEF from, past
    <3>1. QED
      <4>1. Cardinality(past \cup {Len(s)}) = Cardinality(past) + 1
        BY <1>4, <2>1, FS_AddElement
      <4>2. QED
        BY <1>3, <2>1, <4>1
  <2>3. QED
    BY <1>2, <2>2 DEF Before
<1>6. ASSUME NEW i \in Before(st, k) PROVE i <= Len(s)
  <2>1. i \in Nat /\ Cardinality(from(i)) >= k
    BY <1>1 DEF Before
  <2>2. SUFFICES ASSUME Len(s) < i PROVE FALSE
    BY <1>1, <2>1
  <2>3. from(i) \in SUBSET past
    BY <1>1, <2>1, <2>2
  <2> HIDE DEF from, past
  <2>4. Cardinality(from(i)) <= Cardinality(past) /\ IsFiniteSet(from(i))
    BY <1>4, <2>3, FS_Subset
  <2>5. Cardinality(from(i)) \in Nat
    BY <2>4, FS_CardinalityType
  <2>6. QED
    BY <1>3, <2>1, <2>4, <2>5
<1>7. LastLines(st, k) = SubSeq(st, Len(s) + 1, Len(st))
  BY <1>1, <1>5, <1>6, LastLinesFrom
<1>8. SubSeq(st, Len(s) + 1, Len(st)) = t
  <2>1. /\ SubSeq(st, Len(s) + 1, Len(st)) \in Seq(Chars)
        /\ Len(SubSeq(st, Len(s) + 1, Len(st))) = Len(t)
        /\ \A i \in 1..Len(t) : SubSeq(st, Len(s) + 1, Len(st))[i] = st[Len(s) + i]
    BY <1>1
  <2>2. \A i \in 1..Len(t) : st[Len(s) + i] = t[i]
    BY DEF st
  <2>3. QED
    BY <2>1, <2>2, SeqEqual
<1>9. QED
  BY <1>7, <1>8 DEF st

-----------------------------------------------------------------------------
(* Log tails: the reader *)

\* What has been read is the end of the log as it was when its size was asked.
Suffix ==
  /\ log \in Seq(Bytes) /\ n \in Nat
  /\ size \in 0..Len(log) /\ pos \in 0..size
  /\ pc = "open" => size = 0
  /\ buf = SubSeq(log, pos + 1, size)

\* The lines were counted in all that was read, and either enough were found or
\* there is no more to read.
Counted ==
  /\ IF n = 0 THEN size = 0 /\ cut = -1 ELSE cut = TailCut(buf, n)
  /\ pc = "read" => pos > 0
  /\ pc = "done" => pos = 0 \/ cut >= 0

TailIInv == Suffix /\ Counted

\* What was read stays where it is, whatever is appended.
LEMMA SuffixOfLonger ==
  ASSUME NEW f \in Seq(Bytes), NEW b \in Bytes, NEW i \in 0..Len(f), NEW j \in 0..i
  PROVE  SubSeq(Append(f, b), j + 1, i) = SubSeq(f, j + 1, i)
<1>1. /\ SubSeq(Append(f, b), j + 1, i) \in Seq(Bytes) /\ SubSeq(f, j + 1, i) \in Seq(Bytes)
      /\ Len(SubSeq(Append(f, b), j + 1, i)) = i - j /\ Len(SubSeq(f, j + 1, i)) = i - j
  OBVIOUS
<1>2. \A e \in 1..i - j : SubSeq(Append(f, b), j + 1, i)[e] = SubSeq(f, j + 1, i)[e]
  OBVIOUS
<1>3. QED
  BY <1>1, <1>2, SeqEqual

\* A block before what was read extends it.
LEMMA BlockBefore ==
  ASSUME NEW f \in Seq(Bytes), NEW i \in 0..Len(f), NEW j \in 0..i, NEW h \in 0..j
  PROVE  SubSeq(f, h + 1, j) \o SubSeq(f, j + 1, i) = SubSeq(f, h + 1, i)
<1> DEFINE u == SubSeq(f, h + 1, j)
           w == SubSeq(f, j + 1, i)
           s == SubSeq(f, h + 1, i)
<1>1. /\ u \in Seq(Bytes) /\ w \in Seq(Bytes) /\ s \in Seq(Bytes)
      /\ Len(u) = j - h /\ Len(w) = i - j /\ Len(s) = i - h
      /\ \A e \in 1..j - h : u[e] = f[h + e]
      /\ \A e \in 1..i - j : w[e] = f[j + e]
      /\ \A e \in 1..i - h : s[e] = f[h + e]
  OBVIOUS
<1> HIDE DEF u, w, s
<1>2. u \o w \in Seq(Bytes) /\ Len(u \o w) = Len(s)
  <2>1. \A x, y \in Seq(Bytes) : x \o y \in Seq(Bytes) /\ Len(x \o y) = Len(x) + Len(y)
    OBVIOUS
  <2>2. (j - h) + (i - j) = i - h
    OBVIOUS
  <2>3. QED
    BY <1>1, <2>1, <2>2
<1>3. ASSUME NEW e \in 1..Len(s) PROVE (u \o w)[e] = s[e]
  <2>1. CASE e \in 1..j - h
    BY <1>1, <2>1
  <2>2. CASE e \in j - h + 1..i - h
    <3>1. e - (j - h) \in 1..i - j /\ j + (e - (j - h)) = h + e /\ e \in 1..i - h
      BY <2>2
    <3>2. (u \o w)[e] = w[e - (j - h)]
      <4>1. \A x, y \in Seq(Bytes) : \A d \in Len(x) + 1..Len(x) + Len(y) :
              (x \o y)[d] = y[d - Len(x)]
        OBVIOUS
      <4>2. e \in Len(u) + 1..Len(u) + Len(w)
        BY <1>1, <2>2
      <4>3. QED
        BY <1>1, <4>1, <4>2, SMTT(30)
    <3>3. w[e - (j - h)] = f[h + e] /\ s[e] = f[h + e]
      BY <1>1, <3>1
    <3>4. QED
      BY <3>2, <3>3
  <2>3. QED
    BY <1>1, <2>1, <2>2
<1>4. QED
  BY <1>1, <1>2, <1>3, SeqEqual DEF u, w, s

LEMMA NothingCut == ASSUME NEW k \in Nat \ {0} PROVE TailCut(<<>>, k) = -1
<1>1. <<>> \in Seq(Bytes) /\ Ends(<<>>) = {}
  BY DEF Ends, EndsTo
<1>2. TailCut(<<>>, k) \in Int /\ ~(TailCut(<<>>, k) >= 0)
  BY <1>1, CutCounts
<1>3. TailCut(<<>>, k) < 0
  BY <1>2
<1>4. QED
  BY <1>1, <1>3, CutCounts

LEMMA TailInductive == ASSUME TailIInv, [TailNext]_tailVars PROVE TailIInv'
<1> USE LogTailAssumption DEF Suffix
<1>1. ASSUME Open PROVE TailIInv'
  <2>1. size' \in 0..Len(log) /\ pos' = size' /\ pos' \in 0..size' /\ Len(log) \in Nat
    BY <1>1 DEF TailIInv, Open
  <2>2. SubSeq(log, pos' + 1, size') = <<>> /\ buf = <<>>
    <3>1. SubSeq(log, size + 1, size) = <<>> /\ pos = size
      BY <1>1 DEF TailIInv, Open
    <3>2. QED
      BY <1>1, <2>1, <3>1 DEF TailIInv, Open
  <2>3. Suffix'
    BY <1>1, <2>1, <2>2 DEF TailIInv, Open
  <2>4. n = 0 => size' = 0
    BY <1>1 DEF TailIInv, Open
  <2>5. Counted'
    BY <1>1, <2>4 DEF TailIInv, Open, Counted
  <2>6. QED
    BY <2>3, <2>5 DEF TailIInv
<1>2. ASSUME Read PROVE TailIInv'
  <2>1. pos \in Nat /\ pos > 0 /\ Step \in 1..pos /\ pos - Step \in 0..pos /\ n # 0
    BY <1>2 DEF TailIInv, Read, Counted, Step
  <2>2. buf' = SubSeq(log, pos - Step + 1, size)
    <3>1. SubSeq(log, pos - Step + 1, pos) \o SubSeq(log, pos + 1, size)
            = SubSeq(log, pos - Step + 1, size)
      BY <2>1, BlockBefore DEF TailIInv
    <3>2. QED
      BY <1>2, <3>1 DEF TailIInv, Read
  <2>3. Suffix'
    BY <1>2, <2>1, <2>2 DEF TailIInv, Read
  <2>4. Counted'
    BY <1>2, <2>1 DEF TailIInv, Read, Counted
  <2>5. QED
    BY <2>3, <2>4 DEF TailIInv
<1>3. ASSUME Scan PROVE TailIInv'
  <2>1. Suffix'
    BY <1>3 DEF TailIInv, Scan
  <2>2. cut \in Int
    <3>1. CASE n = 0
      BY <3>1 DEF TailIInv, Counted
    <3>2. CASE n # 0
      <4>1. buf \in Seq(Bytes) /\ n \in Nat \ {0} /\ cut = TailCut(buf, n)
        BY <3>2 DEF TailIInv, Counted
      <4>2. QED
        BY <4>1, CutCounts
    <3>3. QED
      BY <3>1, <3>2
  <2>3. Counted'
    BY <1>3, <2>2 DEF TailIInv, Scan, Counted
  <2>4. QED
    BY <2>1, <2>3 DEF TailIInv
<1>4. ASSUME Write PROVE TailIInv'
  <2>1. PICK b \in Bytes : log' = Append(log, b)
    BY <1>4 DEF Write
  <2>2. log' \in Seq(Bytes) /\ Len(log') = Len(log) + 1 /\ Len(log) \in Nat
    BY <2>1 DEF TailIInv
  <2>3. SubSeq(log', pos + 1, size) = SubSeq(log, pos + 1, size)
    BY <2>1, SuffixOfLonger DEF TailIInv
  <2>4. Suffix'
    BY <1>4, <2>2, <2>3 DEF TailIInv, Write
  <2>5. Counted'
    BY <1>4 DEF TailIInv, Write, Counted
  <2>6. QED
    BY <2>4, <2>5 DEF TailIInv
<1>5. ASSUME Done \/ UNCHANGED tailVars PROVE TailIInv'
  BY <1>5 DEF TailIInv, Done, Counted, tailVars
<1>6. QED
  BY <1>1, <1>2, <1>3, <1>4, <1>5 DEF TailNext

LEMMA TailInvariance == TailSpec => []TailIInv
<1>1. ASSUME TailInit PROVE TailIInv
  <2>1. log \in Seq(Bytes) /\ n \in Nat
    <3>1. log \in Seq(Bytes)
      BY <1>1 DEF TailInit, BoundedSeq, SeqOf
    <3>2. QED
      BY <1>1, <3>1, LogTailAssumption DEF TailInit
  <2>2. SubSeq(log, 1, 0) = <<>> /\ Len(log) \in Nat
    BY <2>1
  <2>3. n # 0 => TailCut(<<>>, n) = -1
    BY <2>1, NothingCut
  <2>4. QED
    BY <1>1, <2>1, <2>2, <2>3 DEF TailInit, TailIInv, Suffix, Counted
<1>2. QED
  BY <1>1, TailInductive, PTL DEF TailSpec

-----------------------------------------------------------------------------
LEMMA Whole == ASSUME NEW f \in Seq(Bytes) PROVE SubSeq(f, 1, Len(f)) = f
<1>1. /\ SubSeq(f, 1, Len(f)) \in Seq(Bytes) /\ Len(SubSeq(f, 1, Len(f))) = Len(f)
      /\ \A i \in 1..Len(f) : SubSeq(f, 1, Len(f))[i] = f[i]
  OBVIOUS
<1>2. QED
  BY <1>1, SeqEqual

\* The last lines of a log, from any of its suffixes whose cut is at the k-th
\* line end from the end.
LEMMA TailOfSuffix ==
  ASSUME NEW f \in Seq(Bytes), NEW p \in 0..Len(f), NEW k \in Nat \ {0},
         TailCut(SubSeq(f, p + 1, Len(f)), k) >= 0
  PROVE  LET b == SubSeq(f, p + 1, Len(f))
         IN  Text(SubSeq(b, TailCut(b, k) + 1, Len(b))) = LastLines(Text(f), k)
<1> DEFINE b == SubSeq(f, p + 1, Len(f))
           c == TailCut(b, k)
           g == SubSeq(b, c + 1, Len(b))
<1>1. b \in Seq(Bytes) /\ Len(b) \in Nat
  BY RestOf
<1> HIDE DEF b
<1>2. c \in Ends(b) /\ Cardinality(EndsFrom(b, c)) = k
  BY <1>1, CutCounts DEF b
<1> HIDE DEF c
<1>3. c \in 0..Len(b) /\ Ends(b) \in SUBSET (1..Len(b)) /\ IsFiniteSet(Ends(b))
  BY <1>1, <1>2, EndsFinite DEF Ends
<1>4. Cardinality(Feeds(Text(g))) = k - 1
  <2> DEFINE past == {e \in Ends(b) : c < e}
  <2>1. EndsFrom(b, c) = past \cup {c} /\ c \notin past
    BY <1>2, <1>3 DEF EndsFrom
  <2>2. IsFiniteSet(past)
    BY <1>3, FS_Subset
  <2>3. Cardinality(Feeds(Text(g))) = Cardinality(past)
    BY <1>1, <1>3, FeedsAreEnds
  <2> HIDE DEF past, g
  <2>4. Cardinality(past \cup {c}) = Cardinality(past) + 1
    BY <2>1, <2>2, FS_AddElement
  <2>5. Cardinality(past) \in Nat
    BY <2>2, FS_CardinalityType
  <2>6. QED
    BY <1>2, <2>1, <2>3, <2>4, <2>5
<1>5. PICK t : IsText(f, t) /\ Text(f) = t[Len(f)]
  BY TextDefined
<1>6. t[p] \in Seq(Chars) /\ Text(f) = t[p] \o Text(b)
  BY <1>5, TextSplits DEF b
<1>7. PICK u : IsText(b, u) /\ Text(b) = u[Len(b)]
  BY <1>1, TextDefined
<1>8. u[c] \in Seq(Chars) /\ Text(g) \in Seq(Chars) /\ Text(b) = u[c] \o Text(g)
  BY <1>1, <1>3, <1>7, TextSplits
<1>9. Len(u[c]) > 0 /\ u[c][Len(u[c])] = "lf"
  BY <1>1, <1>2, <1>7, EndFeeds
<1> HIDE DEF g
<1>10. Text(f) = (t[p] \o u[c]) \o Text(g)
  <2> DEFINE x == t[p]
             y == u[c]
             z == Text(g)
  <2>1. x \in Seq(Chars) /\ y \in Seq(Chars) /\ z \in Seq(Chars)
    BY <1>6, <1>8
  <2>2. Text(f) = x \o (y \o z)
    BY <1>6, <1>8
  <2>3. x = t[p] /\ y = u[c] /\ z = Text(g)
    OBVIOUS
  <2> HIDE DEF x, y, z
  <2>4. x \o (y \o z) = (x \o y) \o z
    BY <2>1, ConcatAssociative, SMTT(30)
  <2>5. QED
    BY <2>2, <2>3, <2>4
<1>11. /\ t[p] \o u[c] \in Seq(Chars) /\ Len(t[p] \o u[c]) > 0
       /\ (t[p] \o u[c])[Len(t[p] \o u[c])] = "lf"
  <2>1. \A r, s \in Seq(Chars) : Len(s) > 0 =>
          /\ r \o s \in Seq(Chars) /\ Len(r \o s) > 0
          /\ (r \o s)[Len(r \o s)] = s[Len(s)]
    OBVIOUS
  <2>2. QED
    BY <1>6, <1>8, <1>9, <2>1
<1>12. LastLines(Text(f), k) = Text(g)
  BY <1>4, <1>8, <1>10, <1>11, LinesAfterFeed
<1>13. QED
  BY <1>12 DEF b, c, g

\* However the blocks cut the lines and their CRLFs, for any block size, any
\* number of lines, and a log of any length that is appended to meanwhile, tail
\* returns the last lines of the log it opened.
THEOREM TailIsCorrect == TailSpec => []TailIsLastLines
<1>1. ASSUME TailIInv, pc = "done"
      PROVE  Text(SubSeq(buf, Max({0, cut}) + 1, Len(buf))) =
               IF n = 0 THEN <<>> ELSE LastLines(Text(SubSeq(log, 1, size)), n)
  <2> DEFINE f == SubSeq(log, 1, size)
  <2>1. f \in Seq(Bytes) /\ Len(f) = size /\ size \in Nat /\ pos \in 0..Len(f) /\ n \in Nat
    BY <1>1 DEF TailIInv, Suffix
  <2>2. buf = SubSeq(f, pos + 1, Len(f)) /\ buf \in Seq(Bytes)
    <3>1. SubSeq(f, pos + 1, size) = SubSeq(log, pos + 1, size)
      <4>1. /\ SubSeq(f, pos + 1, size) \in Seq(Bytes) /\ SubSeq(log, pos + 1, size) \in Seq(Bytes)
            /\ Len(SubSeq(f, pos + 1, size)) = size - pos
            /\ Len(SubSeq(log, pos + 1, size)) = size - pos
            /\ \A e \in 1..size - pos : SubSeq(f, pos + 1, size)[e] = SubSeq(log, pos + 1, size)[e]
        BY <1>1, <2>1 DEF TailIInv, Suffix
      <4>2. QED
        BY <4>1, SeqEqual
    <3>2. QED
      BY <1>1, <2>1, <3>1 DEF TailIInv, Suffix
  <2> HIDE DEF f
  <2>3. CASE n = 0
    <3>1. cut = -1 /\ size = 0 /\ buf = <<>>
      BY <1>1, <2>1, <2>2, <2>3 DEF TailIInv, Counted
    <3>2. Max({0, cut}) = 0
      BY <3>1 DEF Max
    <3>3. SubSeq(buf, 0 + 1, Len(buf)) = <<>>
      BY <3>1
    <3>4. PICK t : IsText(<<>>, t) /\ Text(<<>>) = t[0]
      <4>1. <<>> \in Seq(Bytes) /\ Len(<<>>) = 0
        OBVIOUS
      <4>2. QED
        BY <4>1, TextDefined
    <3>5. QED
      BY <2>3, <3>2, <3>3, <3>4 DEF IsText
  <2>4. CASE n # 0 /\ cut < 0
    <3>1. pos = 0 /\ buf = f
      <4>1. cut = TailCut(buf, n) /\ n \in Nat \ {0}
        BY <1>1, <2>1, <2>4 DEF TailIInv, Counted
      <4>2. cut \in Int
        BY <2>2, <4>1, CutCounts
      <4>3. pos = 0
        BY <1>1, <2>4, <4>2 DEF TailIInv, Counted
      <4>4. QED
        BY <2>1, <2>2, <4>3, Whole
    <3>2. cut = -1 /\ Cardinality(Ends(f)) < n
      <4>1. cut = TailCut(f, n) /\ n \in Nat \ {0}
        BY <1>1, <2>1, <2>4, <3>1 DEF TailIInv, Counted
      <4>2. QED
        BY <2>1, <2>4, <4>1, CutCounts
    <3>3. Max({0, cut}) = 0
      BY <3>2 DEF Max
    <3>4. Cardinality(Feeds(Text(f))) < n
      <4>1. {e \in Ends(f) : 0 < e} = Ends(f)
        BY <2>1 DEF Ends, EndsTo
      <4>2. Cardinality(Feeds(Text(SubSeq(f, 0 + 1, Len(f))))) = Cardinality({e \in Ends(f) : 0 < e})
        <5>1. 0 \in 0..Len(f)
          BY <2>1
        <5>2. QED
          BY <2>1, <5>1, FeedsAreEnds
      <4>3. SubSeq(f, 0 + 1, Len(f)) = f
        BY <2>1, Whole
      <4>4. QED
        BY <3>2, <4>1, <4>2, <4>3
    <3>5. Text(f) \in Seq(Chars)
      <4>1. PICK t : IsText(f, t) /\ Text(f) = t[Len(f)]
        BY <2>1, TextDefined
      <4>2. Len(f) \in 0..Len(f)
        BY <2>1
      <4>3. QED
        BY <4>1, <4>2 DEF IsText
    <3>6. LastLines(Text(f), n) = Text(f)
      BY <2>1, <3>4, <3>5, FewLines
    <3>7. SubSeq(buf, 0 + 1, Len(buf)) = f
      BY <2>1, <3>1, Whole
    <3>8. QED
      BY <2>4, <3>3, <3>6, <3>7 DEF f
  <2>5. CASE n # 0 /\ ~(cut < 0)
    <3>1. n \in Nat \ {0} /\ cut = TailCut(buf, n) /\ cut \in Int
      <4>1. n \in Nat \ {0} /\ cut = TailCut(buf, n)
        BY <1>1, <2>1, <2>5 DEF TailIInv, Counted
      <4>2. QED
        BY <2>2, <4>1, CutCounts
    <3>2. cut >= 0 /\ Max({0, cut}) = cut
      BY <2>5, <3>1 DEF Max
    <3>3. Text(SubSeq(buf, cut + 1, Len(buf))) = LastLines(Text(f), n)
      BY <2>1, <2>2, <3>1, <3>2, TailOfSuffix
    <3>4. QED
      BY <2>5, <3>2, <3>3 DEF f
  <2>6. QED
    BY <2>3, <2>4, <2>5
<1>2. TailIInv => TailIsLastLines
  BY <1>1 DEF TailIsLastLines
<1>3. QED
  BY <1>2, TailInvariance, PTL
=============================================================================
