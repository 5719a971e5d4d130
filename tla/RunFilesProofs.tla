--------------------------- MODULE RunFilesProofs ----------------------------
(***************************************************************************)
(* What holds of a remote run's files for any number of inputs, steps and  *)
(* crashes.  The mirror is a prefix of the log under all faults.  The      *)
(* training gets whole inputs if a copy never spoils a whole file.  A      *)
(* claimed adapter is whole if a resumed supervisor sees what the box is   *)
(* doing; the curve is that of the last launch if, besides, no reboot cuts *)
(* a line.                                                                 *)
(***************************************************************************)
EXTENDS RunFiles, SequenceTheorems, TLAPS

Weigh(b) == IF b THEN 1 ELSE 0

\* Only a crash brings the supervisor back to where it starts a bootstrap or a
\* training.
Numbered ==
  /\ launches + Weigh(pc \in {"dead", "provision", "upload", "bootstrap", "launch"}) <= crashes + 1
  /\ bootstraps + Weigh(pc \in {"dead", "provision", "upload"}) <= crashes + 1
  /\ trainer # "none" => launches > 0

\* A box is set up, or about to be, on whole inputs.
Arrived ==
  /\ bootstraps > 0 \/ provisioned \/ pc \in {"bootstrap", "launch"} =>
       \A i \in 1..Uploads : uploaded[i] = "whole"
  /\ pc = "upload" => \A i \in 1..todo - 1 : uploaded[i] = "whole"

EndedWell == runlog # <<>> /\ Last(runlog) = "zero"

\* Nobody is about to launch the training while it runs or when it has ended.
Once ==
  /\ pc \in {"provision", "upload", "bootstrap", "launch"} => trainer = "none" /\ runlog = <<>>
  /\ runlog # <<>> => trainer = "none"
  /\ EndedWell \/ trainer \in {"saved", "zero"} => adapter = [launch |-> launches, whole |-> TRUE]
  /\ code = "zero" => EndedWell /\ pc \notin {"monitor", "code"}

\* What a pull of a run that ended well has brought is the adapter.
Brought ==
  code = "zero" =>
    /\ pc = "repull" /\ got.adapter => local = adapter
    /\ pc \in {"end", "over"} /\ claimed => local = adapter

\* The training writes lines, or has written all of them; how many "done".
Fresh == trainer \in {"train", "save", "saved", "zero"} \/ EndedWell
SaidDone == IF trainer = "zero" \/ EndedWell THEN 1 ELSE 0

\* The log is n whole lines...
Shaped(n) ==
  /\ Len(log) = 2 * n
  /\ \A k \in 1..n : /\ log[2 * k - 1].half = 1 /\ log[2 * k].half = 2
                     /\ log[2 * k - 1].launch = log[2 * k].launch
                     /\ log[2 * k - 1].step = log[2 * k].step

\* ...of which the last are the steps of the last launch, in order.
Latest(n) ==
  Fresh =>
    /\ n >= step + SaidDone
    /\ \A k \in 1..step : /\ log[2 * (n - SaidDone - step + k)].launch = launches
                          /\ log[2 * (n - SaidDone - step + k)].step = k
    /\ SaidDone = 1 => log[2 * n].step = DoneEvent

\* A launch starts at step 0 and saves after its last step.
Timely ==
  /\ trainer = "load" => step = 0
  /\ trainer \in {"save", "saved", "zero"} \/ EndedWell => step = Steps

Logged == \E n \in Nat : Shaped(n) /\ Latest(n)

-----------------------------------------------------------------------------
(* Logs *)

\* A log is a prefix of another if it agrees with it as far as it goes.
LEMMA PrefixAgrees ==
  ASSUME NEW S, NEW s \in Seq(S), NEW t \in Seq(S)
  PROVE  IsPrefix(s, t) <=> Len(s) <= Len(t) /\ \A i \in 1..Len(s) : s[i] = t[i]
<1>1. Len(s) \in Nat /\ Len(t) \in Nat /\ SubSeq(s, 1, Len(s)) = s
  BY SubSeqFull, LenProperties
<1>2. ASSUME Len(s) <= Len(t)
      PROVE  /\ SubSeq(t, 1, Len(s)) \in Seq(S) /\ Len(SubSeq(t, 1, Len(s))) = Len(s)
             /\ \A i \in 1..Len(s) : SubSeq(t, 1, Len(s))[i] = t[i]
  <2>1. \A i \in 1..Len(s) : t[i] \in S
    BY <1>1, <1>2, ElementOfSeq
  <2> DEFINE n == Len(s)
  <2>2. n \in Int /\ \A i \in 1..n : t[i] \in S
    BY <2>1, <1>1
  <2> HIDE DEF n
  <2>3. /\ SubSeq(t, 1, n) \in Seq(S)
        /\ Len(SubSeq(t, 1, n)) = IF 1 <= n THEN n - 1 + 1 ELSE 0
        /\ \A i \in 1..n - 1 + 1 : SubSeq(t, 1, n)[i] = t[1 + i - 1]
    BY <2>2, SubSeqProperties
  <2>4. QED
    BY <2>3, <1>1 DEF n
<1>3. ASSUME Len(s) <= Len(t), \A i \in 1..Len(s) : s[i] = t[i] PROVE IsPrefix(s, t)
  <2>1. s = SubSeq(t, 1, Len(s))
    BY <1>2, <1>3, SeqEqual
  <2>2. QED
    BY <2>1, <1>1, <1>3 DEF IsPrefix
<1>4. ASSUME IsPrefix(s, t) PROVE Len(s) <= Len(t) /\ \A i \in 1..Len(s) : s[i] = t[i]
  <2>1. Len(s) <= Len(t) /\ s = SubSeq(t, 1, Len(s))
    BY <1>4, <1>1 DEF IsPrefix
  <2>2. QED
    BY <2>1, <1>2
<1>5. QED
  BY <1>3, <1>4

\* The beginning of a log.
LEMMA Beginning ==
  ASSUME NEW S, NEW t \in Seq(S), NEW n \in 0..Len(t)
  PROVE  SubSeq(t, 1, n) \in Seq(S) /\ IsPrefix(SubSeq(t, 1, n), t)
<1>1. Len(t) \in Nat /\ n \in Int /\ \A i \in 1..n : t[i] \in S
  BY LenProperties, ElementOfSeq
<1>2. /\ SubSeq(t, 1, n) \in Seq(S)
      /\ Len(SubSeq(t, 1, n)) = IF 1 <= n THEN n - 1 + 1 ELSE 0
      /\ \A i \in 1..n - 1 + 1 : SubSeq(t, 1, n)[i] = t[1 + i - 1]
  BY <1>1, SubSeqProperties
<1>3. Len(SubSeq(t, 1, n)) = n /\ \A i \in 1..n : SubSeq(t, 1, n)[i] = t[i]
  BY <1>2, <1>1
<1> DEFINE s == SubSeq(t, 1, n)
<1>4. s \in Seq(S) /\ Len(s) <= Len(t) /\ \A i \in 1..Len(s) : s[i] = t[i]
  BY <1>1, <1>2, <1>3
<1> HIDE DEF s
<1>5. s \in Seq(S) /\ IsPrefix(s, t)
  BY <1>4, PrefixAgrees
<1>6. QED
  BY <1>5 DEF s

\* A log that grows keeps its prefixes.
LEMMA PrefixStays ==
  ASSUME NEW S, NEW s \in Seq(S), NEW t \in Seq(S), NEW u \in Seq(S), IsPrefix(s, t)
  PROVE  IsPrefix(s, t \o u)
<1>1. /\ t \o u \in Seq(S) /\ Len(t \o u) = Len(t) + Len(u)
      /\ \A i \in 1..Len(t) + Len(u) :
           (t \o u)[i] = IF i <= Len(t) THEN t[i] ELSE u[i - Len(t)]
      /\ Len(s) \in Nat /\ Len(t) \in Nat /\ Len(u) \in Nat
  BY ConcatProperties, LenProperties
<1>2. Len(s) <= Len(t) /\ \A i \in 1..Len(s) : s[i] = t[i]
  BY PrefixAgrees
<1>3. Len(s) <= Len(t \o u) /\ \A i \in 1..Len(s) : s[i] = (t \o u)[i]
  BY <1>1, <1>2
<1>4. QED
  BY <1>1, <1>3, PrefixAgrees

\* A prefix that is continued from where it ends is the whole.
LEMMA FetchedIsLog ==
  ASSUME mirror \in Seq(Unit), log \in Seq(Unit), MirrorIsPrefix
  PROVE  Fetched = log
<1>1. Len(mirror) \in Nat /\ Len(log) \in Nat
  BY LenProperties
<1>2. Len(mirror) <= Len(log) /\ \A i \in 1..Len(mirror) : mirror[i] = log[i]
  BY PrefixAgrees DEF MirrorIsPrefix
<1> DEFINE m == Len(mirror) + 1
           n == Len(log)
           rest == SubSeq(log, m, n)
<1>3. m \in Int /\ n \in Int /\ \A i \in m..n : log[i] \in Unit
  BY <1>1, ElementOfSeq
<1>4. rest \in Seq(Unit) /\ Len(rest) = n - Len(mirror) /\ \A i \in 1..n - Len(mirror) : rest[i] = log[Len(mirror) + i]
  <2>1. /\ rest \in Seq(Unit) /\ Len(rest) = IF m <= n THEN n - m + 1 ELSE 0
        /\ \A i \in 1..n - m + 1 : rest[i] = log[m + i - 1]
    <3> HIDE DEF m, n
    <3>1. QED
      BY <1>3, SubSeqProperties
  <2>2. QED
    BY <2>1, <1>1, <1>2
<1> HIDE DEF rest
<1>5. /\ mirror \o rest \in Seq(Unit) /\ Len(mirror \o rest) = Len(mirror) + Len(rest)
      /\ \A i \in 1..Len(mirror) + Len(rest) :
           (mirror \o rest)[i] = IF i <= Len(mirror) THEN mirror[i] ELSE rest[i - Len(mirror)]
  BY <1>4, ConcatProperties
<1>6. Len(mirror \o rest) = Len(log) /\ \A i \in 1..Len(mirror \o rest) : (mirror \o rest)[i] = log[i]
  <2>1. Len(mirror \o rest) = Len(log)
    BY <1>1, <1>4, <1>5
  <2>2. ASSUME NEW i \in 1..Len(log), i <= Len(mirror) PROVE (mirror \o rest)[i] = log[i]
    BY <1>1, <1>2, <1>5, <2>1, <2>2
  <2>3. ASSUME NEW i \in 1..Len(log), i > Len(mirror) PROVE (mirror \o rest)[i] = log[i]
    <3>1. i - Len(mirror) \in 1..n - Len(mirror) /\ Len(mirror) + (i - Len(mirror)) = i
      BY <1>1, <2>3
    <3>2. rest[i - Len(mirror)] = log[i]
      BY <1>4, <3>1
    <3>3. QED
      BY <1>1, <1>5, <2>1, <2>3, <3>2
  <2>4. QED
    BY <1>1, <2>1, <2>2, <2>3
<1>7. QED
  BY <1>5, <1>6, SeqEqual DEF Fetched, rest

\* What the training writes is a line.
LEMMA LineType ==
  ASSUME TypeOK, Numbered, trainer # "none", NEW s \in 0..Steps, NEW number \in BOOLEAN
  PROVE  /\ Line(launches, s, number) \in Seq(Unit)
         /\ \A h \in {1, 2} : Half(launches, s, number, h) \in Unit
<1>1. launches \in 1..MaxCrashes + 2
  BY RunFilesAssumption DEF TypeOK, Numbered
<1>2. \A h \in {1, 2} : Half(launches, s, number, h) \in Unit
  BY <1>1 DEF Half, Unit
<1>3. QED
  BY <1>2 DEF Line

\* Whatever happens, the log only grows.
LEMMA LogGrows ==
  ASSUME TypeOK, Numbered, [Next]_vars
  PROVE  \E u \in Seq(Unit) : log' = log \o u
<1>1. ASSUME UNCHANGED log PROVE \E u \in Seq(Unit) : log' = log \o u
  <2>1. <<>> \in Seq(Unit) /\ log \o <<>> = log
    BY ConcatEmptySeq, EmptySeq DEF TypeOK
  <2>2. QED
    BY <1>1, <2>1
<1>2. ASSUME trainer # "none", NEW s \in 0..Steps, NEW number \in BOOLEAN
      PROVE  /\ Line(launches, s, number) \in Seq(Unit)
             /\ Half(launches, s, number, 1) \in Unit
  BY <1>2, LineType
<1>3. CASE LogStep
  <2>1. trainer # "none" /\ step' \in 0..Steps
    BY <1>3, RunFilesAssumption DEF LogStep, TypeOK
  <2>2. PICK number \in BOOLEAN : log' = log \o Line(launches, step', number)
    BY <1>3 DEF LogStep
  <2>3. QED
    BY <2>1, <2>2, <1>2
<1>4. CASE LogDone
  <2>1. /\ trainer # "none" /\ DoneEvent \in 0..Steps
        /\ log' = log \o Line(launches, DoneEvent, FALSE)
    BY <1>4, RunFilesAssumption DEF LogDone, DoneEvent
  <2>2. QED
    BY <2>1, <1>2
<1>5. CASE Reboot
  <2>1. CASE UNCHANGED log
    BY <2>1, <1>1
  <2>2. CASE trainer = "train" /\ step < Steps /\ log' = Append(log, Half(launches, step + 1, TRUE, 1))
    <3>1. step + 1 \in 0..Steps
      BY <2>2, RunFilesAssumption DEF TypeOK
    <3> DEFINE torn == Half(launches, step + 1, TRUE, 1)
    <3>2. torn \in Unit
      BY <1>2, <2>2, <3>1
    <3>3. log' = Append(log, torn)
      BY <2>2
    <3> HIDE DEF torn
    <3>4. <<torn>> \in Seq(Unit) /\ log \in Seq(Unit)
      BY <3>2 DEF TypeOK
    <3>5. log' = log \o <<torn>>
      BY <3>2, <3>3, <3>4, AppendIsConcat
    <3>6. QED
      BY <3>4, <3>5
  <2>3. QED
    BY <1>5, <2>1, <2>2 DEF Reboot
<1>6. CASE Train
  <2>1. CASE Load \/ BeginSave \/ EndSave \/ Raise \/ WriteCode
    BY <2>1, <1>1 DEF Load, BeginSave, EndSave, Raise, WriteCode
  <2>2. QED
    BY <1>6, <2>1, <1>3, <1>4 DEF Train
<1>7. CASE Supervise
  <2>1. UNCHANGED log
    BY <1>7 DEF Supervise, Provision, Upload, StartBootstrap, Bootstrap, Launch, Poll, ReadCode,
                GiveUp, Sweep, PullAdapter, PullLogs, End, training
  <2>2. QED
    BY <2>1, <1>1
<1>8. CASE PullAgain \/ Resume \/ OrphanBootstrap \/ Crash \/ UNCHANGED vars
  BY <1>8, <1>1 DEF PullAgain, Resume, OrphanBootstrap, Crash, training, vars
<1>9. QED
  BY <1>5, <1>6, <1>7, <1>8 DEF Next

\* A step leaves the mirror alone or makes it a beginning of the log.
LEMMA MirrorMoves ==
  ASSUME TypeOK, MirrorIsPrefix, [Next]_vars
  PROVE  \/ UNCHANGED mirror
         \/ log' = log /\ \E n \in 0..Len(log) : mirror' = SubSeq(log, 1, n)
<1>1. log \in Seq(Unit) /\ mirror \in Seq(Unit) /\ Len(log) \in Nat /\ Len(mirror) \in Nat
  BY LenProperties DEF TypeOK
<1>2. Fetched = log /\ SubSeq(log, 1, Len(log)) = log
  BY <1>1, FetchedIsLog, SubSeqFull
<1> DEFINE Goal == \/ UNCHANGED mirror
                   \/ log' = log /\ \E n \in 0..Len(log) : mirror' = SubSeq(log, 1, n)
<1>3. ASSUME UNCHANGED log, mirror' = log PROVE Goal
  <2>1. Len(log) \in 0..Len(log) /\ mirror' = SubSeq(log, 1, Len(log))
    BY <1>1, <1>2, <1>3
  <2>2. QED
    BY <2>1, <1>3
<1>4. ASSUME Poll \/ Sweep PROVE Goal
  BY <1>4, <1>2, <1>3 DEF Poll, Sweep, training
<1>5. ASSUME PullLogs PROVE Goal
  BY <1>5, <1>3 DEF PullLogs, training
<1>6. ASSUME Crash PROVE Goal
  <2>1. \A n \in Len(mirror)..Len(Fetched) : n \in 0..Len(log) /\ SubSeq(Fetched, 1, n) = SubSeq(log, 1, n)
    BY <1>1, <1>2
  <2>2. QED
    BY <1>6, <2>1 DEF Crash, training
<1>7. ASSUME Supervise PROVE Goal
  <2>1. CASE Provision \/ Upload \/ StartBootstrap \/ Bootstrap \/ Launch \/ ReadCode
             \/ GiveUp \/ PullAdapter \/ End
    BY <2>1 DEF Provision, Upload, StartBootstrap, Bootstrap, Launch, ReadCode,
                GiveUp, PullAdapter, End, run
  <2>2. QED
    BY <1>4, <1>5, <1>7, <2>1 DEF Supervise
<1>8. ASSUME PullAgain \/ Resume \/ Train \/ OrphanBootstrap \/ Reboot \/ UNCHANGED vars PROVE Goal
  BY <1>8 DEF PullAgain, Resume, Train, Load, LogStep, BeginSave, EndSave, LogDone, Raise, WriteCode,
              OrphanBootstrap, Reboot, vars, run
<1> HIDE DEF Goal
<1>9. Goal
  BY <1>6, <1>7, <1>8 DEF Next
<1>10. QED
  BY <1>9 DEF Goal

LEMMA PrefixStep ==
  ASSUME TypeOK, Numbered, MirrorIsPrefix, [Next]_vars
  PROVE  log' \in Seq(Unit) /\ mirror' \in Seq(Unit) /\ MirrorIsPrefix'
<1>1. log \in Seq(Unit) /\ mirror \in Seq(Unit)
  BY DEF TypeOK
<1>2. PICK u \in Seq(Unit) : log' = log \o u
  BY LogGrows
<1>3. log' \in Seq(Unit)
  BY <1>1, <1>2, ConcatProperties
<1>4. CASE UNCHANGED mirror
  BY <1>1, <1>2, <1>3, <1>4, PrefixStays DEF MirrorIsPrefix
<1>5. CASE log' = log /\ \E n \in 0..Len(log) : mirror' = SubSeq(log, 1, n)
  BY <1>1, <1>5, Beginning DEF MirrorIsPrefix
<1>6. QED
  BY <1>3, <1>4, <1>5, MirrorMoves

-----------------------------------------------------------------------------
(* Types *)

\* A step keeps the types and the numbers of bootstraps and launches.
LEMMA TypeStep ==
  ASSUME TypeOK, Numbered, MirrorIsPrefix, [Next]_vars
  PROVE  TypeOK' /\ Numbered'
<1> DEFINE Goal == TypeOK' /\ Numbered'
<1>0. log' \in Seq(Unit) /\ mirror' \in Seq(Unit)
  BY PrefixStep
<1>1. PartPulled \subseteq Adapter
  <2>1. [adapter EXCEPT !.whole = FALSE] \in Adapter
    BY DEF TypeOK, Adapter
  <2>2. QED
    BY <2>1 DEF TypeOK, PartPulled
<1>2. runlog # <<>> => Last(runlog) \in {"zero", "nonzero"}
  <2>1. ASSUME runlog # <<>> PROVE Last(runlog) \in {"zero", "nonzero"}
    <3>1. Len(runlog) \in 1..Len(runlog)
      BY <2>1, EmptySeq, LenProperties DEF TypeOK
    <3>2. QED
      BY <3>1, ElementOfSeq DEF TypeOK, Last
  <2>2. QED
    BY <2>1
<1>3. \A e \in {"zero", "nonzero"} : Append(runlog, e) \in Seq({"zero", "nonzero"})
  BY DEF TypeOK
<1>4. \A n \in 0..MaxCrashes + 2 : \A b \in BOOLEAN : [launch |-> n, whole |-> b] \in Adapter
  BY DEF Adapter
<1>5. /\ Nothing \in [adapter : BOOLEAN, any : BOOLEAN]
      /\ \A b \in BOOLEAN : [adapter |-> b, any |-> TRUE] \in [adapter : BOOLEAN, any : BOOLEAN]
  BY DEF Nothing
<1> USE RunFilesAssumption, <1>0 DEF TypeOK, Numbered, Weigh, Goto, Fail
<1>6. ASSUME Provision PROVE Goal
  BY <1>6 DEF Provision, files, training, run
<1>7. ASSUME Upload PROVE Goal
  <2>1. Cut(uploaded[todo]) \subseteq {"none", "part", "whole"}
    BY <1>7 DEF Upload, Cut
  <2>2. QED
    BY <1>7, <2>1 DEF Upload, training, run
<1>8. ASSUME StartBootstrap PROVE Goal
  BY <1>8 DEF StartBootstrap, training, run
<1>9. ASSUME Bootstrap PROVE Goal
  <2>1. bootstraps' \in 0..MaxCrashes + 2
    BY <1>9 DEF Bootstrap
  <2>2. provisioned' \in BOOLEAN /\ pc' \in {"launch", "end"} /\ outcome' \in {"none", "failed", "stopped"}
    BY <1>9 DEF Bootstrap
  <2>3. UNCHANGED <<uploaded, todo, mode, got, training, run, crashes>>
    BY <1>9 DEF Bootstrap
  <2>4. TypeOK'
    BY <2>1, <2>2, <2>3 DEF training, run
  <2>5. Numbered'
    BY <1>9 DEF Bootstrap, training, run
  <2>6. QED
    BY <2>4, <2>5
<1>10. ASSUME Launch PROVE Goal
  BY <1>10 DEF Launch, files, run, Up
<1>11. ASSUME Poll \/ Sweep PROVE Goal
  <2>1. TypeOK'
    <3>1. pc' \in {"code", "monitor", "pull"} /\ UNCHANGED <<todo, outcome, mode, got>>
      BY <1>11 DEF Poll, Sweep
    <3>2. UNCHANGED <<files, training, local, status, code, claimed, pulled, crashes>>
      BY <1>11 DEF Poll, Sweep
    <3>3. QED
      BY <3>1, <3>2 DEF files, training
  <2>2. Numbered'
    BY <1>11 DEF Poll, Sweep, files, training
  <2>3. QED
    BY <2>1, <2>2
<1>12. ASSUME ReadCode PROVE Goal
  BY <1>12, <1>2 DEF ReadCode, files, training
<1>13. ASSUME GiveUp PROVE Goal
  BY <1>13 DEF GiveUp, Pkill, files, run
<1>14. ASSUME PullAdapter PROVE Goal
  <2>0. local' \in Adapter /\ got' \in [adapter : BOOLEAN, any : BOOLEAN]
    <3>1. adapter \in Adapter /\ local \in Adapter
      OBVIOUS
    <3>2. local' \in Adapter
      BY <1>14, <1>1, <3>1 DEF PullAdapter
    <3>3. got' \in [adapter : BOOLEAN, any : BOOLEAN]
      BY <1>14, <1>5 DEF PullAdapter
    <3>4. QED
      BY <3>2, <3>3
  <2>1. TypeOK'
    BY <1>14, <2>0 DEF PullAdapter, files, training
  <2>2. Numbered'
    BY <1>14, <1>1, <1>5 DEF PullAdapter, files, training
  <2>3. QED
    BY <2>1, <2>2
<1>15. ASSUME PullLogs PROVE Goal
  <2>0. claimed' \in BOOLEAN /\ pulled' \in BOOLEAN /\ got' \in [adapter : BOOLEAN, any : BOOLEAN]
    BY <1>15, <1>5 DEF PullLogs
  <2>1. TypeOK'
    BY <1>15, <2>0 DEF PullLogs, files, training
  <2>2. Numbered'
    BY <1>15, <1>5 DEF PullLogs, files, training
  <2>3. QED
    BY <2>1, <2>2
<1>16. ASSUME End PROVE Goal
  BY <1>16 DEF End, files, training
<1>17. ASSUME PullAgain PROVE Goal
  BY <1>17 DEF PullAgain, files, training
<1>18. ASSUME Resume PROVE Goal
  BY <1>18, <1>2 DEF Resume, files, training
<1>19. ASSUME Load \/ LogStep \/ LogDone \/ Raise PROVE Goal
  <2>1. TypeOK'
    <3>0. LogStep => /\ trainer' = "train" /\ step' \in 0..Steps
                     /\ UNCHANGED <<files, launches, adapter, runlog, run, supervisor, crashes>>
      BY DEF LogStep
    <3>1. trainer' \in {"train", "nonzero", "zero"} /\ step' \in 0..Steps
      BY <1>19, <3>0 DEF Load, LogDone, Raise
    <3>2. UNCHANGED <<files, launches, adapter, runlog, run, supervisor, crashes>>
      BY <1>19, <3>0 DEF Load, LogDone, Raise
    <3>3. QED
      BY <3>1, <3>2 DEF files, run, supervisor
  <2>2. Numbered'
    BY <1>19 DEF Load, LogStep, LogDone, Raise, files, run, supervisor
  <2>3. QED
    BY <2>1, <2>2
<1>20. ASSUME BeginSave \/ EndSave PROVE Goal
  <2>0. adapter' \in Adapter
    BY <1>20, <1>4 DEF BeginSave, EndSave
  <2>1. TypeOK'
    BY <1>20, <2>0 DEF BeginSave, EndSave, files, run, supervisor
  <2>2. Numbered'
    BY <1>20, <1>4 DEF BeginSave, EndSave, files, run, supervisor
  <2>3. QED
    BY <2>1, <2>2
<1>21. ASSUME WriteCode PROVE Goal
  BY <1>21, <1>3 DEF WriteCode, files, run, supervisor
<1>22. ASSUME OrphanBootstrap PROVE Goal
  <2>1. bootstraps' \in 0..MaxCrashes + 2
    BY <1>22 DEF OrphanBootstrap
  <2>2. provisioned' \in BOOLEAN /\ UNCHANGED <<uploaded, training, run, supervisor, crashes>>
    BY <1>22 DEF OrphanBootstrap
  <2>3. TypeOK'
    BY <2>1, <2>2 DEF training, run, supervisor
  <2>4. Numbered'
    BY <1>22 DEF OrphanBootstrap, training, run, supervisor
  <2>5. QED
    BY <2>3, <2>4
<1>23. ASSUME Crash PROVE Goal
  <2>1. ASSUME pc = "upload", todo <= Uploads PROVE Cut(uploaded[todo]) \subseteq {"none", "part", "whole"}
    BY <2>1 DEF Cut
  <2>2. uploaded' \in [1..Uploads -> {"none", "part", "whole"}]
    BY <1>23, <2>1 DEF Crash
  <2>3. local' \in Adapter
    BY <1>23, <1>1 DEF Crash
  <2>4. crashes' \in 0..MaxCrashes
    BY <1>23 DEF Crash
  <2>5. TypeOK'
    BY <1>23, <2>2, <2>3, <2>4 DEF Crash, training
  <2>6. Numbered'
    BY <1>23 DEF Crash, training
  <2>7. QED
    BY <2>5, <2>6
<1>24. ASSUME Reboot PROVE Goal
  BY <1>24 DEF Reboot, run, supervisor
<1>25. ASSUME UNCHANGED vars PROVE Goal
  BY <1>25 DEF vars, files, training, run, supervisor
<1> HIDE DEF Goal
<1>26. Goal
  BY <1>6, <1>7, <1>8, <1>9, <1>10, <1>11, <1>12, <1>13, <1>14, <1>15, <1>16, <1>17, <1>18, <1>19,
     <1>20, <1>21, <1>22, <1>23, <1>24, <1>25 DEF Next, Supervise, Train
<1>27. QED
  BY <1>26 DEF Goal

LEMMA TypedInit == Init => TypeOK /\ Numbered /\ MirrorIsPrefix
<1> USE RunFilesAssumption DEF Init, TypeOK, Numbered, Weigh, None, Nothing, Adapter
<1>1. ASSUME Init PROVE TypeOK
  <2>1. /\ log \in Seq(Unit) /\ mirror \in Seq(Unit) /\ runlog \in Seq({"zero", "nonzero"})
    BY <1>1, EmptySeq
  <2>2. adapter \in Adapter /\ local \in Adapter /\ got \in [adapter : BOOLEAN, any : BOOLEAN]
    BY <1>1
  <2>3. uploaded \in [1..Uploads -> {"none", "part", "whole"}]
    BY <1>1
  <2>4. todo \in 1..Uploads + 1 /\ 0 \in 0..MaxCrashes + 2 /\ 0 \in 0..MaxCrashes /\ 0 \in 0..Steps
    BY <1>1
  <2> HIDE DEF Adapter
  <2>5. QED
    BY <1>1, <2>1, <2>2, <2>3, <2>4
<1>2. Init => Numbered
  OBVIOUS
<1>3. <<>> \in Seq(Unit) /\ Len(<<>>) = 0
  BY EmptySeq
<1>4. IsPrefix(<<>>, <<>>)
  BY <1>3 DEF IsPrefix
<1>5. QED
  BY <1>1, <1>2, <1>4 DEF MirrorIsPrefix

\* Every variable keeps its type, and the training is launched at most once
\* more than the supervisor crashes, under all faults.
THEOREM TypeCorrect == Spec => []TypeOK
<1>1. TypeOK /\ Numbered /\ MirrorIsPrefix /\ [Next]_vars => (TypeOK /\ Numbered /\ MirrorIsPrefix)'
  BY TypeStep, PrefixStep
<1>2. QED
  BY <1>1, TypedInit, PTL DEF Spec

\* Under all faults, wherever the supervisor dies in the middle of a write and
\* however often the training is launched again, the local copy of the log is
\* a prefix of the box's.
THEOREM MirrorCorrect == Spec => []MirrorIsPrefix
<1>1. TypeOK /\ Numbered /\ MirrorIsPrefix /\ [Next]_vars => (TypeOK /\ Numbered /\ MirrorIsPrefix)'
  BY TypeStep, PrefixStep
<1>2. QED
  BY <1>1, TypedInit, PTL DEF Spec

-----------------------------------------------------------------------------
(* Inputs *)

\* What has arrived whole stays whole, and what starts next starts on it.
LEMMA ArrivedStep ==
  ASSUME "scp" \notin Faults, TypeOK, Arrived, [Next]_vars
  PROVE  Arrived' /\ (launches' > launches => \A i \in 1..Uploads : uploaded[i] = "whole")
<1> DEFINE Goal == Arrived' /\ (launches' > launches => \A i \in 1..Uploads : uploaded[i] = "whole")
<1>0. launches \in Nat /\ bootstraps \in Nat /\ todo \in 1..Uploads + 1 /\ Uploads \in Nat
      /\ uploaded \in [1..Uploads -> {"none", "part", "whole"}]
  BY RunFilesAssumption DEF TypeOK
<1> USE <1>0 DEF Arrived, Goto, Fail
<1>1. ASSUME Provision PROVE Goal
  BY <1>1 DEF Provision, files, training
<1>2. ASSUME Upload PROVE Goal
  <2>1. Cut("whole") = {"whole"}
    BY DEF Cut
  <2>2. UNCHANGED <<bootstraps, provisioned, launches>> /\ pc = "upload" /\ pc' \in {"upload", "end"}
    BY <1>2 DEF Upload, training
  <2>3. \A i \in 1..Uploads : uploaded[i] = "whole" => uploaded'[i] = "whole"
    BY <1>2, <2>1 DEF Upload
  <2>4. pc' = "upload" => todo' = todo + 1 /\ uploaded'[todo] = "whole" /\ todo <= Uploads
    BY <1>2 DEF Upload
  <2>5. pc' = "upload" => \A i \in 1..todo' - 1 : uploaded'[i] = "whole"
    BY <2>2, <2>3, <2>4
  <2>6. QED
    BY <2>2, <2>3, <2>5
<1>3. ASSUME StartBootstrap PROVE Goal
  BY <1>3 DEF StartBootstrap, training
<1>4. ASSUME Bootstrap PROVE Goal
  BY <1>4 DEF Bootstrap, training
<1>5. ASSUME Launch PROVE Goal
  BY <1>5 DEF Launch, files
<1>6. ASSUME Poll \/ ReadCode \/ Sweep \/ PullAdapter \/ PullLogs \/ End \/ PullAgain PROVE Goal
  BY <1>6 DEF Poll, ReadCode, Sweep, PullAdapter, PullLogs, End, PullAgain, files, training
<1>7. ASSUME GiveUp PROVE Goal
  BY <1>7 DEF GiveUp, files
<1>8. ASSUME Resume PROVE Goal
  BY <1>8 DEF Resume, files, training
<1>9. ASSUME Train PROVE Goal
  <2>1. LogStep => UNCHANGED <<launches, files, supervisor>>
    BY DEF LogStep
  <2>2. UNCHANGED <<launches, files, supervisor>>
    BY <1>9, <2>1 DEF Train, Load, BeginSave, EndSave, LogDone, Raise, WriteCode
  <2>3. QED
    BY <2>2 DEF files, supervisor
<1>10. ASSUME OrphanBootstrap PROVE Goal
  BY <1>10 DEF OrphanBootstrap, training, supervisor
<1>11. ASSUME Crash PROVE Goal
  <2>1. UNCHANGED <<bootstraps, provisioned, launches>> /\ pc' = "dead"
    BY <1>11 DEF Crash, training
  <2>2. \A i \in 1..Uploads : uploaded[i] = "whole" => uploaded'[i] = "whole"
    <3>1. Cut("whole") = {"whole"}
      BY DEF Cut
    <3>2. QED
      BY <1>11, <3>1 DEF Crash
  <2>3. QED
    BY <2>1, <2>2
<1>12. ASSUME Reboot PROVE Goal
  BY <1>12 DEF Reboot, supervisor
<1>13. ASSUME UNCHANGED vars PROVE Goal
  BY <1>13 DEF vars, files, training, supervisor
<1> HIDE DEF Goal
<1>14. Goal
  BY <1>1, <1>2, <1>3, <1>4, <1>5, <1>6, <1>7, <1>8, <1>9, <1>10, <1>11, <1>12, <1>13
     DEF Next, Supervise
<1>15. QED
  BY <1>14 DEF Goal

\* If a copy that is cut off leaves a file that was whole alone, the training is
\* never launched on a part of its inputs, whichever uploads and bootstraps
\* were cut off before.
THEOREM InputsCorrect == ASSUME "scp" \notin Faults PROVE Spec => InputsAreWhole
<1>1. Init => Arrived
  BY DEF Init, Arrived
<1>2. TypeOK /\ Arrived /\ [Next]_vars
      => Arrived' /\ [launches' > launches => \A i \in 1..Uploads : uploaded[i] = "whole"]_vars
  BY ArrivedStep
<1>3. QED
  BY <1>1, <1>2, TypeCorrect, PTL DEF Spec, InputsAreWhole

-----------------------------------------------------------------------------
(* The adapter *)

LEMMA BroughtStep ==
  ASSUME "blip" \notin Faults, TypeOK, Once, Brought, [Next]_vars
  PROVE  Once' /\ Brought'
<1> DEFINE Goal == Once' /\ Brought'
<1>0. launches \in Nat /\ trainer \in {"none", "load", "train", "save", "saved", "zero", "nonzero"}
      /\ runlog \in Seq({"zero", "nonzero"})
  BY RunFilesAssumption DEF TypeOK
<1> USE <1>0 DEF Once, Brought, EndedWell, Goto, Fail
<1>1. ASSUME Provision \/ Upload \/ StartBootstrap \/ Bootstrap PROVE Goal
  BY <1>1 DEF Provision, Upload, StartBootstrap, Bootstrap, files, training, run
<1>2. ASSUME Launch PROVE Goal
  BY <1>2 DEF Launch, Up, files, run
<1>3. ASSUME Poll PROVE Goal
  BY <1>3 DEF Poll, training
<1>4. ASSUME ReadCode PROVE Goal
  BY <1>4 DEF ReadCode, training
<1>5. ASSUME GiveUp PROVE Goal
  BY <1>5 DEF GiveUp, Pkill, Up, run
<1>6. ASSUME Sweep PROVE Goal
  BY <1>6 DEF Sweep, training
<1>7. ASSUME PullAdapter PROVE Goal
  BY <1>7 DEF PullAdapter, training, Nothing
<1>8. ASSUME PullLogs PROVE Goal
  BY <1>8 DEF PullLogs, training
<1>9. ASSUME End PROVE Goal
  BY <1>9 DEF End, training
<1>10. ASSUME PullAgain PROVE Goal
  BY <1>10 DEF PullAgain, training
<1>11. ASSUME Resume PROVE Goal
  BY <1>11 DEF Resume, Up, training
<1>12. ASSUME Load \/ LogStep \/ BeginSave \/ EndSave \/ LogDone \/ Raise PROVE Goal
  BY <1>12 DEF Load, LogStep, BeginSave, EndSave, LogDone, Raise, run, supervisor
<1>13. ASSUME WriteCode PROVE Goal
  <2>0. runlog = <<>> /\ runlog' = Append(runlog, trainer)
    BY <1>13 DEF WriteCode
  <2>1. runlog' = <<trainer>>
    BY <2>0
  <2>2. runlog' # <<>> /\ Last(runlog') = trainer
    BY <2>1 DEF Last
  <2>3. QED
    BY <1>13, <2>0, <2>2 DEF WriteCode, run, supervisor
<1>14. ASSUME OrphanBootstrap PROVE Goal
  BY <1>14 DEF OrphanBootstrap, training, run, supervisor
<1>15. ASSUME Crash PROVE Goal
  BY <1>15 DEF Crash, training
<1>16. ASSUME Reboot PROVE Goal
  BY <1>16 DEF Reboot, Up, run, supervisor
<1>17. ASSUME UNCHANGED vars PROVE Goal
  BY <1>17 DEF vars, training, run, supervisor
<1> HIDE DEF Goal
<1>18. Goal
  BY <1>1, <1>2, <1>3, <1>4, <1>5, <1>6, <1>7, <1>8, <1>9, <1>10, <1>11, <1>12, <1>13, <1>14, <1>15,
     <1>16, <1>17 DEF Next, Supervise, Train
<1>19. QED
  BY <1>18 DEF Goal

\* If a resumed supervisor sees what the box is doing, a run that trained to its
\* end claims only an adapter of which all is here, and which the last launch
\* saved: whatever copies failed and wherever the supervisor died.
THEOREM AdapterCorrect == ASSUME "blip" \notin Faults PROVE Spec => []ClaimedAdapterIsWhole
<1>1. Init => Once /\ Brought
  BY DEF Init, Once, Brought, EndedWell
<1>2. TypeOK /\ Once /\ Brought /\ [Next]_vars => Once' /\ Brought'
  BY BroughtStep
<1>3. Once /\ Brought => ClaimedAdapterIsWhole
  BY DEF Once, Brought, ClaimedAdapterIsWhole
<1>4. QED
  BY <1>1, <1>2, <1>3, TypeCorrect, PTL DEF Spec

-----------------------------------------------------------------------------
(* The curve *)

\* The training writes one more line.
LEMMA LineWritten ==
  ASSUME TypeOK, NEW s \in 0..Steps, NEW number \in BOOLEAN, Line(launches, s, number) \in Seq(Unit),
         log' = log \o Line(launches, s, number), NEW n \in Nat, Shaped(n)
  PROVE  /\ Shaped(n + 1)'
         /\ \A i \in 1..2 * n : log'[i] = log[i]
         /\ log'[2 * (n + 1)].launch = launches /\ log'[2 * (n + 1)].step = s
<1> DEFINE line == Line(launches, s, number)
<1>1. /\ Len(line) = 2
      /\ line[1].launch = launches /\ line[1].step = s /\ line[1].half = 1
      /\ line[2].launch = launches /\ line[2].step = s /\ line[2].half = 2
  BY DEF Line, Half
<1>2. log \in Seq(Unit) /\ line \in Seq(Unit) /\ log' = log \o line /\ Len(log) = 2 * n
  BY DEF TypeOK, Shaped
<1> HIDE DEF line
<1>3. /\ Len(log') = Len(log) + Len(line)
      /\ \A i \in 1..Len(log) + Len(line) :
           log'[i] = IF i <= Len(log) THEN log[i] ELSE line[i - Len(log)]
  BY <1>2, ConcatProperties
<1>4. Len(log') = 2 * (n + 1) /\ \A i \in 1..2 * n : log'[i] = log[i]
  BY <1>1, <1>2, <1>3
<1>5. log'[2 * (n + 1) - 1] = line[1] /\ log'[2 * (n + 1)] = line[2]
  <2>1. 2 * (n + 1) - 1 \in 1..Len(log) + Len(line) /\ 2 * (n + 1) \in 1..Len(log) + Len(line)
    BY <1>1, <1>2
  <2>2. /\ ~(2 * (n + 1) - 1 <= Len(log)) /\ 2 * (n + 1) - 1 - Len(log) = 1
        /\ ~(2 * (n + 1) <= Len(log)) /\ 2 * (n + 1) - Len(log) = 2
    BY <1>2
  <2>3. QED
    BY <1>3, <2>1, <2>2
<1>6. ASSUME NEW k \in 1..n + 1
      PROVE  /\ log'[2 * k - 1].half = 1 /\ log'[2 * k].half = 2
             /\ log'[2 * k - 1].launch = log'[2 * k].launch
             /\ log'[2 * k - 1].step = log'[2 * k].step
  <2>1. CASE k = n + 1
    BY <2>1, <1>1, <1>5
  <2>2. CASE k <= n
    <3>1. k \in 1..n /\ 2 * k - 1 \in 1..2 * n /\ 2 * k \in 1..2 * n
      BY <2>2
    <3>2. log'[2 * k - 1] = log[2 * k - 1] /\ log'[2 * k] = log[2 * k]
      BY <1>4, <3>1
    <3>3. QED
      BY <3>1, <3>2 DEF Shaped
  <2>3. k = n + 1 \/ k <= n
    OBVIOUS
  <2>4. QED
    BY <2>1, <2>2, <2>3
<1>7. Shaped(n + 1)'
  BY <1>4, <1>6 DEF Shaped
<1>8. QED
  BY <1>1, <1>4, <1>5, <1>7

\* Where the log, the step and the launch stay, the lines stay what they were.
LEMMA LoggedStays ==
  ASSUME Logged, UNCHANGED <<log, step, launches>>, Fresh' => Fresh /\ SaidDone' = SaidDone
  PROVE  Logged'
<1>1. PICK n \in Nat : Shaped(n) /\ Latest(n)
  BY DEF Logged
<1>2. Shaped(n)'
  BY <1>1 DEF Shaped
<1>3. Latest(n)'
  BY <1>1 DEF Latest
<1>4. QED
  BY <1>2, <1>3 DEF Logged

LEMMA StepLogged ==
  ASSUME TypeOK, Numbered, Once, Logged, LogStep
  PROVE  Logged'
<1>1. PICK n \in Nat : Shaped(n) /\ Latest(n)
  BY DEF Logged
<1>10. PICK m \in Nat : m = n + 1
  OBVIOUS
<1>2. /\ step \in 0..Steps /\ Steps \in Nat /\ trainer = "train" /\ step' = step + 1
      /\ step' \in 0..Steps /\ UNCHANGED <<trainer, launches, runlog>>
  BY RunFilesAssumption DEF TypeOK, LogStep
<1>11. PICK number \in BOOLEAN : log' = log \o Line(launches, step', number)
  BY DEF LogStep
<1>3. Line(launches, step', number) \in Seq(Unit)
  BY <1>2, LineType
<1>4. /\ Shaped(n + 1)' /\ \A i \in 1..2 * n : log'[i] = log[i]
      /\ log'[2 * (n + 1)].launch = launches /\ log'[2 * (n + 1)].step = step'
  BY <1>1, <1>2, <1>3, <1>11, LineWritten
<1>5. SaidDone = 0 /\ SaidDone' = 0 /\ Fresh
  BY <1>2 DEF SaidDone, Fresh, EndedWell, Once
<1>6. n >= step /\ \A k \in 1..step : /\ log[2 * (n - step + k)].launch = launches
                                      /\ log[2 * (n - step + k)].step = k
  BY <1>1, <1>2, <1>5 DEF Latest
<1>7. ASSUME NEW k \in 1..step'
      PROVE  /\ log'[2 * (m - SaidDone' - step' + k)].launch = launches'
             /\ log'[2 * (m - SaidDone' - step' + k)].step = k
  <2>1. m - SaidDone' - step' + k = n - step + k
    BY <1>10, <1>2, <1>5
  <2>2. CASE k = step + 1
    <3>1. 2 * (m - SaidDone' - step' + k) = 2 * (n + 1) /\ k = step'
      BY <1>2, <2>1, <2>2
    <3>2. log'[2 * (n + 1)].launch = launches' /\ log'[2 * (n + 1)].step = k
      <4>1. launches' = launches
        BY <1>2
      <4>2. log'[2 * (n + 1)].launch = launches /\ log'[2 * (n + 1)].step = step'
        BY <1>4
      <4>3. QED
        BY <3>1, <4>1, <4>2
    <3>3. QED
      BY <3>1, <3>2
  <2>3. CASE k <= step
    <3>1. k \in 1..step /\ 2 * (n - step + k) \in 1..2 * n
      BY <1>2, <1>6, <2>3
    <3>2. QED
      BY <1>2, <1>4, <1>6, <2>1, <3>1
  <2>4. k = step + 1 \/ k <= step
    BY <1>2
  <2>5. QED
    BY <2>2, <2>3, <2>4
<1>8. Latest(m)'
  <2>1. m >= step' + SaidDone'
    BY <1>10, <1>2, <1>5, <1>6
  <2>2. \A k \in 1..step' : /\ log'[2 * (m - SaidDone' - step' + k)].launch = launches'
                            /\ log'[2 * (m - SaidDone' - step' + k)].step = k
    BY <1>7
  <2>3. SaidDone' # 1
    BY <1>5
  <2>4. QED
    BY <2>1, <2>2, <2>3 DEF Latest
<1>9. QED
  BY <1>10, <1>4, <1>8 DEF Logged

LEMMA DoneLogged ==
  ASSUME TypeOK, Numbered, Once, Timely, Logged, LogDone
  PROVE  Logged'
<1>1. PICK n \in Nat : Shaped(n) /\ Latest(n)
  BY DEF Logged
<1>10. PICK m \in Nat : m = n + 1
  OBVIOUS
<1>2. /\ step \in 0..Steps /\ Steps \in Nat /\ trainer = "saved" /\ trainer' = "zero"
      /\ UNCHANGED <<step, launches, runlog>> /\ DoneEvent \in 0..Steps
      /\ log' = log \o Line(launches, DoneEvent, FALSE)
  BY RunFilesAssumption DEF TypeOK, LogDone, DoneEvent
<1>3. Line(launches, DoneEvent, FALSE) \in Seq(Unit)
  BY <1>2, LineType
<1>4. /\ Shaped(n + 1)' /\ \A i \in 1..2 * n : log'[i] = log[i]
      /\ log'[2 * (n + 1)].launch = launches /\ log'[2 * (n + 1)].step = DoneEvent
  BY <1>1, <1>2, <1>3, LineWritten
<1>5. SaidDone = 0 /\ SaidDone' = 1 /\ Fresh
  BY <1>2 DEF SaidDone, Fresh, EndedWell, Once
<1>6. n >= step /\ \A k \in 1..step : /\ log[2 * (n - step + k)].launch = launches
                                      /\ log[2 * (n - step + k)].step = k
  BY <1>1, <1>2, <1>5 DEF Latest
<1>7. ASSUME NEW k \in 1..step'
      PROVE  /\ log'[2 * (m - SaidDone' - step' + k)].launch = launches'
             /\ log'[2 * (m - SaidDone' - step' + k)].step = k
  <2>1. m - SaidDone' - step' + k = n - step + k
    BY <1>10, <1>2, <1>5
  <2>2. k \in 1..step /\ 2 * (n - step + k) \in 1..2 * n
    BY <1>2, <1>6
  <2>3. QED
    BY <1>2, <1>4, <1>6, <2>1, <2>2
<1>8. Latest(m)'
  <2>1. m >= step' + SaidDone'
    BY <1>10, <1>2, <1>5, <1>6
  <2>2. \A k \in 1..step' : /\ log'[2 * (m - SaidDone' - step' + k)].launch = launches'
                            /\ log'[2 * (m - SaidDone' - step' + k)].step = k
    BY <1>7
  <2>3. log'[2 * m].step = DoneEvent
    BY <1>10, <1>4
  <2>4. QED
    BY <2>1, <2>2, <2>3 DEF Latest
<1>9. QED
  BY <1>10, <1>4, <1>8 DEF Logged

LEMMA LoggedStep ==
  ASSUME Faults \cap {"torn", "blip"} = {}, TypeOK, Numbered, Once, Timely, Logged, [Next]_vars
  PROVE  Timely' /\ Logged'
<1> DEFINE Goal == Timely' /\ Logged'
<1>0. step \in Nat /\ Steps \in Nat
  BY RunFilesAssumption DEF TypeOK
<1>1. ASSUME UNCHANGED <<log, step, launches, trainer, runlog>> PROVE Goal
  <2>1. UNCHANGED <<Fresh, SaidDone>> /\ Timely'
    BY <1>1 DEF Fresh, SaidDone, EndedWell, Timely
  <2>2. QED
    BY <1>1, <2>1, LoggedStays
<1>2. ASSUME UNCHANGED <<log, step, launches, runlog>>, trainer' = "none", trainer # "none" PROVE Goal
  <2>1. ~Fresh' /\ Timely'
    BY <1>2 DEF Fresh, EndedWell, Once, Timely
  <2>2. QED
    BY <1>2, <2>1, LoggedStays
<1>3. ASSUME Supervise, ~Launch, ~GiveUp PROVE Goal
  BY <1>1, <1>3 DEF Supervise, Provision, Upload, StartBootstrap, Bootstrap, Poll, ReadCode,
                    Sweep, PullAdapter, PullLogs, End, training
<1>4. ASSUME GiveUp PROVE Goal
  BY <1>1, <1>2, <1>4 DEF GiveUp, Pkill, Up
<1>5. ASSUME Launch PROVE Goal
  <2>1. trainer = "none" /\ runlog = <<>> /\ UNCHANGED <<log, runlog>>
    BY <1>5 DEF Launch, Once
  <2>2. CASE UNCHANGED <<launches, trainer, step>>
    BY <1>1, <2>1, <2>2
  <2>3. CASE launches' = launches + 1 /\ trainer' = "load" /\ step' = 0
    <3>1. ~Fresh' /\ Timely'
      BY <2>1, <2>3 DEF Fresh, EndedWell, Timely
    <3>2. PICK n \in Nat : Shaped(n)
      BY DEF Logged
    <3>3. Shaped(n)' /\ Latest(n)'
      BY <2>1, <3>1, <3>2 DEF Shaped, Latest
    <3>4. QED
      BY <3>1, <3>3 DEF Logged
  <2>4. QED
    BY <1>5, <2>2, <2>3 DEF Launch
<1>6. ASSUME Load PROVE Goal
  <2>1. UNCHANGED <<log, step, launches, runlog>> /\ runlog = <<>> /\ step = 0 /\ trainer' \in {"train", "nonzero"}
    BY <1>6 DEF Load, Once, Timely
  <2>2. PICK n \in Nat : Shaped(n)
    BY DEF Logged
  <2>3. Shaped(n)'
    BY <2>1, <2>2 DEF Shaped
  <2>4. Timely' /\ SaidDone' = 0
    BY <2>1 DEF Timely, SaidDone, EndedWell
  <2>5. Latest(n)'
    BY <2>1, <2>4 DEF Latest
  <2>6. QED
    BY <2>3, <2>4, <2>5 DEF Logged
<1>7. ASSUME LogStep PROVE Goal
  <2>1. Timely'
    BY <1>7 DEF LogStep, Timely, EndedWell, Once
  <2>2. QED
    BY <1>7, <2>1, StepLogged
<1>8. ASSUME LogDone PROVE Goal
  <2>1. Timely'
    BY <1>8 DEF LogDone, Timely, EndedWell, Once
  <2>2. QED
    BY <1>8, <2>1, DoneLogged
<1>9. ASSUME BeginSave \/ EndSave \/ Raise PROVE Goal
  <2>1. UNCHANGED <<log, step, launches, runlog>> /\ runlog = <<>>
    BY <1>9 DEF BeginSave, EndSave, Raise, Once
  <2>2. Timely' /\ (Fresh' => Fresh /\ SaidDone' = SaidDone)
    BY <1>9, <2>1 DEF BeginSave, EndSave, Raise, Timely, Fresh, SaidDone, EndedWell
  <2>3. QED
    BY <2>1, <2>2, LoggedStays
<1>10. ASSUME WriteCode PROVE Goal
  <2>1. /\ trainer \in {"zero", "nonzero"} /\ trainer' = "none" /\ runlog = <<>>
        /\ runlog' = Append(runlog, trainer) /\ UNCHANGED <<log, step, launches>>
    BY <1>10 DEF WriteCode, Once
  <2>2. runlog' = <<trainer>>
    BY <2>1
  <2>3. runlog' # <<>> /\ Last(runlog') = trainer
    BY <2>2 DEF Last
  <2>4. Timely' /\ (Fresh' => Fresh /\ SaidDone' = SaidDone)
    BY <2>1, <2>3 DEF Timely, Fresh, SaidDone, EndedWell
  <2>5. QED
    BY <2>1, <2>4, LoggedStays
<1>11. ASSUME Reboot PROVE Goal
  <2>1. UNCHANGED <<log, step, launches, runlog>> /\ trainer' = "none"
    BY <1>11 DEF Reboot
  <2>2. QED
    BY <1>1, <1>2, <2>1
<1>12. ASSUME PullAgain \/ Resume \/ OrphanBootstrap \/ Crash \/ UNCHANGED vars PROVE Goal
  BY <1>1, <1>12 DEF PullAgain, Resume, OrphanBootstrap, Crash, training, vars
<1> HIDE DEF Goal
<1>13. Goal
  BY <1>3, <1>4, <1>5, <1>6, <1>7, <1>8, <1>9, <1>10, <1>11, <1>12 DEF Next, Train
<1>14. QED
  BY <1>13 DEF Goal

\* Of such a log, read_series makes the curve of the last launch, where its losses
\* are numbers.
LEMMA CurveOfLogged ==
  ASSUME TypeOK, Timely, Logged, EndedWell, NEW s \in 1..Steps, HasNumber(s)
  PROVE  s \in DOMAIN Curve(log) /\ Curve(log)[s] = launches
<1>1. PICK n \in Nat : Shaped(n) /\ Latest(n)
  BY DEF Logged
<1>2. Steps \in Nat /\ step = Steps /\ SaidDone = 1 /\ Fresh
  BY RunFilesAssumption DEF Timely, SaidDone, Fresh
<1>3. /\ n >= Steps + 1 /\ log[2 * n].step = DoneEvent
      /\ \A k \in 1..Steps : /\ log[2 * (n - 1 - Steps + k)].launch = launches
                             /\ log[2 * (n - 1 - Steps + k)].step = k
  BY <1>1, <1>2 DEF Latest
<1>4. ASSUME NEW i \in 1..2 * n, log[i].half = 2 PROVE \E j \in 1..n : i = 2 * j
  <2> DEFINE j == (i + 1) \div 2
  <2>1. j \in 1..n /\ (i = 2 * j \/ i = 2 * j - 1)
    OBVIOUS
  <2>2. log[2 * j - 1].half = 1
    BY <1>1, <2>1 DEF Shaped
  <2> HIDE DEF j
  <2>3. i # 2 * j - 1
    BY <1>4, <2>2
  <2>4. QED
    BY <2>1, <2>3
<1>5. ASSUME NEW j \in 1..n PROVE 2 * j \in Parsed(log)
  <2>1. 2 * j \in 2..Len(log)
    BY <1>1 DEF Shaped
  <2>2. /\ log[2 * j].half = 2 /\ log[2 * j - 1].half = 1
        /\ log[2 * j].launch = log[2 * j - 1].launch /\ log[2 * j].step = log[2 * j - 1].step
    BY <1>1 DEF Shaped
  <2>3. 2 * j = 2 \/ log[2 * j - 2].half = 2
    <3>1. CASE j = 1
      BY <3>1
    <3>2. CASE j # 1
      <4>1. j - 1 \in 1..n /\ 2 * (j - 1) = 2 * j - 2
        BY <3>2
      <4>2. log[2 * (j - 1)].half = 2
        BY <1>1, <4>1 DEF Shaped
      <4>3. QED
        BY <4>1, <4>2
    <3>3. QED
      BY <3>1, <3>2
  <2>4. QED
    BY <2>1, <2>2, <2>3 DEF Parsed
<1> DEFINE last == 2 * (n - 1 - Steps + s)
           S == AtStep(log, s)
<1>6. n - 1 - Steps + s \in 1..n /\ last \in 1..2 * n /\ DOMAIN log = 1..2 * n
  BY <1>1, <1>2, <1>3 DEF Shaped, TypeOK
<1>7. log[last].launch = launches /\ log[last].step = s
  BY <1>3
<1>8. ASSUME NEW i \in 1..2 * n, log[i].half = 2, log[i].step = s PROVE i <= last
  <2>1. PICK j \in 1..n : i = 2 * j
    BY <1>4, <1>8
  <2>2. log[2 * j].step = s
    BY <1>8, <2>1
  <2>3. ASSUME j > n - 1 - Steps + s PROVE FALSE
    <3>1. CASE j = n
      BY <1>3, <2>2, <3>1 DEF DoneEvent
    <3>2. CASE j < n
      <4>1. j - (n - 1 - Steps) \in 1..Steps /\ n - 1 - Steps + (j - (n - 1 - Steps)) = j
        BY <1>2, <1>3, <2>3, <3>2
      <4>2. log[2 * j].step = j - (n - 1 - Steps)
        BY <1>3, <4>1
      <4>3. QED
        BY <1>2, <2>2, <2>3, <4>2
    <3>3. QED
      BY <3>1, <3>2
  <2>4. QED
    BY <1>2, <2>1, <2>3
<1>9. log[last].number
  <2>1. PICK i \in DOMAIN log : /\ log[i].step = s /\ log[i].half = 2 /\ log[i].number
                                /\ \A k \in DOMAIN log : log[k].step = s => k <= i
    BY DEF HasNumber
  <2>2. last <= i /\ i <= last
    BY <1>6, <1>7, <1>8, <2>1
  <2>3. i = last
    BY <1>6, <2>1, <2>2
  <2>4. QED
    BY <2>1, <2>3
<1>10. last \in S /\ \A i \in S : i \in 1..2 * n /\ i <= last
  <2>1. last \in S
    BY <1>5, <1>6, <1>7, <1>9 DEF AtStep
  <2>2. ASSUME NEW i \in S PROVE i \in 1..2 * n /\ i <= last
    <3>1. i \in 2..2 * n /\ log[i].half = 2 /\ log[i].step = s
      BY <1>1 DEF AtStep, Parsed, Shaped
    <3>2. QED
      BY <1>8, <3>1
  <2>3. QED
    BY <2>1, <2>2
<1> HIDE DEF last, S
<1>11. \A i \in S : (\A k \in S : k <= i) => i = last
  BY <1>6, <1>10
<1>12. (CHOOSE i \in S : \A k \in S : k <= i) = last
  BY <1>10, <1>11
<1>13. QED
  BY <1>7, <1>10, <1>12 DEF S, Curve

\* If no reboot cuts a line and a resumed supervisor sees what the box is doing,
\* the curve of a run that trained to its end is that of its last launch wherever
\* the loss is a number, however many launches were cut off before.
THEOREM CurveCorrect ==
  ASSUME Faults \cap {"torn", "blip"} = {}
  PROVE  Spec => []CurveIsOfLastLaunch
<1> DEFINE Inv == TypeOK /\ Numbered /\ MirrorIsPrefix /\ Once /\ Brought /\ Timely /\ Logged
<1>1. ASSUME Init PROVE Inv
  <2>1. Once /\ Brought
    BY <1>1 DEF Init, Once, Brought, EndedWell
  <2>2. Timely /\ ~Fresh
    BY <1>1 DEF Init, Timely, Fresh, EndedWell
  <2>3. Len(log) = 0
    BY <1>1 DEF Init
  <2>4. Shaped(0) /\ Latest(0)
    BY <2>2, <2>3 DEF Shaped, Latest
  <2>5. QED
    BY <1>1, <2>1, <2>2, <2>4, TypedInit DEF Logged
<1>2. Inv /\ [Next]_vars => Inv'
  BY TypeStep, PrefixStep, BroughtStep, LoggedStep
<1>3. Inv => CurveIsOfLastLaunch
  BY CurveOfLogged DEF CurveIsOfLastLaunch, Once
<1>4. QED
  BY <1>1, <1>2, <1>3, PTL DEF Spec
=============================================================================
