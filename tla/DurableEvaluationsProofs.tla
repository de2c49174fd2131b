----------------------- MODULE DurableEvaluationsProofs -----------------------
(***************************************************************************)
(* Proofs about DurableEvaluations for every number of evaluations, every  *)
(* limit of the retries and every number of crashes: what is recorded is   *)
(* genuine, a restart file keeps its records from run to run, and what was *)
(* recorded is not simulated again.                                        *)
(***************************************************************************)
EXTENDS DurableEvaluations, FiniteSetTheorems, SequenceTheorems,
        WellFoundedInduction, TLAPS

-----------------------------------------------------------------------------
(* The inductive invariant.  It says what is known of the evaluations (the *)
(* set the program tracks, the completions, data_pairs), what is known of  *)
(* the files and the stream, and how a phase of the program relates them.  *)

(* What may be recorded of an evaluation.                                  *)
Values == Good \cup {"recovery"}
Acceptable(e) ==
  {v \in Values :
     \/ v = "own"
     \/ v = "recovery" /\ setting.failAction = "recover"
     \/ v = "continued" /\ Continued(e)
     \/ v = "between" /\ setting.failAction = "continuation"
        /\ setting.allowExisting}
Record == {r \in [id : Evals, value : Values] : r.value \in Acceptable(r.id)}
File == [header : BOOLEAN, recs : Seq(Record), torn : BOOLEAN]

Elems(s) == {s[i] : i \in DOMAIN s}
IdsDistinct(S) == \A r, s \in S : r.id = s.id => r = s

(* The typing of what the proofs look at.                                  *)
Typed ==
  /\ tracked \in SUBSET Evals /\ untested \in SUBSET tracked
  /\ completion \in SUBSET Evals
  /\ DOMAIN response = Evals /\ DOMAIN repair = DOMAIN NoRepair
  /\ disk \in [Files -> File]
  /\ current \in Files /\ writing \in Files
  /\ stream \in Seq(Record)
  /\ cache \in SUBSET Record /\ flushed \in SUBSET Record

(* The evaluations of this run: none that it tracks or has completed is in *)
(* data_pairs; a completion leaves the tracked set with the pass that      *)
(* found it, and what was read for it may be recorded.                     *)
Evaluations ==
  /\ \A e \in tracked \cup completion : ~Known(e)
  /\ pc = "idle" => completion = {}
  /\ pc = "process" => tracked \cap completion = {}
  /\ pc = "repair" => repair.eval \in untested
  /\ \A e \in completion : response[e] \in Acceptable(e)

(* The results files: only a continuation simulates at variables that are  *)
(* not the evaluation's own, and the others it takes from a source.        *)
Contents == {"none", "partial", "fail"} \cup Good
FileOrigins ==
  /\ results \in [Evals -> Contents]
  /\ \A e \in Evals :
       /\ results[e] = "between" => setting.failAction = "continuation"
       /\ results[e] = "continued" => Continued(e)
RepairPoint ==
  pc = "repair" =>
    /\ \E d \in Evals : repair.others = setting.others[d]
    /\ setting.failAction # "continuation" =>
         OnTarget /\ repair.others = setting.others[repair.eval]

(* A file of an intermediate point is there for an evaluation in flight    *)
(* only while its continuation reads it: what a killed run left is removed *)
(* before the evaluation starts.                                           *)
FreshFiles ==
  \/ setting.allowExisting
  \/ \A e \in tracked : results[e] = "between" =>
        pc = "repair" /\ repair.eval = e /\ ~OnTarget
ResultsFiles == FileOrigins /\ RepairPoint /\ FreshFiles

(* The program evaluates only while its phase is "run".                    *)
Idle == tracked = {} /\ untested = {} /\ completion = {} /\ pc = "idle"
Phases ==
  /\ phase \in {"down", "read", "open", "run"}
  /\ phase # "run" => Idle
  /\ phase \in {"down", "read"} => stream = <<>>
  /\ phase = "open" => cache \subseteq Elems(stream)
  /\ phase \in {"open", "run"} =>
       Records(writing) \cup Elems(stream) \subseteq cache
  /\ phase = "run" => writing = current

(* An evaluation has one record, in data_pairs and on each file, and a     *)
(* file without a header holds none.                                       *)
OneRecordEach ==
  /\ IdsDistinct(cache)
  /\ \A f \in Files :
       /\ IdsDistinct(Records(f))
       /\ disk[f].header \/ disk[f].recs = <<>>

(* Where the records are that were flushed in this run or an earlier one.  *)
Kept ==
  \/ overwritten
  \/ /\ \/ phase = "open" /\ writing = current
        \/ flushed \subseteq Records(current)
     /\ phase # "down" => flushed \subseteq cache

DInv ==
  /\ Typed /\ Evaluations /\ ResultsFiles
  /\ Phases /\ OneRecordEach /\ Kept

-----------------------------------------------------------------------------
(* Facts about sequences and about the order in which a restart file is    *)
(* written again.                                                          *)

(* Appending one sequence of records to another appends their elements.    *)
LEMMA ConcatElems ==
  ASSUME NEW R, NEW s \in Seq(R), NEW t \in Seq(R)
  PROVE  /\ s \o t \in Seq(R)
         /\ Elems(s \o t) = Elems(s) \cup Elems(t)
<1> DEFINE u == s \o t
<1>1. /\ u \in Seq(R) /\ Len(u) = Len(s) + Len(t)
      /\ \A i \in 1 .. Len(s) + Len(t) :
           u[i] = IF i <= Len(s) THEN s[i] ELSE t[i - Len(s)]
  BY ConcatProperties
<1>2. /\ DOMAIN s = 1 .. Len(s) /\ DOMAIN t = 1 .. Len(t)
      /\ DOMAIN u = 1 .. Len(u) /\ Len(s) \in Nat /\ Len(t) \in Nat
  BY <1>1, LenProperties
<1> HIDE DEF u
<1>3. ASSUME NEW x \in Elems(u) PROVE x \in Elems(s) \cup Elems(t)
  <2>1. PICK i \in 1 .. Len(s) + Len(t) : x = u[i]
    BY <1>1, <1>2, <1>3 DEF Elems
  <2>2. CASE i <= Len(s)
    <3>1. i \in DOMAIN s /\ x = s[i]
      BY <1>1, <1>2, <2>1, <2>2
    <3>2. QED
      BY <3>1 DEF Elems
  <2>3. CASE ~(i <= Len(s))
    <3>1. i - Len(s) \in DOMAIN t /\ x = t[i - Len(s)]
      BY <1>1, <1>2, <2>1, <2>3
    <3>2. QED
      BY <3>1 DEF Elems
  <2>4. QED
    BY <2>2, <2>3
<1>4. ASSUME NEW x \in Elems(s) PROVE x \in Elems(u)
  <2>1. PICK i \in 1 .. Len(s) : x = s[i]
    BY <1>2, <1>4 DEF Elems
  <2>2. i \in DOMAIN u /\ u[i] = x
    BY <1>1, <1>2, <2>1
  <2>3. QED
    BY <2>2 DEF Elems
<1>5. ASSUME NEW x \in Elems(t) PROVE x \in Elems(u)
  <2>1. PICK i \in 1 .. Len(t) : x = t[i]
    BY <1>2, <1>5 DEF Elems
  <2>2. i + Len(s) \in 1 .. Len(s) + Len(t) /\ i + Len(s) - Len(s) = i
        /\ ~(i + Len(s) <= Len(s))
    BY <1>2, <2>1
  <2>3. i + Len(s) \in DOMAIN u /\ u[i + Len(s)] = x
    BY <1>1, <1>2, <2>1, <2>2
  <2>4. QED
    BY <2>3 DEF Elems
<1>6. QED
  BY <1>1, <1>3, <1>4, <1>5 DEF u

(* What may reach the disk of a stream are elements of the stream, and a   *)
(* flush brings them all.                                                  *)
LEMMA PrefixElems ==
  ASSUME NEW R, NEW t \in Seq(R), NEW n \in 0 .. Len(t)
  PROVE  /\ SubSeq(t, 1, n) \in Seq(R)
         /\ Elems(SubSeq(t, 1, n)) \subseteq Elems(t)
         /\ n = Len(t) => SubSeq(t, 1, n) = t
<1> DEFINE u == SubSeq(t, 1, n)
<1>1. /\ Len(t) \in Nat /\ DOMAIN t = 1 .. Len(t)
      /\ \A i \in 1 .. n : t[i] \in R
  BY LenProperties, ElementOfSeq
<1>2. u \in Seq(R) /\ Len(u) = n /\ \A i \in 1 .. n : u[i] = t[i]
  BY <1>1, SubSeqProperties
<1>3. DOMAIN u = 1 .. n
  BY <1>2, LenProperties
<1>4. Elems(u) \subseteq Elems(t)
  <2> HIDE DEF u
  <2>1. QED
    BY <1>1, <1>2, <1>3 DEF Elems
<1>5. QED
  BY <1>2, <1>4, SubSeqFull

(* The elements of a stream to which a record is appended.                 *)
LEMMA AppendElems ==
  ASSUME NEW R, NEW s \in Seq(R), NEW r \in R
  PROVE  /\ Append(s, r) \in Seq(R)
         /\ Elems(Append(s, r)) = Elems(s) \cup {r}
<1> DEFINE u == Append(s, r)
<1>1. /\ u \in Seq(R) /\ Len(u) = Len(s) + 1
      /\ \A i \in 1 .. Len(s) : u[i] = s[i]
      /\ u[Len(s) + 1] = r
  BY AppendProperties
<1>2. /\ DOMAIN s = 1 .. Len(s) /\ DOMAIN u = 1 .. Len(s) + 1
      /\ Len(s) \in Nat
  BY <1>1, LenProperties
<1> HIDE DEF u
<1>3. 1 .. Len(s) + 1 = (1 .. Len(s)) \cup {Len(s) + 1}
  BY <1>2
<1>4. Elems(u) = Elems(s) \cup {r}
  BY <1>1, <1>2, <1>3 DEF Elems
<1>5. QED
  BY <1>1, <1>4 DEF u

(* AsSequence, the order of the records in a file that is written again:   *)
(* when every evaluation has one record, it lists each record it is given  *)
(* and nothing else.                                                       *)
LEMMA AsSequenceLists ==
  ASSUME NEW S, IsFiniteSet(S), \A r \in S : r.id \in Int, IdsDistinct(S)
  PROVE  /\ AsSequence(S) \in Seq(S)
         /\ Elems(AsSequence(S)) = S
<1> DEFINE below(r) == {s \in S : s.id < r.id}
           rank == [r \in S |-> Cardinality(below(r))]
           n == Cardinality(S)
<1>1. n \in Nat
  BY FS_CardinalityType
<1>2. ASSUME NEW r \in S
      PROVE  /\ IsFiniteSet(below(r)) /\ Cardinality(below(r)) \in Nat
             /\ Cardinality(below(r)) < n
  <2>1. below(r) \in SUBSET S /\ r \notin below(r)
    OBVIOUS
  <2>2. IsFiniteSet(below(r)) /\ Cardinality(below(r)) <= n
        /\ Cardinality(below(r)) # n
    BY <2>1, FS_Subset
  <2>3. Cardinality(below(r)) \in Nat
    BY <2>2, FS_CardinalityType
  <2>4. QED
    BY <1>1, <2>2, <2>3
<1>3. ASSUME NEW r \in S, NEW q \in S, r.id < q.id
      PROVE  Cardinality(below(r)) < Cardinality(below(q))
  <2>1. below(r) \in SUBSET below(q) /\ r \in below(q) /\ r \notin below(r)
    BY <1>3
  <2>2. Cardinality(below(r)) # Cardinality(below(q))
        /\ Cardinality(below(r)) <= Cardinality(below(q))
    BY <1>2, <2>1, FS_Subset
  <2>3. Cardinality(below(r)) \in Nat /\ Cardinality(below(q)) \in Nat
    BY <1>2
  <2> HIDE DEF below
  <2>4. QED
    BY <2>2, <2>3
<1>4. ASSUME NEW r \in S, NEW q \in S, rank[r] = rank[q]
      PROVE  r = q
  <2>1. Cardinality(below(r)) = Cardinality(below(q))
    BY <1>4
  <2>2. Cardinality(below(r)) \in Nat
    BY <1>2
  <2>3. ~(r.id < q.id) /\ ~(q.id < r.id)
    <3>1. ~(Cardinality(below(r)) < Cardinality(below(q)))
          /\ ~(Cardinality(below(q)) < Cardinality(below(r)))
      <4> HIDE DEF below
      <4>1. QED
        BY <2>1, <2>2
    <3> HIDE DEF below, rank
    <3>2. QED
      BY <1>3, <3>1
  <2>4. r.id \in Int /\ q.id \in Int
    OBVIOUS
  <2>5. r.id = q.id
    BY <2>3, <2>4
  <2>6. QED
    BY <2>5 DEF IdsDistinct
<1>5. rank \in [S -> 0 .. n - 1]
  <2>1. \A r \in S : Cardinality(below(r)) \in 0 .. n - 1
    <3> HIDE DEF below, n
    <3>1. QED
      BY <1>1, <1>2
  <2>2. QED
    BY <2>1, Zenon
<1>6. IsFiniteSet(0 .. n - 1) /\ Cardinality(0 .. n - 1) = n
  BY <1>1, FS_Interval
<1>7. rank \in Surjection(S, 0 .. n - 1)
  <2>1. rank \in Injection(S, 0 .. n - 1)
    BY <1>4, <1>5 DEF Injection, IsInjective
  <2>2. QED
    BY <1>6, <2>1, FS_Injection
<1>8. ASSUME NEW i \in 1 .. n
      PROVE  AsSequence(S)[i] \in S /\ rank[AsSequence(S)[i]] = i - 1
  <2>1. i - 1 \in 0 .. n - 1
    BY <1>1
  <2>2. \E r \in S : rank[r] = i - 1
    BY <1>7, <2>1 DEF Surjection
  <2>3. \E r \in S : Cardinality(below(r)) = i - 1
    BY <2>2
  <2>4. AsSequence(S)[i] = CHOOSE r \in S : Cardinality(below(r)) = i - 1
    BY DEF AsSequence
  <2>5. QED
    BY <2>3, <2>4
<1>9. DOMAIN AsSequence(S) = 1 .. n
  BY DEF AsSequence
<1>10. AsSequence(S) \in Seq(S)
  <2>1. \A i \in 1 .. n :
          (CHOOSE r \in S : Cardinality(below(r)) = i - 1) \in S
    <3>1. \A i \in 1 .. n : AsSequence(S)[i]
                              = CHOOSE r \in S : Cardinality(below(r)) = i - 1
      BY DEF AsSequence
    <3>2. QED
      BY <1>8, <3>1, Zenon
  <2>2. AsSequence(S) \in [1 .. n -> S]
    BY <2>1, Zenon DEF AsSequence
  <2>3. QED
    BY <1>1, <2>2
<1>11. ASSUME NEW r \in S PROVE r \in Elems(AsSequence(S))
  <2>1. rank[r] \in 0 .. n - 1
    BY <1>5
  <2>2. PICK i \in 1 .. n : i - 1 = rank[r]
    <3> HIDE DEF rank, n
    <3>1. QED
      BY <1>1, <2>1
  <2>3. AsSequence(S)[i] \in S /\ rank[AsSequence(S)[i]] = rank[r]
    BY <1>8, <2>2, Zenon
  <2>4. AsSequence(S)[i] = r
    <3> HIDE DEF rank
    <3>1. QED
      BY <1>4, <2>3
  <2>5. QED
    BY <1>9, <2>4 DEF Elems
<1>12. Elems(AsSequence(S)) \subseteq S
  <2> HIDE DEF rank, n
  <2>1. QED
    BY <1>8, <1>9 DEF Elems
<1>13. QED
  BY <1>10, <1>11, <1>12

-----------------------------------------------------------------------------
(* The steps of the interface, which leave data_pairs and the files alone. *)

(* The records of a file are the elements of its sequence.                 *)
LEMMA RecordsAreElems ==
  ASSUME NEW f
  PROVE  /\ Records(f) = Elems(disk[f].recs)
         /\ Records(f)' = Elems(disk'[f].recs)
BY DEF Records, Elems

(* What may be recorded is settled by the setting of the study.            *)
LEMMA SettingStays ==
  ASSUME UNCHANGED setting
  PROVE  /\ Record' = Record /\ File' = File
         /\ \A x \in Evals : Acceptable(x)' = Acceptable(x)
<1>1. \A x : Acceptable(x)' = Acceptable(x)
  BY DEF Acceptable, Values, Good, Continued, Evals
<1>2. Record' = Record
  BY <1>1 DEF Record, Evals, Values, Good
<1>3. QED
  BY <1>1, <1>2 DEF File

(* A step that changes nothing of the results files or of what is repaired.*)
LEMMA FilesStand ==
  ASSUME ResultsFiles,
         UNCHANGED <<setting, results, tracked, pc, repair>>
  PROVE  ResultsFiles'
BY DEF ResultsFiles, FileOrigins, RepairPoint, FreshFiles, Contents, Good,
       Continued, Evals, OnTarget

(* A step outside a repair after which the results files are what they     *)
(* were, or gone, and nothing new is in flight.                            *)
LEMMA FilesOfPass ==
  ASSUME ResultsFiles, UNCHANGED setting, pc # "repair", pc' # "repair",
         tracked \in SUBSET Evals, tracked' \in SUBSET tracked,
         results' \in [Evals -> Contents],
         \A d \in Evals : results'[d] \in {results[d], "none"}
  PROVE  ResultsFiles'
<1>1. FileOrigins'
  BY DEF ResultsFiles, FileOrigins, Contents, Good, Continued, Evals
<1>2. RepairPoint'
  BY DEF RepairPoint
<1>3. FreshFiles'
  BY DEF ResultsFiles, FreshFiles
<1>4. QED
  BY <1>1, <1>2, <1>3 DEF ResultsFiles

(* The results file of one evaluation is written or removed.               *)
LEMMA OneFile ==
  ASSUME ResultsFiles, UNCHANGED setting, NEW e \in Evals,
         NEW v \in Contents, results' = [results EXCEPT ![e] = v],
         v = "between" => setting.failAction = "continuation",
         v = "continued" => Continued(e)
  PROVE  /\ FileOrigins' /\ results' \in [Evals -> Contents]
         /\ results'[e] = v /\ \A d \in Evals : d # e => results'[d] = results[d]
<1>1. /\ results \in [Evals -> Contents] /\ results' \in [Evals -> Contents]
      /\ results'[e] = v /\ \A d \in Evals : d # e => results'[d] = results[d]
  BY DEF ResultsFiles, FileOrigins
<1>2. FileOrigins'
  BY <1>1 DEF ResultsFiles, FileOrigins, Contents, Good, Continued, Evals
<1>3. QED
  BY <1>1, <1>2

(* A step of the interface while the program runs keeps the invariant when *)
(* it keeps what is said of the evaluations.                               *)
LEMMA InterfaceStep ==
  ASSUME DInv, phase = "run", UNCHANGED setting, UNCHANGED restartVars,
         tracked' \in SUBSET Evals, untested' \in SUBSET tracked',
         completion' \in SUBSET Evals,
         DOMAIN response' = Evals, DOMAIN repair' = DOMAIN NoRepair,
         Evaluations', ResultsFiles'
  PROVE  DInv'
<1>1. Typed'
  <2>1. Record' = Record /\ File' = File
    BY SettingStays
  <2>2. QED
    BY <2>1 DEF DInv, Typed, restartVars, Evals, Files, NoRepair
<1>2. Phases'
  BY DEF DInv, Phases, restartVars, Records
<1>3. OneRecordEach'
  BY DEF DInv, OneRecordEach, restartVars, Records, Files
<1>4. Kept'
  BY DEF DInv, Kept, restartVars, Records
<1>5. QED
  BY <1>1, <1>2, <1>3, <1>4 DEF DInv

(* A step that changes at most results files of what the invariant         *)
(* mentions.                                                               *)
LEMMA OutsideStep ==
  ASSUME DInv, ResultsFiles',
         UNCHANGED <<setting, tracked, untested, completion, response, pc,
                     repair>>,
         UNCHANGED restartVars
  PROVE  DInv'
<1>1. /\ Record' = Record /\ File' = File
      /\ \A x \in Evals : Acceptable(x)' = Acceptable(x)
  BY SettingStays
<1>2. Typed'
  BY <1>1 DEF DInv, Typed, restartVars, Evals, Files, NoRepair
<1>3. Evaluations'
  BY <1>1 DEF DInv, Typed, Evaluations, restartVars, Known
<1>4. Phases'
  BY DEF DInv, Phases, restartVars, Records, Idle
<1>5. OneRecordEach' /\ Kept'
  BY DEF DInv, OneRecordEach, Kept, restartVars, Records, Files
<1>6. QED
  BY <1>2, <1>3, <1>4, <1>5 DEF DInv

(* An evaluation of the pass is complete with a response that may be       *)
(* recorded.                                                               *)
LEMMA CompleteStep ==
  ASSUME DInv, phase = "run", UNCHANGED setting, UNCHANGED restartVars,
         NEW e \in untested, NEW v \in Acceptable(e), Complete(e, v),
         pc' = "pass", DOMAIN repair' = DOMAIN NoRepair, ResultsFiles'
  PROVE  DInv'
<1>1. e \in Evals /\ e \in tracked
  BY DEF DInv, Typed
<1>2. tracked' \in SUBSET tracked /\ untested' = untested \ {e}
  BY DEF Complete
<1>3. tracked' \in SUBSET Evals /\ untested' \in SUBSET tracked'
      /\ completion' \in SUBSET Evals
  BY <1>1 DEF DInv, Typed, Complete
<1>4. /\ DOMAIN response' = Evals
      /\ \A d \in Evals : response'[d] = IF d = e THEN v ELSE response[d]
  BY <1>1 DEF DInv, Typed, Complete
<1>5. Evaluations'
  <2>1. \A d \in tracked' \cup completion' : ~Known(d)'
    BY <1>1, <1>2 DEF DInv, Evaluations, Complete, Known, restartVars
  <2>2. \A d \in completion' : response'[d] \in Acceptable(d)'
    <3>1. \A x \in Evals : Acceptable(x)' = Acceptable(x)
      BY SettingStays
    <3>2. \A d \in completion' : d \in Evals /\ (d = e \/ d \in completion)
      BY <1>1 DEF DInv, Typed, Complete
    <3>3. QED
      BY <1>4, <3>1, <3>2 DEF DInv, Evaluations
  <2>3. QED
    BY <2>1, <2>2 DEF Evaluations
<1>6. QED
  BY <1>3, <1>4, <1>5, InterfaceStep

(* What a pass comes to next is among what it has not come to.             *)
LEMMA ReachableUntested == Reachable \subseteq untested
BY DEF Reachable

(* map() and the scheduler: an evaluation that is not in data_pairs is     *)
(* started.                                                                *)
LEMMA LaunchNextDInv ==
  ASSUME DInv, LaunchNext
  PROVE  DInv'
<1>1. PICK e \in Wanted : Launch(e)
  BY DEF LaunchNext
<1>2. e \in Evals /\ ~Known(e)
  BY DEF Wanted
<1>3. /\ phase = "run" /\ UNCHANGED setting /\ UNCHANGED restartVars
      /\ tracked' = tracked \cup {e} /\ results' = OldResults(e) /\ pc = "idle"
      /\ UNCHANGED <<untested, completion, response, pc, repair>>
  BY <1>1 DEF LaunchNext, Running, Launch
<1>4. Evaluations'
  <2>1. \A x \in Evals : Acceptable(x)' = Acceptable(x)
    BY <1>3, SettingStays
  <2>2. pc = "idle" /\ completion = {}
    BY DEF LaunchNext, DInv, Evaluations
  <2>3. \A d \in tracked' \cup completion' : ~Known(d)'
    BY <1>2, <1>3 DEF DInv, Evaluations, Known, restartVars
  <2>4. QED
    BY <1>3, <2>1, <2>2, <2>3 DEF Evaluations
<1>5. /\ tracked' \in SUBSET Evals /\ untested' \in SUBSET tracked'
      /\ completion' \in SUBSET Evals
      /\ DOMAIN response' = Evals /\ DOMAIN repair' = DOMAIN NoRepair
  BY <1>2, <1>3 DEF DInv, Typed
<1>6. ResultsFiles'
  <2>1. /\ ResultsFiles /\ results \in [Evals -> Contents]
        /\ tracked \in SUBSET Evals
    BY DEF DInv, Typed, ResultsFiles, FileOrigins
  <2>2. CASE setting.allowExisting
    <3>1. results' = results
      BY <1>3, <2>2 DEF OldResults
    <3>2. FileOrigins'
      BY <1>3, <2>1, <3>1 DEF ResultsFiles, FileOrigins, Contents, Good,
                               Continued, Evals
    <3>3. QED
      BY <1>3, <2>2, <3>2 DEF ResultsFiles, RepairPoint, FreshFiles
  <2>3. CASE ~setting.allowExisting
    <3>1. results' = [results EXCEPT ![e] = "none"]
      BY <1>3, <2>3 DEF OldResults
    <3>2. /\ FileOrigins' /\ results'[e] = "none"
          /\ \A d \in Evals : d # e => results'[d] = results[d]
      BY <1>2, <1>3, <2>1, <3>1, OneFile DEF Contents
    <3>3. FreshFiles'
      BY <1>3, <2>1, <2>3, <3>2 DEF ResultsFiles, FreshFiles
    <3>4. QED
      BY <1>3, <3>2, <3>3 DEF ResultsFiles, RepairPoint
  <2>4. QED
    BY <2>2, <2>3
<1>7. QED
  BY <1>3, <1>4, <1>5, <1>6, InterfaceStep

(* A pass begins.                                                          *)
LEMMA PollDInv ==
  ASSUME DInv, Poll
  PROVE  DInv'
<1>1. /\ phase = "run" /\ UNCHANGED setting /\ UNCHANGED restartVars
      /\ untested' = tracked /\ pc = "idle" /\ pc' = "pass"
      /\ UNCHANGED <<results, tracked, completion, response, repair>>
  BY DEF Poll, Running, BeginPass
<1>2. Evaluations'
  <2>1. \A x \in Evals : Acceptable(x)' = Acceptable(x)
    BY <1>1, SettingStays
  <2>2. QED
    BY <1>1, <2>1 DEF DInv, Evaluations, Known, restartVars
<1>3. /\ tracked' \in SUBSET Evals /\ untested' \in SUBSET tracked'
      /\ completion' \in SUBSET Evals
      /\ DOMAIN response' = Evals /\ DOMAIN repair' = DOMAIN NoRepair
  BY <1>1 DEF DInv, Typed
<1>4. ResultsFiles'
  BY <1>1, FilesOfPass DEF DInv, Typed, ResultsFiles, FileOrigins
<1>5. QED
  BY <1>1, <1>2, <1>3, <1>4, InterfaceStep

(* The tests of a pass: an evaluation is passed over, or completed by the  *)
(* complete results file that was read; the pass ends.                     *)
LEMMA TestDInv ==
  ASSUME DInv, Test
  PROVE  DInv'
<1>1. /\ phase = "run" /\ UNCHANGED restartVars
  BY DEF Test, Running
<1>2. ASSUME TestMissing \/ TestIncomplete PROVE DInv'
  <2>1. /\ UNCHANGED setting
        /\ untested' \in SUBSET untested /\ pc = "pass"
        /\ UNCHANGED <<results, tracked, completion, response, pc, repair>>
    BY <1>2 DEF TestMissing, TestIncomplete
  <2>2. Evaluations'
    <3>1. \A x \in Evals : Acceptable(x)' = Acceptable(x)
      BY <2>1, SettingStays
    <3>2. QED
      BY <1>1, <2>1, <3>1 DEF DInv, Typed, Evaluations, Known, restartVars
  <2>3. /\ tracked' \in SUBSET Evals /\ untested' \in SUBSET tracked'
        /\ completion' \in SUBSET Evals
        /\ DOMAIN response' = Evals /\ DOMAIN repair' = DOMAIN NoRepair
    BY <2>1 DEF DInv, Typed
  <2>4. ResultsFiles'
    BY <2>1, FilesOfPass DEF DInv, Typed, ResultsFiles, FileOrigins
  <2>5. QED
    BY <1>1, <2>1, <2>2, <2>3, <2>4, InterfaceStep
<1>3. CASE TestGood
  <2>1. PICK e \in Reachable :
          /\ results[e] \in Good /\ Complete(e, results[e])
          /\ results' = [results EXCEPT ![e] = "none"]
    BY <1>3 DEF TestGood
  <2>2. /\ e \in untested /\ e \in Evals /\ e \in tracked
        /\ UNCHANGED setting /\ pc = "pass" /\ pc' = "pass"
        /\ DOMAIN repair' = DOMAIN NoRepair
    BY <1>3, ReachableUntested DEF TestGood, DInv, Typed
  <2>3. results[e] \in Acceptable(e)
    BY <2>1, <2>2 DEF DInv, ResultsFiles, FileOrigins, FreshFiles, Acceptable,
                      Values, Good
  <2>4. ResultsFiles'
    <3>1. tracked' \in SUBSET tracked
      BY <2>1 DEF Complete
    <3>2. /\ results' \in [Evals -> Contents]
          /\ \A d \in Evals : results'[d] \in {results[d], "none"}
      BY <2>1, <2>2 DEF DInv, ResultsFiles, FileOrigins, Contents
    <3>3. QED
      BY <2>2, <3>1, <3>2, FilesOfPass DEF DInv, Typed
  <2>5. QED
    BY <1>1, <2>1, <2>2, <2>3, <2>4, CompleteStep
<1>4. CASE EndPass
  <2>1. /\ UNCHANGED setting
        /\ tracked' = tracked \ completion /\ untested' = {}
        /\ pc = "pass" /\ pc' = IF completion = {} THEN "idle" ELSE "process"
        /\ UNCHANGED <<results, completion, response, repair>>
    BY <1>4 DEF EndPass
  <2>2. Evaluations'
    <3>1. \A x \in Evals : Acceptable(x)' = Acceptable(x)
      BY <2>1, SettingStays
    <3>2. QED
      BY <1>1, <2>1, <3>1 DEF DInv, Typed, Evaluations, Known, restartVars
  <2>3. /\ tracked' \in SUBSET Evals /\ untested' \in SUBSET tracked'
        /\ completion' \in SUBSET Evals
        /\ DOMAIN response' = Evals /\ DOMAIN repair' = DOMAIN NoRepair
    BY <2>1 DEF DInv, Typed
  <2>4. ResultsFiles'
    BY <2>1, FilesOfPass DEF DInv, Typed, ResultsFiles, FileOrigins
  <2>5. QED
    BY <1>1, <2>1, <2>2, <2>3, <2>4, InterfaceStep
<1>5. QED
  BY <1>2, <1>3, <1>4 DEF Test

(* What a derived_map of a repair simulates: the evaluation's own          *)
(* variables, or a point of a continuation.                                *)
LEMMA PointIs ==
  ASSUME ResultsFiles, pc = "repair", repair.eval \in Evals
  PROVE  /\ PointOfRepair \in Good
         /\ PointOfRepair = "between" =>
              ~OnTarget /\ setting.failAction = "continuation"
         /\ PointOfRepair = "continued" => Continued(repair.eval)
<1>1. CASE ~OnTarget
  <2>1. PointOfRepair = "between"
    BY <1>1 DEF PointOfRepair
  <2>2. QED
    BY <1>1, <2>1 DEF ResultsFiles, RepairPoint, Good
<1>2. CASE OnTarget /\ repair.others = setting.others[repair.eval]
  BY <1>2 DEF PointOfRepair, Good
<1>3. CASE OnTarget /\ repair.others # setting.others[repair.eval]
  <2>1. PointOfRepair = "continued"
    BY <1>3 DEF PointOfRepair
  <2>2. Continued(repair.eval)
    BY <1>3 DEF ResultsFiles, RepairPoint, Continued
  <2>3. QED
    BY <2>1, <2>2 DEF Good
<1>4. QED
  BY <1>1, <1>2, <1>3

(* A repair that goes on touches nothing but its own state and its results *)
(* file.                                                                   *)
LEMMA RepairGoesOn ==
  ASSUME DInv, phase = "run", UNCHANGED restartVars,
         UNCHANGED <<setting, tracked, untested, completion, response>>,
         pc' = "repair", DOMAIN repair' = DOMAIN NoRepair,
         repair'.eval \in untested, ResultsFiles'
  PROVE  DInv'
<1>1. Evaluations'
  <2>1. \A x \in Evals : Acceptable(x)' = Acceptable(x)
    BY SettingStays
  <2>2. QED
    BY <2>1 DEF DInv, Typed, Evaluations, Known, restartVars
<1>2. /\ tracked' \in SUBSET Evals /\ untested' \in SUBSET tracked'
      /\ completion' \in SUBSET Evals /\ DOMAIN response' = Evals
  BY DEF DInv, Typed
<1>3. QED
  BY <1>1, <1>2, InterfaceStep

(* manage_failure: recovery values where they were asked for.              *)
LEMMA RecoverDInv ==
  ASSUME DInv, phase = "run", UNCHANGED restartVars, Recover
  PROVE  DInv'
<1>1. PICK e \in Reachable : Complete(e, "recovery")
  BY DEF Recover
<1>2. /\ e \in untested /\ "recovery" \in Acceptable(e)
      /\ UNCHANGED <<setting, results>>
      /\ pc = "pass" /\ pc' = "pass" /\ DOMAIN repair' = DOMAIN NoRepair
  BY ReachableUntested DEF Recover, Acceptable, Values, DInv, Typed
<1>3. ResultsFiles'
  <2>1. tracked' \in SUBSET tracked
    BY <1>1 DEF Complete
  <2>2. QED
    BY <1>2, <2>1, FilesOfPass DEF DInv, Typed, ResultsFiles, FileOrigins
<1>4. QED
  BY <1>1, <1>2, <1>3, CompleteStep

(* A retry starts at the evaluation's own variables, a continuation on the *)
(* way from its source.                                                    *)
LEMMA StartRepairDInv ==
  ASSUME DInv, phase = "run", UNCHANGED restartVars,
         StartRetry \/ StartContinuation(cache)
  PROVE  DInv'
<1>1. /\ UNCHANGED <<setting, results, tracked, untested, completion, response>>
      /\ pc = "pass" /\ pc' = "repair"
  BY DEF StartRetry, StartContinuation
<1>2. /\ DOMAIN repair' = DOMAIN NoRepair /\ repair'.eval \in untested
      /\ RepairPoint'
  <2>1. CASE StartRetry
    <3>1. PICK e \in Reachable :
            repair' = [NoRepair EXCEPT !.eval = e, !.at = Target,
                                       !.others = setting.others[e]]
      BY <2>1 DEF StartRetry
    <3>2. e \in untested /\ e \in Evals
      BY ReachableUntested DEF DInv, Typed
    <3>3. /\ repair'.eval = e /\ repair'.at = Target /\ ~repair'.off
          /\ repair'.others = setting.others[e]
          /\ DOMAIN repair' = DOMAIN NoRepair
      BY <3>1 DEF NoRepair
    <3>4. Target' = Target
      BY DEF Target
    <3>5. OnTarget'
      BY <1>1, <3>3, <3>4 DEF OnTarget
    <3>6. QED
      BY <1>1, <3>2, <3>3, <3>5 DEF RepairPoint, Evals
  <2>2. CASE StartContinuation(cache)
    <3>1. PICK e \in Reachable, s \in SourcePair(cache) :
            repair' = [NoRepair EXCEPT !.eval = e, !.at = Target \div 2,
                                       !.step = Target \div 2,
                                       !.others = setting.others[s.id]]
      BY <2>2 DEF StartContinuation
    <3>2. e \in untested /\ s.id \in Evals
      BY ReachableUntested DEF DInv, Typed, SourcePair, Record
    <3>3. /\ repair'.eval = e /\ repair'.others = setting.others[s.id]
          /\ DOMAIN repair' = DOMAIN NoRepair
      BY <3>1 DEF NoRepair
    <3>4. setting'.failAction = "continuation"
      BY <2>2 DEF StartContinuation
    <3>5. QED
      BY <1>1, <3>2, <3>3, <3>4 DEF RepairPoint, Evals
  <2>3. QED
    BY <2>1, <2>2
<1>3. ResultsFiles'
  <2>1. FileOrigins'
    BY <1>1 DEF DInv, ResultsFiles, FileOrigins, Contents, Good, Continued, Evals
  <2>2. FreshFiles'
    BY <1>1 DEF DInv, ResultsFiles, FreshFiles
  <2>3. QED
    BY <1>2, <2>1, <2>2 DEF ResultsFiles
<1>4. QED
  BY <1>1, <1>2, <1>3, RepairGoesOn

(* derived_map leaves a file of the point of the repair.                   *)
LEMMA DerivedMapDInv ==
  ASSUME DInv, phase = "run", UNCHANGED restartVars, DerivedMap
  PROVE  DInv'
<1>1. PICK v \in {"partial", "fail", PointOfRepair} :
        results' = [results EXCEPT ![repair.eval] = v]
  BY DEF DerivedMap
<1>2. /\ pc = "repair" /\ pc' = "repair"
      /\ repair' = [repair EXCEPT !.ran = TRUE]
      /\ UNCHANGED <<setting, tracked, untested, completion, response>>
  BY DEF DerivedMap
<1>3. repair.eval \in untested /\ repair.eval \in Evals
      /\ DOMAIN repair = DOMAIN NoRepair
  BY <1>2 DEF DInv, Typed, Evaluations
<1>4. /\ DOMAIN repair' = DOMAIN NoRepair /\ repair'.eval = repair.eval
      /\ repair'.at = repair.at /\ repair'.off = repair.off
      /\ repair'.others = repair.others
  BY <1>2, <1>3 DEF NoRepair
<1>5. /\ v \in Contents
      /\ v = "between" => ~OnTarget /\ setting.failAction = "continuation"
      /\ v = "continued" => Continued(repair.eval)
  BY <1>1, <1>2, <1>3, PointIs DEF DInv, Contents
<1>6. /\ FileOrigins' /\ results'[repair.eval] = v
      /\ \A d \in Evals : d # repair.eval => results'[d] = results[d]
  BY <1>1, <1>2, <1>3, <1>5, OneFile DEF DInv
<1>7. OnTarget' = OnTarget
  BY <1>2, <1>4 DEF OnTarget, Target
<1>8. RepairPoint'
  BY <1>2, <1>4, <1>7 DEF DInv, ResultsFiles, RepairPoint, Evals
<1>9. FreshFiles'
  BY <1>2, <1>3, <1>4, <1>5, <1>6, <1>7 DEF DInv, Typed, ResultsFiles, FreshFiles
<1>10. QED
  BY <1>2, <1>3, <1>4, <1>6, <1>8, <1>9, RepairGoesOn DEF ResultsFiles

(* A repair ends at the evaluation's own variables, or at the target of a  *)
(* continuation.                                                           *)
LEMMA RepairedDInv ==
  ASSUME DInv, phase = "run", UNCHANGED restartVars,
         RetrySucceeds \/ StepSucceeds
  PROVE  DInv'
<1> DEFINE e == repair.eval
<1>1. /\ pc = "repair" /\ pc' = "pass" /\ repair' = NoRepair
      /\ results[e] \in Good /\ Complete(e, results[e])
      /\ results' = [results EXCEPT ![e] = "none"] /\ UNCHANGED setting
  BY DEF RetrySucceeds, StepSucceeds, DerivedMapSucceeded, Repaired
<1>2. e \in untested /\ e \in Evals /\ e \in tracked
  BY <1>1 DEF DInv, Typed, Evaluations
<1>3. OnTarget
  <2>1. CASE RetrySucceeds
    BY <1>1, <2>1 DEF RetrySucceeds, DInv, ResultsFiles, RepairPoint
  <2>2. CASE StepSucceeds
    BY <2>2 DEF StepSucceeds, TargetReached
  <2>3. QED
    BY <2>1, <2>2
<1>4. results[e] \in Acceptable(e)
  BY <1>1, <1>2, <1>3 DEF DInv, ResultsFiles, FileOrigins, FreshFiles,
                          Acceptable, Values, Good
<1>5. tracked' \in SUBSET tracked
  BY <1>1 DEF Complete
<1>6. ResultsFiles'
  <2>1. /\ FileOrigins' /\ results'[e] = "none"
        /\ \A d \in Evals : d # e => results'[d] = results[d]
    BY <1>1, <1>2, OneFile DEF DInv, Contents
  <2>2. FreshFiles'
    BY <1>1, <1>5, <2>1 DEF DInv, Typed, ResultsFiles, FreshFiles
  <2>3. QED
    BY <1>1, <2>1, <2>2 DEF ResultsFiles, RepairPoint
<1>7. QED
  BY <1>1, <1>2, <1>4, <1>6, CompleteStep

(* A repair goes on after a failure, or from an intermediate point.        *)
LEMMA RepairStepDInv ==
  ASSUME DInv, phase = "run", UNCHANGED restartVars,
         RetryFails \/ StepFails \/ StepGoesOn
  PROVE  DInv'
<1> DEFINE e == repair.eval
<1>1. /\ pc = "repair" /\ pc' = "repair"
      /\ UNCHANGED <<setting, tracked, untested, completion, response>>
  BY DEF RetryFails, StepFails, StepGoesOn
<1>2. /\ e \in untested /\ e \in Evals /\ DOMAIN repair = DOMAIN NoRepair
  BY <1>1 DEF DInv, Typed, Evaluations
<1>3. /\ DOMAIN repair' = DOMAIN NoRepair /\ repair'.eval = e
      /\ repair'.others = repair.others
      /\ setting.failAction = "continuation"
           \/ (repair'.at = repair.at /\ repair'.off = repair.off)
  <2>1. CASE RetryFails
    BY <1>2, <2>1 DEF RetryFails, NoRepair
  <2>2. CASE StepFails
    BY <1>2, <2>2 DEF StepFails, NoRepair
  <2>3. CASE StepGoesOn
    BY <1>2, <2>3 DEF StepGoesOn, NoRepair
  <2>4. QED
    BY <2>1, <2>2, <2>3
<1>4. /\ FileOrigins' /\ results'[e] # "between"
      /\ \A d \in Evals : d # e => results'[d] = results[d]
  <2>1. CASE RetryFails \/ StepFails
    <3>1. UNCHANGED results /\ results[e] = "fail"
      BY <2>1 DEF RetryFails, StepFails, DerivedMapFailed
    <3>2. QED
      BY <1>1, <3>1 DEF DInv, ResultsFiles, FileOrigins, Contents, Good,
                        Continued, Evals
  <2>2. CASE StepGoesOn
    <3>1. results' = [results EXCEPT ![e] = "none"]
      BY <2>2 DEF StepGoesOn
    <3>2. QED
      BY <1>1, <1>2, <3>1, OneFile DEF DInv, Contents
  <2>3. QED
    BY <2>1, <2>2
<1>5. RepairPoint'
  <2>1. setting.failAction # "continuation" => (OnTarget => OnTarget')
    BY <1>1, <1>3 DEF OnTarget, Target
  <2>2. QED
    BY <1>1, <1>3, <2>1 DEF DInv, ResultsFiles, RepairPoint, Evals
<1>6. FreshFiles'
  BY <1>1, <1>2, <1>4 DEF DInv, Typed, ResultsFiles, FreshFiles
<1>7. QED
  BY <1>1, <1>2, <1>3, <1>4, <1>5, <1>6, RepairGoesOn DEF ResultsFiles

(* manage_failure.                                                         *)
LEMMA ManageFailureDInv ==
  ASSUME DInv, ManageFailure
  PROVE  DInv'
BY RecoverDInv, StartRepairDInv, DerivedMapDInv, RepairedDInv, RepairStepDInv
   DEF ManageFailure, Running

(* A simulator writes results of its evaluation's own variables.           *)
LEMMA SimulatorDInv ==
  ASSUME DInv, NEW e \in Evals, Simulator(e)
  PROVE  DInv'
<1>1. /\ UNCHANGED <<setting, tracked, untested, completion, response, pc,
                     repair>>
      /\ UNCHANGED restartVars
  BY DEF Simulator, WritesPart, Finishes
<1>2. ResultsFiles'
  <2>1. CASE UNCHANGED results
    BY <1>1, <2>1, FilesStand DEF DInv
  <2>2. CASE \E v \in {"partial", "own", "fail"} :
               results' = [results EXCEPT ![e] = v]
    <3>1. PICK v \in {"partial", "own", "fail"} :
            results' = [results EXCEPT ![e] = v]
      BY <2>2
    <3>2. /\ FileOrigins' /\ results'[e] # "between"
          /\ \A d \in Evals : d # e => results'[d] = results[d]
      BY <1>1, <3>1, OneFile DEF DInv, Contents, Good
    <3>3. OnTarget' = OnTarget
      BY <1>1 DEF OnTarget, Target
    <3>4. RepairPoint' /\ FreshFiles'
      BY <1>1, <3>2, <3>3 DEF DInv, Typed, ResultsFiles, RepairPoint,
                              FreshFiles, Evals
    <3>5. QED
      BY <3>2, <3>4 DEF ResultsFiles
  <2>3. QED
    BY <2>1, <2>2 DEF Simulator, WritesPart, Finishes
<1>3. QED
  BY <1>1, <1>2, OutsideStep

-----------------------------------------------------------------------------
(* The steps that record, start and end a run.                             *)

(* process_asynch_local takes a completion while there is one.             *)
LEMMA FirstCompletion ==
  ASSUME completion \in SUBSET Evals, completion # {}
  PROVE  First \in completion
<1>1. completion \subseteq Nat
  BY DEF Evals
<1>2. IsWellFoundedOn(OpToRel(<, Nat), Nat)
  BY NatLessThanWellFounded
<1>3. PICK m \in completion : \A d \in completion : ~(<<d, m>> \in OpToRel(<, Nat))
  BY <1>1, <1>2, WFMin
<1>4. ASSUME NEW d \in completion PROVE m <= d
  <2>1. d < m => <<d, m>> \in OpToRel(<, Nat)
    BY <1>1 DEF OpToRel
  <2>2. ~(d < m)
    BY <1>3, <2>1, Zenon
  <2>3. QED
    BY <1>1, <2>2
<1>5. QED
  BY <1>4 DEF First

(* A completion is processed: its record is the only one of the evaluation *)
(* in data_pairs, since what was known was not started.                    *)
LEMMA ProcessAsynchLocalDInv ==
  ASSUME DInv, ProcessAsynchLocal
  PROVE  DInv'
<1> DEFINE r == [id |-> First, value |-> response[First]]
<1>1. /\ phase = "run" /\ stream = <<>> /\ pc = "process" /\ completion # {}
      /\ completion' = completion \ {First}
      /\ pc' = IF completion' = {} THEN "idle" ELSE "process"
      /\ UNCHANGED <<setting, results, tracked, untested, response, repair>>
      /\ cache' = cache \cup {r} /\ stream' = Append(stream, r)
      /\ UNCHANGED <<disk, current, writing, phase, flushed, overwritten>>
  BY DEF ProcessAsynchLocal, Running, Processed, AppendRecord
<1>2. /\ completion \in SUBSET Evals /\ tracked \in SUBSET Evals
      /\ cache \in SUBSET Record /\ stream \in Seq(Record)
  BY DEF DInv, Typed
<1>3. First \in completion /\ First \in Evals
  BY <1>1, <1>2, FirstCompletion
<1>4. r \in Record
  <2>1. response[First] \in Acceptable(First)
    BY <1>3 DEF DInv, Evaluations
  <2>2. QED
    BY <1>3, <2>1 DEF Record, Acceptable
<1>5. r.id = First /\ ~Known(First) /\ First \notin tracked
  BY <1>1, <1>3 DEF DInv, Evaluations
<1>6. Elems(stream') = Elems(stream) \cup {r} /\ stream' \in Seq(Record)
  <2> HIDE DEF r
  <2>1. /\ Elems(Append(stream, r)) = Elems(stream) \cup {r}
        /\ Append(stream, r) \in Seq(Record)
    BY <1>2, <1>4, AppendElems
  <2>2. QED
    BY <1>1, <2>1, Zenon
<1>7. /\ Record' = Record /\ File' = File
      /\ \A x \in Evals : Acceptable(x)' = Acceptable(x)
  BY <1>1, SettingStays
<1> HIDE DEF r
<1>8. Typed'
  BY <1>1, <1>4, <1>6, <1>7 DEF DInv, Typed, Evals, Files, NoRepair
<1>9. Evaluations'
  <2>1. ASSUME NEW e \in tracked' \cup completion' PROVE ~Known(e)'
    <3>1. e \in tracked \cup completion /\ e # First
      BY <1>1, <1>5
    <3>2. \A q \in cache' : q.id # e
      BY <1>1, <1>5, <3>1 DEF DInv, Evaluations, Known
    <3>3. QED
      BY <3>2 DEF Known
  <2>2. QED
    BY <1>1, <1>7, <2>1 DEF DInv, Typed, Evaluations
<1>10. Phases'
  BY <1>1, <1>6 DEF DInv, Phases, Records
<1>11. OneRecordEach'
  <2>1. IdsDistinct(cache')
    BY <1>1, <1>5 DEF DInv, OneRecordEach, IdsDistinct, Known
  <2>2. QED
    BY <1>1, <2>1 DEF DInv, OneRecordEach, Records, Files
<1>12. Kept'
  BY <1>1 DEF DInv, Kept, Records
<1>13. ResultsFiles'
  BY <1>1, <1>2, FilesOfPass DEF DInv, ResultsFiles, FileOrigins
<1>14. QED
  BY <1>8, <1>9, <1>10, <1>11, <1>12, <1>13 DEF DInv

(* What the writer makes of its file holds the records of the file and a   *)
(* part of the stream.                                                     *)
LEMMA WrittenFile ==
  ASSUME DInv, NEW n \in 0 .. Len(stream),
         NEW g \in {ToDisk(disk[writing], n), Torn(disk[writing], n)}
  PROVE  /\ g \in File /\ g.header
         /\ Elems(g.recs) \subseteq Records(writing) \cup Elems(stream)
         /\ Records(writing) \subseteq Elems(g.recs)
         /\ n = Len(stream) =>
              Elems(g.recs) = Records(writing) \cup Elems(stream)
<1> DEFINE s == disk[writing].recs
           t == SubSeq(stream, 1, n)
<1>1. s \in Seq(Record) /\ stream \in Seq(Record) /\ disk[writing] \in File
  BY DEF DInv, Typed, File
<1>2. /\ t \in Seq(Record) /\ Elems(t) \subseteq Elems(stream)
      /\ n = Len(stream) => t = stream
  BY <1>1, PrefixElems
<1>3. s \o t \in Seq(Record) /\ Elems(s \o t) = Elems(s) \cup Elems(t)
  <2> HIDE DEF s, t
  <2>1. QED
    BY <1>1, <1>2, ConcatElems
<1>4. Records(writing) = Elems(s)
  BY RecordsAreElems, Zenon
<1>5. g \in File /\ g.recs = s \o t /\ g.header
  <2> DEFINE u == s \o t
             d == [header |-> TRUE, recs |-> u, torn |-> FALSE]
  <2>1. g = d \/ g = [d EXCEPT !.torn = TRUE]
    BY DEF ToDisk, Torn
  <2>2. u \in Seq(Record)
    BY <1>3
  <2> HIDE DEF u
  <2>3. d \in File /\ d.recs = u /\ d.header
    BY <2>2 DEF File
  <2> HIDE DEF d
  <2>4. /\ [d EXCEPT !.torn = TRUE] \in File
        /\ [d EXCEPT !.torn = TRUE].recs = u /\ [d EXCEPT !.torn = TRUE].header
    BY <2>3 DEF File
  <2>5. QED
    BY <2>1, <2>3, <2>4 DEF u
<1> HIDE DEF s, t
<1>6. QED
  BY <1>2, <1>3, <1>4, <1>5

(* A write to the open file keeps one record of each evaluation on it: all *)
(* it holds is in data_pairs.                                              *)
LEMMA WriteOpenFile ==
  ASSUME DInv, phase \in {"open", "run"}, NEW n \in 0 .. Len(stream),
         NEW g \in {ToDisk(disk[writing], n), Torn(disk[writing], n)},
         disk' = [disk EXCEPT ![writing] = g]
  PROVE  /\ disk' \in [Files -> File]
         /\ \A f \in Files :
              /\ Elems(disk[f].recs) \subseteq Elems(disk'[f].recs)
              /\ IdsDistinct(Elems(disk'[f].recs))
              /\ disk'[f].header \/ disk'[f].recs = <<>>
              /\ f # writing => disk'[f] = disk[f]
         /\ Elems(disk'[writing].recs) \subseteq cache
         /\ n = Len(stream) => Elems(stream) \subseteq Elems(disk'[writing].recs)
<1>1. writing \in Files /\ disk \in [Files -> File]
  BY DEF DInv, Typed
<1>2. /\ disk'[writing] = g
      /\ \A f \in Files : f # writing => disk'[f] = disk[f]
  BY <1>1
<1>3. /\ g \in File /\ g.header
      /\ Elems(g.recs) \subseteq Records(writing) \cup Elems(stream)
      /\ Records(writing) \subseteq Elems(g.recs)
      /\ n = Len(stream) =>
           Elems(g.recs) = Records(writing) \cup Elems(stream)
  BY WrittenFile
<1>4. Records(writing) \cup Elems(stream) \subseteq cache /\ IdsDistinct(cache)
  BY DEF DInv, Phases, OneRecordEach
<1>5. disk' \in [Files -> File]
  BY <1>1, <1>3
<1>6. IdsDistinct(Elems(g.recs)) /\ Elems(g.recs) \subseteq cache
  BY <1>3, <1>4 DEF IdsDistinct
<1>7. \A f \in Files : Records(f) = Elems(disk[f].recs)
  BY RecordsAreElems
<1>8. \A f \in Files :
        /\ IdsDistinct(Elems(disk[f].recs))
        /\ disk[f].header \/ disk[f].recs = <<>>
  BY <1>7 DEF DInv, OneRecordEach
<1>9. QED
  BY <1>1, <1>2, <1>3, <1>5, <1>6, <1>7, <1>8

(* The flush after a record: what is flushed is on the file.               *)
LEMMA FlushDInv ==
  ASSUME DInv, Flush
  PROVE  DInv'
<1>1. /\ phase = "run" /\ disk' = [disk EXCEPT ![writing] = ToDisk(@, Len(stream))]
      /\ flushed' = flushed \cup Elems(stream) /\ stream' = <<>>
      /\ UNCHANGED <<current, writing, cache, phase, overwritten>>
      /\ UNCHANGED <<setting, results, tracked, untested, completion, response,
                     pc, repair>>
  BY DEF Flush, FlushRestart, processVars, Elems
<1>2. /\ Record' = Record /\ File' = File
      /\ \A x \in Evals : Acceptable(x)' = Acceptable(x)
  BY <1>1, SettingStays
<1>3. stream \in Seq(Record) /\ Len(stream) \in 0 .. Len(stream)
  BY DEF DInv, Typed
<1>4. disk' = [disk EXCEPT ![writing] = ToDisk(disk[writing], Len(stream))]
  BY <1>1
<1>5. /\ disk' \in [Files -> File]
      /\ \A f \in Files :
           /\ Elems(disk[f].recs) \subseteq Elems(disk'[f].recs)
           /\ IdsDistinct(Elems(disk'[f].recs))
           /\ disk'[f].header \/ disk'[f].recs = <<>>
      /\ Elems(disk'[writing].recs) \subseteq cache
      /\ Elems(stream) \subseteq Elems(disk'[writing].recs)
  BY <1>1, <1>3, <1>4, WriteOpenFile
<1>6. /\ Elems(stream) \subseteq cache /\ writing = current /\ current \in Files
      /\ cache \in SUBSET Record /\ flushed \in SUBSET Record
  BY <1>1 DEF DInv, Phases, Typed
<1>7. Typed'
  <2>1. <<>> \in Seq(Record)
    BY EmptySeq
  <2>2. QED
    BY <1>1, <1>2, <1>5, <1>6, <2>1 DEF DInv, Typed, Evals, Files, NoRepair
<1>8. Evaluations'
  BY <1>1, <1>2 DEF DInv, Typed, Evaluations, Known
<1>9. Elems(<<>>) = {}
  BY DEF Elems
<1>10. Phases'
  BY <1>1, <1>5, <1>6, <1>9, RecordsAreElems DEF DInv, Phases
<1>11. OneRecordEach'
  BY <1>1, <1>5, RecordsAreElems DEF DInv, OneRecordEach, Files
<1>12. Kept'
  BY <1>1, <1>5, <1>6, RecordsAreElems DEF DInv, Kept
<1>13. ResultsFiles'
  BY <1>1, FilesStand DEF DInv
<1>14. QED
  BY <1>7, <1>8, <1>10, <1>11, <1>12, <1>13 DEF DInv

(* A run that ends leaves no evaluation behind in memory; the invariant is *)
(* kept when what is on the files is.                                      *)
LEMMA GoesDown ==
  ASSUME DInv, Down, FileCleanup \/ FilesStay,
         phase' = "down", cache' = {}, stream' = <<>>,
         UNCHANGED <<current, writing, flushed>>,
         disk' \in [Files -> File],
         \A f \in Files :
           /\ IdsDistinct(Elems(disk'[f].recs))
           /\ disk'[f].header \/ disk'[f].recs = <<>>,
         overwritten' \/ flushed \subseteq Elems(disk'[current].recs)
  PROVE  DInv'
<1>1. Record' = Record /\ File' = File
  BY SettingStays DEF Down
<1>2. Typed'
  <2>1. <<>> \in Seq(Record)
    BY EmptySeq
  <2>2. DOMAIN response' = Evals
    BY DEF Down
  <2>3. QED
    BY <1>1, <2>1, <2>2 DEF DInv, Typed, Down, Evals, Files, NoRepair
<1>3. Evaluations'
  BY DEF Evaluations, Down
<1>4. Phases'
  BY DEF Phases, Idle, Down
<1>5. OneRecordEach'
  BY RecordsAreElems DEF OneRecordEach, Files, IdsDistinct
<1>6. Kept'
  BY RecordsAreElems DEF Kept
<1>7. ResultsFiles'
  <2>1. UNCHANGED setting /\ pc' = "idle" /\ tracked' = {}
    BY DEF Down
  <2>2. FileOrigins'
    <3>1. results' \in [Evals -> Contents]
          /\ \A d \in Evals : results'[d] \in {results[d], "none"}
      BY DEF FileCleanup, FilesStay, DInv, ResultsFiles, FileOrigins, Contents
    <3>2. QED
      BY <2>1, <3>1 DEF DInv, ResultsFiles, FileOrigins, Contents, Good,
                        Continued, Evals
  <2>3. QED
    BY <2>1, <2>2 DEF ResultsFiles, RepairPoint, FreshFiles
<1>8. QED
  BY <1>2, <1>3, <1>4, <1>5, <1>6, <1>7 DEF DInv

(* What a state of the invariant says of the files.                        *)
LEMMA FilesOf ==
  ASSUME DInv
  PROVE  /\ disk \in [Files -> File] /\ current \in Files /\ writing \in Files
         /\ \A f \in Files :
              /\ IdsDistinct(Elems(disk[f].recs))
              /\ disk[f].header \/ disk[f].recs = <<>>
BY RecordsAreElems DEF DInv, Typed, OneRecordEach

(* abort_handler.  Nothing is in the stream when it is called.             *)
LEMMA AbortDInv ==
  ASSUME DInv, Abort
  PROVE  DInv'
<1>1. /\ phase = "run" /\ Down /\ FileCleanup /\ phase' = "down" /\ cache' = {} /\ stream' = <<>>
      /\ UNCHANGED <<disk, current, writing, flushed, overwritten>>
  BY DEF Abort, Running, Exits
<1>2. overwritten' \/ flushed \subseteq Elems(disk'[current].recs)
  BY <1>1, RecordsAreElems DEF DInv, Kept
<1>3. QED
  BY <1>1, <1>2, FilesOf, GoesDown

(* A kill.  The file that is read next keeps what was flushed, unless it   *)
(* was being written over.                                                 *)
LEMMA KilledDInv ==
  ASSUME DInv, Killed
  PROVE  DInv'
<1>1. /\ Down /\ FilesStay /\ phase' = "down" /\ cache' = {} /\ stream' = <<>>
      /\ UNCHANGED <<current, writing, flushed>>
      /\ overwritten' = (overwritten \/ (phase = "open" /\ writing = current))
      /\ phase # "down"
  BY DEF Killed, Dies
<1>2. CASE stream = <<>>
  <2>1. UNCHANGED disk
    BY <1>2 DEF Killed, Dies
  <2>2. overwritten' \/ flushed \subseteq Elems(disk'[current].recs)
    BY <1>1, <2>1, RecordsAreElems DEF DInv, Kept
  <2>3. QED
    BY <1>1, <2>1, <2>2, FilesOf, GoesDown
<1>3. CASE stream # <<>>
  <2>1. phase \in {"open", "run"}
    BY <1>1, <1>3 DEF DInv, Phases
  <2>2. PICK n \in 0 .. Len(stream), part \in BOOLEAN :
          disk' = [disk EXCEPT ![writing] = IF part THEN Torn(@, n)
                                            ELSE IF n = 0 THEN @
                                            ELSE ToDisk(@, n)]
    BY <1>3 DEF Killed, Dies
  <2>3. disk \in [Files -> File] /\ current \in Files /\ writing \in Files
    BY FilesOf
  <2>4. /\ disk' \in [Files -> File]
        /\ \A f \in Files :
             /\ Elems(disk[f].recs) \subseteq Elems(disk'[f].recs)
             /\ IdsDistinct(Elems(disk'[f].recs))
             /\ disk'[f].header \/ disk'[f].recs = <<>>
    <3>1. CASE part
      <4>1. disk' = [disk EXCEPT ![writing] = Torn(disk[writing], n)]
        BY <2>2, <3>1
      <4>2. QED
        BY <2>1, <4>1, WriteOpenFile
    <3>2. CASE ~part /\ n # 0
      <4>1. disk' = [disk EXCEPT ![writing] = ToDisk(disk[writing], n)]
        BY <2>2, <3>2
      <4>2. QED
        BY <2>1, <4>1, WriteOpenFile
    <3>3. CASE ~part /\ n = 0
      <4>1. disk' = disk
        BY <2>2, <2>3, <3>3
      <4>2. QED
        BY <4>1, FilesOf
    <3>4. QED
      BY <3>1, <3>2, <3>3
  <2>5. overwritten' \/ flushed \subseteq Elems(disk'[current].recs)
    BY <1>1, <2>3, <2>4, RecordsAreElems DEF DInv, Kept
  <2>6. QED
    BY <1>1, <2>4, <2>5, GoesDown
<1>4. QED
  BY <1>2, <1>3

(* A run that reads its restart file, or starts without one that holds     *)
(* nothing, knows every record that was flushed.                           *)
LEMMA UserDInv ==
  ASSUME DInv, User
  PROVE  DInv'
<1>1. /\ UNCHANGED <<setting, results, tracked, untested, completion, response,
                     pc, repair>>
      /\ UNCHANGED <<disk, current, writing, stream, flushed, overwritten>>
      /\ phase = "down"
  BY DEF User, ReadRestart, ReadAborts, NoRestart, MayStart, processVars
<1>2. /\ Record' = Record /\ File' = File
      /\ \A x \in Evals : Acceptable(x)' = Acceptable(x)
  BY <1>1, SettingStays
<1>3. /\ current \in Files /\ disk \in [Files -> File]
      /\ disk[current].header \/ disk[current].recs = <<>>
  BY FilesOf
<1>4. /\ cache' \in SUBSET Record /\ IdsDistinct(cache')
      /\ phase' \in {"down", "read"}
      /\ overwritten \/ phase' = "down" \/ flushed \subseteq cache'
  <2>1. CASE ReadRestart
    <3>1. cache' = Records(current) /\ phase' = "read"
      BY <2>1 DEF ReadRestart
    <3>2. disk[current].recs \in Seq(Record)
      BY <1>3 DEF File
    <3>3. Records(current) \subseteq Record
      BY <3>2 DEF Records
    <3>4. IdsDistinct(Records(current))
      BY <1>3 DEF DInv, OneRecordEach
    <3>5. overwritten \/ flushed \subseteq Records(current)
      BY <1>1 DEF DInv, Kept
    <3>6. QED
      BY <3>1, <3>3, <3>4, <3>5
  <2>2. CASE ReadAborts
    BY <1>1, <2>2 DEF ReadAborts, DInv, Typed, OneRecordEach
  <2>3. CASE NoRestart
    <3>1. cache' = {} /\ phase' = "read" /\ ~Readable(disk[current])
      BY <2>3 DEF NoRestart
    <3>2. disk[current].recs = <<>>
      BY <1>3, <3>1 DEF Readable
    <3>3. Records(current) = {}
      BY <3>2 DEF Records
    <3>4. overwritten \/ flushed \subseteq {}
      BY <1>1, <3>3 DEF DInv, Kept
    <3>5. QED
      BY <3>1, <3>4 DEF IdsDistinct
  <2>4. QED
    BY <2>1, <2>2, <2>3 DEF User
<1>5. Idle /\ stream = <<>>
  BY <1>1 DEF DInv, Phases
<1>6. Typed'
  BY <1>1, <1>2, <1>4 DEF DInv, Typed, Evals, Files, NoRepair
<1>7. Evaluations'
  BY <1>1, <1>5 DEF Evaluations, Idle
<1>8. Phases'
  BY <1>1, <1>4, <1>5 DEF Phases, Idle
<1>9. OneRecordEach'
  BY <1>1, <1>4 DEF DInv, OneRecordEach, Records, Files
<1>10. Kept'
  BY <1>1, <1>4 DEF DInv, Kept, Records
<1>11. ResultsFiles'
  BY <1>1, FilesStand DEF DInv
<1>12. QED
  BY <1>6, <1>7, <1>8, <1>9, <1>10, <1>11 DEF DInv

(* A set of records with one record for each evaluation is finite.         *)
LEMMA RecordsFinite ==
  ASSUME NEW S \in SUBSET Record, IdsDistinct(S)
  PROVE  IsFiniteSet(S)
<1> DEFINE f == [r \in S |-> r.id]
<1>1. \A r \in S : r.id \in Evals
  BY DEF Record
<1>2. f \in [S -> Evals]
  BY <1>1
<1>3. \A r, s \in S : f[r] = f[s] => r = s
  BY DEF IdsDistinct
<1>4. f \in Injection(S, Evals)
  BY <1>2, <1>3 DEF Injection, IsInjective
<1>5. IsFiniteSet(Evals)
  BY FS_Interval, ProcessAssumption DEF Evals
<1> HIDE DEF f
<1>6. QED
  BY <1>4, <1>5, FS_Injection

(* The writer opens its file: all that was read is in the stream, so that  *)
(* nothing is lost with the file that is truncated.                        *)
LEMMA OpenRestartDInv ==
  ASSUME DInv, OpenRestart, UNCHANGED processVars
  PROVE  DInv'
<1>1. /\ phase = "read" /\ phase' = "open" /\ writing' = WriteName
      /\ disk' = [disk EXCEPT ![WriteName] = Empty]
      /\ stream' = AsSequence(cache)
      /\ UNCHANGED <<current, cache, flushed, overwritten>>
      /\ UNCHANGED <<setting, results, tracked, untested, completion, response,
                     pc, repair>>
  BY DEF OpenRestart, processVars
<1>2. /\ Record' = Record /\ File' = File
      /\ \A x \in Evals : Acceptable(x)' = Acceptable(x)
  BY <1>1, SettingStays
<1>3. /\ disk \in [Files -> File] /\ current \in Files
      /\ \A f \in Files :
           /\ IdsDistinct(Elems(disk[f].recs))
           /\ disk[f].header \/ disk[f].recs = <<>>
  BY FilesOf
<1>4. WriteName \in Files
  BY <1>3 DEF WriteName, Files
<1>5. Empty \in File /\ Empty.recs = <<>>
  BY EmptySeq DEF Empty, File
<1>6. /\ disk' \in [Files -> File] /\ disk'[WriteName] = Empty
      /\ \A f \in Files : f # WriteName => disk'[f] = disk[f]
  BY <1>1, <1>3, <1>4, <1>5
<1>7. /\ cache \in SUBSET Record /\ IdsDistinct(cache)
      /\ AsSequence(cache) \in Seq(cache) /\ Elems(AsSequence(cache)) = cache
  <2>1. cache \in SUBSET Record /\ IdsDistinct(cache)
    BY DEF DInv, Typed, OneRecordEach
  <2>2. IsFiniteSet(cache)
    BY <2>1, RecordsFinite
  <2>3. \A r \in cache : r.id \in Int
    BY <2>1 DEF Record, Evals
  <2>4. QED
    BY <2>1, <2>2, <2>3, AsSequenceLists
<1>8. AsSequence(cache) \in Seq(Record)
  BY <1>7, SeqMonotonic
<1>9. Idle
  BY <1>1 DEF DInv, Phases
<1>10. Elems(Empty.recs) = {}
  BY <1>5 DEF Elems
<1>11. Typed'
  BY <1>1, <1>2, <1>3, <1>4, <1>6, <1>8 DEF DInv, Typed, Evals, Files, NoRepair
<1>12. Evaluations'
  BY <1>1, <1>9 DEF Evaluations, Idle
<1>13. Phases'
  <2>1. Records(writing)' = {}
    <3>1. Records(writing)' = Elems(disk'[writing'].recs)
      BY DEF Records, Elems
    <3>2. QED
      BY <1>1, <1>6, <1>10, <3>1
  <2>2. QED
    BY <1>1, <1>7, <1>9, <2>1 DEF Phases, Idle
<1>14. OneRecordEach'
  <2>1. ASSUME NEW f \in Files
        PROVE  /\ IdsDistinct(Elems(disk'[f].recs))
               /\ disk'[f].header \/ disk'[f].recs = <<>>
    <3>1. CASE f = WriteName
      BY <1>5, <1>6, <1>10, <3>1 DEF IdsDistinct
    <3>2. CASE f # WriteName
      BY <1>3, <1>6, <3>2
    <3>3. QED
      BY <3>1, <3>2
  <2>2. QED
    BY <1>1, <1>7, <2>1, RecordsAreElems DEF OneRecordEach, Files
<1>15. Kept'
  <2>1. overwritten \/ (flushed \subseteq Elems(disk[current].recs)
                        /\ flushed \subseteq cache)
    BY <1>1, RecordsAreElems DEF DInv, Kept
  <2>2. Records(current)' = Elems(disk'[current'].recs)
    BY DEF Records, Elems
  <2>3. QED
    BY <1>1, <1>3, <1>6, <2>1, <2>2 DEF Kept
<1>16. ResultsFiles'
  BY <1>1, FilesStand DEF DInv
<1>17. QED
  BY <1>11, <1>12, <1>13, <1>14, <1>15, <1>16 DEF DInv

(* The flush that ends the reading of a restart file: from here on the     *)
(* next run reads the file this run writes.                                *)
LEMMA RestartOpenedDInv ==
  ASSUME DInv, RestartOpened, UNCHANGED processVars
  PROVE  DInv'
<1>1. /\ phase = "open" /\ phase' = "run" /\ stream' = <<>> /\ current' = writing
      /\ disk' = IF stream = <<>> THEN disk
                 ELSE [disk EXCEPT ![writing] = ToDisk(@, Len(stream))]
      /\ UNCHANGED <<writing, cache, flushed, overwritten>>
      /\ UNCHANGED <<setting, results, tracked, untested, completion, response,
                     pc, repair>>
  BY DEF RestartOpened, processVars
<1>2. /\ Record' = Record /\ File' = File
      /\ \A x \in Evals : Acceptable(x)' = Acceptable(x)
  BY <1>1, SettingStays
<1>3. /\ stream \in Seq(Record) /\ Len(stream) \in 0 .. Len(stream)
      /\ writing \in Files
  BY DEF DInv, Typed
<1>4. /\ cache \subseteq Elems(stream) /\ Idle
      /\ Records(writing) \cup Elems(stream) \subseteq cache
  BY <1>1 DEF DInv, Phases
<1>5. /\ disk' \in [Files -> File]
      /\ \A f \in Files :
           /\ IdsDistinct(Elems(disk'[f].recs))
           /\ disk'[f].header \/ disk'[f].recs = <<>>
      /\ Elems(disk'[writing].recs) \subseteq cache
      /\ Elems(stream) \subseteq Elems(disk'[writing].recs)
  <2>1. CASE stream = <<>>
    <3>1. disk' = disk /\ Elems(stream) = {}
      BY <1>1, <2>1 DEF Elems
    <3>2. Records(writing) = Elems(disk[writing].recs)
      BY RecordsAreElems
    <3>3. QED
      BY <1>4, <3>1, <3>2, FilesOf
  <2>2. CASE stream # <<>>
    <3>1. disk' = [disk EXCEPT ![writing] = ToDisk(disk[writing], Len(stream))]
      BY <1>1, <2>2
    <3>2. QED
      BY <1>1, <1>3, <3>1, WriteOpenFile
  <2>3. QED
    BY <2>1, <2>2
<1>6. Typed'
  <2>1. <<>> \in Seq(Record)
    BY EmptySeq
  <2>2. QED
    BY <1>1, <1>2, <1>3, <1>5, <2>1 DEF DInv, Typed, Evals, Files, NoRepair
<1>7. Evaluations'
  BY <1>1, <1>4 DEF Evaluations, Idle
<1>8. /\ Records(writing)' = Elems(disk'[writing].recs)
      /\ Records(current)' = Elems(disk'[writing].recs)
  BY <1>1 DEF Records, Elems
<1>9. Elems(<<>>) = {}
  BY DEF Elems
<1>10. Phases'
  BY <1>1, <1>5, <1>8, <1>9 DEF Phases
<1>11. OneRecordEach'
  BY <1>1, <1>5, RecordsAreElems DEF DInv, OneRecordEach, Files
<1>12. Kept'
  <2>1. overwritten \/ flushed \subseteq cache
    BY <1>1 DEF DInv, Kept
  <2>2. QED
    BY <1>1, <1>4, <1>5, <1>8, <2>1 DEF Kept
<1>13. ResultsFiles'
  BY <1>1, FilesStand DEF DInv
<1>14. QED
  BY <1>6, <1>7, <1>10, <1>11, <1>12, <1>13 DEF DInv

-----------------------------------------------------------------------------
(* The invariant holds, and with it what the runs check.                   *)

(* No file, no record and nothing running: the state before the first run. *)
LEMMA InitDInv == Init => DInv
<1> SUFFICES ASSUME Init PROVE DInv
  OBVIOUS
<1> USE DEF Init, ProcessInit, RestartInit
<1>1. <<>> \in Seq(Record) /\ Elems(<<>>) = {}
  BY EmptySeq DEF Elems
<1>2. Empty \in File /\ Empty.recs = <<>>
  BY <1>1 DEF Empty, File
<1>3. \A f \in Files : disk[f] = Empty /\ Records(f) = {}
  BY <1>1, <1>2, RecordsAreElems
<1>4. Typed
  BY <1>1, <1>2 DEF Typed, Files
<1>5. Evaluations
  BY DEF Evaluations
<1>6. Phases
  BY DEF Phases, Idle
<1>7. OneRecordEach
  BY <1>2, <1>3 DEF OneRecordEach, IdsDistinct
<1>8. Kept
  BY DEF Kept
<1>9. ResultsFiles
  BY DEF ResultsFiles, FileOrigins, RepairPoint, FreshFiles, Contents
<1>10. QED
  BY <1>4, <1>5, <1>6, <1>7, <1>8, <1>9 DEF DInv

(* Every step of the program, the user, the simulators, and every kill.    *)
LEMMA NextDInv == DInv /\ [Next]_vars => DInv'
<1> SUFFICES ASSUME DInv, [Next]_vars PROVE DInv'
  OBVIOUS
<1>1. CASE Program
  <2>1. CASE LaunchNext  BY <2>1, LaunchNextDInv
  <2>2. CASE Poll  BY <2>2, PollDInv
  <2>3. CASE Test  BY <2>3, TestDInv
  <2>4. CASE ManageFailure  BY <2>4, ManageFailureDInv
  <2>5. CASE ProcessAsynchLocal  BY <2>5, ProcessAsynchLocalDInv
  <2>6. CASE Flush  BY <2>6, FlushDInv
  <2>7. CASE Abort  BY <2>7, AbortDInv
  <2>8. CASE StartUp
    BY <2>8, OpenRestartDInv, RestartOpenedDInv DEF StartUp
  <2>9. QED
    BY <1>1, <2>1, <2>2, <2>3, <2>4, <2>5, <2>6, <2>7, <2>8 DEF Program
<1>2. CASE User
  BY <1>2, UserDInv
<1>3. CASE Killed
  BY <1>3, KilledDInv
<1>4. CASE \E e \in Evals : Simulator(e)
  BY <1>4, SimulatorDInv
<1>5. CASE UNCHANGED vars
  <2>1. UNCHANGED <<setting, results, tracked, untested, completion, response,
                    pc, repair>> /\ UNCHANGED restartVars
    BY <1>5 DEF vars, processVars
  <2>2. ResultsFiles'
    BY <2>1, FilesStand DEF DInv
  <2>3. QED
    BY <2>1, <2>2, OutsideStep
<1>6. QED
  BY <1>1, <1>2, <1>3, <1>4, <1>5 DEF Next

(* In every state of a study, over all its runs.                           *)
LEMMA AlwaysDInv == Spec => []DInv
<1>1. QED
  BY InitDInv, NextDInv, PTL DEF Spec

(* What read_results_files and manage_failure let through to data_pairs    *)
(* and the restart file was simulated at the evaluation's own variables,   *)
(* save for recovery values the user gave, for a continuation whose source *)
(* lends it other variables that differ, and for the files of intermediate *)
(* points that a user lets stand.                                          *)
THEOREM GenuineRecords == Spec => []RecordsGenuine
<1>1. DInv => RecordsGenuine
  BY DEF DInv, Typed, Record, Acceptable, RecordsGenuine
<1>2. QED
  BY <1>1, AlwaysDInv, PTL

(* Restart files can be chained over any number of kills and aborts: what  *)
(* a flush completed is in the file the next run reads, save for a kill    *)
(* while that file is written over.                                        *)
THEOREM RecordsSurvive == Spec => []KeepsRecords
<1>1. DInv => KeepsRecords
  BY DEF DInv, Kept, KeepsRecords
<1>2. QED
  BY <1>1, AlwaysDInv, PTL

(* What was recorded in any earlier run is found in data_pairs and is not  *)
(* simulated again.                                                        *)
THEOREM RecordedOnce == Spec => []RecordedNotRerun
<1>1. DInv => RecordedNotRerun
  <2> SUFFICES ASSUME DInv, ~overwritten,
                      NEW e \in tracked, NEW r \in flushed
               PROVE  r.id # e
    BY DEF RecordedNotRerun
  <2>1. phase = "run"
    BY DEF DInv, Phases, Idle
  <2>2. r \in cache
    BY <2>1 DEF DInv, Kept
  <2>3. QED
    BY <2>2 DEF DInv, Evaluations, Known
<1>2. QED
  BY <1>1, AlwaysDInv, PTL
=============================================================================
