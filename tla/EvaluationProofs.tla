-------------------------- MODULE EvaluationProofs --------------------------
(***************************************************************************)
(* That the publications follow the selection and the configuration; that  *)
(* the spots of every result belong together; that no points are missing   *)
(* if a pair with all its entries was measured; and that a full run is     *)
(* sent.                                                                   *)
(*                                                                         *)
(* The result file is read line by line, so what holds of a reading is     *)
(* proved by induction over the lines, from what holds of each line and    *)
(* the one after it (LineOK): that is the invariant of the file, kept by   *)
(* LWDAQ, which repeats a script in which the two steps of a pair follow   *)
(* each other (ScriptOK).                                                  *)
(***************************************************************************)
EXTENDS Evaluation, InductionLemmas

(* Nothing but the selection and the configuration changes the setup.      *)
LEMMA SetupUnchanged ==
  ASSUME UNCHANGED <<selection, config>> PROVE UNCHANGED SetupNames
BY DEF SetupNames, Known

(***************************************************************************)
(* While DIP is in use there is a publication for exactly the prisms of    *)
(* the selected detectors, whatever is selected, read again or restarted.  *)
(***************************************************************************)
THEOREM PublicationsFollow == Spec => []PublishersMatch
<1>1. Init => PublishersMatch
  BY DEF Init, PublishersMatch
<1>2. PublishersMatch /\ [Next]_vars => PublishersMatch'
  <2> SUFFICES ASSUME PublishersMatch, [Next]_vars PROVE PublishersMatch'
    OBVIOUS
  <2>1. CASE UpdateRun
    BY <2>1 DEF UpdateRun, CreatePublishers, PublishersMatch
  <2>2. CASE UpdateConfiguration
    BY <2>2 DEF UpdateConfiguration, CreatePublishers, PublishersMatch
  <2>3. CASE Restart
    BY <2>3 DEF Restart, Construct, PublishersMatch
  <2>4. CASE UNCHANGED <<selection, config, dip, publications>>
               /\ alive
    BY <2>4, SetupUnchanged DEF PublishersMatch
  <2>5. CASE UNCHANGED vars
    BY <2>5, SetupUnchanged DEF PublishersMatch, vars, setupVars
  <2>6. CASE Crash
    BY <2>6 DEF Crash, PublishersMatch
  <2>7. CASE Acquire
    BY <2>7, SetupUnchanged DEF Acquire, setupVars, PublishersMatch
  <2>8. UpdateCalibration \/ StartDAQ \/ WaitingTimeout \/ StopDAQ \/ RunEnds =>
          UNCHANGED <<selection, config, dip, publications>> /\ alive
    BY DEF UpdateCalibration, StartDAQ, WaitingTimeout, StopDAQ, RunEnds, setupVars
  <2> QED
    BY <2>1, <2>2, <2>3, <2>4, <2>5, <2>6, <2>7, <2>8 DEF Next
<1> QED
  BY <1>1, <1>2, PTL DEF Spec

-----------------------------------------------------------------------------
(* The script.                                                             *)

(***************************************************************************)
(* Among keeps the elements of s that are in A.                            *)
(***************************************************************************)
LEMMA AmongRange ==
  ASSUME NEW X, NEW s \in Seq(X), NEW A
  PROVE  /\ Among(s, A) \in Seq(X)
         /\ Range(Among(s, A)) = Range(s) \cap A
<1> DEFINE seqs == [i \in DOMAIN s |-> IF s[i] \in A THEN <<s[i]>> ELSE <<>>]
<1>1. seqs \in Seq(Seq(X)) /\ DOMAIN seqs = DOMAIN s
  <2>1. \A i \in DOMAIN s : seqs[i] \in Seq(X)
    OBVIOUS
  <2>2. DOMAIN s = 1 .. Len(s) /\ Len(s) \in Nat
    OBVIOUS
  <2>3. seqs \in [1 .. Len(s) -> Seq(X)]
    BY <2>1, <2>2
  <2> QED BY <2>2, <2>3, IsASeq
<1>2. \A i \in DOMAIN s : \A x : x \in Range(seqs[i]) <=> x = s[i] /\ s[i] \in A
  BY DEF Range
<1>3. Among(s, A) = FlattenSeq(seqs)
  BY DEF Among
<1> HIDE DEF seqs
<1>4. /\ Among(s, A) \in Seq(X)
      /\ \A x : x \in Range(Among(s, A)) <=>
                  \E i \in DOMAIN s : x = s[i] /\ s[i] \in A
  BY <1>1, <1>2, <1>3, FlattenRange
<1> QED
  BY <1>4 DEF Range

(* The step that completes the pair of spots of p, and the one before it   *)
(* if the two sources flash separately.                                    *)
Completing(p) ==
  IF p \in Separate THEN <<<<p, 2>>>> ELSE <<<<p, 1>>, <<p, 2>>>>
First(p) == <<<<p, 1>>>>

Steps == {Completing(p) : p \in Pairs} \cup {First(p) : p \in Separate}

(* Where the sources flash separately the two steps follow each other.     *)
WellFormed(s) ==
  \A i \in DOMAIN s : \A p \in Separate :
    /\ s[i] = First(p) => i+1 \in DOMAIN s /\ s[i+1] = Completing(p)
    /\ s[i] = Completing(p) => i-1 \in DOMAIN s /\ s[i-1] = First(p)

(* A step tells its pair, and whether it completes it.                     *)
LEMMA StepsDiffer ==
  ASSUME NEW p, NEW q
  PROVE  /\ First(p) = First(q) => p = q
         /\ Completing(p) = Completing(q) => p = q
         /\ p \in Separate => First(p) # Completing(q)
<1>1. /\ Len(First(p)) = 1 /\ First(p)[1] = <<p, 1>>
      /\ Len(First(q)) = 1 /\ First(q)[1] = <<q, 1>>
  BY DEF First
<1>2. \A x : x \in Separate => Len(Completing(x)) = 1 /\ Completing(x)[1] = <<x, 2>>
  BY DEF Completing
<1>3. \A x : x \notin Separate => Len(Completing(x)) = 2 /\ Completing(x)[1] = <<x, 1>>
  BY DEF Completing
<1> QED
  BY <1>1, <1>2, <1>3

(* The pairs that Setup::getBCAM() finds are those of the setup.           *)
LEMMA SetupRange ==
  ASSUME selection \in Seq(Detectors), config.pairs \in Seq(Pairs)
  PROVE  Setup \in Seq(Pairs) /\ Range(Setup) = Known
<1> DEFINE Of(d) == {p \in Pairs : DetectorOf[p] = d}
           seqs == [i \in DOMAIN selection |-> Among(config.pairs, Of(selection[i]))]
<1>1. \A d : /\ Among(config.pairs, Of(d)) \in Seq(Pairs)
             /\ Range(Among(config.pairs, Of(d))) = Range(config.pairs) \cap Of(d)
  <2> HIDE DEF Of
  <2> QED BY AmongRange
<1>2. seqs \in Seq(Seq(Pairs)) /\ DOMAIN seqs = DOMAIN selection
  <2> HIDE DEF Of
  <2>1. DOMAIN selection = 1 .. Len(selection) /\ Len(selection) \in Nat
    OBVIOUS
  <2>2. seqs \in [1 .. Len(selection) -> Seq(Pairs)]
    BY <1>1, <2>1
  <2> QED BY <2>1, <2>2, IsASeq
<1>3. Setup = FlattenSeq(seqs)
  BY DEF Setup, SetupOf
<1>4. \A i \in DOMAIN selection : 
        Range(seqs[i]) = Range(config.pairs) \cap Of(selection[i])
  BY <1>1
<1> HIDE DEF seqs
<1>5. /\ Setup \in Seq(Pairs)
      /\ \A x : x \in Range(Setup) <=>
           \E i \in DOMAIN selection : x \in Range(config.pairs) \cap Of(selection[i])
  BY <1>2, <1>3, <1>4, FlattenRange
<1>6. \A x : x \in Known <=>
         \E i \in DOMAIN selection : x \in Range(config.pairs) \cap Of(selection[i])
  BY DEF Known, Range
<1> QED
  BY <1>5, <1>6

(* What is written is well formed.                                         *)
LEMMA ScriptWritten ==
  ASSUME selection \in Seq(Detectors), config.pairs \in Seq(Pairs)
  PROVE  WriteScript \in Seq(Steps) /\ WellFormed(WriteScript)
<1> DEFINE S == {t \in Seq(Steps) : WellFormed(t)}
           seqs == [i \in DOMAIN Setup |-> ScriptOf(Setup[i])]
<1>1. <<>> \in S
  BY DEF WellFormed
<1>2. ASSUME NEW t \in S, NEW u \in S PROVE t \o u \in S
  <2>1. t \in Seq(Steps) /\ u \in Seq(Steps) /\ WellFormed(t) /\ WellFormed(u)
    OBVIOUS
  <2>2. /\ t \o u \in Seq(Steps) /\ Len(t \o u) = Len(t) + Len(u)
        /\ Len(t) \in Nat /\ Len(u) \in Nat
        /\ DOMAIN t = 1 .. Len(t) /\ DOMAIN u = 1 .. Len(u)
        /\ DOMAIN (t \o u) = 1 .. Len(t) + Len(u)
    BY <2>1, LenProperties, ConcatProperties
  <2>3. \A k \in 1 .. Len(t) : (t \o u)[k] = t[k]
    BY <2>1, <2>2, ConcatProperties
  <2>4. \A k \in 1 .. Len(u) : (t \o u)[Len(t) + k] = u[k]
    BY <2>1, <2>2, ConcatProperties
  <2>5. ASSUME NEW i \in 1 .. Len(t) + Len(u), NEW p \in Separate
        PROVE  /\ (t \o u)[i] = First(p) =>
                    i+1 \in DOMAIN (t \o u) /\ (t \o u)[i+1] = Completing(p)
               /\ (t \o u)[i] = Completing(p) =>
                    i-1 \in DOMAIN (t \o u) /\ (t \o u)[i-1] = First(p)
    <3>1. CASE i \in 1 .. Len(t)
      <4>1. /\ t[i] = First(p) => i+1 \in 1 .. Len(t) /\ t[i+1] = Completing(p)
            /\ t[i] = Completing(p) => i-1 \in 1 .. Len(t) /\ t[i-1] = First(p)
        BY <2>1, <2>2, <3>1 DEF WellFormed
      <4> QED BY <2>2, <2>3, <3>1, <4>1
    <3>2. CASE i \notin 1 .. Len(t)
      <4> DEFINE k == i - Len(t)
      <4>1. k \in 1 .. Len(u) /\ i = Len(t) + k
        BY <2>2, <3>2
      <4> HIDE DEF k
      <4>2. /\ u[k] = First(p) => k+1 \in 1 .. Len(u) /\ u[k+1] = Completing(p)
            /\ u[k] = Completing(p) => k-1 \in 1 .. Len(u) /\ u[k-1] = First(p)
        BY <2>1, <2>2, <4>1 DEF WellFormed
      <4>3. i+1 = Len(t) + (k+1) /\ i-1 = Len(t) + (k-1)
        BY <2>2, <4>1
      <4>4. k+1 \in 1 .. Len(u) => (t \o u)[i+1] = u[k+1] /\ i+1 \in DOMAIN (t \o u)
        BY <2>2, <2>4, <4>1, <4>3
      <4>5. k-1 \in 1 .. Len(u) => (t \o u)[i-1] = u[k-1] /\ i-1 \in DOMAIN (t \o u)
        BY <2>2, <2>4, <4>1, <4>3
      <4>6. (t \o u)[i] = u[k]
        BY <2>4, <4>1
      <4> QED BY <4>2, <4>4, <4>5, <4>6
    <3> QED BY <3>1, <3>2
  <2> QED BY <2>2, <2>5 DEF WellFormed
<1>3. ASSUME NEW p \in Pairs PROVE ScriptOf(p) \in S
  <2>1. CASE p \in Separate
    <3>1. ScriptOf(p) = <<First(p), Completing(p)>>
      BY <2>1 DEF ScriptOf, First, Completing
    <3>2. First(p) \in Steps /\ Completing(p) \in Steps
      BY <2>1 DEF Steps
    <3> DEFINE t == <<First(p), Completing(p)>>
    <3>3. t \in Seq(Steps) /\ DOMAIN t = 1 .. 2 /\ t[1] = First(p) /\ t[2] = Completing(p)
      BY <3>2
    <3> HIDE DEF t
    <3>4. ASSUME NEW q \in Separate
          PROVE  /\ t[1] # Completing(q) /\ t[2] # First(q)
                 /\ t[1] = First(q) => t[2] = Completing(q)
                 /\ t[2] = Completing(q) => t[1] = First(q)
      <4>1. t[1] # Completing(q) /\ t[2] # First(q)
        BY <2>1, <3>3, StepsDiffer
      <4>2. t[1] = First(q) => t[2] = Completing(q)
        BY <3>3, StepsDiffer
      <4>3. t[2] = Completing(q) => t[1] = First(q)
        BY <3>3, StepsDiffer
      <4> QED BY <4>1, <4>2, <4>3
    <3>5. \A i \in DOMAIN t : i = 1 \/ i = 2
      BY <3>3
    <3>6. 1 \in DOMAIN t /\ 2 \in DOMAIN t /\ 1 + 1 = 2 /\ 2 - 1 = 1
      BY <3>3
    <3>7. WellFormed(t)
      BY <3>4, <3>5, <3>6 DEF WellFormed
    <3> QED BY <3>1, <3>3, <3>7 DEF t
  <2>2. CASE p \notin Separate
    <3>1. ScriptOf(p) = <<Completing(p)>>
      BY <2>2 DEF ScriptOf, Completing
    <3>2. Completing(p) \in Steps
      BY DEF Steps
    <3> DEFINE t == <<Completing(p)>>
    <3>3. t \in Seq(Steps) /\ DOMAIN t = 1 .. 1 /\ t[1] = Completing(p)
      BY <3>2
    <3> HIDE DEF t
    <3>4. ASSUME NEW q \in Separate PROVE t[1] # Completing(q) /\ t[1] # First(q)
      BY <2>2, <3>3, StepsDiffer
    <3>5. WellFormed(t)
      BY <3>3, <3>4 DEF WellFormed
    <3> QED BY <3>1, <3>3, <3>5 DEF t
  <2> QED BY <2>1, <2>2
<1>4. seqs \in Seq(S)
  <2>1. Setup \in Seq(Pairs)
    BY SetupRange
  <2>2. DOMAIN Setup = 1 .. Len(Setup) /\ Len(Setup) \in Nat
    BY <2>1
  <2>3. \A i \in 1 .. Len(Setup) : Setup[i] \in Pairs
    BY <2>1, <2>2
  <2> HIDE DEF S
  <2>4. seqs \in [1 .. Len(Setup) -> S]
    BY <1>3, <2>2, <2>3
  <2> QED BY <2>2, <2>4, IsASeq
<1>5. WriteScript = FlattenSeq(seqs)
  BY DEF WriteScript
<1>6. S \in SUBSET Seq(Steps)
  OBVIOUS
<1>7. FlattenSeq(seqs) \in S
  <2> HIDE DEF S, seqs
  <2> QED BY <1>1, <1>2, <1>4, <1>6, FlattenClosed
<1> QED
  BY <1>5, <1>7

-----------------------------------------------------------------------------
(* The result file.                                                        *)

(* The lines that these steps append in run r.                             *)
CompletingLine(p, r) ==
  IF p \in Separate THEN <<<<p, 2, r>>>> ELSE <<<<p, 1, r>>, <<p, 2, r>>>>
FirstLine(p, r) == <<<<p, 1, r>>>>

Line(s, r) == [i \in DOMAIN s |-> <<s[i][1], s[i][2], r>>]

(* Line is the line of a step, and no error.                               *)
LEMMA LineOfStep ==
  ASSUME NEW p, NEW r
  PROVE  /\ Line(First(p), r) = FirstLine(p, r)
         /\ Line(Completing(p), r) = CompletingLine(p, r)
         /\ FirstLine(p, r) # ErrorLine /\ CompletingLine(p, r) # ErrorLine
<1>1. Line(First(p), r) = FirstLine(p, r)
  BY DEF Line, First, FirstLine
<1>2. Line(Completing(p), r) = CompletingLine(p, r)
  BY DEF Line, Completing, CompletingLine
<1>3. Len(FirstLine(p, r)) = 1 /\ Len(CompletingLine(p, r)) \in {1, 2} /\ Len(ErrorLine) = 0
  BY DEF FirstLine, CompletingLine, ErrorLine
<1> QED
  BY <1>1, <1>2, <1>3

(* A line tells its step.                                                  *)
LEMMA LinesDiffer ==
  ASSUME NEW p, NEW q, NEW r
  PROVE  /\ FirstLine(p, r) = FirstLine(q, r) => p = q
         /\ CompletingLine(p, r) = CompletingLine(q, r) => p = q
         /\ p \in Separate => FirstLine(p, r) # CompletingLine(q, r)
<1>1. /\ Len(FirstLine(p, r)) = 1 /\ FirstLine(p, r)[1] = <<p, 1, r>>
      /\ Len(FirstLine(q, r)) = 1 /\ FirstLine(q, r)[1] = <<q, 1, r>>
  BY DEF FirstLine
<1>2. \A x : x \in Separate =>
        Len(CompletingLine(x, r)) = 1 /\ CompletingLine(x, r)[1] = <<x, 2, r>>
  BY DEF CompletingLine
<1>3. \A x : x \notin Separate =>
        Len(CompletingLine(x, r)) = 2 /\ CompletingLine(x, r)[1] = <<x, 1, r>>
  BY DEF CompletingLine
<1> QED
  BY <1>1, <1>2, <1>3

LineOK(i) ==
  /\ file[i] # ErrorLine => \E k \in DOMAIN script : file[i] = Line(script[k], runs)
  /\ file[i] # ErrorLine /\ i \in DOMAIN script => file[i] = Line(script[i], runs)
  /\ \A p \in Separate :
       /\ file[i] = FirstLine(p, runs) /\ i+1 \in DOMAIN file =>
            file[i+1] \in {ErrorLine, CompletingLine(p, runs)}
       /\ file[i] = CompletingLine(p, runs) =>
            i-1 \in DOMAIN file /\ file[i-1] \in {ErrorLine, FirstLine(p, runs)}

ScriptOK == script \in Seq(Steps) /\ WellFormed(script)

FileOK == \A i \in DOMAIN file : LineOK(i)

(* Where LWDAQ is in the script agrees with the last line.                 *)
StepOK ==
  step > 0 =>
    /\ runs > 0 /\ FileOK
    /\ Len(file) < Len(script) => step = Len(file) + 1
    /\ \A p \in Separate :
         /\ file # <<>> /\ file[Len(file)] = FirstLine(p, runs) =>
              script[step] = Completing(p)
         /\ script[step] = Completing(p) =>
              file # <<>> /\ file[Len(file)] \in {ErrorLine, FirstLine(p, runs)}

(* RunDAQ empties the file.                                                *)
LEMMA RunStarts ==
  ASSUME TypeOK, ScriptOK', RunDAQ
  PROVE  StepOK'
<1>1. file' = <<>> /\ runs' > 0 /\ step' = IF script' = <<>> THEN 0 ELSE 1
  BY DEF RunDAQ, TypeOK
<1>2. FileOK'
  BY <1>1 DEF FileOK
<1>3. ASSUME step' > 0, NEW p \in Separate PROVE script'[step'] # Completing(p)
  <2>1. step' = 1 /\ 1 \in DOMAIN script'
    BY <1>1, <1>3 DEF ScriptOK
  <2>2. 1-1 \notin DOMAIN script'
    BY DEF ScriptOK
  <2> QED BY <2>1, <2>2 DEF ScriptOK, WellFormed
<1>4. step' > 0 /\ Len(file') < Len(script') => step' = Len(file') + 1
  BY <1>1
<1> QED
  BY <1>1, <1>2, <1>3, <1>4 DEF StepOK

(* The line that is appended follows the one before it as its step does.   *)
LEMMA LineAppended ==
  ASSUME TypeOK, ScriptOK, StepOK, Acquire
  PROVE  StepOK'
<1> DEFINE n == Len(file)
           l == script[step]
<1>1. /\ step \in DOMAIN script /\ step > 0 /\ l \in Steps
      /\ n \in Nat /\ DOMAIN file = 1 .. n /\ DOMAIN script = 1 .. Len(script)
      /\ Len(script) \in Nat
  BY DEF Acquire, TypeOK, ScriptOK
<1>2. PICK line \in {ErrorLine, Line(l, runs)} : file' = Append(file, line)
  BY DEF Acquire, Line
<1>3. /\ DOMAIN file' = 1 .. n+1 /\ Len(file') = n+1 /\ file' # <<>>
      /\ \A i \in 1 .. n : file'[i] = file[i]
      /\ file'[n+1] = line
  <2>1. file \in Seq(Seq(Spot))
    BY DEF TypeOK
  <2> DEFINE X == Seq(Spot) \cup {line}
  <2>2. file \in Seq(X) /\ line \in X
    BY <2>1
  <2> HIDE DEF X
  <2>3. file' \in Seq(X) /\ Len(file') = n+1 /\ file' # <<>>
        /\ (\A i \in 1 .. n : file'[i] = file[i]) /\ file'[n+1] = line
    BY <1>2, <2>2, AppendProperties
  <2> QED BY <2>3, LenProperties
<1>4. UNCHANGED <<script, runs>> /\ step' = IF step = Len(script) THEN 1 ELSE step + 1
  BY DEF Acquire
<1>5. PICK q : /\ l = Completing(q) \/ (l = First(q) /\ q \in Separate)
               /\ Line(l, runs) = IF l = First(q) /\ q \in Separate
                                  THEN FirstLine(q, runs) ELSE CompletingLine(q, runs)
  <2>1. PICK q : l = Completing(q) \/ (l = First(q) /\ q \in Separate)
    <3>1. l \in Steps
      BY <1>1
    <3> HIDE DEF l
    <3> QED BY <3>1 DEF Steps
  <2>2. q \in Separate => First(q) # Completing(q)
    BY StepsDiffer
  <2> HIDE DEF l
  <2> QED BY <2>1, <2>2, LineOfStep
<1>6. \A p \in Separate : line = FirstLine(p, runs) => l = First(p)
  <2> TAKE p \in Separate
  <2> HIDE DEF l
  <2>1. FirstLine(p, runs) # ErrorLine
    BY LineOfStep
  <2>2. FirstLine(p, runs) # CompletingLine(q, runs)
    BY LinesDiffer
  <2>3. FirstLine(p, runs) = FirstLine(q, runs) => p = q
    BY LinesDiffer
  <2> QED BY <1>2, <1>5, <2>1, <2>2, <2>3
<1>7. \A p \in Separate : line = CompletingLine(p, runs) => l = Completing(p)
  <2> TAKE p \in Separate
  <2> HIDE DEF l
  <2>1. CompletingLine(p, runs) # ErrorLine
    BY LineOfStep
  <2>2. q \in Separate => FirstLine(q, runs) # CompletingLine(p, runs)
    BY LinesDiffer
  <2>3. CompletingLine(p, runs) = CompletingLine(q, runs) => p = q
    BY LinesDiffer
  <2> QED BY <1>2, <1>5, <2>1, <2>2, <2>3
<1>8. \A p \in Separate :
        /\ l = First(p) => line \in {ErrorLine, FirstLine(p, runs)}
        /\ l = Completing(p) => line \in {ErrorLine, CompletingLine(p, runs)}
  <2> TAKE p \in Separate
  <2> HIDE DEF l
  <2>1. /\ Line(First(p), runs) = FirstLine(p, runs)
        /\ Line(Completing(p), runs) = CompletingLine(p, runs)
    BY LineOfStep
  <2> QED BY <1>2, <2>1
<1>9. /\ n < Len(script) => step = n + 1
      /\ \A p \in Separate :
           /\ n > 0 /\ file[n] = FirstLine(p, runs) => l = Completing(p)
           /\ l = Completing(p) => n > 0 /\ file[n] \in {ErrorLine, FirstLine(p, runs)}
  BY <1>1 DEF StepOK, TypeOK
<1> HIDE DEF l, n
<1>10. FileOK'
  <2> SUFFICES ASSUME NEW i \in DOMAIN file' PROVE LineOK(i)'
    BY DEF FileOK
  <2>1. i \in 1 .. n+1
    BY <1>3
  <2>2. CASE i \in 1 .. n
    <3>1. LineOK(i) /\ file'[i] = file[i] /\ i \in DOMAIN file
      BY <1>1, <1>3, <2>2 DEF StepOK, FileOK
    <3>2. ASSUME NEW p \in Separate, file[i] = FirstLine(p, runs), i+1 \in 1 .. n+1
          PROVE  file'[i+1] \in {ErrorLine, CompletingLine(p, runs)}
      <4>1. CASE i+1 \in 1 .. n
        BY <1>1, <1>3, <3>1, <3>2, <4>1 DEF LineOK
      <4>2. CASE i+1 \notin 1 .. n
        <5>1. i = n /\ n > 0
          BY <1>1, <2>2, <4>2
        <5> QED BY <1>3, <1>8, <1>9, <3>2, <5>1
      <4> QED BY <4>1, <4>2
    <3>3. ASSUME NEW p \in Separate, file[i] = CompletingLine(p, runs)
          PROVE  i-1 \in 1 .. n+1 /\ file'[i-1] \in {ErrorLine, FirstLine(p, runs)}
      <4>1. i-1 \in 1 .. n /\ file[i-1] \in {ErrorLine, FirstLine(p, runs)}
        BY <1>1, <3>1, <3>3 DEF LineOK
      <4> QED BY <1>1, <1>3, <4>1
    <3>4. /\ file[i] # ErrorLine => \E k \in DOMAIN script : file[i] = Line(script[k], runs)
          /\ file[i] # ErrorLine /\ i \in DOMAIN script => file[i] = Line(script[i], runs)
      BY <3>1 DEF LineOK
    <3> QED BY <1>3, <1>4, <3>1, <3>2, <3>3, <3>4 DEF LineOK
  <2>3. CASE i = n+1
    <3>1. file'[i] = line /\ i+1 \notin 1 .. n+1
      BY <1>1, <1>3, <2>3
    <3>2. line # ErrorLine => line = Line(script[step], runs)
      BY <1>2 DEF l
    <3>3. i \in DOMAIN script => step = i
      BY <1>1, <1>9, <2>3
    <3>4. ASSUME NEW p \in Separate, line = CompletingLine(p, runs)
          PROVE  i-1 \in 1 .. n+1 /\ file'[i-1] \in {ErrorLine, FirstLine(p, runs)}
      <4>1. n > 0 /\ file[n] \in {ErrorLine, FirstLine(p, runs)}
        BY <1>7, <1>9, <3>4
      <4>2. i-1 = n /\ n \in 1 .. n /\ n \in 1 .. n+1
        BY <1>1, <2>3, <4>1
      <4> QED BY <1>3, <4>1, <4>2
    <3> QED BY <1>1, <1>3, <1>4, <3>1, <3>2, <3>3, <3>4 DEF LineOK
  <2> QED BY <1>1, <2>1, <2>2, <2>3
<1>11. StepOK'
  <2>1. runs' > 0
    BY <1>1, <1>4 DEF StepOK
  <2>2. Len(file') < Len(script') => step' = Len(file') + 1
    BY <1>1, <1>3, <1>4, <1>9
  <2>3. ASSUME NEW p \in Separate, line = FirstLine(p, runs)
        PROVE  script[step'] = Completing(p)
    <3>1. script[step] = First(p)
      BY <1>6, <2>3 DEF l
    <3>2. step+1 \in DOMAIN script /\ script[step+1] = Completing(p)
      BY <1>1, <3>1 DEF ScriptOK, WellFormed
    <3> QED BY <1>1, <1>4, <3>2
  <2>4. ASSUME NEW p \in Separate, script[step'] = Completing(p)
        PROVE  line \in {ErrorLine, FirstLine(p, runs)}
    <3>1. step' \in DOMAIN script
      BY <1>1, <1>4
    <3>2. step'-1 \in DOMAIN script /\ script[step'-1] = First(p)
      BY <2>4, <3>1 DEF ScriptOK, WellFormed
    <3>3. step'-1 = step
      BY <1>1, <1>4, <3>2
    <3> QED BY <1>8, <3>2, <3>3 DEF l
  <2> QED BY <1>3, <1>4, <1>10, <2>1, <2>2, <2>3, <2>4 DEF StepOK
<1> QED
  BY <1>11

-----------------------------------------------------------------------------
(* What is read of the result file.                                        *)

Outcomes == {"read", "given up", "thrown"}
Readings == [outcome : Outcomes, saved : Seq(Spot), found : Seq(DualSpot)]

(* A line read leaves a reading.                                           *)
LEMMA ReadLineType ==
  ASSUME NEW r \in Readings, NEW line \in Seq(Spot)
  PROVE  ReadLine(r, line) \in Readings
<1>1. /\ r.outcome \in Outcomes /\ r.saved \in Seq(Spot) /\ r.found \in Seq(DualSpot)
      /\ r = [outcome |-> r.outcome, saved |-> r.saved, found |-> r.found]
  BY DEF Readings
<1>2. ASSUME NEW x \in Outcomes PROVE [r EXCEPT !.outcome = x] \in Readings
  BY <1>1, <1>2 DEF Readings
<1>3. CASE r.outcome # "read"
  BY <1>3 DEF ReadLine
<1>4. CASE line = ErrorLine \/ line[1][1] \notin Known
  BY <1>2, <1>4 DEF ReadLine, Outcomes
<1>5. CASE r.outcome = "read" /\ line # ErrorLine /\ ~(line[1][1] \notin Known)
  <2>1. line[1] \in Spot
    BY <1>5 DEF ErrorLine
  <2>2. CASE Len(line) = 2
    <3>1. <<line[1], line[2]>> \in DualSpot
      BY <2>1, <2>2 DEF DualSpot
    <3>2. Append(r.found, <<line[1], line[2]>>) \in Seq(DualSpot)
      BY <1>1, <3>1, AppendProperties
    <3>3. ReadLine(r, line) = [r EXCEPT !.found = Append(r.found, <<line[1], line[2]>>)]
      BY <1>5, <2>2 DEF ReadLine
    <3> QED BY <1>1, <3>2, <3>3 DEF Readings
  <2>3. CASE Len(line) # 2 /\ r.saved = <<>>
    <3>1. ReadLine(r, line) = [r EXCEPT !.saved = line]
      BY <1>5, <2>3 DEF ReadLine
    <3> QED BY <1>1, <3>1 DEF Readings
  <2>4. CASE Len(line) # 2 /\ r.saved # <<>>
    <3>1. <<r.saved[1], line[1]>> \in DualSpot
      BY <1>1, <2>1, <2>4 DEF DualSpot
    <3>2. Append(r.found, <<r.saved[1], line[1]>>) \in Seq(DualSpot)
      BY <1>1, <3>1, AppendProperties
    <3>3. ReadLine(r, line) = [r EXCEPT !.found = Append(r.found, <<r.saved[1], line[1]>>),
                                        !.saved = <<>>]
      BY <1>5, <2>4 DEF ReadLine
    <3>4. ReadLine(r, line) = [outcome |-> r.outcome, saved |-> <<>>,
                               found |-> Append(r.found, <<r.saved[1], line[1]>>)]
      BY <1>1, <3>3
    <3> QED BY <1>1, <3>2, <3>4 DEF Readings
  <2> QED BY <2>2, <2>3, <2>4
<1> QED
  BY <1>3, <1>4, <1>5

Start ==
  [outcome |-> IF file = <<>> THEN "given up" ELSE "read",
   saved |-> <<>>, found |-> data]

(* Reading is defined by its recursion.                                    *)
LEMMA ReadingSteps ==
  ASSUME file \in Seq(Seq(Spot)), data \in Seq(DualSpot)
  PROVE  /\ Reading \in [0 .. Len(file) -> Readings]
         /\ Reading[0] = Start
         /\ \A n \in 1 .. Len(file) : Reading[n] = ReadLine(Reading[n-1], file[n])
<1> DEFINE n == Len(file)
           next(f, i) == IF i = 0 THEN Start ELSE ReadLine(f[i-1], file[i])
           D == [v \in Readings \X (1 .. n) |-> ReadLine(v[1], file[v[2]])]
<1>1. n \in Nat /\ \A i \in 1 .. n : file[i] \in Seq(Spot)
  BY LenProperties
<1>2. Start \in Readings
  BY DEF Start, Readings, Outcomes
<1>3. D \in [Readings \X (1 .. n) -> Readings]
  <2>1. \A v \in Readings \X (1 .. n) : ReadLine(v[1], file[v[2]]) \in Readings
    BY <1>1, ReadLineType
  <2> QED BY <2>1
<1>4. PICK g \in [0 .. n -> Readings] : Computes(g, Start, D, n)
  <2> HIDE DEF D, n
  <2> QED BY <1>1, <1>2, <1>3, Recursion
<1>5. g = [i \in 0 .. n |-> next(g, i)]
  <2>1. ASSUME NEW i \in 0 .. n PROVE g[i] = next(g, i)
    <3>1. CASE i = 0
      BY <1>4, <3>1 DEF Computes
    <3>2. CASE i # 0
      <4>1. i \in 1 .. n /\ i-1 \in 0 .. n
        BY <1>1, <3>2
      <4>2. g[i] = D[<<g[i-1], i>>]
        BY <1>4, <4>1 DEF Computes
      <4>3. <<g[i-1], i>> \in Readings \X (1 .. n)
        BY <4>1
      <4> QED BY <3>2, <4>2, <4>3
    <3> QED BY <3>1, <3>2
  <2> HIDE DEF next
  <2> QED BY <2>1
<1>6. Reading = [i \in 0 .. n |-> next(Reading, i)]
  <2> DEFINE F == CHOOSE f : f = [i \in 0 .. n |-> next(f, i)]
  <2>1. F = [i \in 0 .. n |-> next(F, i)]
    <3> HIDE DEF next
    <3> QED BY <1>5
  <2>2. Reading = F
    BY DEF Reading, Start
  <2> HIDE DEF F
  <2> QED BY <2>1, <2>2
<1>7. \A i \in 0 .. n : Reading[i] = next(Reading, i)
  <2> HIDE DEF next, n
  <2> QED BY <1>6
<1>8. Reading[0] = Start
  BY <1>1, <1>7
<1>9. \A i \in 1 .. n : Reading[i] = ReadLine(Reading[i-1], file[i])
  <2> TAKE i \in 1 .. n
  <2>1. i \in 0 .. n /\ i # 0
    BY <1>1
  <2> QED BY <1>7, <2>1
<1> DEFINE T == {i \in 0 .. n : Reading[i] \in Readings}
<1>10. \A i \in 0 .. n : i \in T
  <2>1. 0 \in T
    BY <1>1, <1>2, <1>8
  <2>2. ASSUME NEW i \in 0+1 .. n, i-1 \in T PROVE i \in T
    <3>1. i \in 1 .. n /\ i \in 0 .. n
      BY <1>1
    <3>2. ReadLine(Reading[i-1], file[i]) \in Readings
      BY <1>1, <2>2, <3>1, ReadLineType
    <3> QED BY <1>9, <3>1, <3>2
  <2> HIDE DEF T, n
  <2> QED BY <1>1, <2>1, <2>2, Induction
<1> QED
  <2> HIDE DEF next
  <2> QED BY <1>6, <1>8, <1>9, <1>10

(***************************************************************************)
(* After n lines: the pairs of spots are matched, and as long as no line   *)
(* stopped the reading, a spot is saved just after a line that has the     *)
(* first of two, and each pair of which a second spot was read is found.    *)
(***************************************************************************)
Halfway(n) == \E p \in Separate : file[n] = FirstLine(p, runs)

ReadOK(n) ==
  LET r == Reading[n] IN
  /\ \A i \in DOMAIN r.found : Matched(r.found[i])
  /\ r.outcome = "read" =>
       /\ file # <<>>
       /\ \A k \in 1 .. n : file[k] # ErrorLine /\ file[k][1][1] \in Known
       /\ r.saved = IF n > 0 /\ Halfway(n) THEN file[n] ELSE <<>>
       /\ \A k \in 1 .. n : \A j \in DOMAIN file[k] :
            file[k][j][2] = 2 =>
              \E i \in DOMAIN r.found : NamePair(r.found[i]) = file[k][j][1]

DataOK == \A i \in DOMAIN data : Matched(data[i])

LineInv == TypeOK /\ ScriptOK /\ FileOK /\ (file # <<>> => runs > 0)

Dual(p) == <<<<p, 1, runs>>, <<p, 2, runs>>>>

(* What line n does if it does not stop the reading: it is of step k.      *)
Reads(n) ==
  \E p : \E k \in DOMAIN script :
    /\ Reading[n].outcome = "read" /\ (n \in DOMAIN script => k = n)
    /\ \/ /\ p \in Separate /\ script[k] = First(p) /\ Halfway(n)
          /\ Reading[n].saved = file[n]
          /\ Reading[n].found = Reading[n-1].found
          /\ \A j \in DOMAIN file[n] : file[n][j][2] = 1
       \/ /\ script[k] = Completing(p) /\ ~Halfway(n)
          /\ Reading[n].saved = <<>>
          /\ Reading[n].found = Append(Reading[n-1].found, Dual(p))
          /\ \A j \in DOMAIN file[n] : file[n][j][1] = p

(* It does so from a reading that is as it should be.                      *)
LEMMA ReadStep ==
  ASSUME LineInv, NEW n \in 1 .. Len(file), ReadOK(n-1),
         Reading \in [0 .. Len(file) -> Readings],
         Reading[n] = ReadLine(Reading[n-1], file[n]),
         Reading[n-1].outcome = "read", file[n] # ErrorLine, file[n][1][1] \in Known
  PROVE  Reads(n)
<1> DEFINE r == Reading[n-1]
           line == file[n]
<1>1. /\ Len(file) \in Nat /\ DOMAIN file = 1 .. Len(file) /\ n-1 \in 0 .. Len(file)
  BY DEF LineInv, TypeOK
<1>2. /\ Reading[n] = ReadLine(r, line) /\ r \in Readings /\ n \in DOMAIN file /\ n > 0
      /\ r.outcome = "read" /\ line # ErrorLine /\ line[1][1] \in Known
  BY <1>1
<1>3. /\ \A k \in 1 .. n-1 : file[k] # ErrorLine
      /\ r.saved = IF n-1 > 0 /\ Halfway(n-1) THEN file[n-1] ELSE <<>>
  BY <1>2 DEF ReadOK
<1>4. LineOK(n) /\ (n > 1 => LineOK(n-1))
  <2>1. n > 1 => n-1 \in DOMAIN file
    BY <1>1
  <2> QED BY <1>2, <2>1 DEF LineInv, FileOK
<1>5. PICK k \in DOMAIN script : line = Line(script[k], runs) /\ (n \in DOMAIN script => k = n)
  BY <1>2, <1>4 DEF LineOK
<1>6. PICK p : script[k] = Completing(p) \/ (script[k] = First(p) /\ p \in Separate)
  <2>1. script[k] \in Steps
    BY DEF LineInv, ScriptOK
  <2> QED BY <2>1 DEF Steps
<1>7. ASSUME NEW q \in Separate, n-1 > 0, file[n-1] = FirstLine(q, runs)
      PROVE  line = CompletingLine(q, runs)
  <2>1. (n-1)+1 = n /\ LineOK(n-1)
    BY <1>2, <1>4, <1>7
  <2> QED BY <1>2, <1>7, <2>1 DEF LineOK
<1>8. ASSUME NEW q \in Separate, line = CompletingLine(q, runs)
      PROVE  n-1 > 0 /\ file[n-1] = FirstLine(q, runs)
  <2>1. n-1 \in DOMAIN file /\ file[n-1] \in {ErrorLine, FirstLine(q, runs)}
    BY <1>4, <1>8 DEF LineOK
  <2> QED BY <1>1, <1>3, <2>1
<1> HIDE DEF line, r, Reads
<1>9. CASE script[k] = First(p) /\ p \in Separate
  <2>1. line = FirstLine(p, runs)
    BY <1>5, <1>9, LineOfStep
  <2>2. ~(n-1 > 0 /\ Halfway(n-1))
    BY <1>7, <1>9, <2>1, LinesDiffer DEF Halfway
  <2>3. Len(line) = 1
    BY <2>1 DEF FirstLine
  <2>4. ReadLine(r, line) = [r EXCEPT !.saved = line]
    BY <1>2, <1>3, <2>2, <2>3 DEF ReadLine
  <2>5. /\ ReadLine(r, line).found = r.found /\ ReadLine(r, line).saved = line
        /\ ReadLine(r, line).outcome = "read"
    BY <1>2, <2>4 DEF Readings
  <2>6. Halfway(n)
    BY <1>9, <2>1 DEF Halfway, line
  <2>7. \A j \in DOMAIN line : line[j][2] = 1
    BY <2>1 DEF FirstLine
  <2> QED BY <1>2, <1>5, <1>9, <2>5, <2>6, <2>7 DEF line, r, Reads
<1>10. CASE script[k] = Completing(p) /\ p \notin Separate
  <2>1. line = CompletingLine(p, runs)
    BY <1>5, <1>10, LineOfStep
  <2>2. ~(n-1 > 0 /\ Halfway(n-1))
    BY <1>7, <1>10, <2>1, LinesDiffer DEF Halfway
  <2>3. line = <<<<p, 1, runs>>, <<p, 2, runs>>>>
    BY <1>10, <2>1 DEF CompletingLine
  <2>4. <<line[1], line[2]>> = Dual(p) /\ line[1][1] = p /\ Len(line) = 2
    BY <2>3 DEF Dual
  <2>5. ReadLine(r, line) = [r EXCEPT !.found = Append(r.found, Dual(p))]
    BY <1>2, <2>4 DEF ReadLine
  <2>6. /\ ReadLine(r, line).found = Append(r.found, Dual(p))
        /\ ReadLine(r, line).saved = <<>> /\ ReadLine(r, line).outcome = "read"
    BY <1>2, <1>3, <2>2, <2>5 DEF Readings
  <2>7. ~Halfway(n)
    BY <2>1, LinesDiffer DEF Halfway, line
  <2>8. \A j \in DOMAIN line : line[j][1] = p
    BY <2>3
  <2> QED BY <1>2, <1>5, <1>10, <2>6, <2>7, <2>8 DEF line, r, Reads
<1>11. CASE script[k] = Completing(p) /\ p \in Separate
  <2>1. line = CompletingLine(p, runs)
    BY <1>5, <1>11, LineOfStep
  <2>2. n-1 > 0 /\ file[n-1] = FirstLine(p, runs) /\ Halfway(n-1)
    BY <1>8, <1>11, <2>1 DEF Halfway
  <2>3. line = <<<<p, 2, runs>>>> /\ r.saved = <<<<p, 1, runs>>>>
    BY <1>3, <1>11, <2>1, <2>2 DEF CompletingLine, FirstLine
  <2>4. <<r.saved[1], line[1]>> = Dual(p) /\ Len(line) = 1 /\ r.saved # <<>>
    BY <2>3 DEF Dual
  <2>5. \A j \in DOMAIN line : line[j][1] = p
    BY <2>3
  <2>6. ReadLine(r, line) =
          [r EXCEPT !.found = Append(r.found, <<r.saved[1], line[1]>>), !.saved = <<>>]
    BY <1>2, <2>4 DEF ReadLine
  <2>7. ReadLine(r, line) = [r EXCEPT !.found = Append(r.found, Dual(p)), !.saved = <<>>]
    BY <2>4, <2>6
  <2>8. /\ ReadLine(r, line).found = Append(r.found, Dual(p))
        /\ ReadLine(r, line).saved = <<>> /\ ReadLine(r, line).outcome = "read"
    BY <1>2, <2>7 DEF Readings
  <2>9. ~Halfway(n)
    BY <2>1, LinesDiffer DEF Halfway, line
  <2> QED BY <1>2, <1>5, <1>11, <2>5, <2>8, <2>9 DEF line, r, Reads
<1> QED
  BY <1>6, <1>9, <1>10, <1>11

(* A sequence with one more element.                                       *)
LEMMA OneMore ==
  ASSUME NEW X, NEW s \in Seq(X), NEW d
  PROVE  /\ Len(s) \in Nat /\ DOMAIN s = 1 .. Len(s)
         /\ DOMAIN Append(s, d) = 1 .. Len(s) + 1
         /\ Append(s, d)[Len(s) + 1] = d
         /\ \A i \in 1 .. Len(s) : Append(s, d)[i] = s[i]
<1>1. s \in Seq(X \cup {d}) /\ d \in X \cup {d}
  OBVIOUS
<1>2. Append(s, d) \in Seq(X \cup {d})
  BY <1>1, AppendProperties
<1> QED
  BY <1>1, <1>2, AppendProperties, LenProperties

(* Every reading is.                                                       *)
LEMMA ReadingOK ==
  ASSUME LineInv, DataOK
  PROVE  \A n \in 0 .. Len(file) : ReadOK(n)
<1> DEFINE T == {n \in 0 .. Len(file) : ReadOK(n)}
<1>1. file \in Seq(Seq(Spot)) /\ data \in Seq(DualSpot)
  BY DEF LineInv, TypeOK
<1>2. /\ Len(file) \in Nat /\ DOMAIN file = 1 .. Len(file)
      /\ Reading \in [0 .. Len(file) -> Readings]
      /\ Reading[0] = Start
      /\ \A n \in 1 .. Len(file) : Reading[n] = ReadLine(Reading[n-1], file[n])
  BY <1>1, LenProperties, ReadingSteps
<1>3. ReadOK(0)
  <2>1. /\ Reading[0].found = data /\ Reading[0].saved = <<>>
        /\ Reading[0].outcome = "read" => file # <<>>
    <3>1. /\ Start.found = data /\ Start.saved = <<>>
          /\ Start.outcome = (IF file = <<>> THEN "given up" ELSE "read")
      BY DEF Start
    <3>2. file = <<>> => Start.outcome # "read"
      BY <3>1
    <3> QED BY <1>2, <3>1, <3>2
  <2>2. (\A k \in 1 .. 0 : FALSE) /\ ~(0 > 0)
    OBVIOUS
  <2> QED BY <2>1, <2>2 DEF ReadOK, DataOK
<1>4. ASSUME NEW n \in 1 .. Len(file), ReadOK(n-1) PROVE ReadOK(n)
  <2> DEFINE r == Reading[n-1]
             line == file[n]
  <2>1. /\ Reading[n] = ReadLine(r, line) /\ n-1 \in 0 .. Len(file) /\ r \in Readings
        /\ n \in DOMAIN file /\ n > 0
    BY <1>2
  <2>2. \A i \in DOMAIN r.found : Matched(r.found[i])
    BY <1>4 DEF ReadOK
  <2>3. CASE r.outcome # "read"
    <3>1. ReadLine(r, line) = r
      BY <2>3 DEF ReadLine
    <3> QED BY <2>1, <2>2, <2>3, <3>1 DEF ReadOK
  <2>4. CASE r.outcome = "read" /\ (line = ErrorLine \/ line[1][1] \notin Known)
    <3>1. /\ ReadLine(r, line).found = r.found
          /\ ReadLine(r, line).outcome \in {"given up", "thrown"}
      BY <2>1, <2>4 DEF ReadLine, Readings
    <3> QED BY <2>1, <2>2, <3>1 DEF ReadOK
  <2>5. CASE r.outcome = "read" /\ line # ErrorLine /\ line[1][1] \in Known
    <3>1. /\ file # <<>>
          /\ \A k \in 1 .. n-1 : file[k] # ErrorLine /\ file[k][1][1] \in Known
          /\ \A k \in 1 .. n-1 : \A j \in DOMAIN file[k] :
               file[k][j][2] = 2 =>
                 \E i \in DOMAIN r.found : NamePair(r.found[i]) = file[k][j][1]
      BY <1>4, <2>5 DEF ReadOK
    <3>2. \A k \in 1 .. n : k \in 1 .. n-1 \/ k = n
      BY <1>2
    <3>3. \A k \in 1 .. n : file[k] # ErrorLine /\ file[k][1][1] \in Known
      BY <2>5, <3>1, <3>2
    <3>4. PICK p :
            \/ /\ Halfway(n) /\ Reading[n].saved = file[n]
               /\ Reading[n].found = r.found
               /\ \A j \in DOMAIN file[n] : file[n][j][2] = 1
            \/ /\ ~Halfway(n) /\ Reading[n].saved = <<>>
               /\ Reading[n].found = Append(r.found, Dual(p))
               /\ \A j \in DOMAIN file[n] : file[n][j][1] = p
      <4>1. /\ Reading[n] = ReadLine(Reading[n-1], file[n]) /\ ReadOK(n-1)
            /\ Reading[n-1].outcome = "read" /\ file[n] # ErrorLine
            /\ file[n][1][1] \in Known
        BY <1>4, <2>1, <2>5
      <4>2. Reads(n)
        <5>1. Reading \in [0 .. Len(file) -> Readings]
          BY <1>2
        <5> HIDE DEF r
        <5> QED BY <4>1, <5>1, ReadStep
      <4> QED BY <4>2 DEF Reads
    <3> HIDE DEF r
    <3>5. CASE /\ Halfway(n) /\ Reading[n].saved = file[n] /\ Reading[n].found = r.found
               /\ \A j \in DOMAIN file[n] : file[n][j][2] = 1
      <4>1. \A k \in 1 .. n : \A j \in DOMAIN file[k] :
              file[k][j][2] = 2 =>
                \E i \in DOMAIN r.found : NamePair(r.found[i]) = file[k][j][1]
        BY <3>1, <3>2, <3>5
      <4> QED BY <2>1, <2>2, <3>1, <3>3, <3>5, <4>1 DEF ReadOK
    <3>6. CASE /\ ~Halfway(n) /\ Reading[n].saved = <<>>
               /\ Reading[n].found = Append(r.found, Dual(p))
               /\ \A j \in DOMAIN file[n] : file[n][j][1] = p
      <4> DEFINE f == Reading[n].found
      <4>1. /\ DOMAIN f = 1 .. Len(r.found) + 1 /\ f[Len(r.found) + 1] = Dual(p)
            /\ Len(r.found) \in Nat /\ DOMAIN r.found = 1 .. Len(r.found)
            /\ \A i \in 1 .. Len(r.found) : f[i] = r.found[i]
        <5>1. r.found \in Seq(DualSpot)
          BY <2>1 DEF Readings
        <5> QED BY <3>6, <5>1, OneMore
      <4>2. Matched(Dual(p)) /\ NamePair(Dual(p)) = p
        BY DEF Matched, NamePair, Dual
      <4> HIDE DEF f
      <4>3. \A i \in DOMAIN f : Matched(f[i])
        BY <2>2, <4>1, <4>2
      <4>4. \E i \in DOMAIN f : NamePair(f[i]) = p
        BY <4>1, <4>2
      <4>5. ASSUME NEW k \in 1 .. n, NEW j \in DOMAIN file[k], file[k][j][2] = 2
            PROVE  \E i \in DOMAIN f : NamePair(f[i]) = file[k][j][1]
        <5>1. CASE k \in 1 .. n-1
          <6>1. PICK i \in DOMAIN r.found : NamePair(r.found[i]) = file[k][j][1]
            BY <3>1, <4>5, <5>1
          <6> QED BY <4>1, <6>1
        <5>2. CASE k = n
          BY <3>6, <4>4, <5>2
        <5> QED BY <3>2, <5>1, <5>2
      <4> QED BY <2>1, <3>1, <3>3, <3>6, <4>3, <4>5 DEF ReadOK, f
    <3> QED BY <3>4, <3>5, <3>6
  <2> QED BY <2>3, <2>4, <2>5
<1>5. \A n \in 0 .. Len(file) : n \in T
  <2>1. 0 \in T
    BY <1>2, <1>3
  <2>2. ASSUME NEW n \in 0+1 .. Len(file), n-1 \in T PROVE n \in T
    <3>1. n \in 1 .. Len(file) /\ n \in 0 .. Len(file)
      BY <1>2
    <3> QED BY <1>4, <2>2, <3>1
  <2> HIDE DEF T
  <2> QED BY <1>2, <2>1, <2>2, Induction
<1> QED
  BY <1>5

-----------------------------------------------------------------------------
(* The invariant.                                                          *)

(* A start that is given up writes the script again and leaves the file:   *)
(* the two belong together (FileOK) while LWDAQ has a run.                 *)
Inv ==
  /\ TypeOK /\ ScriptOK /\ StepOK /\ (file # <<>> => runs > 0)
  /\ DataOK /\ PairsMatch

(* What is read while there is a run is as it should be.                   *)
LEMMA RunningReads == Inv /\ Running => LineInv
<1> SUFFICES ASSUME Inv, Running PROVE LineInv
  OBVIOUS
<1>1. FileOK
  <2>1. CASE step > 0
    BY <2>1 DEF Inv, StepOK
  <2>2. CASE file = <<>>
    BY <2>2 DEF FileOK
  <2> QED BY <2>1, <2>2 DEF Running
<1> QED
  BY <1>1 DEF Inv, LineInv

(* What a configuration names.                                             *)
LEMMA RangeOfPairs ==
  ASSUME NEW conf \in Configuration
  PROVE  conf.pairs \in Seq(Pairs) /\ Range(conf.pairs) \subseteq Pairs
BY DEF Configuration, Range

(* The configurations accepted are configurations.                         *)
LEMMA AcceptedType == \A conf \in Accepted : conf \in Configuration
BY PairsAssumption

(* Only BCAMs of pairs are placed.                                         *)
LEMMA PlacedType ==
  ASSUME NEW conf \in Configuration
  PROVE  PlacedBy(conf.pairs) \subseteq {BcamOf[p] : p \in Pairs}
BY RangeOfPairs DEF PlacedBy

(* It holds at the start.                                                  *)
LEMMA InvInit == Init => Inv
<1> SUFFICES ASSUME Init PROVE Inv
  OBVIOUS
<1>1. TypeOK
  <2>1. publications \subseteq Names
    BY AcceptedType, RangeOfPairs DEF Init, SetupNames, Known, Names
  <2>2. output \in [Names -> Seq(DualSpot)]
    BY DEF Init
  <2>3. 0 \in 0 .. MaxRuns
    BY BoundsAssumption
  <2>4. /\ script \in Seq(Seq(Pairs \X {1, 2})) /\ step \in 0 .. Len(script)
        /\ file \in Seq(Seq(Spot)) /\ data \in Seq(DualSpot)
    BY DEF Init
  <2>5. /\ alive \in BOOLEAN /\ wanted \in BOOLEAN /\ dip \in {"created", "unset"}
        /\ selection \in Seq(Detectors) /\ calibrated \in [Pairs -> Nat]
    BY PairsAssumption DEF Init
  <2>7. config \in Configuration /\ placed \subseteq {BcamOf[p] : p \in Pairs}
    BY AcceptedType, PlacedType DEF Init
  <2>6. runs \in 0 .. MaxRuns
    BY <2>3 DEF Init
  <2> QED
    BY <2>1, <2>2, <2>4, <2>5, <2>6, <2>7 DEF TypeOK
<1>2. ScriptOK /\ StepOK /\ file = <<>> /\ DataOK
  BY DEF Init, ScriptOK, WellFormed, StepOK, DataOK
<1>3. PairsMatch
  BY DEF Init, PairsMatch
<1> QED
  BY <1>1, <1>2, <1>3 DEF Inv

(* The steps of a script are sequences of sources.                         *)
LEMMA StepsType == Steps \subseteq Seq(Pairs \X {1, 2})
<1> SUFFICES ASSUME NEW s \in Steps PROVE s \in Seq(Pairs \X {1, 2})
  OBVIOUS
<1>1. PICK p \in Pairs : s = Completing(p) \/ s = First(p)
  BY PairsAssumption DEF Steps
<1>2. <<p, 1>> \in Pairs \X {1, 2} /\ <<p, 2>> \in Pairs \X {1, 2}
  OBVIOUS
<1>3. \A x, y \in Pairs \X {1, 2} : <<x>> \in Seq(Pairs \X {1, 2}) /\ <<x, y>> \in Seq(Pairs \X {1, 2})
  OBVIOUS
<1> QED
  BY <1>1, <1>2, <1>3 DEF Completing, First

(* Nothing but the run, its evaluation and the start of the process        *)
(* changes these.                                                          *)
LEMMA InvUntouched ==
  ASSUME Inv, TypeOK', UNCHANGED <<script, file, runs, data, output>>,
         step' = step \/ step' = 0
  PROVE  Inv'
<1>1. ScriptOK' /\ DataOK' /\ PairsMatch' /\ (file # <<>> => runs > 0)'
  BY DEF Inv, ScriptOK, DataOK, PairsMatch
<1>2. StepOK'
  <2>1. CASE step' = step
    BY <2>1 DEF Inv, StepOK, FileOK, LineOK
  <2>2. CASE step' = 0
    BY <2>2 DEF StepOK
  <2> QED BY <2>1, <2>2
<1> QED
  BY <1>1, <1>2 DEF Inv

(* A configuration that is read keeps the types.                           *)
LEMMA SetupNamesType ==
  ASSUME (config \in Configuration)'
  PROVE  SetupNames' \subseteq Names
BY RangeOfPairs DEF SetupNames, Known, Names

(* A run starts with an empty file, or not at all.                         *)
LEMMA InvRunDAQ ==
  ASSUME Inv, ScriptOK', step = 0, RunDAQ \/ RunAborted,
         UNCHANGED <<alive, setupVars, data, output>>
  PROVE  Inv'
<1>1. TypeOK'
  <2>1. script' \in Seq(Seq(Pairs \X {1, 2}))
    BY StepsType, SeqMonotonic DEF ScriptOK
  <2>2. step' \in 0 .. Len(script')
    <3>1. Len(script') \in Nat /\ (script' # <<>> => Len(script') > 0)
      BY <2>1, LenProperties, EmptySeq
    <3>2. CASE RunDAQ
      BY <3>1, <3>2 DEF RunDAQ
    <3>3. CASE RunAborted
      BY <3>1, <3>3 DEF RunAborted
    <3> QED BY <3>2, <3>3
  <2>3. runs' \in 0 .. MaxRuns /\ file' \in Seq(Seq(Spot)) /\ wanted' \in BOOLEAN
    <3>1. runs \in 0 .. MaxRuns /\ file \in Seq(Seq(Spot))
      BY DEF Inv, TypeOK
    <3>2. CASE RunDAQ
      BY <3>1, <3>2, BoundsAssumption DEF RunDAQ
    <3>3. CASE RunAborted
      BY <3>1, <3>3 DEF RunAborted
    <3> QED BY <3>2, <3>3
  <2>4. UNCHANGED <<alive, selection, config, calibrated, placed, dip,
                    publications, data, output>>
    BY DEF setupVars
  <2> QED BY <2>1, <2>2, <2>3, <2>4 DEF Inv, TypeOK
<1>2. StepOK' /\ (file # <<>> => runs > 0)'
  <2>1. CASE RunDAQ
    BY <2>1, RunStarts DEF RunDAQ, Inv
  <2>2. CASE RunAborted
    BY <2>2 DEF RunAborted, StepOK, Inv
  <2> QED BY <2>1, <2>2
<1>3. DataOK' /\ PairsMatch'
  BY DEF Inv, DataOK, PairsMatch
<1> QED
  BY <1>1, <1>2, <1>3 DEF Inv

(* LWDAQ appends a line.                                                   *)
LEMMA InvAcquire ==
  ASSUME Inv, Acquire
  PROVE  Inv'
<1>1. StepOK'
  BY LineAppended DEF Inv
<1>2. runs > 0 /\ runs' = runs /\ step \in DOMAIN script /\ runs \in 1 .. MaxRuns
  BY BoundsAssumption DEF Acquire, Inv, StepOK, TypeOK
<1>3. TypeOK'
  <2> DEFINE l == script[step]
  <2>1. l \in Seq(Pairs \X {1, 2})
    BY <1>2 DEF Inv, TypeOK
  <2>2. Line(l, runs) \in Seq(Spot)
    <3> HIDE DEF l
    <3>1. Len(l) \in Nat /\ DOMAIN l = 1 .. Len(l)
          /\ \A i \in 1 .. Len(l) : l[i] \in Pairs \X {1, 2}
      BY <2>1
    <3>2. \A i \in 1 .. Len(l) : <<l[i][1], l[i][2], runs>> \in Spot
      BY <1>2, <3>1 DEF Spot
    <3>3. Line(l, runs) \in [1 .. Len(l) -> Spot]
      BY <3>1, <3>2 DEF Line
    <3> QED BY <3>1, <3>3, IsASeq
  <2>3. ErrorLine \in Seq(Spot)
    BY DEF ErrorLine
  <2>4. PICK line \in {ErrorLine, Line(l, runs)} : file' = Append(file, line)
    BY DEF Acquire, Line
  <2>5. file' \in Seq(Seq(Spot))
    <3>1. line \in Seq(Spot) /\ file \in Seq(Seq(Spot))
      BY <2>2, <2>3, <2>4 DEF Inv, TypeOK
    <3> QED BY <2>4, <3>1, AppendProperties
  <2>6. step' \in 0 .. Len(script)
    BY <1>2 DEF Acquire, Inv, TypeOK
  <2> HIDE DEF l
  <2>7. UNCHANGED <<alive, selection, config, calibrated, placed, dip, publications,
                    wanted, data, output, script, runs>>
    BY DEF Acquire, setupVars
  <2> QED BY <2>5, <2>6, <2>7 DEF Inv, TypeOK
<1>4. ScriptOK' /\ DataOK' /\ PairsMatch' /\ (file # <<>> => runs > 0)'
  BY <1>2 DEF Acquire, Inv, ScriptOK, DataOK, PairsMatch
<1> QED
  BY <1>1, <1>3, <1>4 DEF Inv

(* The number of points of a pair.                                         *)
LEMMA PointsOfType ==
  ASSUME TypeOK, NEW p \in Pairs
  PROVE  PointsOf(p) \in Nat
<1>1. calibrated[p] \in Nat /\ config.distances[p] \in Nat
  BY DEF TypeOK, Configuration
<1>2. \A a, b \in Nat : a * b \in Nat
  OBVIOUS
<1> QED
  BY <1>1, <1>2 DEF PointsOf

(* The points are made of the pairs of spots that have any.                *)
LEMMA PointsRange ==
  ASSUME TypeOK, NEW found \in Seq(DualSpot)
  PROVE  /\ Points(found) \in Seq(DualSpot)
         /\ \A d : d \in Range(Points(found)) <=>
                     d \in Range(found) /\ PointsOf(NamePair(d)) > 0
<1> DEFINE seqs == [i \in DOMAIN found |->
                     [k \in 1 .. PointsOf(NamePair(found[i])) |-> found[i]]]
<1>1. /\ Len(found) \in Nat /\ DOMAIN found = 1 .. Len(found)
      /\ \A i \in 1 .. Len(found) : found[i] \in DualSpot
  BY LenProperties
<1>2. \A d \in DualSpot : PointsOf(NamePair(d)) \in Nat
  BY PointsOfType DEF DualSpot, Spot, NamePair
<1>3. ASSUME NEW i \in 1 .. Len(found)
      PROVE  /\ seqs[i] \in Seq(DualSpot)
             /\ \A d : d \in Range(seqs[i]) <=>
                         d = found[i] /\ PointsOf(NamePair(found[i])) > 0
  <2> DEFINE m == PointsOf(NamePair(found[i]))
  <2>1. m \in Nat /\ found[i] \in DualSpot /\ (m > 0 <=> 1 \in 1 .. m)
    BY <1>1, <1>2
  <2>2. seqs[i] = [k \in 1 .. m |-> found[i]]
    BY <1>1
  <2> HIDE DEF m, seqs
  <2>3. seqs[i] \in [1 .. m -> DualSpot]
    BY <2>1, <2>2
  <2>4. \A d : d \in Range(seqs[i]) <=> \E k \in 1 .. m : d = found[i]
    BY <2>2 DEF Range
  <2>5. \A k \in 1 .. m : m > 0
    BY <2>1
  <2>6. seqs[i] \in Seq(DualSpot)
    BY <2>1, <2>3, IsASeq
  <2> QED BY <2>1, <2>4, <2>5, <2>6 DEF m
<1>4. seqs \in Seq(Seq(DualSpot)) /\ DOMAIN seqs = 1 .. Len(found)
  <2>1. seqs \in [1 .. Len(found) -> Seq(DualSpot)]
    <3>1. seqs = [i \in 1 .. Len(found) |-> seqs[i]]
      BY <1>1
    <3> HIDE DEF seqs
    <3> QED BY <1>3, <3>1
  <2> HIDE DEF seqs
  <2> QED BY <1>1, <2>1, IsASeq
<1>5. Points(found) = FlattenSeq(seqs)
  BY DEF Points
<1> HIDE DEF seqs
<1>6. /\ Points(found) \in Seq(DualSpot)
      /\ \A d : d \in Range(Points(found)) <=> \E i \in DOMAIN seqs : d \in Range(seqs[i])
  BY <1>4, <1>5, FlattenRange
<1>7. \A d : (\E i \in DOMAIN seqs : d \in Range(seqs[i])) <=>
              \E i \in DOMAIN found : d = found[i] /\ PointsOf(NamePair(found[i])) > 0
  BY <1>1, <1>3, <1>4
<1>8. \A d : (\E i \in DOMAIN found : d = found[i] /\ PointsOf(NamePair(found[i])) > 0)
              <=> d \in Range(found) /\ PointsOf(NamePair(d)) > 0
  BY DEF Range
<1> QED
  BY <1>6, <1>7, <1>8

(* The results are made of pairs of spots that were found.                 *)
LEMMA ResultsFound ==
  ASSUME TypeOK, NEW found \in Seq(DualSpot), NEW n \in Names
  PROVE  LET new == CalculateResults(Points(found))[n] IN
         \/ new = output[n]
         \/ new \in Seq(DualSpot) /\ Range(new) \subseteq Range(found)
<1> DEFINE points == Points(found)
<1>1. points \in Seq(DualSpot) /\ Range(points) \subseteq Range(found)
  BY PointsRange
<1> HIDE DEF points
<1>2. ASSUME NEW p PROVE /\ OfPair(points, p) \in Seq(DualSpot)
                         /\ Range(OfPair(points, p)) \subseteq Range(found)
  <2>1. /\ OfPair(points, p) \in Seq(DualSpot)
        /\ Range(OfPair(points, p)) \subseteq Range(points)
    BY <1>1, AmongRange DEF OfPair
  <2> QED BY <1>1, <2>1
<1>3. \/ CalculateResults(points)[n] = output[n]
      \/ \E p : CalculateResults(points)[n] = OfPair(points, p)
  BY DEF CalculateResults
<1> QED
  BY <1>2, <1>3 DEF points

(* The evaluation.                                                         *)
LEMMA InvRunEnds ==
  ASSUME Inv, RunEnds
  PROVE  Inv'
<1>1. /\ UNCHANGED <<selection, config, calibrated, placed, dip, publications,
                     script, file, runs>>
      /\ step' = 0 /\ wanted' = FALSE
  BY DEF RunEnds, setupVars
<1> DEFINE found == ReadLWDAQOutput.found
<1>2. found \in Seq(DualSpot) /\ \A i \in DOMAIN found : Matched(found[i])
  <2>1. /\ LineInv /\ DataOK /\ file \in Seq(Seq(Spot)) /\ data \in Seq(DualSpot)
    BY RunningReads DEF RunEnds, Inv, TypeOK
  <2>2. Len(file) \in Nat /\ Reading \in [0 .. Len(file) -> Readings]
    BY <2>1, ReadingSteps, LenProperties
  <2>3. Reading[Len(file)] \in Readings /\ Len(file) \in 0 .. Len(file)
    BY <2>2
  <2>4. ReadOK(Len(file))
    BY <2>1, <2>3, ReadingOK
  <2> QED BY <2>4, <2>3 DEF ReadOK, ReadLWDAQOutput, Readings
<1>3. /\ alive' \in BOOLEAN
      /\ data' \in Seq(DualSpot) /\ DataOK'
      /\ output' \in [Names -> Seq(DualSpot)] /\ PairsMatch'
  <2>1. CASE UNCHANGED <<data, output>> /\ alive' \in BOOLEAN
    BY <2>1 DEF Inv, TypeOK, DataOK, PairsMatch
  <2>2. CASE data' = found /\ UNCHANGED <<alive, output>>
    <3> HIDE DEF found
    <3> QED BY <1>2, <2>2 DEF Inv, TypeOK, DataOK, PairsMatch
  <2>3. CASE data' = <<>> /\ output' = CalculateResults(Points(found)) /\ UNCHANGED alive
    <3> HIDE DEF found
    <3>1. output \in [Names -> Seq(DualSpot)] /\ TypeOK
      BY DEF Inv, TypeOK
    <3>2. ASSUME NEW n \in Names
          PROVE  /\ output'[n] \in Seq(DualSpot)
                 /\ \A i \in DOMAIN output'[n] : Matched(output'[n][i])
      <4>1. CASE output'[n] = output[n]
        BY <3>1, <4>1 DEF Inv, PairsMatch
      <4>2. CASE output'[n] \in Seq(DualSpot) /\ Range(output'[n]) \subseteq Range(found)
        <5>1. \A d \in Range(found) : Matched(d)
          BY <1>2 DEF Range
        <5> QED BY <4>2, <5>1 DEF Range
      <4> QED BY <1>2, <2>3, <3>1, <4>1, <4>2, ResultsFound
    <3>3. output' \in [Names -> Seq(DualSpot)]
      <4>1. output' = [n \in Names |-> output'[n]]
        BY <2>3 DEF CalculateResults
      <4> QED BY <3>2, <4>1
    <3> QED BY <2>3, <3>2, <3>3 DEF Inv, TypeOK, DataOK, PairsMatch
  <2>4. CASE wanted /\ (GivesUp \/ Throws \/ Calculates)
    BY <2>1, <2>2, <2>3, <2>4 DEF GivesUp, Throws, Calculates, Inv, TypeOK
  <2> QED BY <2>1, <2>4 DEF RunEnds, Inv, TypeOK
<1> HIDE DEF found
<1>4. TypeOK'
  <2>1. step' \in 0 .. Len(script') /\ script' \in Seq(Seq(Pairs \X {1, 2}))
    BY <1>1 DEF Inv, TypeOK
  <2>2. wanted' \in BOOLEAN
    BY <1>1
  <2> QED BY <1>1, <1>3, <2>1, <2>2 DEF Inv, TypeOK
<1>5. ScriptOK' /\ (file # <<>> => runs > 0)' /\ StepOK'
  BY <1>1 DEF Inv, ScriptOK, StepOK
<1> QED
  BY <1>3, <1>4, <1>5 DEF Inv

(* Every step keeps it.                                                    *)
LEMMA InvNext == Inv /\ [Next]_vars => Inv'
<1> SUFFICES ASSUME Inv, [Next]_vars PROVE Inv'
  OBVIOUS
<1>1. \A conf \in Configurations : conf \in Configuration
  BY PairsAssumption
<1>2. CASE UpdateRun
  <2>1. selection' \in Seq(Detectors) /\ config' \in Configuration
    BY <1>2, PairsAssumption DEF UpdateRun, Inv, TypeOK
  <2>2. publications' \subseteq Names
    BY <1>2, <2>1, SetupNamesType DEF UpdateRun, CreatePublishers, Inv, TypeOK
  <2>3. TypeOK'
    BY <1>2, <2>1, <2>2 DEF UpdateRun, Inv, TypeOK
  <2> QED
    BY <1>2, <2>3, InvUntouched DEF UpdateRun
<1>3. CASE UpdateConfiguration
  <2>1. config' \in Configuration /\ alive' \in BOOLEAN
    BY <1>1, <1>3 DEF UpdateConfiguration
  <2>2. publications' \subseteq Names
    BY <1>3, <2>1, SetupNamesType DEF UpdateConfiguration, CreatePublishers, Inv, TypeOK
  <2>3. TypeOK'
    BY <1>3, <2>1, <2>2 DEF UpdateConfiguration, Inv, TypeOK
  <2> QED
    BY <1>3, <2>3, InvUntouched DEF UpdateConfiguration
<1>4. CASE StartDAQ
  <2>1. selection \in Seq(Detectors) /\ config.pairs \in Seq(Pairs)
    BY RangeOfPairs DEF Inv, TypeOK
  <2>2. ScriptOK'
    BY <1>4, <2>1, ScriptWritten DEF StartDAQ, ScriptOK, WellFormed
  <2> QED
    BY <1>4, <2>2, InvRunDAQ DEF StartDAQ
<1>5. CASE WaitingTimeout
  <2>1. ScriptOK'
    BY <1>5 DEF WaitingTimeout, Inv, ScriptOK
  <2> QED
    BY <1>5, <2>1, InvRunDAQ DEF WaitingTimeout
<1>6. CASE Acquire
  BY <1>6, InvAcquire
<1>7. CASE StopDAQ
  <2>1. step' = 0 /\ 0 \in 0 .. Len(script)
    BY <1>7 DEF StopDAQ, Inv, TypeOK
  <2>2. TypeOK'
    BY <1>7, <2>1 DEF StopDAQ, setupVars, Inv, TypeOK
  <2> QED
    BY <1>7, <2>2, InvUntouched DEF StopDAQ
<1>8. CASE RunEnds
  BY <1>8, InvRunEnds
<1>9. CASE Crash
  <2>1. TypeOK'
    BY <1>9 DEF Crash, setupVars, Inv, TypeOK
  <2> QED
    BY <1>9, <2>1, InvUntouched DEF Crash
<1>10. CASE Restart
  <2>1. PICK conf \in Accepted : Construct(conf)
    BY <1>10 DEF Restart
  <2>2. /\ config' \in Configuration /\ placed' \subseteq {BcamOf[p] : p \in Pairs}
        /\ calibrated' \in [Pairs -> Nat]
    BY <2>1, AcceptedType, PlacedType, PairsAssumption DEF Construct
  <2>3. publications' \subseteq Names
    BY <2>1, <2>2, SetupNamesType DEF Construct
  <2>4. step' = 0 /\ UNCHANGED <<selection, output, script, file, runs>>
    BY <1>10 DEF Restart
  <2>5. data' = <<>> /\ data' \in Seq(DualSpot)
    BY <2>1 DEF Construct
  <2>6. step' \in 0 .. Len(script')
    BY <2>4 DEF Inv, TypeOK
  <2>7. TypeOK'
    BY <2>1, <2>2, <2>3, <2>4, <2>5, <2>6 DEF Construct, Inv, TypeOK
  <2>8. ScriptOK' /\ PairsMatch' /\ (file # <<>> => runs > 0)'
    BY <2>4 DEF Inv, ScriptOK, PairsMatch
  <2>9. StepOK' /\ DataOK'
    BY <2>4, <2>5 DEF StepOK, DataOK
  <2> QED
    BY <2>7, <2>8, <2>9 DEF Inv
<1>11. CASE UpdateCalibration
  <2>1. TypeOK'
    BY <1>11, PairsAssumption DEF UpdateCalibration, Inv, TypeOK
  <2> QED
    BY <1>11, <2>1, InvUntouched DEF UpdateCalibration
<1>12. CASE UNCHANGED vars
  <2>1. TypeOK'
    BY <1>12 DEF vars, setupVars, Inv, TypeOK
  <2> QED
    BY <1>12, <2>1, InvUntouched DEF vars
<1> QED
  BY <1>2, <1>3, <1>4, <1>5, <1>6, <1>7, <1>8, <1>9, <1>10, <1>11, <1>12 DEF Next

(* It holds at all times.                                                  *)
LEMMA InvHolds == Spec => []Inv
BY InvInit, InvNext, PTL DEF Spec

(* Each variable stays of its type.                                        *)
THEOREM TypeCorrect == Spec => []TypeOK
<1>1. Inv => TypeOK
  BY DEF Inv
<1> QED
  BY <1>1, InvHolds, PTL

(***************************************************************************)
(* The two spots of every result are those of one prism, of one run, the   *)
(* first source first, whatever runs fail, are stopped, or are read with a *)
(* selection they were not made for (readLWDAQOutput() takes whatever line *)
(* follows a saved spot for its second).                                   *)
(***************************************************************************)
THEOREM SpotsMatch == Spec => []PairsMatch
<1>1. Inv => PairsMatch
  BY DEF Inv
<1> QED
  BY <1>1, InvHolds, PTL

(***************************************************************************)
(* calculateCoordinates() has no points only if no pair that has an entry  *)
(* in each setup file was measured completely: the run was cut short or an *)
(* entry is missing, as the warnings of server.cpp:374, 487 and 533 say.   *)
(***************************************************************************)
THEOREM EmptyIfCutShort == Spec => []EmptyOnlyIfCutShort
<1>1. Inv => EmptyOnlyIfCutShort
  <2> SUFFICES ASSUME Inv, Running, ReadLWDAQOutput.outcome = "read",
                      Points(ReadLWDAQOutput.found) = <<>>,
                      NEW k \in DOMAIN file, NEW j \in DOMAIN file[k],
                      file[k][j][2] = 2, file[k][j][1] \in Located
               PROVE  FALSE
    BY DEF EmptyOnlyIfCutShort
  <2> DEFINE n == Len(file)
             found == Reading[n].found
  <2>1. LineInv /\ DataOK /\ TypeOK /\ file \in Seq(Seq(Spot)) /\ data \in Seq(DualSpot)
    BY RunningReads DEF Inv, TypeOK
  <2>2. n \in Nat /\ DOMAIN file = 1 .. n /\ Reading \in [0 .. n -> Readings]
    BY <2>1, ReadingSteps, LenProperties
  <2>3. Reading[n] \in Readings /\ ReadOK(n)
    BY <2>1, <2>2, ReadingOK
  <2>4. PICK i \in DOMAIN found : NamePair(found[i]) = file[k][j][1]
    BY <2>2, <2>3 DEF ReadOK, ReadLWDAQOutput
  <2>5. found \in Seq(DualSpot) /\ Points(found) = <<>>
    BY <2>3 DEF Readings, ReadLWDAQOutput
  <2> HIDE DEF found
  <2>6. found[i] \in Range(Points(found))
    BY <2>1, <2>4, <2>5, PointsRange DEF Located, Range
  <2>7. Range(<<>>) = {}
    BY DEF Range
  <2> QED
    BY <2>5, <2>6, <2>7
<1> QED
  BY <1>1, InvHolds, PTL

-----------------------------------------------------------------------------
(* A full run is sent.                                                     *)

(***************************************************************************)
(* After n lines, if data was empty: the first c pairs of spots are of c   *)
(* different pairs; they are all there are during the first pass over the  *)
(* script, and those of the whole script afterwards.                       *)
(***************************************************************************)
DistinctUpTo(F, c) ==
  \A i, j \in 1 .. c : NamePair(F[i]) = NamePair(F[j]) => i = j

HasSteps(F, c, n) ==
  \A k \in 1 .. n : \A p :
    k \in DOMAIN script /\ script[k] = Completing(p) =>
      \E i \in 1 .. c : NamePair(F[i]) = p

OfSteps(F, c, n) ==
  \A i \in 1 .. c : \E k \in 1 .. n :
    k \in DOMAIN script /\ script[k] = Completing(NamePair(F[i]))

FoundOK(F, n) ==
  /\ \A i \in DOMAIN F : F[i][1][3] = runs
  /\ \A i \in DOMAIN F : \E k \in DOMAIN script :
       script[k] = Completing(NamePair(F[i]))
  /\ \E c \in 0 .. Len(F) :
       /\ DistinctUpTo(F, c) /\ HasSteps(F, c, n)
       /\ n <= Len(script) => c = Len(F) /\ OfSteps(F, c, n)

FirstPass(n) == Reading[n].outcome = "read" => FoundOK(Reading[n].found, n)

(* Every reading is like this, line after line.                            *)
LEMMA FirstPassOK ==
  ASSUME LineInv, IsInjective(script), data = <<>>
  PROVE  \A n \in 0 .. Len(file) : FirstPass(n)
<1> DEFINE T == {n \in 0 .. Len(file) : FirstPass(n)}
<1>1. file \in Seq(Seq(Spot)) /\ data \in Seq(DualSpot) /\ DataOK
  BY DEF LineInv, TypeOK, DataOK
<1>2. /\ Len(file) \in Nat /\ DOMAIN file = 1 .. Len(file)
      /\ Reading \in [0 .. Len(file) -> Readings]
      /\ Reading[0] = Start
      /\ \A n \in 1 .. Len(file) : Reading[n] = ReadLine(Reading[n-1], file[n])
      /\ \A n \in 0 .. Len(file) : ReadOK(n)
      /\ Len(script) \in Nat /\ DOMAIN script = 1 .. Len(script)
  <2>1. Len(script) \in Nat /\ DOMAIN script = 1 .. Len(script)
    BY DEF LineInv, ScriptOK
  <2> QED BY <1>1, <2>1, LenProperties, ReadingSteps, ReadingOK
<1>3. FirstPass(0)
  <2> DEFINE F == Reading[0].found
  <2>1. F = <<>>
    <3>1. Start.found = data
      BY DEF Start
    <3> QED BY <1>2, <3>1
  <2>2. DOMAIN F = {} /\ Len(F) = 0 /\ 0 \in 0 .. Len(F) /\ \A i \in 1 .. 0 : FALSE
    BY <2>1
  <2> HIDE DEF F
  <2>3. DistinctUpTo(F, 0) /\ HasSteps(F, 0, 0) /\ OfSteps(F, 0, 0)
    BY <2>2 DEF DistinctUpTo, HasSteps, OfSteps
  <2> QED BY <2>2, <2>3 DEF FirstPass, FoundOK, F
<1>4. ASSUME NEW n \in 1 .. Len(file), FirstPass(n-1), Reading[n].outcome = "read"
      PROVE  FirstPass(n)
  <2> DEFINE r == Reading[n-1]
             G == r.found
             F == Reading[n].found
  <2>1. /\ Reading[n] = ReadLine(r, file[n]) /\ n-1 \in 0 .. Len(file) /\ ReadOK(n-1)
        /\ Reading \in [0 .. Len(file) -> Readings] /\ r \in Readings
    BY <1>2
  <2>2. r.outcome = "read" /\ file[n] # ErrorLine /\ file[n][1][1] \in Known
    <3> HIDE DEF r
    <3>1. r.outcome = "read"
      BY <1>4, <2>1 DEF ReadLine
    <3>2. file[n] = ErrorLine \/ file[n][1][1] \notin Known =>
            ReadLine(r, file[n]).outcome # "read"
      BY <2>1, <3>1 DEF ReadLine, Readings
    <3> QED BY <1>4, <2>1, <3>1, <3>2
  <2>3. Reads(n)
    BY <2>1, <2>2, ReadStep
  <2>4. PICK p : \E k \in DOMAIN script :
          /\ n \in DOMAIN script => k = n
          /\ \/ p \in Separate /\ script[k] = First(p) /\ F = G
             \/ script[k] = Completing(p) /\ F = Append(G, Dual(p))
    BY <2>3 DEF Reads
  <2>5. PICK k \in DOMAIN script :
          /\ n \in DOMAIN script => k = n
          /\ \/ p \in Separate /\ script[k] = First(p) /\ F = G
             \/ script[k] = Completing(p) /\ F = Append(G, Dual(p))
    BY <2>4
  <2>6. PICK c \in 0 .. Len(G) :
          /\ \A i \in DOMAIN G : G[i][1][3] = runs
          /\ \A i \in DOMAIN G : \E m \in DOMAIN script :
               script[m] = Completing(NamePair(G[i]))
          /\ DistinctUpTo(G, c) /\ HasSteps(G, c, n-1)
          /\ n-1 <= Len(script) => c = Len(G) /\ OfSteps(G, c, n-1)
    <3>1. FoundOK(G, n-1)
      BY <1>4, <2>2 DEF FirstPass
    <3> HIDE DEF G
    <3> QED BY <3>1 DEF FoundOK
  <2>7. G \in Seq(DualSpot) /\ Len(G) \in Nat /\ DOMAIN G = 1 .. Len(G)
    BY <2>1 DEF Readings
  <2>8. \A m \in 1 .. n : m \in 1 .. n-1 \/ m = n
    BY <1>2
  <2>9. n <= Len(script) => n \in DOMAIN script /\ n-1 <= Len(script)
    BY <1>2
  <2> HIDE DEF r, G, F
  <2>10. CASE p \in Separate /\ script[k] = First(p) /\ F = G
    <3>1. HasSteps(G, c, n)
      <4> SUFFICES ASSUME NEW m \in 1 .. n, NEW q, m \in DOMAIN script,
                          script[m] = Completing(q)
                   PROVE  \E i \in 1 .. c : NamePair(G[i]) = q
        BY DEF HasSteps
      <4>1. m # n
        BY <2>5, <2>10, StepsDiffer
      <4> QED BY <2>6, <2>8, <4>1 DEF HasSteps
    <3>2. n <= Len(script) => c = Len(G) /\ OfSteps(G, c, n)
      BY <1>2, <2>6, <2>9 DEF OfSteps
    <3> QED BY <2>6, <2>10, <3>1, <3>2 DEF FirstPass, FoundOK, F
  <2>11. CASE script[k] = Completing(p) /\ F = Append(G, Dual(p))
    <3>1. /\ DOMAIN F = 1 .. Len(G) + 1 /\ F[Len(G) + 1] = Dual(p)
          /\ \A i \in 1 .. Len(G) : F[i] = G[i]
      BY <2>7, <2>11, OneMore
    <3>2. Len(F) = Len(G) + 1
      BY <2>7, <3>1, <2>11
    <3>3. NamePair(Dual(p)) = p /\ Dual(p)[1][3] = runs
      BY DEF NamePair, Dual
    <3>4. \A i \in DOMAIN F : (i \in DOMAIN G /\ F[i] = G[i]) \/ F[i] = Dual(p)
      <4>1. \A i \in DOMAIN F : i \in 1 .. Len(G) \/ i = Len(G) + 1
        BY <2>7, <3>1
      <4> QED BY <2>7, <3>1, <4>1
    <3>5. \A i \in DOMAIN F : F[i][1][3] = runs
      BY <2>6, <3>3, <3>4
    <3>6. \A i \in DOMAIN F : \E m \in DOMAIN script :
            script[m] = Completing(NamePair(F[i]))
      BY <2>6, <2>11, <3>3, <3>4
    <3>7. CASE n <= Len(script)
      <4> DEFINE d == Len(G) + 1
      <4>1. d \in 0 .. Len(F) /\ d = Len(F) /\ k = n /\ c = Len(G) /\ OfSteps(G, c, n-1)
        BY <2>5, <2>6, <2>7, <2>9, <3>2, <3>7
      <4>2. \A i \in 1 .. Len(G) : NamePair(G[i]) # p
        <5> SUFFICES ASSUME NEW i \in 1 .. Len(G), NamePair(G[i]) = p PROVE FALSE
          OBVIOUS
        <5>1. PICK m \in 1 .. n-1 : m \in DOMAIN script /\ script[m] = Completing(p)
          BY <4>1 DEF OfSteps
        <5>2. m # n /\ n \in DOMAIN script
          BY <1>2, <2>9, <3>7
        <5> QED BY <2>11, <4>1, <5>1, <5>2 DEF IsInjective
      <4>3. DistinctUpTo(F, d)
        <5> SUFFICES ASSUME NEW i \in 1 .. d, NEW j \in 1 .. d,
                            NamePair(F[i]) = NamePair(F[j])
                     PROVE  i = j
          BY DEF DistinctUpTo
        <5>1. CASE i \in 1 .. Len(G) /\ j \in 1 .. Len(G)
          BY <2>6, <3>1, <4>1, <5>1 DEF DistinctUpTo
        <5>2. i \in 1 .. Len(G) \/ i = d
          BY <2>7
        <5>3. j \in 1 .. Len(G) \/ j = d
          BY <2>7
        <5> QED BY <3>1, <3>3, <4>2, <5>1, <5>2, <5>3
      <4>4. HasSteps(F, d, n)
        <5> SUFFICES ASSUME NEW m \in 1 .. n, NEW q, m \in DOMAIN script,
                            script[m] = Completing(q)
                     PROVE  \E i \in 1 .. d : NamePair(F[i]) = q
          BY DEF HasSteps
        <5>1. CASE m \in 1 .. n-1
          <6>1. PICK i \in 1 .. c : NamePair(G[i]) = q
            BY <2>6, <5>1 DEF HasSteps
          <6> QED BY <2>7, <3>1, <4>1, <6>1
        <5>2. CASE m = n
          <6>1. p = q
            BY <2>11, <4>1, <5>2, StepsDiffer
          <6>2. d \in 1 .. d
            BY <2>7
          <6> QED BY <3>1, <3>3, <6>1, <6>2
        <5> QED BY <2>8, <5>1, <5>2
      <4>5. OfSteps(F, d, n)
        <5> SUFFICES ASSUME NEW i \in 1 .. d
                     PROVE  \E m \in 1 .. n :
                              m \in DOMAIN script /\ script[m] = Completing(NamePair(F[i]))
          BY DEF OfSteps
        <5>1. CASE i \in 1 .. Len(G)
          <6>1. PICK m \in 1 .. n-1 :
                  m \in DOMAIN script /\ script[m] = Completing(NamePair(G[i]))
            BY <4>1, <5>1 DEF OfSteps
          <6> QED BY <1>2, <3>1, <5>1, <6>1
        <5>2. CASE i = d
          <6>1. n \in 1 .. n /\ n \in DOMAIN script
            BY <1>2, <2>9, <3>7
          <6> QED BY <2>11, <3>1, <3>3, <4>1, <5>2, <6>1
        <5> QED BY <2>7, <5>1, <5>2
      <4> QED BY <3>5, <3>6, <4>1, <4>3, <4>4, <4>5 DEF FirstPass, FoundOK, F
    <3>8. CASE ~(n <= Len(script))
      <4>1. c \in 0 .. Len(F) /\ \A i \in 1 .. c : i \in 1 .. Len(G)
        BY <2>7, <3>2
      <4>2. DistinctUpTo(F, c)
        BY <2>6, <3>1, <4>1 DEF DistinctUpTo
      <4>3. \A m \in DOMAIN script : m # n
        BY <1>2, <3>8
      <4>4. HasSteps(F, c, n)
        <5> SUFFICES ASSUME NEW m \in 1 .. n, NEW q, m \in DOMAIN script,
                            script[m] = Completing(q)
                     PROVE  \E i \in 1 .. c : NamePair(F[i]) = q
          BY DEF HasSteps
        <5>1. PICK i \in 1 .. c : NamePair(G[i]) = q
          BY <2>6, <2>8, <4>3 DEF HasSteps
        <5> QED BY <3>1, <4>1, <5>1
      <4> QED BY <3>5, <3>6, <3>8, <4>1, <4>2, <4>4 DEF FirstPass, FoundOK, F
    <3> QED BY <3>7, <3>8
  <2> QED BY <2>5, <2>10, <2>11
<1>5. \A n \in 0 .. Len(file) : n \in T
  <2>1. 0 \in T
    BY <1>2, <1>3
  <2>2. ASSUME NEW n \in 0+1 .. Len(file), n-1 \in T PROVE n \in T
    <3>1. n \in 1 .. Len(file) /\ n \in 0 .. Len(file)
      BY <1>2
    <3>2. Reading[n].outcome # "read" => FirstPass(n)
      BY DEF FirstPass
    <3> QED BY <1>4, <2>2, <3>1, <3>2
  <2> HIDE DEF T
  <2> QED BY <1>2, <2>1, <2>2, Induction
<1> QED
  BY <1>5

(* Where each pair of spots makes one point these are the points.          *)
LEMMA AllKept ==
  ASSUME NEW found \in Seq(DualSpot),
         \A i \in DOMAIN found : PointsOf(NamePair(found[i])) = 1
  PROVE  Points(found) = found
<1>1. \A i \in DOMAIN found :
        [k \in 1 .. PointsOf(NamePair(found[i])) |-> found[i]] = <<found[i]>>
  OBVIOUS
<1>2. [i \in DOMAIN found |-> [k \in 1 .. PointsOf(NamePair(found[i])) |-> found[i]]]
        = [i \in DOMAIN found |-> <<found[i]>>]
  BY <1>1
<1>3. Points(found) = FlattenSeq([i \in DOMAIN found |-> <<found[i]>>])
  BY <1>2 DEF Points
<1> QED
  BY <1>3, FlattenSingles

(***************************************************************************)
(* A name whose pair is among these is visited before the loop ends, and   *)
(* its result is made of points.                                           *)
(***************************************************************************)
LEMMA ResultIsNew ==
  ASSUME NEW points \in Seq(DualSpot), NEW p \in Pairs, NEW c \in 0 .. Len(points),
         DistinctUpTo(points, c), NEW m \in 1 .. c, NamePair(points[m]) = p
  PROVE  LET new == CalculateResults(points)[NameOf[p]] IN
         /\ new \in Seq(DualSpot) /\ new # <<>>
         /\ Range(new) \subseteq Range(points)
<1> DEFINE mine == {i \in Visited(points) : NameOf[NamePair(points[i])] = NameOf[p]}
           last == CHOOSE i \in mine : \A j \in mine : j <= i
           q == NamePair(points[last])
<1>1. Len(points) \in Nat /\ DOMAIN points = 1 .. Len(points)
  OBVIOUS
<1>2. m \in mine
  <2>1. m \in DOMAIN points
    BY <1>1
  <2>2. \A j \in 2 .. m : NamePair(points[j]) # NamePair(points[1])
    <3> TAKE j \in 2 .. m
    <3>1. j \in 1 .. c /\ 1 \in 1 .. c /\ j # 1
      BY <1>1
    <3> QED BY <3>1 DEF DistinctUpTo
  <2> QED BY <2>1, <2>2 DEF Visited
<1>3. last \in mine
  <2>1. mine \subseteq 1 .. Len(points)
    BY <1>1 DEF Visited
  <2> HIDE DEF mine
  <2> DEFINE T == {Len(points) - i : i \in mine}
  <2>2. T \in SUBSET Nat /\ Len(points) - m \in T
    BY <1>1, <1>2, <2>1
  <2>3. PICK x \in T : \A y \in T : x <= y
    <3> HIDE DEF T
    <3> QED BY <2>2, Least
  <2>4. PICK i \in mine : x = Len(points) - i
    BY <2>3
  <2>5. \A j \in mine : j <= i
    <3> TAKE j \in mine
    <3>1. Len(points) - i <= Len(points) - j
      BY <2>3, <2>4
    <3> QED BY <1>1, <2>1, <3>1
  <2> QED BY <2>5
<1>4. points[last] \in Range(points)
  BY <1>3 DEF Visited, Range
<1>5. CalculateResults(points)[NameOf[p]] = OfPair(points, q)
  <2>1. NameOf[p] \in Names /\ mine # {}
    BY <1>2 DEF Names
  <2> QED BY <2>1 DEF CalculateResults
<1> HIDE DEF last
<1> DEFINE A == {d \in Range(points) : NamePair(d) = q}
<1>6. points[last] \in A
  BY <1>4
<1>7. OfPair(points, q) = Among(points, A)
  BY DEF OfPair
<1> HIDE DEF A, q
<1>8. /\ Among(points, A) \in Seq(DualSpot)
      /\ Range(Among(points, A)) = Range(points) \cap A
  BY AmongRange
<1>9. Among(points, A) # <<>>
  <2>1. Range(<<>>) = {}
    BY DEF Range
  <2> QED BY <1>4, <1>6, <1>8, <2>1
<1> QED
  BY <1>5, <1>7, <1>8, <1>9

(***************************************************************************)
(* When a run that measured every selected pair is evaluated, the setup    *)
(* files have one entry of each kind for each pair, no line comes twice in *)
(* the script and nothing was left in data, every value sent to DIP is     *)
(* made of spots of this run: the loop of calculateResults(), which ends   *)
(* where the first pair comes again, has then visited every pair.          *)
(***************************************************************************)
THEOREM FullRunSent == Spec => FullRunIsSent
<1> DEFINE Full == RunEnds /\ Evaluates /\ ReadLWDAQOutput.outcome = "read" /\ Covered
                     /\ config.dipEnabled /\ dip = "created"
           Sent == \A p \in Known :
                     /\ NameOf[p] \in DOMAIN SendResults /\ SendResults[NameOf[p]] # <<>>
                     /\ \A i \in DOMAIN SendResults[NameOf[p]] :
                          SendResults[NameOf[p]][i][1][3] = runs
<1>1. Inv /\ PublishersMatch /\ Full => Sent
  <2> SUFFICES ASSUME Inv, PublishersMatch, Full, NEW p \in Known
               PROVE  /\ NameOf[p] \in DOMAIN SendResults /\ SendResults[NameOf[p]] # <<>>
                      /\ \A i \in DOMAIN SendResults[NameOf[p]] :
                           SendResults[NameOf[p]][i][1][3] = runs
    OBVIOUS
  <2> DEFINE n == Len(file)
             found == Reading[n].found
             name == NameOf[p]
  <2>1. p \in Pairs
    BY RangeOfPairs DEF Known, Inv, TypeOK
  <2>2. LineInv /\ file \in Seq(Seq(Spot)) /\ data \in Seq(DualSpot) /\ data = <<>>
    BY RunningReads DEF RunEnds, Inv, TypeOK, Covered
  <2>3. n \in Nat /\ n \in 0 .. n /\ Reading \in [0 .. n -> Readings]
    BY <2>2, ReadingSteps, LenProperties
  <2>4. Reading[n] \in Readings /\ FirstPass(n)
    BY <2>2, <2>3, FirstPassOK DEF Covered
  <2>5. found \in Seq(DualSpot) /\ FoundOK(found, n)
    BY <2>4 DEF Readings, FirstPass, ReadLWDAQOutput
  <2>6. /\ output' = CalculateResults(Points(found))
        /\ \/ \A i \in DOMAIN found : NamePair(found[i]) \in Known
           \/ \A q \in Pairs : calibrated[q] = 0
    BY DEF RunEnds, Evaluates, GivesUp, Throws, Calculates, ReadLWDAQOutput
  <2>7. \A q \in Known : \E i \in DOMAIN Points(found) : NamePair(Points(found)[i]) = q
    BY DEF Covered, ReadLWDAQOutput
  <2> HIDE DEF found
  <2>8. Points(found) = found
    <3>1. p \in Pairs /\ PointsOf(p) = 1 /\ \A q \in Known : PointsOf(q) = 1
      BY <2>1 DEF Covered
    <3>2. calibrated[p] # 0
      <4>1. config.distances[p] \in Nat
        BY <3>1 DEF Inv, TypeOK, Configuration
      <4>2. \A x \in Nat : 0 * x # 1
        OBVIOUS
      <4> QED BY <3>1, <4>1, <4>2 DEF PointsOf
    <3> QED BY <2>5, <2>6, <3>1, <3>2, AllKept
  <2>9. PICK c \in 0 .. Len(found) :
          /\ DistinctUpTo(found, c) /\ HasSteps(found, c, n)
          /\ n <= Len(script) => c = Len(found)
    BY <2>5 DEF FoundOK
  <2>10. PICK j \in DOMAIN found : NamePair(found[j]) = p
    BY <2>7, <2>8
  <2>11. \E i \in 1 .. c : NamePair(found[i]) = p
    <3>1. CASE n <= Len(script)
      <4>1. j \in 1 .. Len(found)
        BY <2>5
      <4> QED BY <2>9, <2>10, <3>1, <4>1
    <3>2. CASE ~(n <= Len(script))
      <4>1. PICK k \in DOMAIN script : script[k] = Completing(p)
        BY <2>5, <2>10 DEF FoundOK
      <4>2. k \in 1 .. n
        BY <2>2, <2>3, <3>2 DEF LineInv, ScriptOK
      <4> QED BY <2>9, <4>1, <4>2 DEF HasSteps
    <3> QED BY <3>1, <3>2
  <2>12. PICK i \in 1 .. c : NamePair(found[i]) = p
    BY <2>11
  <2> DEFINE new == CalculateResults(found)[name]
  <2>13. new \in Seq(DualSpot) /\ new # <<>> /\ Range(new) \subseteq Range(found)
    BY <2>5, <2>9, <2>12, <2>1, ResultIsNew
  <2>14. \A d \in Range(found) : d[1][3] = runs
    BY <2>5 DEF FoundOK, Range
  <2>15. name \in publications /\ config.dipEnabled
    <3>1. alive /\ config.dipEnabled /\ dip = "created"
      BY DEF Evaluates
    <3> QED BY <3>1 DEF PublishersMatch, SetupNames
  <2>16. name \in DOMAIN SendResults /\ SendResults[name] = output'[name]
    BY <2>15 DEF SendResults
  <2>17. output'[name] = new
    BY <2>6, <2>8
  <2> HIDE DEF new, name
  <2>18. \A k \in DOMAIN new : new[k][1][3] = runs
    BY <2>13, <2>14 DEF Range
  <2> QED
    BY <2>13, <2>16, <2>17, <2>18 DEF name
<1> HIDE DEF Sent
<1>2. Inv /\ PublishersMatch /\ [Next]_vars => [Full => Sent]_vars
  BY <1>1
<1>3. FullRunIsSent <=> [][Full => Sent]_vars
  BY DEF FullRunIsSent, Sent
<1> HIDE DEF Full
<1> QED
  BY <1>2, <1>3, InvHolds, PublicationsFollow, PTL DEF Spec
=============================================================================
