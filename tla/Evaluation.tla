----------------------------- MODULE Evaluation -----------------------------
(***************************************************************************)
(* What adepo-server makes of a run: the script it writes for the selected *)
(* detectors, the result file LWDAQ fills by repeating the script, the     *)
(* pairs of spots read back from it, the results calculated from them and  *)
(* the values sent to DIP.                                                 *)
(*                                                                         *)
(* AdepoServer has when this happens; here a run starts and ends in one    *)
(* step each, with LWDAQ at rest before and after (NotRemovedUnderRun and  *)
(* CalculatedAtRest of DaqSystem).  The geometry is left out: a result is  *)
(* the sequence of pairs of spots it is the mean of.                       *)
(***************************************************************************)
EXTENDS Naturals, Sequences, SequencesExt

CONSTANTS
  Pairs,        (* the BCAM-prism pairs                                    *)
  Detectors,
  DetectorOf,   (* DetectorOf[p]: the detector the BCAM of p belongs to    *)
  BcamOf,       (* BcamOf[p]: the BCAM of p                                *)
  Separate,     (* the pairs whose two sources flash separately            *)
  NameOf,       (* NameOf[p]: the ATLAS name of the prism                  *)
  Configurations, (* what the configuration file may hold                  *)
  Accepted,     (* those of which Configuration::check() finds no fault    *)
  Calibrations, (* what the calibration file may hold                      *)
  Selections,   (* the detectors chosen, in the order they were clicked    *)
  RemoveMayFail, (* removing the result file may fail                      *)
  MaxRuns,      (* bound: runs started                                     *)
  MaxLines      (* bound: lines in the result file                         *)

(***************************************************************************)
(* A configuration has the pairs in the order of the file, which may name  *)
(* a prism of a BCAM more than once; distances[p], the number of its       *)
(* ABSOLUTE_DISTANCES lines for p; and isDipEnabled().  In a calibration,  *)
(* k[p] is the number of combinations of its lines that fit the BCAM of p  *)
(* and its direction.                                                      *)
(***************************************************************************)
Configuration ==
  [pairs : Seq(Pairs), distances : [Pairs -> Nat], dipEnabled : BOOLEAN]

ASSUME PairsAssumption ==
  /\ Separate \subseteq Pairs
  /\ DetectorOf \in [Pairs -> Detectors]
  /\ Configurations \subseteq Configuration
  /\ Accepted \subseteq Configurations
  /\ Calibrations \subseteq [Pairs -> Nat]
  /\ Selections \subseteq Seq(Detectors)
ASSUME BoundsAssumption == MaxRuns \in Nat /\ MaxLines \in Nat

VARIABLES
  alive,        (* the process is running                                  *)
  selection,    (* run.getDetectors()                                      *)
  config,       (* config, as it was read last                             *)
  calibrated,   (* calibration, as it was read last                        *)
  placed,       (* the BCAMs in data.getBCAMParams()                       *)
  dip,          (* dip: created, or never initialized                      *)
  publications, (* publications.keys()                                     *)
  wanted,       (* needToCalculateResults                                  *)
  data,         (* data.getDualSpots()                                     *)
  output,       (* output, in memory and in output_file.json               *)
  script,       (* the lines one pass of the script file appends           *)
  step,         (* the next step of the script, 0 when LWDAQ is idle       *)
  file,         (* the lines of the result file                            *)
  runs          (* how many runs were started                              *)

setupVars == <<selection, config, calibrated, placed, dip, publications>>
vars == <<alive, setupVars, wanted, data, output, script, step, file, runs>>

Names == {NameOf[p] : p \in Pairs}

(* A spot of source s of pair p, taken in run r, is <<p, s, r>>.           *)
Spot == Pairs \X {1, 2} \X (1 .. MaxRuns)
DualSpot == Spot \X Spot
NamePair(dual) == dual[2][1]
ErrorLine == <<>>

(* The elements of s that are in A, in the order of s.                     *)
Among(s, A) ==
  FlattenSeq([i \in DOMAIN s |-> IF s[i] \in A THEN <<s[i]>> ELSE <<>>])

(* Of the pairs listed, those of the detectors ds.                         *)
SetupOf(ds, listed) == FlattenSeq([i \in DOMAIN ds |->
  Among(listed, {p \in Pairs : DetectorOf[p] = ds[i]})])

Setup == SetupOf(selection, config.pairs)

(* The pairs that Setup::getBCAM() finds; it throws for the others.        *)
Known == {p \in Range(config.pairs) : DetectorOf[p] \in Range(selection)}

SetupNames == {NameOf[p] : p \in Known}

TypeOK ==
  /\ alive \in BOOLEAN /\ wanted \in BOOLEAN
  /\ selection \in Seq(Detectors)
  /\ config \in Configuration
  /\ calibrated \in [Pairs -> Nat]
  /\ placed \subseteq {BcamOf[p] : p \in Pairs}
  /\ dip \in {"created", "unset"}
  /\ publications \subseteq Names
  /\ data \in Seq(DualSpot)
  /\ output \in [Names -> Seq(DualSpot)]
  /\ script \in Seq(Seq(Pairs \X {1, 2}))
  /\ step \in 0 .. Len(script)
  /\ file \in Seq(Seq(Spot))
  /\ runs \in 0 .. MaxRuns

-----------------------------------------------------------------------------
(* The configuration and the selection.                                    *)

(* createPublishers(); dip is not NULL.                                    *)
CreatePublishers ==
  publications' = IF config'.dipEnabled /\ dip' = "created" THEN SetupNames' ELSE publications

(* helmert(), for the BCAMs of the pairs listed.                           *)
PlacedBy(listed) == {BcamOf[p] : p \in Range(listed)}

(* The constructor; it leaves the program if check() finds a fault.        *)
Construct(conf) ==
  /\ alive' = TRUE
  /\ config' = conf /\ placed' = PlacedBy(conf.pairs)
  /\ calibrated' \in Calibrations
  /\ dip' = IF conf.dipEnabled THEN "created" ELSE "unset"
  /\ publications' = IF conf.dipEnabled THEN SetupNames' ELSE {}
  /\ wanted' = FALSE
  /\ data' = <<>>

Init ==
  /\ alive = TRUE
  /\ selection \in Selections
  /\ config \in Accepted /\ placed = PlacedBy(config.pairs)
  /\ calibrated \in Calibrations
  /\ dip = IF config.dipEnabled THEN "created" ELSE "unset"
  /\ publications = IF config.dipEnabled THEN SetupNames ELSE {}
  /\ wanted = FALSE
  /\ data = <<>>
  /\ output = [n \in Names |-> <<>>]
  /\ script = <<>> /\ step = 0 /\ file = <<>>
  /\ runs = 0

UpdateRun ==
  /\ alive
  /\ selection' \in Selections
  /\ UNCHANGED <<alive, config, calibrated, placed, dip, wanted, data,
                 output, script, step, file, runs>>
  /\ CreatePublishers

(* Mutant of UpdateConfiguration: the publishers are those of before.      *)
UpdateConfigurationOnly ==
  /\ alive
  /\ config' \in Configurations
  /\ UNCHANGED <<alive, selection, calibrated, placed, dip, publications,
                 wanted, data, output, script, step, file, runs>>

(* The file is read again, without check(); the parameters of the BCAMs    *)
(* are not calculated again.  If DIP was not enabled at the start its      *)
(* pointer was never set.                                                  *)
UpdateConfiguration ==
  /\ alive
  /\ config' \in Configurations
  /\ \/ alive' = TRUE
     \/ alive' = FALSE /\ config'.dipEnabled /\ dip = "unset"
  /\ UNCHANGED <<selection, calibrated, placed, dip, wanted, data, output,
                 script, step, file, runs>>
  /\ CreatePublishers

UpdateCalibration ==
  /\ alive
  /\ calibrated' \in Calibrations
  /\ UNCHANGED <<alive, selection, config, placed, dip, publications,
                 wanted, data, output, script, step, file, runs>>

-----------------------------------------------------------------------------
(* A run.                                                                  *)

(* writeBCAMScript(), once or twice for each pair.                         *)
ScriptOf(p) ==
  IF p \in Separate THEN << <<<<p, 1>>>>, <<<<p, 2>>>> >>
  ELSE << <<<<p, 1>>, <<p, 2>>>> >>

WriteScript ==
  LET s == Setup IN FlattenSeq([i \in DOMAIN s |-> ScriptOf(s[i])])

(* Mutant of RunDAQ: the result file is not removed.                       *)
RunDAQOnTop ==
  /\ runs < MaxRuns
  /\ wanted' = TRUE
  /\ runs' = runs + 1
  /\ step' = IF script' = <<>> THEN 0 ELSE 1
  /\ UNCHANGED file

(* runDAQ(), up to LWDAQ's first step.                                     *)
RunDAQ ==
  /\ runs < MaxRuns
  /\ wanted' = TRUE
  /\ file' = <<>>
  /\ runs' = runs + 1
  /\ step' = IF script' = <<>> THEN 0 ELSE 1

(* The result file is there and cannot be removed: nothing is started.     *)
RunAborted ==
  /\ RemoveMayFail
  /\ file # <<>>
  /\ wanted' = TRUE
  /\ UNCHANGED <<step, file, runs>>

StartDAQ ==
  /\ alive /\ step = 0
  /\ script' = WriteScript
  /\ RunDAQ \/ RunAborted
  /\ UNCHANGED <<alive, setupVars, data, output>>

(* The next run in monitoring mode uses the script as it was written.      *)
WaitingTimeout ==
  /\ alive /\ step = 0
  /\ UNCHANGED script
  /\ RunDAQ \/ RunAborted
  /\ UNCHANGED <<alive, setupVars, data, output>>

(* Mutant of Acquire: LWDAQ does not begin the script again.               *)
AcquireOnce ==
  /\ step > 0 /\ Len(file) < MaxLines
  /\ file' = Append(file, ErrorLine)
  /\ step' = step + 1
  /\ UNCHANGED <<alive, setupVars, wanted, data, output, script, runs>>

(* LWDAQ appends the line of a step, or the text of an error.              *)
Acquire ==
  /\ step > 0 /\ Len(file) < MaxLines
  /\ \E line \in {ErrorLine, [i \in DOMAIN script[step] |->
                     <<script[step][i][1], script[step][i][2], runs>>]} :
       file' = Append(file, line)
  /\ step' = IF step = Len(script) THEN 1 ELSE step + 1
  /\ UNCHANGED <<alive, setupVars, wanted, data, output, script, runs>>

StopDAQ ==
  /\ alive /\ step > 0
  /\ step' = 0 /\ wanted' = FALSE
  /\ UNCHANGED <<alive, setupVars, data, output, script, file, runs>>

-----------------------------------------------------------------------------
(* The evaluation.                                                         *)

(* Mutant of ReadLine: that a spot was saved is not noted.                 *)
ReadLineUnsaved(r, line) ==
  IF line = ErrorLine THEN [r EXCEPT !.outcome = "given up"]
  ELSE IF Len(line) = 2 THEN [r EXCEPT !.found = Append(@, <<line[1], line[2]>>)]
  ELSE r

(***************************************************************************)
(* One line of readLWDAQOutput(), which has read r.found and keeps the     *)
(* first spot of a pair in r.saved.                                        *)
(***************************************************************************)
ReadLine(r, line) ==
  IF r.outcome # "read" THEN r
  ELSE IF line = ErrorLine THEN [r EXCEPT !.outcome = "given up"]
  ELSE IF line[1][1] \notin Known THEN [r EXCEPT !.outcome = "thrown"]
  ELSE IF Len(line) = 2 THEN [r EXCEPT !.found = Append(@, <<line[1], line[2]>>)]
  ELSE IF r.saved = <<>> THEN [r EXCEPT !.saved = line]
  ELSE [r EXCEPT !.found = Append(@, <<r.saved[1], line[1]>>), !.saved = <<>>]

(* What is read of the first n lines.                                      *)
Reading[n \in 0 .. Len(file)] ==
  IF n = 0
  THEN [outcome |-> IF file = <<>> THEN "given up" ELSE "read",
        saved |-> <<>>, found |-> data]
  ELSE ReadLine(Reading[n - 1], file[n])

ReadLWDAQOutput == Reading[Len(file)]

(***************************************************************************)
(* How many points imgCoordToBcamCoord(), calculCoordBcamSystem() and      *)
(* mountPrismToGlobalPrism() make of two spots of p: none if an entry for  *)
(* it is missing, one for each way to combine the entries there are.       *)
(***************************************************************************)
PointsOf(p) ==
  IF BcamOf[p] \in placed THEN calibrated[p] * config.distances[p] ELSE 0

Located == {p \in Pairs : PointsOf(p) > 0}

Points(found) ==
  FlattenSeq([i \in DOMAIN found |->
    [k \in 1 .. PointsOf(NamePair(found[i])) |-> found[i]]])

OfPair(points, p) == Among(points, {d \in Range(points) : NamePair(d) = p})

(* Mutant of Visited: the first point ends the loop.                       *)
VisitedNone(points) == {}

(* The loop ends where the first pair comes again.                         *)
Visited(points) ==
  {i \in DOMAIN points :
     \A j \in 2 .. i : NamePair(points[j]) # NamePair(points[1])}

(* The result of a name is that of the last pair with this name.           *)
CalculateResults(points) ==
  [n \in Names |->
     LET mine == {i \in Visited(points) : NameOf[NamePair(points[i])] = n} IN
       IF mine = {} THEN output[n]
       ELSE OfPair(points, NamePair(points[CHOOSE i \in mine : \A j \in mine : j <= i]))]

(* What sendResults() sends for each publication.                          *)
SendResults == [n \in IF config.dipEnabled THEN publications ELSE {} |-> output'[n]]

(* The spots read so far stay in data.                                     *)
GivesUp ==
  /\ ReadLWDAQOutput.outcome = "given up"
  /\ data' = ReadLWDAQOutput.found
  /\ UNCHANGED <<alive, output>>

(***************************************************************************)
(* An exception that nothing catches: for a pair that is not in the        *)
(* selection, in the file or left in data, or for the first word of an     *)
(* error text that has the number of words of a reading.                   *)
(***************************************************************************)
Throws ==
  /\ \/ ReadLWDAQOutput.outcome = "thrown"
     \/ ReadLWDAQOutput.outcome = "given up" /\ file # <<>>
     \/ /\ ReadLWDAQOutput.outcome = "read"
        /\ \E i \in DOMAIN data : NamePair(data[i]) \notin Known
  /\ alive' = FALSE
  /\ UNCHANGED <<data, output>>

(***************************************************************************)
(* The pairs are looked up for each line of the calibration file.  Without *)
(* points the first of an empty list is asked for: the process ends, or    *)
(* goes on and finds nothing.                                              *)
(***************************************************************************)
Calculates ==
  LET found == ReadLWDAQOutput.found
      points == Points(found)
  IN  /\ ReadLWDAQOutput.outcome = "read"
      /\ \/ \A i \in DOMAIN found : NamePair(found[i]) \in Known
         \/ \A p \in Pairs : calibrated[p] = 0
      /\ \/ /\ UNCHANGED alive
            /\ data' = <<>>
            /\ output' = CalculateResults(points)
         \/ /\ points = <<>>
            /\ alive' = FALSE
            /\ UNCHANGED <<data, output>>

(* LWDAQ has a run, which has no steps if the script has none.             *)
Running == step > 0 \/ (wanted /\ file = <<>>)

(* The run ends; lwdaqStateChanged() with Idle.                            *)
RunEnds ==
  /\ alive
  /\ Running
  /\ step' = 0
  /\ wanted' = FALSE
  /\ IF wanted
     THEN GivesUp \/ Throws \/ Calculates
     ELSE UNCHANGED <<alive, data, output>>
  /\ UNCHANGED <<setupVars, script, file, runs>>

(* The process ends, and is started again when LWDAQ is idle.              *)
Crash ==
  /\ alive' = FALSE
  /\ UNCHANGED <<setupVars, wanted, data, output, script, step, file, runs>>

Restart ==
  /\ ~alive
  /\ UNCHANGED <<selection, output, script, file, runs>>
  /\ step' = 0
  /\ \E conf \in Accepted : Construct(conf)

Next ==
  \/ UpdateRun \/ UpdateConfiguration \/ UpdateCalibration
  \/ StartDAQ \/ WaitingTimeout \/ Acquire \/ StopDAQ \/ RunEnds
  \/ Crash \/ Restart

Spec == Init /\ [][Next]_vars

-----------------------------------------------------------------------------
(***************************************************************************)
(* The two spots of every result are those of the same prism, taken one    *)
(* after the other in the same run, the first source first: pairs of lines *)
(* never get out of step, whenever runs fail, are stopped or follow each   *)
(* other (the code does not compare the names of the two lines).           *)
(***************************************************************************)
Matched(dual) == dual[2] = <<dual[1][1], 2, dual[1][3]>> /\ dual[1][2] = 1

PairsMatch == \A n \in Names : \A i \in DOMAIN output[n] : Matched(output[n][i])

(***************************************************************************)
(* While DIP is in use there is a publication for exactly the prisms of    *)
(* the selected detectors.                                                 *)
(***************************************************************************)
PublishersMatch ==
  alive /\ config.dipEnabled /\ dip = "created" => publications = SetupNames

(***************************************************************************)
(* What DIP is sent is new if it can be: when a run measured every         *)
(* selected pair, the setup files have one entry of each kind for each     *)
(* pair, no line of the script comes twice in it, and nothing was left of  *)
(* the evaluation before, every value sent is from this run.  (Otherwise   *)
(* values of earlier runs are sent with the time of this one.)             *)
(***************************************************************************)
Evaluates == wanted /\ wanted' = FALSE /\ data' = <<>> /\ alive /\ alive'

Covered ==
  /\ data = <<>>
  /\ IsInjective(script)
  /\ \A p \in Known : PointsOf(p) = 1
  /\ \A p \in Known :
       \E i \in DOMAIN Points(ReadLWDAQOutput.found) :
         NamePair(Points(ReadLWDAQOutput.found)[i]) = p

FullRunIsSent ==
  [][RunEnds /\ Evaluates /\ ReadLWDAQOutput.outcome = "read" /\ Covered
       /\ config.dipEnabled /\ dip = "created" =>
     \A p \in Known :
       /\ NameOf[p] \in DOMAIN SendResults /\ SendResults[NameOf[p]] # <<>>
       /\ \A i \in DOMAIN SendResults[NameOf[p]] :
            SendResults[NameOf[p]][i][1][3] = runs]_vars

(***************************************************************************)
(* The first of an empty list is asked for only if no pair that has an     *)
(* entry in each setup file was measured completely: where the warnings of *)
(* server.cpp:374, 487 and 533 say that a file may be missing, either that *)
(* is so or the run ended before its first pair of spots was complete.     *)
(***************************************************************************)
EmptyOnlyIfCutShort ==
  Running /\ wanted /\ ReadLWDAQOutput.outcome = "read"
    /\ Points(ReadLWDAQOutput.found) = <<>> =>
      \A i \in DOMAIN file : \A j \in DOMAIN file[i] :
        file[i][j][2] = 2 => file[i][j][1] \notin Located

(***************************************************************************)
(* calculate_results.cpp:8: the loop is over all the points that were      *)
(* transformed into the global system.                                     *)
(***************************************************************************)
AllPointsVisited ==
  [][RunEnds /\ Evaluates /\ ReadLWDAQOutput.outcome = "read" =>
     \A i \in DOMAIN Points(ReadLWDAQOutput.found) :
       LET d == Points(ReadLWDAQOutput.found)[i]
       IN  Contains(output'[NameOf[NamePair(d)]], d)]_vars
=============================================================================
