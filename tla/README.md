# ADEPO: verification of the measurement chain

ADEPO measures the position of the ATLAS detector parts. `adepo-server` lets
LWDAQ, a separate process, take images with BCAM cameras, reads the file LWDAQ
writes, calculates coordinates and publishes them; GUI clients start and stop
runs and choose what is measured. A run lasts a fixed time (*Closure*), or runs
follow one another with a waiting time in between (*Monitoring*), unattended,
for weeks. This directory holds TLA+ modules of that system, the TLC
configurations that check them, and TLAPS proofs. `PROJECT.json` lists the runs,
the theorems, the lines of code that each definition models, and the hazards.

All paths below are under `src/`; `lwdaq_client.cpp`, `server.cpp` and the like
are in `src/ADEPO/server/`, `client.cpp` in `src/ADEPO/client/`,
`Acquisifier.tcl` in `src/LWDAQ_8.2/Tools/`.

## 1. Inventory

| Component | State it keeps | Operations |
|---|---|---|
| **LWDAQ**: System Server and Acquisifier (`Interface.tcl`, `Tools.tcl`, `Utils.tcl`, `Acquisifier.tcl`) | arrays of the tool (control, step, steps, upload target), event queue, result file | one reply line per command line; load script, Repeat_Run, Stop, status, upload; the steps of a script |
| **LWDAQ_Client** (`lwdaq_client.cpp`) | its state (Connecting, Idle, Run, Stop), the current list of commands and expected replies with an index, socket, three timers | `init`, `gotConnected`, `gotDisconnected`, `displayError`, `readStatus`, `startRun`, `stopRun`, `updateStatus` |
| **Server** (`server.cpp`, `server_call.cpp`) | `adepoState`, the run (mode, selection), `needToCalculateResults`, `waitingTimer`, the spots in `data`, `run_file.json`, the script files | `start`, `stop`, `updateRun`, `updateAll`, the other update calls, `runDAQ`, `stopDAQ`, `lwdaqStateChanged`, `calculateCoordinates` |
| **Evaluation** (`read_lwdaq_output.cpp`, `calculate_results.cpp`, `write_script_file.cpp`) | script, result file, spots, results | write the script, read the lines, pair the spots, calculate, send |
| **DIP** (`dip_server.h`) | publications by name, a pointer to the library | connect, create and remove publications, send |
| **Configuration and setup** (`common/`) | the pairs of BCAM and prism, the selected ones | read, select |
| **Client** (`client/`) | copies of run and state, widgets with their own signals, one of them delayed | buttons and widgets, each ends in one or two calls; one slot per callback |
| **Bridge** (`adepo-client/`, `adepo-server/`, `bridge/`) | websockets, list of clients, reconnect timer | JSON-RPC calls one way, callbacks to every client the other |
| **Geometry** (`server.cpp` 268-799, `helmert.cpp`) | coordinates | transformations, least squares |
| **Scripts** (`bin/`) | none | start, restart and stop the two processes |

How they interact:

- The GUIs and `adepo-server` exchange messages on websockets; a button makes
  one or two calls, and each call is one slot of the server's event loop. What a
  call changes is told to all clients by callbacks; a callback sets widgets,
  and a widget that changes calls the server again.
- Server calls LWDAQ_Client directly (`startRun`, `stopRun`); LWDAQ_Client
  calls back by the signal `stateChanged`, inside the slot that changes its
  state. Both live in one Qt event loop: no slot is interrupted by another.
- LWDAQ_Client and LWDAQ exchange lines over TCP port 1090. LWDAQ is one Tcl
  event loop, but an acquisition calls `LWDAQ_update`, so that a command may be
  interpreted in the middle of a step. Uploaded step results arrive on the same
  socket as replies.
- Server and LWDAQ share files: the script, parameter and settings files
  (written by Server, run by LWDAQ) and the result file (appended to by LWDAQ,
  removed and read by Server).

What is hard: two event loops, shared files; the timers (`connectTimer` 15 s,
`statusTimer` 2 s, `runTimer` 20-600 s, `waitingTimer` 30-3600 s, half a second
in a spin box) that fire in any state of a connection; a protocol that
recognises replies only by how they end; reconnection, and restart of either
process while the other goes on; widgets that echo what they are told; lines of
the result file that are paired by their order alone.

What makes each component correct:

- LWDAQ: Idle means at rest; a stop is carried out; one chain of events.
- LWDAQ_Client: it always reconnects, it never indexes outside its lists, it
  starts from nothing on each connection, it polls what it must poll.
- Server: results are those of a run that was not stopped; the state it shows
  agrees with LWDAQ; monitoring goes on until it is stopped.
- Evaluation and DIP: the two spots of a result belong together; a complete run
  is what is sent; publications follow the selection.
- Bridge and clients: every client ends with the state and the run of the
  server; echoes end; what was asked for last wins.
- The chain: results are calculated from a complete file; no run starts on top
  of another; after a failure a run can start again.

## 2. Modules

| Module | What it is |
|---|---|
| `Acquisifier` | LWDAQ: one action per command (`ServerInfo` ... `Status`), `QueueStep` and `StepEnd` for the two halves of `Acquisifier_execute`, `LwdaqRestart`; the last section is its environment, a client that may send anything |
| `LwdaqClient` | LWDAQ_Client: one action per slot; its environment `Lwdaq` may take commands and write any line |
| `DaqRun` | abstract: what Server promises about results |
| `AdepoServer` | Server: one action per call or slot; `lwdaqState` is an input that may change in any way |
| `DaqSystem` | the chain: instances of `AdepoServer`, `LwdaqClient` and `Acquisifier` that share `lwdaqState`, the connection and the files, the calls of a GUI, and the failures |
| `Bridge` | several GUI clients and the websocket side of `adepo-server`, with connections that break and a server that restarts |
| `Evaluation` | a run in detail: script, result file line by line, pairs of spots, results, DIP |
| `MC...` | model values, bounds and fairness for TLC; `MCBridge` also the history its two properties about users need |
| `AdepoServerProofs`, `LwdaqClientProofs`, `AcquisifierProofs`, `BridgeProofs`, `EvaluationProofs` | theorems about one module each |
| `DaqSystemProofs` | theorems about the chain at any time, from those about its parts |
| `DaqTimingProofs` | theorems about the chain when LWDAQ answers in time |
| `InductionLemmas` | induction and recursion over the natural numbers, and what `FlattenSeq` returns, for `EvaluationProofs` |

Definitions named in a comment as a mutant belong to no specification: each is
a wrong version of the definition that follows it, and TLC finds the property it
is paired with in `PROJECT.json` violated when it takes that definition's place.

### Acquisifier

A command takes a line from `commands`, changes the tool and appends a line to
`replies`. `control`, `step`, `upload`, `target` are the entries of the arrays
`Acquisifier_info` and `Acquisifier_config` that matter here, `queue` counts the
`Acquisifier_execute` events in the LWDAQ queue, `executing` says that one is
between its two halves, `configured` that the settings file has set the paths of
script and result file. `RunTool` keeps the arrays only if LWDAQ has a window
(`Gui`, `bin/lwdaq-server-gui`); with `bin/lwdaq-server` every connection resets
them (`LWDAQ_tool_init`, `Acquisifier_init`) while events stay queued.

Abstracted: a result file is the set of what its lines are readings of; a script
is the set of detectors it was written for and its number of steps, of which
step 1 stands for the two header steps, `acquisifier:` and `default:`, which
append no reading. `cycle_period_seconds` is 0 in every script that ADEPO
writes, so `Wait` ends at the next event. `Acquisifier_load_script` is one step
here, although it calls `LWDAQ_update` while its control is `Load_Script`.

### LwdaqClient

`script` and `cmdNo` are the lists `cmd`, `ret` and the index; `patched` says
that the reply to `LWDAQ_server_info` has overwritten their entries 1 and 2.
Lines are told apart as `readStatus` does, by their beginning (states, `ERROR:`,
the five-word socket line) and by their ending (`Ending`). `ReadyRead(n)` is one
`readyRead` for the `n` lines that arrived together: it reads one line and
leaves the others in `buffer`. `IsConnected` is false in Idle, as in the code.
Writing to a closed socket is lost.

### AdepoServer

`StartDAQ` and `WaitingTimeout` are the two callers of `runDAQ`, whose outcomes
are `RunDAQ` and `RunAborted`. Reading and calculating is `CalculateCoordinates`
(`Calculated`: every reading is of a selected detector; `Rejected`: no file, or
a line that is not a reading, after which the spots read so far stay in `data`)
or `CalculateThrows` (the name of a BCAM outside the selection, in the file or
among the spots left in `data`: `Setup::getBCAM` throws and nothing catches).
`Crash` and `Restart` keep the files and lose the memory. `UpdateAll` is the
call that a client makes on connecting.

Detectors are selected in any combination; files and `data` are sets of
detectors, so that a run may overlap a selection. Abstracted: how many readings
a detector has; times are not numbers; the state Calculating lasts only inside
a slot.

### Evaluation

The same evaluation in detail, for runs that start and end in one step with
LWDAQ at rest (which `NotRemovedUnderRun` and `CalculatedAtRest` show of the
chain). The script is a sequence of lines with one or two spots, depending on
whether the two sources of a pair flash together; a spot is the pair, the source
and the run. `Reading` is `readLWDAQOutput`, `ReadLine` for one line after the
other, including the first spot it keeps for the next line. A line that is no
reading makes it give up; the text of an error that happens to have the number
of words of a reading is looked up as one, and throws (`Throws`).

The points of the global system are made from the pairs of spots in three loops
over the setup files. `PointsOf(p)` is how many there are of two spots of `p`:
none, if the calibration file has no line for its BCAM and direction
(`calibrated`), the configuration no distance for it (`distances`), or the
constructor calculated no parameters of its BCAM (`placed`, which
`UpdateConfiguration` does not do again); more than one, if an entry is there
more than once. `check()` looks at none of this, so the configurations and
calibrations may have any number of entries, and list a prism twice; `Accepted`
are those `check()` lets the constructor take, `UpdateConfiguration` takes any.

`Visited` is the loop of `calculate_results.cpp` that ends at the first
repetition of the first name. `Calculates` ends in results or, without any
point, in an index into an empty list: undefined, so that the process may end or
go on. Left out: `calibs2.at(j)` (`server.cpp:396`) is indexed with the number
of a line of the other kind, and calibration files are taken to have as many of
both; the four or six spots of one line are not told apart from two.

### Bridge

One action per slot of `SocketClient`, `SocketServer`, `Client` and of
`DelayedSpinBox`. `handlers` counts how often `onConnected` has connected the
message slot; `Receive` lets each of them handle a callback, one after the
other. The run has a mode and one setting of each kind of widget, one that
signals at once and one that signals after half a second. `After` is what a
callback does to a client and `Echo` what it makes it send. The calls of a
connection that breaks arrive up to some point; its callbacks are lost. The
server's own state changes in any way.

### DaqSystem

Each action is a slot of `adepo-server` with everything it calls (`Signal` is
`stateChanged` and its slot), an action of LWDAQ, a button, or a failure.
`calls` holds the calls of the last button that are not yet handled; `Press`
waits for them. Two constants describe time:

- `Prompt`: a timer, a button or the end of a step finds nothing under way
  between the processes. LWDAQ answers in milliseconds; the shortest timer runs
  2 s and a step, one acquisition with a flash of several lasers, lasts seconds.
- `Fresh`: a button is pressed in the state that the server has (the callback
  with the state has arrived and enabled the button).

Runs of properties that need neither take both as `FALSE`.

## 3. What TLC checks

| Run | Module, configuration | Question | States |
|---|---|---|---|
| `acquisifier` | `MCAcquisifier` | is LWDAQ at rest when it says Idle, with one chain of events, and is a stop carried out, under any client? | 151 000 |
| `client` | `MCLwdaqClient` | does LWDAQ_Client reconnect, index safely, and start afresh, under any server? | 1 280 000 |
| `server` | `MCAdepoServer` | with failing steps and files, and any selections: does Server implement `DaqRun`, and show the state of LWDAQ? | 254 000 |
| `chain_any_time` | `MCDaqSystem` | can the socket's name be written outside the stop lists' bounds? | 1 095 000 |
| `chain` | `MCDaqSystem`, `MCDaqMonitoring.cfg` | are results complete, runs exclusive, waiting periods free of measurements, and does the chain recover from up to two failures and go on monitoring? | 126 000 |
| `chain_parts` | `MCDaqSystem`, `MCDaqParts.cfg` | do the parts keep to their own specifications in the chain, and with LWDAQ's window are results complete even after a failure? | 301 000 |
| `bridge` | `MCBridge` | do the clients and the server agree, do echoes end, does the last choice win? | 509 000 |
| `evaluation` | `MCEvaluation` | are spots paired rightly, is a complete run what is sent, do publications follow, and why are there no points? | 1 360 000 |

All finish without an error in less than two minutes each. Four more runs each
show something said of the code that the code does not do (section 5).

Bounds, and why they suffice:

- Detectors: two where selections are compared (`server`, `evaluation`), the
  only relation between two being same or different; one where no property tells
  them apart, none where not even the selection matters (`chain_any_time`). Two
  steps of a script, a header and an acquisition: more acquisitions repeat the
  same transitions.
- `MaxPending`, `MaxCommands`, `MaxReplies`: lines under way. The client sends
  one command per line read, so one is the normal number; more arise from status
  polls, uploads and a second script, and two suffice to get out of step.
- `MaxPresses`, `MaxFaults`, `MaxEvents`: start, stop, and a start or a
  selection after it; or one or two of these with two or one failures, at any
  point, one failure in the recovery from the other included.
- `chain_parts` has every failure of a step, of the removal of a file and of the
  socket (`StepErrors`, `RemoveMayFail`, `OtherErrors`), the window, and a
  button pressed on a stale state. That the parts conform is also proved, for
  all values (section 4).
- `bridge`: two clients, because a callback goes to the client that caused it
  and to others; two events, started either from nothing or from rest.
  `MaxUp` and `MaxDown` bound the messages under way only once the users have
  interfered with each other; the runs the two properties about users speak of
  are not cut.
- `evaluation`: two pairs, one whose sources flash separately and one whose
  sources flash together; two runs, since `data` carries over from one to the
  next only; five lines, where the longest script has three: a whole pass and
  the beginning of the next. Two configurations, one complete and one that has
  lost a pair and lists the other and its distance twice; two calibrations, one
  without an entry for the first pair.
- `CHECK_DEADLOCK FALSE` where the system may stop: in the chain and the bridge
  when the users have gone away and everything is idle, in `evaluation` when the
  last run was used up.

Fairness. In the chain (`MCFairSpec` of `MCDaqSystem`): weak fairness of every
slot of `adepo-server`, of `LwdaqCommand` and of `ServerRestart`: both event
loops serve every event that is due, and `bin/adepo-server-start` restarts the
process for ever. Timers that are active expire. `LwdaqStep` has strong
fairness: polling the status every two seconds disables `StepEnd` under `Prompt`
again and again, but an acquisition still ends. In the bridge: weak fairness of
every slot, of accepting a connection and of `reconnectTimer`. In
`MCAcquisifier` the strong fairness of `StepEnd` only undoes the bound on lines
under way. What users do, and failures, are nowhere fair.

Two liveness properties assume that a script file exists. A server that comes up
in Monitoring without one (a crash between `updateRun` and `start`, before the
first run ever) is answered `ERROR` and sleeps in Waiting; so does one whose
start was aborted because the result file could not be removed. No property says
that monitoring never sleeps: the code does not promise it.

Three properties hold for a reason worth knowing:

- The recovery in `chain` (`NeverStuck`) is checked without a window, where the
  init list asks for uploads and then runs the tool, which resets what was asked
  for (run `uploads`). With a window the redirection works, the Acquisifier keeps
  its run over a reconnection, and a run that was under way when `adepo-server`
  connects again is shown as Run and ended by nobody: only `startRun` starts
  `runTimer` (`lwdaq_client.cpp:116`). TLC shows it when `Gui` is TRUE in
  `MCDaqMonitoring.cfg`; nothing in the repository says otherwise.
- `LastChoiceWins` and `Settles` are about users who act one after the other.
  When two changes cross, the echoes of the widgets that signal at once can go
  round between the clients for as long as they stay apart; what holds then is
  only `QuietClientsAgree`.
- `EmptyOnlyIfCutShort` says when the code reads the first element of an empty
  list: when no pair that has an entry in each setup file was measured
  completely. Either the run ended within its first pair, or entries are missing,
  as the warnings at `server.cpp:374`, `487` and `533` say.

## 4. What TLAPS proves

For every set of detectors or clients, every length of a script, and any number
of lines, commands, messages, reconnections and events:

- `LwdaqClientProofs`: `TypeCorrect`, `NeverGivesUp` (`Reconnects`),
  `IndicesInRange` (`IndexSafe`), `ConnectionLeavesNothing`. The conjunction of
  the four is inductive, and none is alone: the types of the commands sent need
  the index to be in range; the index advances only after `gotConnected`, so
  that it is small while connecting, whichever list is current then (`startRun`
  is not guarded by the state); and a stop or a poll is sent on a connection
  only because `LWDAQ_UNSET` means that there is none.
- `AdepoServerProofs`: `TypeCorrect`, `ShownStateAgrees` (`ShownState`), and
  `PromiseKept` (`ResultsPromise`): Server implements `DaqRun`
  (initial states to initial states, each action to a step or a stutter), with
  failing steps and files included; type correctness is all the refinement
  needs. `NoErrorsNoLeftovers`: without failing steps, `data` is empty between
  slots (section 5 shows what happens with them).
- `AcquisifierProofs`: `TypeCorrect`, `IdleIsAtRest` (`OneChain`) and
  `IdleChangesNothing` (`IdleIsQuiet`). `OneChain` is not inductive: running
  the tool for the first time sets control to Idle, so that the invariant also
  says that a tool that was never run is Idle. The
  action property follows from it: what appends to the file is the end of a
  step, and an executing step means control is not Idle.
- `BridgeProofs`: `BridgeType`, `InSyncAlways` (`StateInSync`) and
  `AgainIsHarmless` (`HandledAgain`). The invariant `Inv` is the type and, for
  each client, what the two properties say and what they rest on: a client with
  an open connection is in the server's list, so that it is told of every change,
  and a callback handled by some slots but not yet by all is still the first of
  those under way on an open connection. That a second handling changes nothing
  is a lemma about `After` and `Echo` alone (`Idempotent`).
  `AgreeWhenQuiet` (`QuietClientsAgree`) adds `Agrees` for each client: either
  an update or a question is on its way up, which will be answered by a
  `changedRun`, or the last `changedRun` on its way down has the run of the
  server, or there is none and the client holds that run; and likewise for the
  buttons and the state. `LastChoiceStands` (`LastChoiceWins`, of `MCSpec`
  without its bounds: any number of clients, presses and reconnections) has the
  invariant `LastInv`: while nobody has interfered, every update on its way up,
  every run on its way down and what a running half-second timer would send is
  the run asked for last; and as long as the server does not have it, in memory
  and in its file, some client with an open connection is still about to send it.
- `EvaluationProofs`: `TypeCorrect`, `SpotsMatch` (`PairsMatch`),
  `EmptyIfCutShort` (`EmptyOnlyIfCutShort`), `FullRunSent` (`FullRunIsSent`) and
`PublicationsFollow` (`PublishersMatch`), for scripts and files of any length,
  and for configurations and calibrations with any number of entries.
  The script is well formed (`ScriptOK`: the two lines of a pair whose sources
  flash separately are neighbours, in their order), each line of the file is what
  its position in the passes over the script says (`LineOK`, while a run is under
  way), and so the reading of the first n lines (`ReadingOK`) keeps a first spot
  exactly if the n-th line is the first one of its pair. For `FullRunSent`, whose hypothesis is that the
  script has no line twice, the loop that ends at the first repetition has then
  gone through the whole first pass (`FirstPassOK`). Induction over the lines
  comes from `InductionLemmas`, where it is stated with sets (`Least`,
  `Induction`) and functions (`Recursion`) in the place of the operators that the
  library's theorems take.
- `DaqSystemProofs`: in the chain every part behaves as in its own module,
  `ServerInChain`, `ClientInChain` and `LwdaqInChain` (`ServerConforms`,
  `ClientConforms`, `LwdaqConforms`): each step of the chain is a step of the
  part or leaves it alone. So what is proved of the parts in any environment
  holds in the chain: `InvariantsOfChain`, and `ResultsOfChain`, that the chain
  implements `DaqRun`. The invariant `Chain` is the invariants of the three
  parts, the form of a pending call, and that an upload target exists only on a
  connection. The proof modules of the parts are instantiated; the lemmas
  `SameServer`, `SameClient` and `SameLwdaq` say that their actions are those
  the chain is built of.
  `SocketNameFits` (`SocketNameInRange`): the reply that overwrites entries 1
  and 2 never meets a stop list, which has two entries. The strengthening
  `SockFirst` says that this reply is the first line of a connection but for
  uploaded step results, and the question the first command of it; uploaded
  results do not change the state, so that the state is Connecting when the name
  is read, and in Connecting no stop list is current.
- `DaqTimingProofs`: what holds when LWDAQ answers in time (`Prompt`), for any
  number of buttons and failures. The invariants, each resting on those before:
  - `OneAtATime`: at most one command or one line is under way, and nothing
    while a `start` or `stop` is still to be handled;
  - `Talk`: during the handshake what is under way is what the init list has at
    that index; later the tool has been run, no command of the handshake is sent
    again, and an `Idle` under way is still true;
  - `Calm`: as long as nothing has failed, `OneChain` holds without a window,
    too, because `run_tool`, which would reset a busy Acquisifier, finds it Idle.
    With it, and with `OneChain` where there is a window, `CompleteFiles`
    (`CalculatedAtRest`): the Idle that is read is true, and Idle is at rest;
  - `Course` and `Clock`, which take `Fresh` as well. `Course` says for each
    state of LWDAQ_Client how far its list can be and what LWDAQ can be doing:
    in Idle it rests or has just been asked for a run, in Stop it has stopped or
    is about to and the next status is asked for or will be. `Clock` says that
    LWDAQ rests during a waiting period and whenever a `start` is to be handled,
    and that the mode in memory is that of the run file, but for a stop. They are
    proved together: a run begins only from `start` or `waitingTimer`, where
    `Clock` is needed for `Course`, and the waiting period begins with an Idle
    read, where `Course` is needed for `Clock`. They give `StopIsWatched`
    (`StopIsPolled`) and, with `Calm` and `OneChain`, `WaitsAlone`
    (`WaitingIsExclusive`) and `RunsAlone` (`NotRemovedUnderRun`).

The assumptions are those the modules name: the detectors do not contain the
values that stand for a missing file and for an error, scripts have at least two
steps, flags are Booleans, and the constants of `Evaluation` have their types;
what a configuration, a calibration or a selection contains is not restricted.
`Prompt` and `Fresh` are hypotheses of the theorems about time. None of the four
holds without `Prompt`. Without `Fresh`, `WaitingIsExclusive` and
`NotRemovedUnderRun` fail, and `StopIsPolled` fails with the window; TLC shows the
counterexamples when a constant of `MCDaqMonitoring.cfg` is changed.

So every invariant and every action property that a passing run checks is proved.
Model-checked only are the liveness properties (`StopIsCarriedOut`, `NeverStuck`,
`RunIsSettled`, `WaitingIsFollowedByRun`, `Settles`), which TLAPS does not do.

## 5. Where the code does not do what it says

Each is a run that TLC ends with a counterexample.

- `stop` (`StopStops`): `Client::stop` calls `stop()` and then `updateRun(run)`,
  whose mode is still Monitoring. The stop ends the current run, but the server
  then waits and starts the next one. `client.cpp:44`: "stopper l'acquisition".
  (Pressed in the waiting time, the same calls do stop: the timer is stopped.)
- `handshake` (`InitialStatus`): `adepo-server` connects again while LWDAQ
  executes a step of a run. The init list has asked for uploads, and the tool has
  not been run yet, when the step ends: its result arrives among the replies, as
  one of them or together with one. `readStatus` reads one line for each
  `readyRead`, so that in the end the answer `Idle` stays unread in the buffer:
  the list is done, LWDAQ rests, and the state stays Connecting on a working
  connection. `lwdaq_client.cpp:83`: "get initial status".
- `uploads` (`OutputIsRedirected`): without a window, and without any failure, the
  steps of a run write nothing to the connection, because the init list sets
  `upload_target` and `upload_step_result` before it runs the tool, which resets
  both (`Acquisifier.tcl:117`). `lwdaq_client.cpp:65`: "redirect output to incoming
  socket (same line as input)".
- `all_points` (`AllPointsVisited`): a first run measures one prism, then a step
  fails: the result file has a line that is not a reading, the evaluation is given
  up there, and the spots before it stay in `data` (`server.cpp:240`, "vidage des
  acquisitions", is not reached). They are the first of the next evaluation, whose
  loop ends at the first repetition of their name: the second prism, which the
  second run measured, gets no result. `calculate_results.cpp:8`: "on parcourt tous
  les points transformes dans le repere global".

## 6. What is not modelled

- The geometry: floating point, least squares, and with it the matrix at
  `calculate_results.cpp:29`, which has `Eigen::DynamicIndex` rows; the offset
  and reference results, which are differences of coordinates.
- Parsing and writing of text: scripts, result lines, JSON, calibration,
  reference, offset and output files. A configuration lists pairs and counts
  distances, a calibration counts lines; the single tests of `check()`, and a
  script for a pair whose target is missing, are left out.
- The Acquisifier's other commands and its window's buttons: `adepo-server`
  never sends them. An operator at the LWDAQ console can. In `Acquisifier` alone,
  under a client that sends any command, `SetUploadTarget` finds the variable that
  the command before it sets; in the chain it does.
- Callbacks that only show something (the time left, tables of results), the
  state Calculating, the nested event loop of the question before monitoring,
  and `updateReference`, which sends the update of the offset
  (`socket_client.cpp:114`) and so shows nothing new.
- A DIP library that fails to create a publication.
- `adepo-direct`: client and server in one process, the same calls made at once.
- LWDAQ's instruments, vendored libraries (Eigen, log4cplus, DIP) and the
  sources of the earlier program in `ADEPO/src`. They are most of the lines of
  the repository; the program's own control is a few thousand lines, of which
  the map names about one in three.

## 7. Plan

1. Done: `Acquisifier`, `LwdaqClient`, `AdepoServer` with `DaqRun`, `DaqSystem`,
   in this order (the parts first, because the chain instantiates them; the
   chain early, because the worst hazards are between the parts); then `Bridge`
   and `Evaluation`; then that the chain's steps are steps of its parts, and
   `SocketNameInRange`.
2. Done: a theorem for every invariant and action property of the passing runs.
   Proofs left: the steps that the liveness properties rest on, as action
   properties (what each slot of the recovery leads to); that the results of
   `Evaluation` implement an abstract promise as those of `AdepoServer` do.
3. Models left: the offset and reference files and what `resetDelta` makes of
   them; the loss of a file that is truncated before it is written
   (`common/results.h:37`).
