----------------------------- MODULE ScanCycle ------------------------------
(***************************************************************************)
(* Who drives the process image (src/main/perf_test.cpp, and the copy of   *)
(* the outputs in src/main/script_engine.cpp):                             *)
(*   timer   the 1 ms alarm, which gives the I/O task a notification       *)
(*   io      plc_scan_task, priority 24 on core 0: samples, debounces,     *)
(*           applies the outputs, wakes the script task at every           *)
(*           ScanDivider-th tick                                           *)
(*   script  script_scan_task, priority 12 on core 0: mirrors the inputs,  *)
(*           runs a scan and copies its outputs to the image, with one     *)
(*           lock per input and per output                                 *)
(*   httpd   on core 1: sets RUN or STOP, writes files while in STOP       *)
(* io never blocks between two notifications and shares a core with        *)
(* script: script takes no step until io waits again. What the script      *)
(* engine does in a scan (ScriptEngine) appears here by its outcome: no    *)
(* scan, a scan that fails, or one that leaves any output image.           *)
(***************************************************************************)
EXTENDS PlcIo

CONSTANTS
  ScanDivider,   \* SCRIPT_SCAN_DIVIDER
  MaxAlarms      \* bound on the timer's alarms in a behaviour

ASSUME DividerAssumption == ScanDivider \in Nat \ {0}
ASSUME AlarmsAssumption  == MaxAlarms \in Nat

VARIABLES
  mode,          \* g_plc_runtime_enabled
  hpc,           \* httpd: idle, or in the middle of a write to flash
  alarms,        \* history: alarms so far
  iopc, ioNotes, ioTaken,  \* io: step, pending notifications, notify_count
  ioWakes,       \* history: notifications taken
  ioMissed,      \* missed_notifications, summed over the report's windows
  raw,           \* io: the levels it has sampled
  divider,       \* script_scan_divider
  spc, sNotes, sTaken, sMissed, sWakes,  \* the same for script
  I, synced,     \* g_script_io.I; script: inputs it has mirrored for this scan
  Q,             \* g_script_io.Q
  copied,        \* script: outputs it has copied
  published,     \* history: the image of the last scan that was copied in full
  since,         \* history: the values each debounced input had since the scan began
  late           \* history: ticks and scans that ended since STOP was set

httpdVars == <<mode, hpc>>
ioTaskVars == <<iopc, ioTaken, ioWakes, ioMissed, raw, divider>>
scanVars == <<I, synced, Q, copied, published>>
scriptVars == <<spc, sTaken, sMissed, sWakes, scanVars>>
vars == <<ioVars, httpdVars, ioTaskVars, scriptVars, alarms, ioNotes, sNotes, since, late>>

IoPcs     == {"wait", "check", "sample", "tick", "apply", "divide", "count"}
ScriptPcs == {"wait", "check", "run", "copy", "count"}

Init ==
  /\ IoInit
  /\ mode = "RUN" /\ hpc = "idle" /\ alarms = 0
  /\ iopc = "wait" /\ ioNotes = 0 /\ ioTaken = 0 /\ ioWakes = 0 /\ ioMissed = 0
  /\ raw = [i \in Inputs |-> 0] /\ divider = 0
  /\ spc = "wait" /\ sNotes = 0 /\ sTaken = 0 /\ sMissed = 0 /\ sWakes = 0
  /\ I = [i \in Inputs |-> 0] /\ synced = 0
  /\ Q = [q \in Outputs |-> 0] /\ copied = 0 /\ published = [q \in Outputs |-> 0]
  /\ since = [i \in Inputs |-> {}] /\ late = [io |-> 0, script |-> 0]

PlcRunning == mode = "RUN"      \* perf_test_is_plc_running

Ended(task) == IF mode = "STOP" THEN [late EXCEPT ![task] = @ + 1] ELSE late

Excess(n) == IF n > 1 THEN n - 1 ELSE 0     \* notifications that got no wake-up

-----------------------------------------------------------------------------
Alarm ==            \* vTaskNotifyGiveFromISR
  /\ alarms < MaxAlarms
  /\ alarms' = alarms + 1 /\ ioNotes' = ioNotes + 1
  /\ UNCHANGED <<ioVars, httpdVars, ioTaskVars, scriptVars, sNotes, since, late>>

(***************************************************************************)
(* httpd                                                                   *)
(***************************************************************************)
SetMode ==          \* POST /api/plc_mode
  /\ hpc = "idle"
  /\ mode' \in {"RUN", "STOP"} \ {mode}
  /\ late' = [io |-> 0, script |-> 0]
  /\ UNCHANGED <<ioVars, hpc, ioTaskVars, scriptVars, alarms, ioNotes, sNotes, since>>

FileUpload ==       \* flash_write_allowed, then fopen and the writes
  /\ hpc = "idle" /\ ~PlcRunning
  /\ hpc' = "writing"
  /\ UNCHANGED <<ioVars, mode, ioTaskVars, scriptVars, alarms, ioNotes, sNotes, since, late>>

FileUploadDone ==
  /\ hpc = "writing"
  /\ hpc' = "idle"
  /\ UNCHANGED <<ioVars, mode, ioTaskVars, scriptVars, alarms, ioNotes, sNotes, since, late>>

(***************************************************************************)
(* io                                                                      *)
(***************************************************************************)
IoStep(from, to) ==
  /\ iopc = from /\ iopc' = to
  /\ UNCHANGED <<httpdVars, scriptVars, alarms>>

\* Mutant: ulTaskNotifyTake(pdFALSE): the count is decremented, not cleared.
TakesOne(n) == n - 1
TakesAll(n) == 0

IoTake ==           \* ulTaskNotifyTake(pdTRUE)
  /\ ioNotes > 0
  /\ IoStep("wait", "check")
  /\ ioTaken' = ioNotes /\ ioNotes' = TakesAll(ioNotes) /\ ioWakes' = ioWakes + 1
  /\ UNCHANGED <<ioVars, ioMissed, raw, divider, sNotes, since, late>>

IoCheckMode ==
  /\ IoStep("check", IF PlcRunning THEN "sample" ELSE "count")
  /\ UNCHANGED <<ioVars, ioTaken, ioWakes, ioMissed, raw, divider, ioNotes, sNotes, since, late>>

SamplePins ==       \* outside the lock
  /\ IoStep("sample", "tick")
  /\ \E level \in [Inputs -> Level] : raw' = [i \in Inputs |-> RawOf(level[i])]
  /\ UNCHANGED <<ioVars, ioTaken, ioWakes, ioMissed, divider, ioNotes, sNotes, since, late>>

IoTick ==
  /\ IoStep("tick", "apply") /\ Tick(raw)
  /\ since' = IF spc = "run" THEN [i \in Inputs |-> since[i] \cup {debounced'[i]}] ELSE since
  /\ UNCHANGED <<ioTaken, ioWakes, ioMissed, raw, divider, ioNotes, sNotes, late>>

IoApply ==
  /\ IoStep("apply", "divide") /\ ApplyOutputs
  /\ late' = Ended("io")
  /\ UNCHANGED <<ioTaken, ioWakes, ioMissed, raw, divider, ioNotes, sNotes, since>>

\* Mutants: the divider is not restarted, or restarts at 1.
Unrestarted(d)  == d + 1
RestartsLate(d) == IF d + 1 >= ScanDivider THEN 1 ELSE d + 1
Advanced(d)     == IF d + 1 >= ScanDivider THEN 0 ELSE d + 1

IoDivide ==
  /\ IoStep("divide", "count")
  /\ divider' = Advanced(divider)
  /\ sNotes' = IF divider + 1 >= ScanDivider THEN sNotes + 1 ELSE sNotes
  /\ UNCHANGED <<ioVars, ioTaken, ioWakes, ioMissed, raw, ioNotes, since, late>>

IoCount ==
  /\ IoStep("count", "wait")
  /\ ioMissed' = ioMissed + Excess(ioTaken) /\ ioTaken' = 0
  /\ UNCHANGED <<ioVars, ioWakes, raw, divider, ioNotes, sNotes, since, late>>

IoNext ==
  \/ IoTake \/ IoCheckMode \/ SamplePins \/ IoTick \/ IoApply \/ IoDivide \/ IoCount

(***************************************************************************)
(* script                                                                  *)
(***************************************************************************)
ScriptStep(from, to) ==
  /\ iopc = "wait" /\ ioNotes = 0       \* else io runs
  /\ spc = from /\ spc' = to
  /\ UNCHANGED <<httpdVars, ioTaskVars, alarms, ioNotes>>

ScriptTake ==
  /\ sNotes > 0
  /\ ScriptStep("wait", "check")
  /\ sTaken' = sNotes /\ sNotes' = 0 /\ sWakes' = sWakes + 1
  /\ UNCHANGED <<ioVars, sMissed, scanVars, since, late>>

TrustsWakeups == TRUE           \* Mutant: only in RUN is it woken, so it does not ask.
MayScan       == PlcRunning

\* RUN and STOP are looked at once, before the scan.
ScriptCheckMode ==
  /\ ScriptStep("check", IF MayScan THEN "run" ELSE "count")
  /\ since' = IF MayScan THEN [i \in Inputs |-> {debounced[i]}] ELSE since
  /\ UNCHANGED <<ioVars, sTaken, sMissed, sWakes, scanVars, sNotes, late>>

ScanStep(to) ==     \* within script_engine_run_scan
  /\ ScriptStep("run", to)
  /\ UNCHANGED <<sTaken, sMissed, sWakes, published, copied, sNotes>>

ScanPaused ==       \* for a compile
  /\ ScanStep("count") /\ synced = 0
  /\ since' = [i \in Inputs |-> {}] /\ late' = Ended("script")
  /\ UNCHANGED <<ioVars, I, synced, Q>>

MirrorInput ==      \* sync_inputs_to_script_globals: one lock per input
  /\ synced < NumInputs
  /\ ScanStep("run")
  /\ I' = [I EXCEPT ![synced + 1] = GetDi(synced + 1)]
  /\ synced' = synced + 1
  /\ UNCHANGED <<ioVars, Q, since, late>>

ScanEnds(to) ==     \* the inputs are no longer looked at
  /\ synced = NumInputs /\ synced' = 0
  /\ ScanStep(to)
  /\ since' = [i \in Inputs |-> {}]
  /\ UNCHANGED <<ioVars, I>>

NoScan ==           \* there is no program
  /\ ScanEnds("count") /\ late' = Ended("script")
  /\ UNCHANGED Q

ScanFails ==        \* an exception: the outputs it had set stay in Q
  /\ ScanEnds("count") /\ late' = Ended("script")
  /\ Q' \in OutputImage

ScanFinishes ==
  /\ ScanEnds("copy")
  /\ Q' \in OutputImage
  /\ UNCHANGED late

LastButOne == NumOutputs - 1    \* Mutant: the last output is not copied
LastOutput == NumOutputs

CopyOutput ==       \* copy_outputs_from_script_globals: one lock per output
  /\ copied < LastOutput
  /\ ScriptStep("copy", "copy")
  /\ SetDo(copied + 1, Q[copied + 1])
  /\ copied' = copied + 1
  /\ UNCHANGED <<sTaken, sMissed, sWakes, I, synced, Q, published, sNotes, since, late>>

CopyDone ==
  /\ copied = LastOutput
  /\ ScriptStep("copy", "count")
  /\ published' = Q /\ copied' = 0
  /\ late' = Ended("script")
  /\ UNCHANGED <<ioVars, sTaken, sMissed, sWakes, I, synced, Q, sNotes, since>>

ScriptCount ==
  /\ ScriptStep("count", "wait")
  /\ sMissed' = sMissed + Excess(sTaken) /\ sTaken' = 0
  /\ UNCHANGED <<ioVars, sWakes, scanVars, sNotes, since, late>>

ScriptNext ==
  \/ ScriptTake \/ ScriptCheckMode \/ ScanPaused \/ MirrorInput \/ NoScan \/ ScanFails \/ ScanFinishes
  \/ CopyOutput \/ CopyDone \/ ScriptCount

Next == Alarm \/ SetMode \/ FileUpload \/ FileUploadDone \/ IoNext \/ ScriptNext

Spec == Init /\ [][Next]_vars

-----------------------------------------------------------------------------
\* Every variable stays within the values its C++ counterpart can take.
TypeOK ==
  /\ IoTypeOK
  /\ mode \in {"RUN", "STOP"} /\ hpc \in {"idle", "writing"} /\ alarms \in 0..MaxAlarms
  /\ iopc \in IoPcs /\ ioNotes \in Nat /\ ioTaken \in Nat /\ ioWakes \in Nat
  /\ ioMissed \in Nat
  /\ raw \in [Inputs -> Level] /\ divider \in 0..(ScanDivider - 1)
  /\ spc \in ScriptPcs /\ sNotes \in Nat /\ sTaken \in Nat /\ sMissed \in Nat
  /\ sWakes \in Nat
  /\ I \in [Inputs -> Level] /\ synced \in 0..NumInputs
  /\ Q \in OutputImage /\ copied \in 0..NumOutputs /\ published \in OutputImage
  /\ since \in [Inputs -> SUBSET Level] /\ late \in [io: Nat, script: Nat]

\* The debounced inputs are those of the reference filter: glitches shorter than
\* DebounceTicks samples never reach a script, longer ones always do.
KeepsFilter == Filter!Spec

\* missed_notifications is the truth about an overloaded I/O task: every alarm got a
\* wake-up, is still pending, or is counted as missed.
AlarmsAccounted == alarms = ioWakes + ioNotes + ioMissed + Excess(ioTaken)

\* The script task is woken, or counted as missing its wake-up, exactly once for every
\* ScanDivider ticks of the process image, across STOP and RUN.
EveryNthTick ==
  ticks - (IF iopc \in {"apply", "divide"} THEN 1 ELSE 0)
    = ScanDivider * (sWakes + sNotes + sMissed + Excess(sTaken)) + divider

\* "Apply the most recently published output image": unless it has interrupted a copy,
\* the I/O task drives the pins with the outputs of the last finished scan, whole.
AppliesLastScan == [][iopc = "apply" /\ iopc' # "apply" /\ spc # "copy"
                        => pins' = published]_vars

\* A program sees each input with a value that it had, debounced, since its scan began: the
\* mirror is filled input by input with ticks in between, which may mix them, but it is never
\* older than the scan and never a sample that the filter has not let through.
MirrorIsRecent == spc = "run" => \A i \in 1..synced : I[i] \in since[i]

\* "STOP [...] prevents PLC I/O ticking and AngelScript scans while flash writes are allowed",
\* but for one tick and one scan, already past the test when STOP was set: however long they
\* are held up, and whatever RUN or STOP came before, no second one ends until RUN is set.
StopLetsOneEnd == mode = "STOP" => late.io <= 1 /\ late.script <= 1

\* "The 1 ms I/O task continues to [...] apply the last published outputs": the pins
\* always change from one scan's image to the next scan's.
PublishedWhole == [][pins' # pins => pins' \in {published, Q}]_vars
=============================================================================
