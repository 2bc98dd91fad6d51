-------------------------- MODULE ScanCycleProofs ---------------------------
(***************************************************************************)
(* For every number of inputs and outputs, threshold from 2 up and         *)
(* divider: the debounced inputs are those of the reference filter, the    *)
(* two tasks' wake-ups are accounted for, the pins show the last scan's    *)
(* outputs, the mirror is as recent as the scan, and STOP lets one tick    *)
(* and one scan end.                                                       *)
(*                                                                         *)
(* The filter: RunLength ties the counter the code keeps to the samples it *)
(* no longer has, and makes every tick a Sample of InputFilter. The        *)
(* accounts hold by themselves, once the variables have their types.       *)
(***************************************************************************)
EXTENDS ScanCycle, TLAPS

TypedIo == IoTypeOK /\ raw \in [Inputs -> Level]

InputsInv == TypedIo /\ RunLength

LEMMA TickRecent ==
  ASSUME TypedIo, RunLength, Tick(raw)
  PROVE  RunLength'
<1> USE DebounceAssumption DEF TypedIo, IoTypeOK, Level, NoSample
<1>1. SUFFICES ASSUME NEW i \in Inputs
      PROVE /\ \A k \in 1..stable'[i] : recent'[k][i] = candidate'[i]
            /\ stable'[i] = 0 => recent'[1][i] = NoSample
            /\ stable'[i] < DebounceTicks => recent'[stable'[i] + 1][i] # candidate'[i]
  BY DEF RunLength
<1>2. /\ candidate'[i] = raw[i] /\ stable'[i] = Count(i, raw[i])
      /\ \A k \in 1..DebounceTicks : recent'[k] = IF k = 1 THEN raw ELSE recent[k - 1]
      /\ stable[i] \in 0..DebounceTicks /\ raw[i] \in {0, 1} /\ candidate[i] \in {0, 1}
  BY DEF Tick
<1>3. /\ \A k \in 1..stable[i] : recent[k][i] = candidate[i]
      /\ stable[i] = 0 => recent[1][i] = 2
      /\ stable[i] < DebounceTicks => recent[stable[i] + 1][i] # candidate[i]
  BY DEF RunLength
<1>4. CASE raw[i] # candidate[i]
  <2>1. stable'[i] = 1 /\ recent'[1][i] = raw[i]
    BY <1>2, <1>4 DEF Count
  <2>2. recent[1][i] # raw[i]
    BY <1>2, <1>3, <1>4
  <2>3. recent'[2][i] = recent[1][i]
    BY <1>2
  <2> QED BY <1>2, <2>1, <2>2, <2>3
<1>5. CASE raw[i] = candidate[i]
  <2>1. stable'[i] = IF stable[i] < DebounceTicks THEN stable[i] + 1 ELSE stable[i]
    BY <1>2, <1>5 DEF Count
  <2>2. ASSUME NEW k \in 1..stable'[i] PROVE recent'[k][i] = candidate'[i]
    <3>1. CASE k = 1
      BY <1>2, <2>1, <3>1
    <3>2. CASE k > 1
      BY <1>2, <1>3, <1>5, <2>1, <3>2
    <3> QED BY <2>1, <1>2, <3>1, <3>2
  <2>3. stable'[i] # 0
    BY <1>2, <2>1
  <2>4. ASSUME stable'[i] < DebounceTicks
        PROVE recent'[stable'[i] + 1][i] # candidate'[i]
    <3>1. stable[i] < DebounceTicks /\ stable'[i] = stable[i] + 1
      BY <1>2, <2>1, <2>4
    <3>2. recent'[stable[i] + 2] = recent[stable[i] + 1]
      BY <1>2, <2>4, <3>1
    <3> QED BY <1>2, <1>3, <1>5, <3>1, <3>2
  <2> QED BY <2>2, <2>3, <2>4
<1> QED BY <1>4, <1>5

\* A tick of the image is a sample of the reference filter.
LEMMA TickSamples ==
  ASSUME TypedIo, RunLength, RunLength', TypedIo', Tick(raw)
  PROVE  Filter!Next
<1> USE DebounceAssumption DEF TypedIo, IoTypeOK, Level, NoSample
<1>1. recent' = [k \in 1..DebounceTicks |-> IF k = 1 THEN raw ELSE recent[k - 1]]
  BY DEF Tick
<1>2. ASSUME NEW i \in Inputs
      PROVE debounced'[i] = IF Filter!Settled(recent', i, raw[i]) THEN raw[i] ELSE debounced[i]
  <2>1. /\ stable'[i] = Count(i, raw[i]) /\ candidate'[i] = raw[i]
        /\ debounced'[i] = IF raw[i] = candidate[i] /\ stable'[i] >= DebounceTicks
                           THEN raw[i] ELSE debounced[i]
        /\ stable[i] \in 0..DebounceTicks /\ stable'[i] \in 0..DebounceTicks
    BY DEF Tick
  <2>2. /\ \A k \in 1..stable'[i] : recent'[k][i] = raw[i]
        /\ stable'[i] < DebounceTicks => recent'[stable'[i] + 1][i] # raw[i]
    BY <2>1 DEF RunLength
  <2>3. Filter!Settled(recent', i, raw[i]) <=> stable'[i] >= DebounceTicks
    BY <2>1, <2>2 DEF Filter!Settled
  <2>4. stable'[i] >= DebounceTicks => raw[i] = candidate[i]
    BY <2>1 DEF Count
  <2> QED BY <2>1, <2>3, <2>4
<1>3. debounced' = [i \in Inputs |-> IF Filter!Settled(recent', i, raw[i])
                                     THEN raw[i] ELSE debounced[i]]
  <2>1. debounced' = [i \in Inputs |-> debounced'[i]]
    BY DEF TypedIo
  <2> QED BY <1>2, <2>1
<1>4. Filter!Sample(raw)
  BY <1>1, <1>3 DEF Filter!Sample
<1>5. raw \in [Inputs -> Filter!Level]
  BY DEF Filter!Level
<1> QED BY <1>4, <1>5 DEF Filter!Next

-----------------------------------------------------------------------------
(***************************************************************************)
(* Types.                                                                  *)
(***************************************************************************)
LEMMA TickTypes ==
  ASSUME TypedIo, Tick(raw)
  PROVE  IoTypeOK'
<1> USE DebounceAssumption DEF TypedIo, IoTypeOK, Level, NoSample
<1>1. candidate' \in [Inputs -> Level] /\ ticks' \in Nat
  BY DEF Tick
<1>2. stable' \in [Inputs -> 0..DebounceTicks]
  BY DEF Tick, Count
<1>3. debounced' \in [Inputs -> Level]
  BY DEF Tick
<1>4. recent' \in [1..DebounceTicks -> [Inputs -> Level \cup {NoSample}]]
  <2>1. ASSUME NEW k \in 1..DebounceTicks
        PROVE (IF k = 1 THEN raw ELSE recent[k - 1]) \in [Inputs -> Level \cup {NoSample}]
    <3>1. CASE k = 1
      BY <3>1
    <3>2. CASE k # 1
      <4>1. k - 1 \in 1..DebounceTicks
        BY <3>2
      <4> QED BY <3>2, <4>1
    <3> QED BY <3>1, <3>2
  <2> QED BY <2>1 DEF Tick
<1>5. doCmd' \in OutputImage /\ pins' \in OutputImage
  BY DEF Tick
<1> QED BY <1>1, <1>2, <1>3, <1>4, <1>5

LEMMA EndedTypes ==
  ASSUME late \in [io: Nat, script: Nat], NEW task \in {"io", "script"}
  PROVE  Ended(task) \in [io: Nat, script: Nat]
BY DEF Ended

\* Every variable keeps its type.
THEOREM TypesHold == Spec => []TypeOK
<1>1. Init => TypeOK
  BY DebounceAssumption, OutputsAssumption, InputsAssumption, DividerAssumption, AlarmsAssumption
     DEF Init, IoInit, TypeOK, IoTypeOK, IoPcs, ScriptPcs, Level, NoSample, OutputImage, Outputs
<1>2. TypeOK /\ [Next]_vars => TypeOK'
  <2> SUFFICES ASSUME TypeOK, [Next]_vars PROVE TypeOK'
    OBVIOUS
  <2> USE DEF TypeOK
  <2>1. CASE Alarm
    BY <2>1, AlarmsAssumption
       DEF Alarm, ioVars, inputVars, httpdVars, ioTaskVars, scriptVars, scanVars, IoTypeOK
  <2>2. CASE SetMode \/ FileUpload \/ FileUploadDone
    <3>1. mode' \in {"RUN", "STOP"} /\ hpc' \in {"idle", "writing"}
      BY <2>2 DEF SetMode, FileUpload, FileUploadDone
    <3>2. late' \in [io: Nat, script: Nat]
      BY <2>2 DEF SetMode, FileUpload, FileUploadDone
    <3>3. UNCHANGED <<ioVars, ioTaskVars, scriptVars, alarms, ioNotes, sNotes, since>>
      BY <2>2 DEF SetMode, FileUpload, FileUploadDone
    <3> QED
      BY <3>1, <3>2, <3>3 DEF ioVars, inputVars, ioTaskVars, scriptVars, scanVars, IoTypeOK
  <2>3. CASE IoNext
    <3> USE DEF IoStep, ioVars, inputVars, httpdVars, scriptVars, scanVars, IoPcs
    <3>1. CASE IoTake
      BY <3>1 DEF IoTake, TakesAll, IoTypeOK
    <3>2. CASE IoCheckMode
      BY <3>2 DEF IoCheckMode, IoTypeOK
    <3>3. CASE SamplePins
      BY <3>3 DEF SamplePins, RawOf, Level, IoTypeOK
    <3>4. CASE IoTick
      <4>1. IoTypeOK'
        BY <3>4, TickTypes DEF IoTick, TypedIo
      <4>2. since' \in [Inputs -> SUBSET Level]
        BY <3>4, <4>1 DEF IoTick, IoTypeOK
      <4> QED BY <3>4, <4>1, <4>2 DEF IoTick
    <3>5. CASE IoApply
      BY <3>5, EndedTypes DEF IoApply, ApplyOutputs, IoTypeOK
    <3>6. CASE IoDivide
      <4>1. divider' \in 0..(ScanDivider - 1)
        BY <3>6, DividerAssumption DEF IoDivide, Advanced
      <4>2. sNotes' \in Nat
        BY <3>6 DEF IoDivide
      <4> QED BY <3>6, <4>1, <4>2 DEF IoDivide, IoTypeOK
    <3>7. CASE IoCount
      <4>1. ioMissed' \in Nat /\ ioTaken' \in Nat
        BY <3>7 DEF IoCount, Excess
      <4> QED BY <3>7, <4>1 DEF IoCount, IoTypeOK
    <3> QED BY <2>3, <3>1, <3>2, <3>3, <3>4, <3>5, <3>6, <3>7 DEF IoNext
  <2>4. CASE ScriptNext
    <3> USE DEF ScriptStep, ioVars, inputVars, httpdVars, ioTaskVars, scanVars, ScriptPcs
    <3>1. CASE ScriptTake
      BY <3>1 DEF ScriptTake, IoTypeOK
    <3>2. CASE ScriptCheckMode
      <4>1. since' \in [Inputs -> SUBSET Level]
        BY <3>2 DEF ScriptCheckMode, IoTypeOK
      <4>2. spc' \in {"run", "count"}
        BY <3>2 DEF ScriptCheckMode
      <4> QED BY <3>2, <4>1, <4>2 DEF ScriptCheckMode, IoTypeOK
    <3>6. CASE ScanPaused \/ NoScan \/ ScanFails \/ ScanFinishes
      <4>1. late' \in [io: Nat, script: Nat] /\ since' \in [Inputs -> SUBSET Level]
        BY <3>6, EndedTypes DEF ScanPaused, NoScan, ScanFails, ScanFinishes, ScanEnds
      <4>2. synced' \in 0..NumInputs /\ I' = I /\ Q' \in OutputImage
        BY <3>6, InputsAssumption DEF ScanPaused, NoScan, ScanFails, ScanFinishes, ScanEnds
      <4> QED
        BY <3>6, <4>1, <4>2
           DEF ScanPaused, NoScan, ScanFails, ScanFinishes, ScanEnds, ScanStep, IoTypeOK
    <3>7. CASE MirrorInput
      <4>1. synced + 1 \in Inputs /\ synced' \in 0..NumInputs
        BY <3>7, InputsAssumption DEF MirrorInput, Inputs
      <4>2. I' \in [Inputs -> Level]
        BY <3>7, <4>1 DEF MirrorInput, GetDi, IoTypeOK
      <4> QED BY <3>7, <4>1, <4>2 DEF MirrorInput, ScanStep, IoTypeOK
    <3>3. CASE CopyOutput
      <4>1. copied + 1 \in Outputs /\ copied' \in 0..NumOutputs
        BY <3>3, OutputsAssumption DEF CopyOutput, LastOutput, Outputs
      <4>2. doCmd' \in OutputImage
        BY <3>3, <4>1 DEF CopyOutput, SetDo, OutputImage, IoTypeOK
      <4> QED BY <3>3, <4>1, <4>2 DEF CopyOutput, SetDo, IoTypeOK
    <3>4. CASE CopyDone
      BY <3>4, OutputsAssumption, EndedTypes DEF CopyDone, IoTypeOK
    <3>5. CASE ScriptCount
      <4>1. sMissed' \in Nat /\ sTaken' \in Nat
        BY <3>5 DEF ScriptCount, Excess
      <4> QED BY <3>5, <4>1 DEF ScriptCount, IoTypeOK
    <3> QED BY <2>4, <3>1, <3>2, <3>3, <3>4, <3>5, <3>6, <3>7 DEF ScriptNext
  <2>5. CASE UNCHANGED vars
    BY <2>5 DEF vars, ioVars, inputVars, httpdVars, ioTaskVars, scriptVars, scanVars, IoTypeOK
  <2> QED BY <2>1, <2>2, <2>3, <2>4, <2>5 DEF Next
<1> QED BY <1>1, <1>2, PTL DEF Spec

-----------------------------------------------------------------------------
(***************************************************************************)
(* The filter.                                                             *)
(***************************************************************************)
\* Every step but the tick leaves the inputs alone.
LEMMA OnlyTickSamples ==
  ASSUME [Next]_vars, ~IoTick
  PROVE  UNCHANGED inputVars
<1> USE DEF ioVars, inputVars
<1>1. CASE IoNext
  BY <1>1 DEF IoNext, IoTake, IoCheckMode, SamplePins, IoApply, ApplyOutputs, IoDivide, IoCount
<1>2. CASE ScriptNext
  BY <1>2 DEF ScriptNext, ScriptTake, ScriptCheckMode, ScanPaused, MirrorInput, NoScan,
              ScanFails, ScanFinishes, ScanEnds, CopyOutput, SetDo, CopyDone, ScriptCount
<1>3. CASE Alarm \/ SetMode \/ FileUpload \/ FileUploadDone
  BY <1>3 DEF Alarm, SetMode, FileUpload, FileUploadDone
<1>4. CASE UNCHANGED vars
  BY <1>4 DEF vars
<1> QED BY <1>1, <1>2, <1>3, <1>4 DEF Next

\* The counter is the length of the current run of equal samples, up to the threshold.
THEOREM CounterIsRunLength == Spec => []RunLength
<1>1. Init => RunLength
  <2> SUFFICES ASSUME Init PROVE RunLength
    OBVIOUS
  <2>1. 1 \in 1..DebounceTicks
    BY DebounceAssumption
  <2>2. ASSUME NEW i \in Inputs
        PROVE  stable[i] = 0 /\ candidate[i] = 0 /\ recent[1][i] = 2
    BY <2>1 DEF Init, IoInit, NoSample
  <2>3. ASSUME NEW i \in Inputs, NEW k \in 1..stable[i] PROVE FALSE
    BY <2>2, <2>3
  <2>4. ASSUME NEW i \in Inputs
        PROVE  /\ \A k \in 1..stable[i] : recent[k][i] = candidate[i]
               /\ stable[i] = 0 => recent[1][i] = NoSample
               /\ stable[i] < DebounceTicks => recent[stable[i] + 1][i] # candidate[i]
    <3>1. stable[i] + 1 = 1
      BY <2>2
    <3> QED BY <2>2, <2>3, <3>1 DEF NoSample
  <2> QED BY <2>4 DEF RunLength
<1>2. TypeOK /\ RunLength /\ [Next]_vars => RunLength'
  <2> SUFFICES ASSUME TypeOK, RunLength, [Next]_vars PROVE RunLength'
    OBVIOUS
  <2>1. CASE IoTick
    BY <2>1, TickRecent DEF IoTick, TypedIo, TypeOK
  <2>2. CASE ~IoTick
    BY <2>2, OnlyTickSamples DEF RunLength, inputVars
  <2> QED BY <2>1, <2>2
<1> QED BY <1>1, <1>2, TypesHold, PTL DEF Spec

\* "3 x 1 ms": the debounced inputs are those of the reference filter, so a glitch shorter
\* than the threshold never reaches a script and a longer change always does.
THEOREM DebounceIsFilter == Spec => KeepsFilter
<1>1. Init => Filter!Init
  BY DEF Init, IoInit, Filter!Init, NoSample, Filter!NoSample
<1>2. TypeOK /\ TypeOK' /\ RunLength /\ RunLength' /\ [Next]_vars
        => [Filter!Next]_<<recent, debounced>>
  <2> SUFFICES ASSUME TypeOK, TypeOK', RunLength, RunLength', [Next]_vars
               PROVE  Filter!Next \/ UNCHANGED <<recent, debounced>>
    OBVIOUS
  <2>1. CASE IoTick
    BY <2>1, TickSamples DEF IoTick, TypedIo, TypeOK
  <2>2. CASE ~IoTick
    BY <2>2, OnlyTickSamples DEF inputVars
  <2> QED BY <2>1, <2>2
<1> QED BY <1>1, <1>2, TypesHold, CounterIsRunLength, PTL DEF Spec, KeepsFilter, Filter!Spec

-----------------------------------------------------------------------------
(***************************************************************************)
(* The accounts.                                                           *)
(***************************************************************************)
\* Between two wake-ups a task holds no count of notifications.
AtRest == (iopc = "wait" => ioTaken = 0) /\ (spc = "wait" => sTaken = 0)

LEMMA RestsBetweenWakeups == Spec => []AtRest
<1>1. Init => AtRest
  BY DEF Init, AtRest
<1>2. AtRest /\ [Next]_vars => AtRest'
  <2> SUFFICES ASSUME AtRest, [Next]_vars PROVE AtRest'
    OBVIOUS
  <2> USE DEF AtRest
  <2>1. CASE Alarm \/ SetMode \/ FileUpload \/ FileUploadDone
    BY <2>1 DEF Alarm, SetMode, FileUpload, FileUploadDone, ioTaskVars, scriptVars, scanVars
  <2>2. CASE IoNext
    BY <2>2 DEF IoNext, IoTake, IoCheckMode, SamplePins, IoTick, IoApply, IoDivide, IoCount,
                IoStep, scriptVars, scanVars
  <2>3. CASE ScriptNext
    BY <2>3 DEF ScriptNext, ScriptTake, ScriptCheckMode, ScanPaused, MirrorInput, NoScan,
                ScanFails, ScanFinishes, ScanStep, ScanEnds, CopyOutput, CopyDone, ScriptCount,
                ScriptStep, ioTaskVars
  <2>4. CASE UNCHANGED vars
    BY <2>4 DEF vars, ioTaskVars, scriptVars, scanVars
  <2> QED BY <2>1, <2>2, <2>3, <2>4 DEF Next
<1> QED BY <1>1, <1>2, PTL DEF Spec

\* Every alarm got a wake-up of the I/O task, is pending, or is counted as missed.
THEOREM NoAlarmIsLost == Spec => []AlarmsAccounted
<1>1. Init => AlarmsAccounted
  BY DEF Init, AlarmsAccounted, Excess
<1>2. TypeOK /\ AtRest /\ AlarmsAccounted /\ [Next]_vars => AlarmsAccounted'
  <2> SUFFICES ASSUME TypeOK, AtRest, AlarmsAccounted, [Next]_vars PROVE AlarmsAccounted'
    OBVIOUS
  <2> USE DEF AlarmsAccounted, Excess
  <2>0. /\ alarms \in Nat /\ ioWakes \in Nat /\ ioNotes \in Nat /\ ioMissed \in Nat
        /\ ioTaken \in Nat
    BY AlarmsAssumption DEF TypeOK
  <2>1. CASE Alarm
    BY <2>0, <2>1 DEF Alarm, ioTaskVars
  <2>2. CASE SetMode \/ FileUpload \/ FileUploadDone
    BY <2>2 DEF SetMode, FileUpload, FileUploadDone, ioTaskVars
  <2>3. CASE IoTake
    <3>1. ioTaken = 0
      BY <2>3 DEF IoTake, IoStep, AtRest
    <3> QED BY <2>0, <2>3, <3>1 DEF IoTake, TakesAll, IoStep
  <2>4. CASE IoCheckMode \/ SamplePins \/ IoTick \/ IoApply \/ IoDivide
    BY <2>4 DEF IoCheckMode, SamplePins, IoTick, IoApply, IoDivide, IoStep
  <2>5. CASE IoCount
    BY <2>0, <2>5 DEF IoCount, IoStep
  <2>6. CASE ScriptNext
    BY <2>6 DEF ScriptNext, ScriptTake, ScriptCheckMode, ScanPaused, MirrorInput, NoScan,
                ScanFails, ScanFinishes, ScanStep, ScanEnds, CopyOutput, CopyDone, ScriptCount,
                ScriptStep, ioTaskVars
  <2>7. CASE UNCHANGED vars
    BY <2>7 DEF vars, ioTaskVars
  <2> QED BY <2>1, <2>2, <2>3, <2>4, <2>5, <2>6, <2>7 DEF Next, IoNext
<1> QED BY <1>1, <1>2, TypesHold, RestsBetweenWakeups, PTL DEF Spec

Cycles   == sWakes + sNotes + sMissed + Excess(sTaken)
Finished == ticks - (IF iopc \in {"apply", "divide"} THEN 1 ELSE 0)

\* The script task is woken, or counted as missing a wake-up, once for every ScanDivider
\* ticks of the process image.
THEOREM OneScanPerNTicks == Spec => []EveryNthTick
<1>1. Init => EveryNthTick
  <2> SUFFICES ASSUME Init PROVE EveryNthTick
    OBVIOUS
  <2>1. Cycles = 0 /\ Finished = 0 /\ divider = 0
    <3>1. /\ iopc \notin {"apply", "divide"} /\ ticks = 0 /\ divider = 0
          /\ sWakes = 0 /\ sNotes = 0 /\ sMissed = 0 /\ sTaken = 0
      BY DEF Init, IoInit
    <3>2. Excess(0) = 0
      BY DEF Excess
    <3>3. Cycles = 0
      BY <3>1, <3>2 DEF Cycles
    <3>4. (IF iopc \in {"apply", "divide"} THEN 1 ELSE 0) = 0
      BY <3>1, Zenon
    <3>5. Finished = 0
      <4>1. Finished = 0 - 0
        BY <3>1, <3>4, Zenon DEF Finished
      <4> QED BY <4>1
    <3> QED BY <3>1, <3>3, <3>5
  <2>2. ScanDivider * 0 + 0 = 0
    BY DividerAssumption
  <2> QED BY <2>1, <2>2 DEF EveryNthTick, Cycles, Finished
<1>2. TypeOK /\ AtRest /\ EveryNthTick /\ [Next]_vars => EveryNthTick'
  <2> SUFFICES ASSUME TypeOK, AtRest, EveryNthTick, [Next]_vars PROVE EveryNthTick'
    OBVIOUS
  <2>0. Finished = ScanDivider * Cycles + divider
    BY DEF EveryNthTick, Finished, Cycles
  <2>. SUFFICES Finished' = ScanDivider * Cycles' + divider'
    BY DEF EveryNthTick, Finished, Cycles
  <2>t. /\ ticks \in Nat /\ sWakes \in Nat /\ sNotes \in Nat /\ sMissed \in Nat
        /\ sTaken \in Nat /\ divider \in 0..(ScanDivider - 1) /\ ScanDivider \in Nat \ {0}
        /\ Cycles \in Nat
    BY DividerAssumption DEF TypeOK, IoTypeOK, Cycles, Excess
  <2>1. CASE IoTick
    <3>1. Finished' = Finished
      BY <2>t, <2>1 DEF IoTick, IoStep, Tick, Finished
    <3>2. Cycles' = Cycles /\ divider' = divider
      BY <2>1 DEF IoTick, IoStep, scriptVars, scanVars, Cycles, Excess
    <3> QED BY <2>0, <3>1, <3>2
  <2>2. CASE IoDivide
    <3>1. Finished' = Finished + 1
      BY <2>t, <2>2 DEF IoDivide, IoStep, ioVars, inputVars, Finished
    <3>2. CASE divider + 1 >= ScanDivider
      <4>1. Cycles' = Cycles + 1
        BY <2>t, <2>2, <3>2 DEF IoDivide, IoStep, scriptVars, scanVars, Cycles, Excess
      <4>2. divider' = 0 /\ divider + 1 = ScanDivider
        BY <2>t, <2>2, <3>2 DEF IoDivide, Advanced
      <4>3. ScanDivider * (Cycles + 1) = ScanDivider * Cycles + ScanDivider
        BY <2>t
      <4>4. ScanDivider * Cycles \in Nat
        BY <2>t
      <4> QED BY <2>0, <2>t, <3>1, <4>1, <4>2, <4>3, <4>4
    <3>3. CASE ~(divider + 1 >= ScanDivider)
      <4>1. Cycles' = Cycles
        BY <2>2, <3>3 DEF IoDivide, IoStep, scriptVars, scanVars, Cycles, Excess
      <4>2. divider' = divider + 1
        BY <2>2, <3>3 DEF IoDivide, Advanced
      <4>3. ScanDivider * Cycles \in Nat
        BY <2>t
      <4> QED BY <2>0, <2>t, <3>1, <4>1, <4>2, <4>3
    <3> QED BY <3>2, <3>3
  <2>3. ASSUME ~IoTick, ~IoDivide
        PROVE  Finished' = Finished /\ Cycles' = Cycles /\ divider' = divider
    <3>1. Finished' = Finished
      <4>1. ticks' = ticks
        BY <2>3, OnlyTickSamples DEF inputVars
      <4>2. iopc' \in {"apply", "divide"} <=> iopc \in {"apply", "divide"}
        <5>1. CASE IoNext
          BY <2>3, <5>1 DEF IoNext, IoTake, IoCheckMode, SamplePins, IoApply, IoCount, IoStep
        <5>2. CASE ScriptNext
          BY <5>2 DEF ScriptNext, ScriptTake, ScriptCheckMode, ScanPaused, MirrorInput, NoScan,
                      ScanFails, ScanFinishes, ScanStep, ScanEnds, CopyOutput, CopyDone,
                      ScriptCount, ScriptStep, ioTaskVars
        <5>3. CASE Alarm \/ SetMode \/ FileUpload \/ FileUploadDone \/ UNCHANGED vars
          BY <5>3 DEF Alarm, SetMode, FileUpload, FileUploadDone, vars, ioTaskVars
        <5> QED BY <5>1, <5>2, <5>3 DEF Next
      <4> QED BY <4>1, <4>2 DEF Finished
    <3>2. divider' = divider
      <4>1. CASE IoNext
        BY <2>3, <4>1 DEF IoNext, IoTake, IoCheckMode, SamplePins, IoApply, IoCount
      <4>2. CASE ScriptNext
        BY <4>2 DEF ScriptNext, ScriptTake, ScriptCheckMode, ScanPaused, MirrorInput, NoScan,
                    ScanFails, ScanFinishes, ScanStep, ScanEnds, CopyOutput, CopyDone,
                    ScriptCount, ScriptStep, ioTaskVars
      <4>3. CASE Alarm \/ SetMode \/ FileUpload \/ FileUploadDone \/ UNCHANGED vars
        BY <4>3 DEF Alarm, SetMode, FileUpload, FileUploadDone, vars, ioTaskVars
      <4> QED BY <4>1, <4>2, <4>3 DEF Next
    <3>3. Cycles' = Cycles
      <4> USE DEF Cycles, Excess
      <4>1. CASE IoNext
        BY <2>3, <4>1 DEF IoNext, IoTake, IoCheckMode, SamplePins, IoApply, IoCount, IoStep,
                          scriptVars, scanVars
      <4>2. CASE ScriptTake
        <5>1. sTaken = 0
          BY <4>2 DEF ScriptTake, ScriptStep, AtRest
        <5> QED BY <2>t, <4>2, <5>1 DEF ScriptTake
      <4>3. CASE ScriptCount
        BY <2>t, <4>3 DEF ScriptCount
      <4>4. CASE ScriptCheckMode \/ ScanPaused \/ MirrorInput \/ NoScan \/ ScanFails
                 \/ ScanFinishes \/ CopyOutput \/ CopyDone
        BY <4>4 DEF ScriptCheckMode, ScanPaused, MirrorInput, NoScan, ScanFails, ScanFinishes,
                    ScanStep, ScanEnds, CopyOutput, CopyDone
      <4>5. CASE Alarm \/ SetMode \/ FileUpload \/ FileUploadDone \/ UNCHANGED vars
        BY <4>5 DEF Alarm, SetMode, FileUpload, FileUploadDone, vars, scriptVars, scanVars
      <4> QED BY <4>1, <4>2, <4>3, <4>4, <4>5 DEF Next, ScriptNext
    <3> QED BY <3>1, <3>2, <3>3
  <2> QED BY <2>0, <2>1, <2>2, <2>3
<1> QED BY <1>1, <1>2, TypesHold, RestsBetweenWakeups, PTL DEF Spec

-----------------------------------------------------------------------------
(***************************************************************************)
(* The outputs.                                                            *)
(***************************************************************************)
\* What the commands hold: the last finished scan's outputs, except that a copy in
\* progress has replaced the first of them.
Copying ==
  /\ spc # "copy" => doCmd = published /\ copied = 0
  /\ spc = "copy" => \A q \in 1..copied : doCmd[q] = Q[q]

LEMMA CopyInvariant == Spec => []Copying
<1>1. Init => Copying
  BY DEF Init, IoInit, Copying
<1>2. TypeOK /\ Copying /\ [Next]_vars => Copying'
  <2> SUFFICES ASSUME TypeOK, Copying, [Next]_vars PROVE Copying'
    OBVIOUS
  <2>1. CASE Alarm \/ SetMode \/ FileUpload \/ FileUploadDone \/ UNCHANGED vars
    BY <2>1 DEF Alarm, SetMode, FileUpload, FileUploadDone, vars, scriptVars, scanVars, ioVars,
                Copying
  <2>2. CASE IoNext
    BY <2>2 DEF IoNext, IoTake, IoCheckMode, SamplePins, IoTick, Tick, IoApply, ApplyOutputs,
                IoDivide, IoCount, IoStep, scriptVars, scanVars, ioVars, Copying
  <2>3. CASE ScriptTake \/ ScriptCheckMode \/ ScanPaused \/ MirrorInput \/ NoScan
             \/ ScanFails \/ ScriptCount
    <3>1. spc # "copy" /\ spc' # "copy"
      BY <2>3 DEF ScriptTake, ScriptCheckMode, ScanPaused, MirrorInput, NoScan, ScanFails,
                  ScanStep, ScanEnds, ScriptCount, ScriptStep
    <3>2. UNCHANGED <<doCmd, published, copied>>
      BY <2>3 DEF ScriptTake, ScriptCheckMode, ScanPaused, MirrorInput, NoScan, ScanFails,
                  ScanStep, ScanEnds, ScriptCount, ioVars, scanVars
    <3> QED BY <3>1, <3>2 DEF Copying
  <2>4. CASE ScanFinishes
    <3>1. spc' = "copy" /\ copied' = 0
      BY <2>4 DEF ScanFinishes, ScanEnds, ScanStep, ScriptStep, Copying
    <3> QED BY <3>1 DEF Copying
  <2>5. CASE CopyOutput
    <3>1. /\ spc = "copy" /\ spc' = "copy" /\ copied' = copied + 1 /\ Q' = Q
          /\ doCmd' = [doCmd EXCEPT ![copied + 1] = Q[copied + 1]]
          /\ copied \in Nat /\ copied + 1 \in 1..NumOutputs
          /\ doCmd \in [1..NumOutputs -> Level]
      BY <2>5, OutputsAssumption
         DEF CopyOutput, ScriptStep, SetDo, LastOutput, TypeOK, IoTypeOK, OutputImage, Outputs
    <3>2. ASSUME NEW q \in 1..copied' PROVE doCmd'[q] = Q'[q]
      <4>1. CASE q = copied + 1
        BY <3>1, <4>1
      <4>2. CASE q # copied + 1
        <5>1. q \in 1..copied /\ q \in 1..NumOutputs
          BY <3>1, <4>2, OutputsAssumption
        <5>2. doCmd[q] = Q[q]
          BY <3>1, <5>1 DEF Copying
        <5> QED BY <3>1, <4>2, <5>1, <5>2
      <4> QED BY <4>1, <4>2
    <3> QED BY <3>1, <3>2 DEF Copying
  <2>6. CASE CopyDone
    <3>1. \A q \in Outputs : doCmd[q] = Q[q]
      BY <2>6 DEF CopyDone, ScriptStep, LastOutput, Outputs, Copying
    <3>2. doCmd = Q
      BY <3>1 DEF TypeOK, IoTypeOK, OutputImage
    <3> QED BY <2>6, <3>2 DEF CopyDone, ScriptStep, ioVars, Copying
  <2> QED BY <2>1, <2>2, <2>3, <2>4, <2>5, <2>6 DEF Next, ScriptNext
<1> QED BY <1>1, <1>2, TypesHold, PTL DEF Spec

\* Unless it has interrupted a copy, the I/O task drives the pins with the outputs of the
\* last finished scan, whole, whatever the number of outputs.
THEOREM PinsShowLastScan == Spec => AppliesLastScan
<1>1. Copying /\ [Next]_vars
        => [iopc = "apply" /\ iopc' # "apply" /\ spc # "copy" => pins' = published]_vars
  <2> SUFFICES ASSUME Copying, Next, iopc = "apply", iopc' # "apply", spc # "copy"
               PROVE  pins' = published
    OBVIOUS
  <2>1. IoNext
    BY DEF Next, Alarm, SetMode, FileUpload, FileUploadDone, ioTaskVars, ScriptNext, ScriptTake,
           ScriptCheckMode, ScanPaused, MirrorInput, NoScan, ScanFails, ScanFinishes, ScanStep,
           ScanEnds, CopyOutput, CopyDone, ScriptCount, ScriptStep
  <2>2. IoApply
    BY <2>1 DEF IoNext, IoTake, IoCheckMode, SamplePins, IoTick, IoDivide, IoCount, IoStep
  <2> QED BY <2>2 DEF IoApply, ApplyOutputs, Copying
<1> QED BY <1>1, CopyInvariant, PTL DEF Spec, AppliesLastScan

-----------------------------------------------------------------------------
(***************************************************************************)
(* What the mirror of the inputs holds. A scan is entered with nothing     *)
(* mirrored, and every debounced level an input has during it is in since: *)
(* the one it had at the start, and the one each tick gives it.            *)
(***************************************************************************)
Mirroring ==
  /\ spc # "run" => synced = 0
  /\ spc = "run" => \A i \in Inputs : debounced[i] \in since[i]
  /\ spc = "run" => \A i \in 1..synced : I[i] \in since[i]

\* Only a tick, the mirroring itself and the test that opens a scan need a closer look.
LEMMA ScanKeepsMirror ==
  ASSUME TypeOK, Mirroring, [Next]_vars, ~IoTick, ~MirrorInput, ~ScriptCheckMode
  PROVE  Mirroring'
<1>0. UNCHANGED debounced
  BY OnlyTickSamples DEF inputVars
<1>1. CASE Alarm \/ SetMode \/ FileUpload \/ FileUploadDone \/ UNCHANGED vars
  BY <1>0, <1>1 DEF Alarm, SetMode, FileUpload, FileUploadDone, vars, scriptVars, scanVars,
                    Mirroring
<1>2. CASE IoNext
  BY <1>0, <1>2 DEF IoNext, IoTake, IoCheckMode, SamplePins, IoApply, IoDivide, IoCount, IoStep,
                    scriptVars, scanVars, Mirroring
<1>3. CASE ScanPaused \/ NoScan \/ ScanFails \/ ScanFinishes
  <2>1. spc' # "run" /\ synced' = 0
    BY <1>3 DEF ScanPaused, NoScan, ScanFails, ScanFinishes, ScanEnds, ScanStep, ScriptStep
  <2> QED BY <2>1 DEF Mirroring
<1>4. CASE ScriptTake \/ CopyOutput \/ CopyDone \/ ScriptCount
  <2>1. spc # "run" /\ spc' # "run" /\ synced' = synced
    BY <1>4 DEF ScriptTake, CopyOutput, CopyDone, ScriptCount, ScriptStep, scanVars
  <2> QED BY <2>1 DEF Mirroring
<1> QED BY <1>1, <1>2, <1>3, <1>4 DEF Next, ScriptNext

LEMMA MirrorInvariant == Spec => []Mirroring
<1>1. Init => Mirroring
  BY DEF Init, Mirroring
<1>2. TypeOK /\ Mirroring /\ [Next]_vars => Mirroring'
  <2> SUFFICES ASSUME TypeOK, Mirroring, [Next]_vars PROVE Mirroring'
    OBVIOUS
  <2>1. CASE IoTick
    <3>1. /\ spc' = spc /\ synced' = synced /\ I' = I
          /\ since' = IF spc = "run" THEN [i \in Inputs |-> since[i] \cup {debounced'[i]}]
                      ELSE since
      BY <2>1 DEF IoTick, IoStep, scriptVars, scanVars
    <3>2. \A i \in 1..synced : i \in Inputs
      BY InputsAssumption DEF TypeOK, Inputs
    <3>3. CASE spc = "run"
      <4>1. ASSUME NEW i \in Inputs
            PROVE  debounced'[i] \in since'[i] /\ (I[i] \in since[i] => I[i] \in since'[i])
        BY <3>1, <3>3
      <4> QED BY <3>1, <3>2, <3>3, <4>1 DEF Mirroring
    <3> QED BY <3>1, <3>3 DEF Mirroring
  <2>2. CASE MirrorInput
    <3>1. /\ spc = "run" /\ spc' = "run" /\ since' = since /\ debounced' = debounced
          /\ I' = [I EXCEPT ![synced + 1] = debounced[synced + 1]] /\ synced' = synced + 1
      BY <2>2 DEF MirrorInput, ScanStep, ScriptStep, GetDi, ioVars, inputVars
    <3>2. synced + 1 \in Inputs /\ I \in [Inputs -> Level] /\ synced \in Nat
      BY <2>2, InputsAssumption DEF MirrorInput, TypeOK, Inputs
    <3>3. ASSUME NEW i \in 1..synced' PROVE I'[i] \in since'[i]
      <4>1. CASE i = synced + 1
        BY <3>1, <3>2, <4>1 DEF Mirroring
      <4>2. CASE i # synced + 1
        <5>1. i \in 1..synced
          BY <3>1, <3>2, <4>2
        <5>2. I'[i] = I[i]
          BY <3>1, <3>2, <4>2, <5>1 DEF Inputs
        <5> QED BY <3>1, <5>1, <5>2 DEF Mirroring
      <4> QED BY <4>1, <4>2
    <3> QED BY <3>1, <3>3 DEF Mirroring
  <2>3. CASE ScriptCheckMode
    <3>1. synced' = 0 /\ debounced' = debounced
      BY <2>3 DEF ScriptCheckMode, ScriptStep, scanVars, ioVars, inputVars, Mirroring
    <3>2. spc' = "run" => since' = [i \in Inputs |-> {debounced[i]}]
      BY <2>3 DEF ScriptCheckMode, ScriptStep
    <3> QED BY <3>1, <3>2 DEF Mirroring
  <2> QED BY <2>1, <2>2, <2>3, ScanKeepsMirror
<1> QED BY <1>1, <1>2, TypesHold, PTL DEF Spec

\* However many inputs there are and wherever the ticks fall, a program sees each with a
\* debounced level that it had since the scan began.
THEOREM MirrorNeverStale == Spec => []MirrorIsRecent
BY MirrorInvariant, PTL DEF Mirroring, MirrorIsRecent

-----------------------------------------------------------------------------
(***************************************************************************)
(* What may still end after STOP: the tick and the scan that are past the  *)
(* test, which are none once they have ended.                              *)
(***************************************************************************)
TickInFlight == iopc \in {"sample", "tick", "apply"}
ScanInFlight == spc \in {"run", "copy"}

AtMostOneLate ==
  mode = "STOP" =>
    /\ late.io <= 1 /\ (TickInFlight => late.io = 0)
    /\ late.script <= 1 /\ (ScanInFlight => late.script = 0)

LEMMA LateInvariant == Spec => []AtMostOneLate
<1>1. Init => AtMostOneLate
  BY DEF Init, AtMostOneLate
<1>2. TypeOK /\ AtMostOneLate /\ [Next]_vars => AtMostOneLate'
  <2> SUFFICES ASSUME TypeOK, AtMostOneLate, [Next]_vars PROVE AtMostOneLate'
    OBVIOUS
  <2> USE DEF AtMostOneLate, TickInFlight, ScanInFlight
  <2>t. late \in [io: Nat, script: Nat]
    BY DEF TypeOK
  <2>1. CASE Alarm \/ FileUpload \/ FileUploadDone \/ UNCHANGED vars
    BY <2>1 DEF Alarm, FileUpload, FileUploadDone, vars, httpdVars, ioTaskVars, scriptVars
  <2>2. CASE SetMode
    BY <2>2 DEF SetMode
  <2>3. CASE IoNext
    <3>1. spc' = spc /\ mode' = mode
      BY <2>3 DEF IoNext, IoTake, IoCheckMode, SamplePins, IoTick, IoApply, IoDivide, IoCount,
                  IoStep, scriptVars, httpdVars
    <3>2. CASE IoApply
      <4>1. iopc = "apply" /\ iopc' = "divide" /\ late' = Ended("io")
        BY <3>2 DEF IoApply, IoStep
      <4>2. mode = "STOP" => late'.io = late.io + 1 /\ late'.script = late.script
        BY <2>t, <4>1 DEF Ended
      <4> QED BY <3>1, <4>1, <4>2
    <3>3. CASE ~IoApply
      <4>1. late' = late
        BY <2>3, <3>3 DEF IoNext, IoTake, IoCheckMode, SamplePins, IoTick, IoDivide, IoCount
      <4>2. mode = "STOP" /\ TickInFlight' => TickInFlight
        BY <2>3, <3>3 DEF IoNext, IoTake, IoCheckMode, SamplePins, IoTick, IoDivide, IoCount,
                          IoStep, PlcRunning
      <4> QED BY <3>1, <4>1, <4>2
    <3> QED BY <3>2, <3>3
  <2>4. CASE ScriptNext
    <3>1. iopc' = iopc /\ mode' = mode
      BY <2>4 DEF ScriptNext, ScriptTake, ScriptCheckMode, ScanPaused, MirrorInput, NoScan,
                  ScanFails, ScanFinishes, ScanStep, ScanEnds, CopyOutput, CopyDone, ScriptCount,
                  ScriptStep, ioTaskVars, httpdVars
    <3>2. CASE ScanPaused \/ NoScan \/ ScanFails \/ CopyDone
      <4>1. spc \in {"run", "copy"} /\ spc' = "count" /\ late' = Ended("script")
        BY <3>2 DEF ScanPaused, NoScan, ScanFails, CopyDone, ScanStep, ScanEnds, ScriptStep
      <4>2. mode = "STOP" => late'.script = late.script + 1 /\ late'.io = late.io
        BY <2>t, <4>1 DEF Ended
      <4> QED BY <3>1, <4>1, <4>2
    <3>3. CASE ScriptTake \/ ScriptCheckMode \/ MirrorInput \/ ScanFinishes \/ CopyOutput
               \/ ScriptCount
      <4>1. late' = late
        BY <3>3 DEF ScriptTake, ScriptCheckMode, MirrorInput, ScanFinishes, CopyOutput,
                    ScriptCount
      <4>2. mode = "STOP" /\ ScanInFlight' => ScanInFlight
        BY <3>3 DEF ScriptTake, ScriptCheckMode, MirrorInput, ScanFinishes, ScanStep, ScanEnds,
                    CopyOutput, ScriptCount, ScriptStep, MayScan, PlcRunning
      <4> QED BY <3>1, <4>1, <4>2
    <3> QED BY <2>4, <3>2, <3>3 DEF ScriptNext
  <2> QED BY <2>1, <2>2, <2>3, <2>4 DEF Next
<1> QED BY <1>1, <1>2, TypesHold, PTL DEF Spec

\* After STOP at most one tick and one scan end before RUN is set, however the two tasks are
\* held up and whatever the divider.
THEOREM StopEndsBoth == Spec => []StopLetsOneEnd
BY LateInvariant, PTL DEF AtMostOneLate, StopLetsOneEnd
=============================================================================
