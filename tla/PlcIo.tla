------------------------------- MODULE PlcIo --------------------------------
(***************************************************************************)
(* The process image (src/main/plc_io.cpp): debounced inputs, commanded    *)
(* outputs and the pins they are written to. Each operation that takes     *)
(* g_io_lock is one action; who calls it, and in which order, is           *)
(* ScanCycle's. Left out: the synthetic analogs, the raw copy and the      *)
(* masks, which are only reported, and the bulk copies nothing calls.      *)
(***************************************************************************)
EXTENDS Naturals

CONSTANTS
  NumInputs,     \* PLC_DI_COUNT
  NumOutputs,    \* PLC_DO_COUNT
  DebounceTicks  \* PLC_DEBOUNCE_TICKS

\* With a threshold of 1 the code would debounce with a delay of one sample: the branch
\* that restarts the count does not look at the threshold.
ASSUME DebounceAssumption == DebounceTicks \in Nat \ {0, 1}
ASSUME OutputsAssumption  == NumOutputs \in Nat \ {0}
ASSUME InputsAssumption   == NumInputs \in Nat \ {0}

Level    == {0, 1}
NoSample == 2
Inputs   == 1..NumInputs
Outputs  == 1..NumOutputs
OutputImage == [Outputs -> Level]

VARIABLES
  debounced, candidate, stable,  \* g_io.debounced_di, candidate_di, stable_count
  doCmd,                         \* g_io.do_cmd
  ticks,                         \* g_io.tick_count
  pins,                          \* levels of the output pins
  recent                         \* history: the last DebounceTicks samples, newest first

inputVars == <<debounced, candidate, stable, ticks, recent>>
ioVars == <<inputVars, doCmd, pins>>

IoInit ==           \* plc_io_init: memset to 0, output pins low
  /\ debounced = [i \in Inputs |-> 0] /\ candidate = [i \in Inputs |-> 0]
  /\ stable = [i \in Inputs |-> 0]
  /\ doCmd = [q \in Outputs |-> 0] /\ pins = [q \in Outputs |-> 0]
  /\ ticks = 0
  /\ recent = [k \in 1..DebounceTicks |-> [i \in Inputs |-> NoSample]]

RawOf(level) == IF level = 0 THEN 1 ELSE 0       \* PLC_INPUT_ACTIVE_LOW

\* Mutant: a change of level does not restart the count.
KeepsCount(i, raw) == IF stable[i] < DebounceTicks THEN stable[i] + 1 ELSE stable[i]

Count(i, raw) ==
  IF raw # candidate[i] THEN 1
  ELSE IF stable[i] < DebounceTicks THEN stable[i] + 1
  ELSE stable[i]

Tick(raw) ==        \* the critical section of plc_io_tick_1ms
  /\ candidate' = raw
  /\ stable' = [i \in Inputs |-> Count(i, raw[i])]
  /\ debounced' = [i \in Inputs |->
       IF raw[i] = candidate[i] /\ stable'[i] >= DebounceTicks THEN raw[i] ELSE debounced[i]]
  /\ ticks' = ticks + 1
  /\ recent' = [k \in 1..DebounceTicks |-> IF k = 1 THEN raw ELSE recent[k - 1]]
  /\ UNCHANGED <<doCmd, pins>>

\* plc_io_apply_outputs: only the caller writes the pins, so the snapshot taken under the
\* lock is what they show when it returns.
ApplyOutputs ==
  /\ pins' = doCmd
  /\ UNCHANGED <<inputVars, doCmd>>

\* Mutant: the level under observation is read, not the debounced one.
GetCandidate(i) == candidate[i]
GetDi(i)        == debounced[i]

SetDo(q, v) ==      \* plc_io_set_do
  /\ doCmd' = [doCmd EXCEPT ![q] = v]
  /\ UNCHANGED <<inputVars, pins>>

IoTypeOK ==
  /\ debounced \in [Inputs -> Level] /\ candidate \in [Inputs -> Level]
  /\ stable \in [Inputs -> 0..DebounceTicks]
  /\ doCmd \in OutputImage /\ pins \in OutputImage
  /\ ticks \in Nat
  /\ recent \in [1..DebounceTicks -> [Inputs -> Level \cup {NoSample}]]

\* The counter is the length of the run of equal samples that ended last, up to the
\* threshold, and the candidate is the level of that run.
RunLength ==
  \A i \in Inputs :
    /\ \A k \in 1..stable[i] : recent[k][i] = candidate[i]
    /\ stable[i] = 0 => recent[1][i] = NoSample
    /\ stable[i] < DebounceTicks => recent[stable[i] + 1][i] # candidate[i]

Filter == INSTANCE InputFilter
            WITH Depth <- DebounceTicks, recent <- recent, value <- debounced
=============================================================================
