----------------------------- MODULE LittleFs ------------------------------
(***************************************************************************)
(* LittleFS as the firmware uses it, behind esp_littlefs, whose lock makes *)
(* every operation below one step. A file is a list of blocks. A writer    *)
(* writes blocks nobody uses; its list becomes the file's when it is       *)
(* closed (lfs_file_sync). There is no reference count: a block is in use  *)
(* if lfs_fs_traverse finds it, in the metadata, in a file that is being   *)
(* written, or in an open file that another writer has replaced since and  *)
(* therefore marked (LFS_F_DUSTY).                                         *)
(* Each task has at most one file open. Small files, kept in the metadata, *)
(* are read when they are opened; only the empty one is modelled. Whether  *)
(* the C library's buffer reaches LittleFS with a write or with fclose is  *)
(* not told apart.                                                         *)
(***************************************************************************)
EXTENDS Naturals, Sequences, FiniteSets

CONSTANTS
  Tasks,      \* those that open files
  Files,      \* paths
  Blocks,     \* of the flash
  Pieces,     \* blocks a text takes
  MaxTexts,   \* bound: texts somebody starts to write, numbered from 1
  Absent, Closed

Handle == [file: Files, reads: BOOLEAN, text: 0..MaxTexts, list: Seq(Blocks),
           dusty: BOOLEAN]

ASSUME PiecesAssumption == Pieces \in Nat \ {0}
ASSUME MaxTextsAssumption == MaxTexts \in Nat \ {0}
ASSUME AbsentAssumption ==
  Absent \notin Seq(Blocks) /\ Absent \notin Seq((0..MaxTexts) \X (0..Pieces))
ASSUME ClosedAssumption == Closed \notin Handle

VARIABLES
  meta,       \* the directory: each file's list of blocks
  data,       \* what each block was last programmed with
  open,       \* per task: its open file
  stuck       \* paths whose entry in esp_littlefs outlived a failed close

fsVars == <<meta, data, open, stuck>>

FsInit ==
  /\ meta = [f \in Files |-> Absent]
  /\ data = [b \in Blocks |-> <<0, 0>>]
  /\ open = [t \in Tasks |-> Closed]
  /\ stuck = {}

BlocksOf(list) == {list[i] : i \in 1..Len(list)}
Opened(f) == {t \in Tasks : open[t] # Closed /\ open[t].file = f}

InUse ==           \* lfs_fs_traverse
  (UNION {BlocksOf(meta[f]) : f \in {g \in Files : meta[g] # Absent}}) \cup
  (UNION {BlocksOf(open[t].list) :
            t \in {u \in Tasks : open[u] # Closed /\ (open[u].dusty \/ ~open[u].reads)}})

Free == Blocks \ InUse      \* lfs_alloc

\* Mutant: the other handles are not marked.
Undusted(f) == open

\* The end of lfs_file_sync: the other handles of the file hold what it was.
Dusted(f) ==
  [t \in Tasks |-> IF t \in Opened(f) THEN [open[t] EXCEPT !.dusty = TRUE] ELSE open[t]]

OpenRead(t, f) ==
  /\ open[t] = Closed /\ meta[f] # Absent
  /\ open' = [open EXCEPT ![t] =
       [file |-> f, reads |-> TRUE, text |-> 0, list |-> meta[f], dusty |-> FALSE]]
  /\ UNCHANGED <<meta, data, stuck>>

\* "wb": a new file is entered at once, an old one is emptied by the sync that follows; if
\* that fails, it is only logged.
OpenWrite(t, f, text, synced) ==
  /\ open[t] = Closed
  /\ meta' = IF synced \/ meta[f] = Absent THEN [meta EXCEPT ![f] = <<>>] ELSE meta
  /\ open' = [(IF synced THEN Dusted(f) ELSE open) EXCEPT ![t] =
       [file |-> f, reads |-> FALSE, text |-> text, list |-> <<>>, dusty |-> FALSE]]
  /\ UNCHANGED <<data, stuck>>

OpenWriteFails(f) ==    \* before a new file is entered or after, when memory is short
  /\ meta' \in {meta, [meta EXCEPT ![f] = IF @ = Absent THEN <<>> ELSE @]}
  /\ UNCHANGED <<data, open, stuck>>

\* Mutant: one turn of the loop too many.
HasMoreLate(t) == Len(open[t].list) <= Pieces
HasMore(t) == Len(open[t].list) < Pieces

WritePiece(t) ==        \* the next piece goes to a block that is not in use
  /\ open[t] # Closed /\ HasMore(t)
  /\ \E b \in Free :
       /\ data' = [data EXCEPT ![b] = <<open[t].text, Len(open[t].list) + 1>>]
       /\ open' = [open EXCEPT ![t].list = Append(@, b)]
  /\ UNCHANGED <<meta, stuck>>

Commit(t) ==            \* close: the list written so far is the file's, whoever wrote since
  /\ open[t] # Closed
  /\ meta' = [meta EXCEPT ![open[t].file] = open[t].list]
  /\ open' = [Dusted(open[t].file) EXCEPT ![t] = Closed]
  /\ UNCHANGED <<data, stuck>>

\* Close without effect: of a reader; of a writer after an error in a write, the last flush
\* included; or the sync fails, and esp_littlefs keeps its entry for the path.
Drop(t, sticks) ==
  /\ open[t] # Closed
  /\ open' = [open EXCEPT ![t] = Closed]
  /\ stuck' = IF sticks THEN stuck \cup {open[t].file} ELSE stuck
  /\ UNCHANGED <<meta, data>>

CloseFails(t) == \E sticks \in BOOLEAN : Drop(t, sticks)

Busy(f) == f \in stuck \/ Opened(f) # {}      \* EBUSY

Remove(f) ==
  /\ meta[f] # Absent /\ ~Busy(f)
  /\ meta' = [meta EXCEPT ![f] = Absent]
  /\ UNCHANGED <<data, open, stuck>>

RemoveFails == UNCHANGED fsVars      \* busy, absent, or an error of the flash

PowerCycle(formatted) ==
  /\ meta' = IF formatted THEN [f \in Files |-> Absent] ELSE meta
  /\ open' = [t \in Tasks |-> Closed]
  /\ stuck' = {}
  /\ UNCHANGED data
=============================================================================
