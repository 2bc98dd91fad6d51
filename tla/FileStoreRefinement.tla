------------------------- MODULE FileStoreRefinement -------------------------
(***************************************************************************)
(* FileStore implements AtomicFiles. Every step changes what at most one   *)
(* file holds (Changes), opens, reads or closes the view, restarts, or is  *)
(* not seen (Stutters). What a reader opened stays as it was because its   *)
(* blocks are not written again (NotReused), whatever becomes of the file. *)
(***************************************************************************)
EXTENDS FileStoreProofs

View3 == <<StoreView, ReaderView, sent>>

(* The reader is left alone by an operation of another task.               *)
ReaderLeft ==
  /\ sent' = sent
  /\ hpc' = "view" <=> hpc = "view"
  /\ hpc = "view" =>
       open'["httpd"].list = open["httpd"].list /\ DataSame(open["httpd"].list)

LEMMA ReaderKept == ASSUME ReaderLeft PROVE ReaderView' = ReaderView
<1>1. CASE hpc = "view"
      <2>1. open'["httpd"].list = open["httpd"].list BY <1>1 DEF ReaderLeft
      <2>2. \A i \in 1..Len(open["httpd"].list) :
              data'[open["httpd"].list[i]] = data[open["httpd"].list[i]]
            BY <1>1 DEF ReaderLeft, DataSame
      <2>3. ContentOf(open["httpd"].list)' = ContentOf(open["httpd"].list)
            BY <2>1, <2>2 DEF ContentOf
      <2> QED BY <1>1, <2>3 DEF ReaderView, ReaderLeft
<1>2. CASE hpc # "view" BY <1>2 DEF ReaderView, ReaderLeft
<1> QED BY <1>1, <1>2

LEMMA SameDataLeft ==
  ASSUME data' = data, Same("httpd"), Typed, hpc' = hpc, sent' = sent PROVE ReaderLeft
BY DEF ReaderLeft, Same, DataSame, Typed, Pcs

(* What a file holds.                                                      *)
LEMMA StoreAt ==
  ASSUME NEW f \in Files, FileSame(f) PROVE StoreView'[f] = StoreView[f]
<1>1. CASE meta[f] = Absent BY <1>1 DEF StoreView, FileSame
<1>2. CASE meta[f] # Absent
      <2>1. ContentOf(meta[f])' = ContentOf(meta[f])
            BY <1>2 DEF ContentOf, FileSame, DataSame
      <2> QED BY <1>2, <2>1 DEF StoreView, FileSame
<1> QED BY <1>1, <1>2

LEMMA ContentHeld ==
  ASSUME FsTyped, Lists, NEW f \in Files PROVE StoreView[f] \in Atomic!Content \cup {Absent}
<1>1. ASSUME meta[f] # Absent PROVE ContentOf(meta[f]) \in Atomic!Content
      <2>1. PICK x \in 1..MaxTexts : OfText(meta[f], x) /\ Len(meta[f]) <= Pieces
            BY <1>1 DEF Lists, OfOneText
      <2>2. meta[f] \in Seq(Blocks) BY <1>1 DEF FsTyped
      <2>3. Len(meta[f]) \in 0..Pieces BY <2>1, <2>2
      <2>4. ContentOf(meta[f]) = Atomic!Start(x, Len(meta[f]))
            BY <2>1 DEF OfText, ContentOf, Atomic!Start
      <2> QED BY <2>3, <2>4 DEF Atomic!Content
<1> QED BY <1>1 DEF StoreView

HoldsTexts == \A f \in Files : StoreView[f] \in Atomic!Content \cup {Absent}

LEMMA HoldsTextsNext == FsTyped' /\ Lists' => HoldsTexts'
<1>1. FsTyped /\ Lists => HoldsTexts BY ContentHeld DEF HoldsTexts
<1> QED BY <1>1, PTL

LEMMA Changes ==
  ASSUME Sound', NEW f \in Files, \A g \in Files \ {f} : FileSame(g), ReaderLeft
  PROVE  Atomic!Change(f)
<1>1. StoreView' \in [Files -> Atomic!Content \cup {Absent}]
      <2>1. HoldsTexts' BY HoldsTextsNext DEF Sound, Typed
      <2>2. \A g \in Files : StoreView'[g] \in Atomic!Content \cup {Absent}
            BY <2>1 DEF HoldsTexts
      <2> QED BY <2>2 DEF StoreView
<1>2. \A g \in Files \ {f} : StoreView'[g] = StoreView[g] BY StoreAt
<1>3. ReaderView' = ReaderView /\ sent' = sent BY ReaderKept DEF ReaderLeft
<1> QED BY <1>1, <1>2, <1>3 DEF Atomic!Change

LEMMA StoreStays ==
  ASSUME \A g \in Files : FileSame(g) PROVE StoreView' = StoreView
<1>1. \A g \in Files : StoreView'[g] = StoreView[g] BY StoreAt
<1> QED BY <1>1 DEF StoreView

LEMMA Stutters ==
  ASSUME \A g \in Files : FileSame(g), ReaderLeft PROVE UNCHANGED View3
BY StoreStays, ReaderKept DEF View3, ReaderLeft

(* An operation on the directory by either task.                           *)
LEMMA ChangesFile ==
  ASSUME Sound, Sound', NEW f \in Files, data' = data,
         meta' = meta \/ \E c : meta' = [meta EXCEPT ![f] = c], ReaderLeft
  PROVE  Atomic!Change(f)
BY Changes, OtherSame DEF Sound, Typed

LEMMA CommitForm ==
  ASSUME NEW t \in Tasks, NEW f \in Files, Writes(t, f), Commit(t) \/ CloseFails(t)
  PROVE  data' = data /\ (meta' = meta \/ \E c : meta' = [meta EXCEPT ![f] = c])
BY DEF Writes, Commit, CloseFails, Drop

LEMMA RemoveForm ==
  ASSUME NEW f \in Files, Remove(f) \/ RemoveFails
  PROVE  /\ data' = data /\ open' = open
         /\ meta' = meta \/ \E c : meta' = [meta EXCEPT ![f] = c]
BY DEF Remove, RemoveFails, fsVars

LEMMA OpenForm ==
  ASSUME NEW f \in Files, OpenWriteFails(f)
  PROVE  /\ data' = data /\ open' = open
         /\ meta' = meta \/ \E c : meta' = [meta EXCEPT ![f] = c]
BY DEF OpenWriteFails

NoView == hpc # "view" /\ hpc' # "view" /\ sent' = sent

LEMMA NoViewLeft == ASSUME NoView PROVE ReaderLeft
BY DEF NoView, ReaderLeft

LEMMA HttpdSteps ==
  ASSUME Sound, Sound', HttpdNext PROVE Atomic!Next \/ UNCHANGED View3
<1> USE TheTasks DEF Sound, Typed
<1>1. ASSUME NEW f \in Files, Upload(f) PROVE Atomic!Change(f)
      <2>1. NoView BY <1>1 DEF NoView, Upload, HttpdStep
      <2>2. PICK s \in BOOLEAN : OpenWrite("httpd", f, texts + 1, s) BY <1>1 DEF Upload
      <2>3. data' = data /\ (meta' = meta \/ \E c : meta' = [meta EXCEPT ![f] = c])
            BY <2>2 DEF OpenWrite
      <2> QED BY <2>1, <2>3, NoViewLeft, ChangesFile
<1>2. ASSUME NEW f \in Files, UploadNotOpened(f) PROVE Atomic!Change(f)
      <2>1. NoView BY <1>2 DEF NoView, UploadNotOpened, httpVars
      <2>2. OpenWriteFails(f) BY <1>2 DEF UploadNotOpened, OpenWriteFails, fsVars
      <2> QED BY <2>1, <2>2, OpenForm, NoViewLeft, ChangesFile
<1>3. ASSUME NEW f \in Files, View(f) PROVE Atomic!Open(f)
      <2> USE <1>3 DEF View, HttpdStep, OpenRead
      <2>1. StoreView' = StoreView BY AllSame, StoreStays
      <2>2. ReaderView' = StoreView[f]
            <3>1. open'["httpd"].list = meta[f] BY OpenReadOwn
            <3>2. ContentOf(open["httpd"].list)' = ContentOf(meta[f])
                  BY <3>1 DEF ContentOf
            <3> QED BY <3>2 DEF ReaderView, StoreView
      <2>3. StoreView[f] # Absent
            <3>1. meta[f] \in Seq(Blocks) BY DEF FsTyped
            <3>2. ContentOf(meta[f]) \in Seq((0..MaxTexts) \X (0..Pieces))
                  BY <3>1 DEF ContentOf, FsTyped
            <3>3. StoreView[f] = ContentOf(meta[f]) BY DEF StoreView
            <3> HIDE DEF View, OpenRead
            <3> QED BY <3>2, <3>3, AbsentAssumption
      <2>4. sent' = <<>> BY DEF Pcs
      <2> QED BY <2>1, <2>2, <2>3, <2>4 DEF Atomic!Open
<1>4. ASSUME NEW f \in Files, Delete(f) PROVE Atomic!Change(f)
      <2>1. NoView BY <1>4 DEF NoView, Delete, httpVars
      <2> QED BY <1>4, <2>1, RemoveForm, NoViewLeft, ChangesFile DEF Delete
<1>5. CASE ReceivePiece
      <2>1. NoView BY <1>5 DEF NoView, ReceivePiece, httpVars
      <2>2. \A g \in Files : FileSame(g)
            BY <1>5, NotReused DEF ReceivePiece, FileSame, WritePiece
      <2> QED BY <2>1, <2>2, NoViewLeft, Stutters
<1>6. CASE AbortClose \/ FinishUpload
      <2>1. NoView BY <1>6 DEF NoView, AbortClose, FinishUpload, HttpdStep
      <2>2. hfile \in Files /\ Writes("httpd", hfile)
            BY <1>6 DEF AbortClose, FinishUpload, HttpdStep, RestTyped, Pcs
      <2>3. Commit("httpd") \/ CloseFails("httpd") BY <1>6 DEF AbortClose, FinishUpload
      <2>4. Atomic!Change(hfile) BY <2>1, <2>2, <2>3, CommitForm, NoViewLeft, ChangesFile
      <2> QED BY <2>2, <2>4, Zenon DEF Atomic!Next
<1>7. CASE AbortUnlink
      <2>1. NoView BY <1>7 DEF NoView, AbortUnlink, HttpdStep
      <2>2. hfile \in Files BY DEF RestTyped
      <2>3. Remove(hfile) \/ RemoveFails BY <1>7 DEF AbortUnlink
      <2>4. Atomic!Change(hfile) BY <2>1, <2>2, <2>3, RemoveForm, NoViewLeft, ChangesFile
      <2> QED BY <2>2, <2>4, Zenon DEF Atomic!Next
<1>8. CASE SendPiece
      <2> USE <1>8 DEF SendPiece, fsVars
      <2>1. StoreView' = StoreView BY AllSame, StoreStays
      <2>2. ReaderView' = ReaderView BY DEF ReaderView, ContentOf
      <2>3. open["httpd"].list \in Seq(Blocks) BY DEF Pcs, FsTyped, Handle
      <2>4. sent \in Seq((0..MaxTexts) \X (0..Pieces)) BY DEF RestTyped
      <2>5. ReaderView = ContentOf(open["httpd"].list) BY DEF ReaderView
      <2>6. /\ Len(ReaderView) = Len(open["httpd"].list)
            /\ Len(sent) + 1 \in 1..Len(open["httpd"].list)
            BY <2>3, <2>4, <2>5 DEF ContentOf
      <2>7. ReaderView[Len(sent) + 1] = data[open["httpd"].list[Len(sent) + 1]]
            BY <2>5, <2>6 DEF ContentOf
      <2> QED BY <2>1, <2>2, <2>6, <2>7 DEF Atomic!Read, Atomic!Next
<1>9. CASE EndView
      <2> USE <1>9 DEF EndView, HttpdStep, Drop
      <2>1. StoreView' = StoreView BY AllSame, StoreStays
      <2>2. ReaderView' = <<>> BY DEF ReaderView
      <2> QED BY <2>1, <2>2 DEF Atomic!Close, Atomic!Next
<1>10. CASE UploadBreaks \/ RemoveDir \/ MakeDir \/ SetMode
      <2>1. NoView
            BY <1>10 DEF NoView, UploadBreaks, RemoveDir, MakeDir, SetMode, HttpdStep, httpVars
      <2>2. UNCHANGED fsVars BY <1>10 DEF UploadBreaks, RemoveDir, MakeDir, SetMode
      <2>3. \A g \in Files : FileSame(g) BY <2>2, AllSame DEF fsVars
      <2> QED BY <2>1, <2>3, NoViewLeft, Stutters
<1>11. (\E f \in Files : Upload(f) \/ UploadNotOpened(f) \/ View(f) \/ Delete(f)) => Atomic!Next
      BY <1>1, <1>2, <1>3, <1>4, Zenon DEF Atomic!Next
<1> QED BY <1>5, <1>6, <1>7, <1>8, <1>9, <1>10, <1>11, Zenon DEF HttpdNext

LEMMA CompileSteps ==
  ASSUME Sound, Sound', CompileNext PROVE Atomic!Next \/ UNCHANGED View3
<1> USE TheTasks DEF Sound, Typed
<1>1. cfile \in Files BY DEF RestTyped
<1>2. hpc' = hpc /\ sent' = sent
      BY DEF CompileNext, Save, SaveOpen, SaveNotOpened, SavePiece, SaveBreaks,
         SaveFailedClose, SaveClose, SaveUnlink, httpVars
<1>3. CASE SaveOpen
      <2>1. PICK s \in BOOLEAN : OpenWrite("compile", cfile, ctext, s) BY <1>3 DEF SaveOpen
      <2>2. data' = data /\ (meta' = meta \/ \E c : meta' = [meta EXCEPT ![cfile] = c])
            BY <2>1 DEF OpenWrite
      <2>3. ReaderLeft BY <1>1, <1>2, <2>1, <2>2, OpenWriteSame, SameDataLeft
      <2>4. Atomic!Change(cfile) BY <1>1, <2>2, <2>3, ChangesFile
      <2> QED BY <1>1, <2>4, Zenon DEF Atomic!Next
<1>4. CASE SaveNotOpened \/ SaveUnlink
      <2>1. OpenWriteFails(cfile) \/ Remove(cfile) \/ RemoveFails
            BY <1>4 DEF SaveNotOpened, SaveUnlink, OpenWriteFails, RemoveFails, fsVars
      <2>2. /\ data' = data /\ open' = open
            /\ meta' = meta \/ \E c : meta' = [meta EXCEPT ![cfile] = c]
            BY <1>1, <2>1, OpenForm, RemoveForm
      <2>3. ReaderLeft BY <1>2, <2>2, SameDataLeft DEF Same
      <2>4. Atomic!Change(cfile) BY <1>1, <2>2, <2>3, ChangesFile
      <2> QED BY <1>1, <2>4, Zenon DEF Atomic!Next
<1>5. CASE SavePiece
      <2>1. WritePiece("compile") BY <1>5 DEF SavePiece
      <2>2. \A g \in Files : FileSame(g) BY <2>1, NotReused DEF FileSame, WritePiece
      <2>3. Same("httpd") BY <2>1, WritePieceSame
      <2>4. hpc = "view" => DataSame(open["httpd"].list) BY <2>1, NotReused DEF Pcs
      <2>5. ReaderLeft BY <1>2, <2>3, <2>4 DEF ReaderLeft, Same, Pcs
      <2> QED BY <2>2, <2>5, Stutters
<1>6. CASE SaveFailedClose \/ SaveClose
      <2>1. Writes("compile", cfile)
            BY <1>6 DEF SaveFailedClose, SaveClose, CompileStep, Pcs
      <2>2. Commit("compile") \/ CloseFails("compile") BY <1>6 DEF SaveFailedClose, SaveClose
      <2>3. data' = data /\ (meta' = meta \/ \E c : meta' = [meta EXCEPT ![cfile] = c])
            BY <1>1, <2>1, <2>2, CommitForm
      <2>4. Same("httpd") BY <2>2, CommitSame, DropSame DEF CloseFails
      <2>5. ReaderLeft BY <1>2, <2>3, <2>4, SameDataLeft
      <2>6. Atomic!Change(cfile) BY <1>1, <2>3, <2>5, ChangesFile
      <2> QED BY <1>1, <2>6, Zenon DEF Atomic!Next
<1>7. CASE SaveBreaks \/ \E f \in Files : Save(f)
      <2>1. UNCHANGED fsVars BY <1>7 DEF SaveBreaks, Save
      <2>2. \A g \in Files : FileSame(g) BY <2>1, AllSame DEF fsVars
      <2>3. ReaderLeft BY <1>2, <2>1, SameDataLeft DEF fsVars, Same
      <2> QED BY <2>2, <2>3, Stutters
<1> QED BY <1>3, <1>4, <1>5, <1>6, <1>7 DEF CompileNext

LEMMA RebootStep == ASSUME Sound, Reboot PROVE Atomic!Restart
<1> USE DEF Sound, Typed
<1>1. PICK z \in BOOLEAN : PowerCycle(z) BY DEF Reboot
<1>2. CASE z
      <2>1. meta' = [f \in Files |-> Absent] BY <1>1, <1>2 DEF PowerCycle
      <2>2. StoreView' = [f \in Files |-> Absent] BY <2>1 DEF StoreView
      <2> QED BY <2>2 DEF Atomic!Restart, Reboot, ReaderView
<1>3. CASE ~z
      <2>1. meta' = meta /\ data' = data BY <1>1, <1>3 DEF PowerCycle
      <2>2. StoreView' = StoreView BY <2>1, AllSame, StoreStays
      <2> QED BY <2>2 DEF Atomic!Restart, Reboot, ReaderView
<1> QED BY <1>2, <1>3

LEMMA StutterStep == ASSUME Sound, UNCHANGED vars PROVE UNCHANGED View3
<1>1. \A g \in Files : FileSame(g)
      BY AllSame DEF vars, fsVars, Sound, Typed
<1>2. ReaderLeft
      BY SameDataLeft DEF Same, vars, fsVars, httpVars, Sound, Typed
<1> QED BY <1>1, <1>2, Stutters

\* The two tasks on LittleFS implement the store AtomicFiles promises: files change in one
\* step and hold one text, and a view is of the text that was there when it was opened,
\* whatever the saves did meanwhile.
THEOREM FilesRefine == Spec => FilesAreAtomic
<1>1. Init => Atomic!Init
      BY DEF Init, FsInit, StoreView, ReaderView, Atomic!Init
<1>2. Sound /\ Sound' /\ [Next]_vars => [Atomic!Next]_View3
      BY HttpdSteps, CompileSteps, RebootStep, StutterStep, Zenon DEF Next, Atomic!Next
<1> QED BY <1>1, <1>2, AlwaysSound, PTL DEF Spec, FilesAreAtomic, Atomic!Spec, View3, Atomic!vars
=============================================================================
