-------------------------- MODULE FileStoreProofs ---------------------------
(***************************************************************************)
(* Proofs about FileStore, for every number of texts, pieces, blocks and   *)
(* files: first the operations of LittleFs, one lemma each, then the two   *)
(* tasks that call them.                                                   *)
(***************************************************************************)
EXTENDS FileStore, TLAPS

USE FileTasks, PiecesAssumption, MaxTextsAssumption, AbsentAssumption, ClosedAssumption

-----------------------------------------------------------------------------
(* Types of the file system.                                               *)
FsTyped ==
  /\ meta \in [Files -> Seq(Blocks) \cup {Absent}]
  /\ data \in [Blocks -> (0..MaxTexts) \X (0..Pieces)]
  /\ open \in [Tasks -> Handle \cup {Closed}]
  /\ stuck \subseteq Files

LEMMA DustedHandle ==
  ASSUME NEW h \in Handle PROVE [h EXCEPT !.dusty = TRUE] \in Handle
BY DEF Handle

LEMMA LongerHandle ==
  ASSUME NEW h \in Handle, NEW b \in Blocks
  PROVE  [h EXCEPT !.list = Append(h.list, b)] \in Handle
<1>1. Append(h.list, b) \in Seq(Blocks)
      BY DEF Handle
<1> QED BY <1>1 DEF Handle

LEMMA DustedTyped ==
  ASSUME FsTyped, NEW f \in Files PROVE Dusted(f) \in [Tasks -> Handle \cup {Closed}]
<1>1. ASSUME NEW t \in Tasks PROVE Dusted(f)[t] \in Handle \cup {Closed}
      <2>1. CASE t \in Opened(f)
            <3>1. open[t] \in Handle BY <2>1 DEF Opened, FsTyped
            <3> QED BY <2>1, <3>1, DustedHandle DEF Dusted
      <2>2. CASE t \notin Opened(f) BY <2>2 DEF Dusted, FsTyped
      <2> QED BY <2>1, <2>2
<1> QED BY <1>1 DEF Dusted

LEMMA OpenReadTyped ==
  ASSUME FsTyped, NEW t \in Tasks, NEW f \in Files, OpenRead(t, f) PROVE FsTyped'
<1>1. [file |-> f, reads |-> TRUE, text |-> 0, list |-> meta[f], dusty |-> FALSE] \in Handle
      BY DEF FsTyped, OpenRead, Handle
<1> QED BY <1>1 DEF FsTyped, OpenRead

LEMMA OpenWriteTyped ==
  ASSUME FsTyped, NEW t \in Tasks, NEW f \in Files, NEW x \in 1..MaxTexts, NEW s \in BOOLEAN,
         OpenWrite(t, f, x, s)
  PROVE  FsTyped'
<1>1. [file |-> f, reads |-> FALSE, text |-> x, list |-> <<>>, dusty |-> FALSE] \in Handle
      BY DEF Handle
<1>2. meta' \in [Files -> Seq(Blocks) \cup {Absent}]
      BY DEF FsTyped, OpenWrite
<1>3. (IF s THEN Dusted(f) ELSE open) \in [Tasks -> Handle \cup {Closed}]
      BY DustedTyped DEF FsTyped
<1> QED BY <1>1, <1>2, <1>3 DEF FsTyped, OpenWrite

LEMMA OpenWriteFailsTyped ==
  ASSUME FsTyped, NEW f \in Files, OpenWriteFails(f) PROVE FsTyped'
<1>1. (IF meta[f] = Absent THEN <<>> ELSE meta[f]) \in Seq(Blocks) \cup {Absent}
      BY DEF FsTyped
<1>2. meta' \in [Files -> Seq(Blocks) \cup {Absent}]
      BY <1>1 DEF FsTyped, OpenWriteFails
<1> QED BY <1>2 DEF FsTyped, OpenWriteFails

LEMMA WritePieceTyped ==
  ASSUME FsTyped, NEW t \in Tasks, WritePiece(t) PROVE FsTyped'
<1>1. open[t] \in Handle /\ Len(open[t].list) \in 0..(Pieces - 1)
      BY DEF FsTyped, WritePiece, Free, HasMore, Handle
<1>2. PICK b \in Blocks \ InUse :
        /\ data' = [data EXCEPT ![b] = <<open[t].text, Len(open[t].list) + 1>>]
        /\ open' = [open EXCEPT ![t].list = Append(@, b)]
      BY DEF WritePiece, Free
<1>3. <<open[t].text, Len(open[t].list) + 1>> \in (0..MaxTexts) \X (0..Pieces)
      BY <1>1 DEF Handle
<1>4. [open[t] EXCEPT !.list = Append(@, b)] \in Handle
      BY <1>1, <1>2, LongerHandle
<1>5. open' \in [Tasks -> Handle \cup {Closed}]
      BY <1>2, <1>4 DEF FsTyped
<1> QED BY <1>2, <1>3, <1>5 DEF FsTyped, WritePiece, Free

LEMMA CommitTyped ==
  ASSUME FsTyped, NEW t \in Tasks, Commit(t) PROVE FsTyped'
<1>1. open[t] \in Handle /\ open[t].file \in Files /\ open[t].list \in Seq(Blocks)
      BY DEF FsTyped, Commit, Handle
<1>2. Dusted(open[t].file) \in [Tasks -> Handle \cup {Closed}]
      BY <1>1, DustedTyped
<1> QED BY <1>1, <1>2 DEF FsTyped, Commit

LEMMA DropTyped ==
  ASSUME FsTyped, NEW t \in Tasks, NEW s \in BOOLEAN, Drop(t, s) PROVE FsTyped'
<1>1. open[t].file \in Files
      BY DEF FsTyped, Drop, Handle
<1> QED BY <1>1 DEF FsTyped, Drop

LEMMA RemoveTyped ==
  ASSUME FsTyped, NEW f \in Files, Remove(f) PROVE FsTyped'
BY DEF FsTyped, Remove

LEMMA PowerCycleTyped ==
  ASSUME FsTyped, NEW z \in BOOLEAN, PowerCycle(z) PROVE FsTyped'
BY DEF FsTyped, PowerCycle

-----------------------------------------------------------------------------
(* What an operation of one task leaves of the other's open file.          *)
Same(u) ==
  /\ open'[u] = Closed <=> open[u] = Closed
  /\ open[u] # Closed =>
       /\ open'[u].file = open[u].file /\ open'[u].reads = open[u].reads
       /\ open'[u].text = open[u].text /\ open'[u].list = open[u].list
       /\ open[u].dusty => open'[u].dusty

LEMMA DustedSame ==
  ASSUME FsTyped, NEW f \in Files, NEW u \in Tasks, open'[u] = Dusted(f)[u] PROVE Same(u)
<1>1. CASE u \in Opened(f)
      <2>1. open[u] \in Handle /\ open[u] # Closed
            BY <1>1 DEF Opened, FsTyped
      <2>2. open'[u] = [open[u] EXCEPT !.dusty = TRUE]
            BY <1>1 DEF Dusted
      <2>3. open'[u] # Closed
            BY <2>1, <2>2, DustedHandle
      <2> QED BY <2>1, <2>2, <2>3 DEF Same, Handle
<1>2. CASE u \notin Opened(f)
      BY <1>2 DEF Dusted, Same
<1> QED BY <1>1, <1>2

LEMMA OpenReadSame ==
  ASSUME FsTyped, NEW t \in Tasks, NEW f \in Files, OpenRead(t, f), NEW u \in Tasks \ {t}
  PROVE  Same(u)
BY DEF FsTyped, OpenRead, Same

LEMMA OpenWriteSame ==
  ASSUME FsTyped, NEW t \in Tasks, NEW f \in Files, NEW x, NEW s \in BOOLEAN,
         OpenWrite(t, f, x, s), NEW u \in Tasks \ {t}
  PROVE  Same(u)
<1>1. CASE s
      <2>1. open'[u] = Dusted(f)[u] BY <1>1, DustedTyped DEF OpenWrite
      <2> QED BY <2>1, DustedSame
<1>2. CASE ~s
      <2>1. open'[u] = open[u] BY <1>2 DEF OpenWrite, FsTyped
      <2> QED BY <2>1 DEF Same
<1> QED BY <1>1, <1>2

LEMMA WritePieceSame ==
  ASSUME FsTyped, NEW t \in Tasks, WritePiece(t), NEW u \in Tasks \ {t}
  PROVE  Same(u)
<1>1. open'[u] = open[u] BY DEF WritePiece, Free, FsTyped
<1> QED BY <1>1 DEF Same

LEMMA CommitSame ==
  ASSUME FsTyped, NEW t \in Tasks, Commit(t), NEW u \in Tasks \ {t}
  PROVE  Same(u)
<1>1. open[t].file \in Files BY DEF FsTyped, Commit, Handle
<1>2. open'[u] = Dusted(open[t].file)[u] BY <1>1, DustedTyped DEF Commit
<1> QED BY <1>1, <1>2, DustedSame

LEMMA DropSame ==
  ASSUME FsTyped, NEW t \in Tasks, NEW s \in BOOLEAN, Drop(t, s), NEW u \in Tasks \ {t}
  PROVE  Same(u)
<1>1. open'[u] = open[u] BY DEF Drop, FsTyped
<1> QED BY <1>1 DEF Same

(* And of its own.                                                         *)
LEMMA OpenReadOwn ==
  ASSUME FsTyped, NEW t \in Tasks, NEW f \in Files, OpenRead(t, f)
  PROVE  /\ open'[t] # Closed /\ open'[t].reads /\ ~open'[t].dusty
         /\ open'[t].file = f /\ open'[t].list = meta[f]
<1>1. [file |-> f, reads |-> TRUE, text |-> 0, list |-> meta[f], dusty |-> FALSE] \in Handle
      BY DEF FsTyped, OpenRead, Handle
<1>2. open'[t] = [file |-> f, reads |-> TRUE, text |-> 0, list |-> meta[f], dusty |-> FALSE]
      BY DEF FsTyped, OpenRead
<1>3. open'[t] # Closed BY <1>1, <1>2
<1> QED BY <1>2, <1>3

LEMMA OpenWriteOwn ==
  ASSUME FsTyped, NEW t \in Tasks, NEW f \in Files, NEW x \in 1..MaxTexts, NEW s \in BOOLEAN,
         OpenWrite(t, f, x, s)
  PROVE  /\ open'[t] # Closed /\ ~open'[t].reads /\ open'[t].file = f
         /\ open'[t].text = x /\ open'[t].list = <<>>
<1>1. [file |-> f, reads |-> FALSE, text |-> x, list |-> <<>>, dusty |-> FALSE] \in Handle
      BY DEF Handle
<1>2. open'[t] = [file |-> f, reads |-> FALSE, text |-> x, list |-> <<>>, dusty |-> FALSE]
      BY DustedTyped DEF FsTyped, OpenWrite
<1>3. open'[t] # Closed BY <1>1, <1>2
<1> QED BY <1>2, <1>3

LEMMA WritePieceOwn ==
  ASSUME FsTyped, NEW t \in Tasks, WritePiece(t)
  PROVE  /\ open[t] # Closed /\ open'[t] # Closed
         /\ open'[t].reads = open[t].reads /\ open'[t].file = open[t].file
         /\ open'[t].text = open[t].text /\ open'[t].dusty = open[t].dusty
<1>1. open[t] \in Handle /\ open[t] # Closed
      BY DEF FsTyped, WritePiece, Free
<1>2. PICK b \in Blocks \ InUse : open' = [open EXCEPT ![t].list = Append(@, b)]
      BY DEF WritePiece, Free
<1>3. open'[t] = [open[t] EXCEPT !.list = Append(open[t].list, b)]
      BY <1>2 DEF FsTyped
<1>4. open'[t] \in Handle
      BY <1>1, <1>2, <1>3, LongerHandle
<1> QED BY <1>1, <1>3, <1>4 DEF Handle

LEMMA CloseOwn ==
  ASSUME FsTyped, NEW t \in Tasks, Commit(t) \/ \E s \in BOOLEAN : Drop(t, s)
  PROVE  open'[t] = Closed
<1>1. CASE Commit(t)
      <2>1. open[t].file \in Files BY <1>1 DEF FsTyped, Commit, Handle
      <2> QED BY <1>1, <2>1, DustedTyped DEF Commit
<1>2. CASE \E s \in BOOLEAN : Drop(t, s)
      BY <1>2 DEF Drop, FsTyped
<1> QED BY <1>1, <1>2

-----------------------------------------------------------------------------
(* Types of the two tasks, and which file each has open at which step.     *)
RestTyped ==
  /\ spoilt \subseteq Files
  /\ dir \in BOOLEAN /\ mode \in {"RUN", "STOP"} /\ texts \in 0..MaxTexts
  /\ hpc \in {"idle", "view"} \cup Writing /\ hfile \in Files
  /\ sent \in Seq((0..MaxTexts) \X (0..Pieces))
  /\ cpc \in {"idle", "open"} \cup Saving /\ cfile \in Files /\ ctext \in 0..MaxTexts
  /\ kept \in [Files -> 0..MaxTexts]

Writes(t, f) == open[t] # Closed /\ ~open[t].reads /\ open[t].file = f

Pcs ==
  /\ hpc \in {"receive", "abort"} => Writes("httpd", hfile)
  /\ hpc = "view" => open["httpd"] # Closed /\ open["httpd"].reads
  /\ hpc \in {"idle", "unlink"} => open["httpd"] = Closed
  /\ cpc \in {"write", "failed"} => Writes("compile", cfile) /\ open["compile"].text = ctext
  /\ cpc \in {"idle", "open", "unlink"} => open["compile"] = Closed
  /\ cpc # "idle" => ctext # 0
  /\ hpc # "view" => sent = <<>>

Typed == FsTyped /\ RestTyped /\ Pcs

LEMMA TypedIsTypeOK == TypeOK <=> FsTyped /\ RestTyped
BY DEF TypeOK, FsTyped, RestTyped

LEMMA TheTasks == "httpd" \in Tasks \ {"compile"} /\ "compile" \in Tasks \ {"httpd"}
OBVIOUS

LEMMA InitTyped == ASSUME Init PROVE Typed
<1> USE DEF Init, FsInit
<1>1. FsTyped BY DEF FsTyped
<1>2. RestTyped BY DEF RestTyped
<1>3. Pcs BY DEF Pcs
<1> QED BY <1>1, <1>2, <1>3 DEF Typed

LEMMA HttpdTyped == ASSUME Typed, HttpdNext PROVE Typed'
<1> USE TheTasks DEF Typed
<1>1. ASSUME NEW f \in Files, Upload(f) PROVE Typed'
      <2> USE <1>1 DEF Upload
      <2>1. PICK s \in BOOLEAN : OpenWrite("httpd", f, texts + 1, s) OBVIOUS
      <2>2. texts + 1 \in 1..MaxTexts BY DEF RestTyped
      <2>3. FsTyped' BY <2>1, <2>2, OpenWriteTyped
      <2>4. RestTyped' BY <2>2 DEF RestTyped, HttpdStep, Touched, Writing, compVars
      <2>5. Same("compile") BY <2>1, OpenWriteSame
      <2>6. Writes("httpd", hfile)' BY <2>1, <2>2, OpenWriteOwn DEF Writes
      <2>7. Pcs' BY <2>5, <2>6 DEF Pcs, Same, HttpdStep, compVars, Writes, RestTyped
      <2> QED BY <2>3, <2>4, <2>7
<1>2. ASSUME NEW f \in Files, UploadNotOpened(f) PROVE Typed'
      <2> USE <1>2 DEF UploadNotOpened, fsVars, httpVars, compVars
      <2>1. FsTyped' /\ open' = open
            BY OpenWriteFailsTyped DEF OpenWriteFails, FsTyped
      <2>2. RestTyped' BY DEF RestTyped, Entered
      <2>3. Pcs' BY <2>1 DEF Pcs, Writes
      <2> QED BY <2>1, <2>2, <2>3
<1>3. ASSUME NEW f \in Files, View(f) PROVE Typed'
      <2> USE <1>3 DEF View
      <2>1. FsTyped' BY OpenReadTyped
      <2>2. RestTyped' BY DEF RestTyped, HttpdStep, compVars
      <2>3. Same("compile") BY OpenReadSame
      <2>4. open'["httpd"] # Closed /\ open'["httpd"].reads BY OpenReadOwn
      <2>5. Pcs' BY <2>3, <2>4 DEF Pcs, Same, HttpdStep, compVars, Writes
      <2> QED BY <2>1, <2>2, <2>5
<1>4. ASSUME NEW f \in Files, Delete(f) PROVE Typed'
      <2> USE <1>4 DEF Delete, httpVars, compVars
      <2>1. FsTyped' BY RemoveTyped
      <2>2. RestTyped' BY DEF RestTyped, Touched
      <2>3. Pcs' BY DEF Pcs, Writes, Remove
      <2> QED BY <2>1, <2>2, <2>3
<1>5. CASE ReceivePiece
      <2> USE <1>5 DEF ReceivePiece, httpVars, compVars
      <2>1. FsTyped' BY WritePieceTyped
      <2>2. RestTyped' BY DEF RestTyped
      <2>3. Same("compile") BY WritePieceSame
      <2>4. Writes("httpd", hfile)' BY WritePieceOwn DEF Pcs, Writes
      <2>5. Pcs' BY <2>3, <2>4 DEF Pcs, Same, Writes
      <2> QED BY <2>1, <2>2, <2>5
<1>6. CASE UploadBreaks
      <2> USE <1>6 DEF UploadBreaks, fsVars, compVars, HttpdStep
      <2>1. FsTyped' BY DEF FsTyped
      <2>2. RestTyped' BY DEF RestTyped, Writing
      <2>3. Pcs' BY DEF Pcs, Writes
      <2> QED BY <2>1, <2>2, <2>3
<1>7. CASE AbortClose
      <2> USE <1>7 DEF AbortClose, compVars, HttpdStep, CloseFails
      <2>1. FsTyped' BY CommitTyped, DropTyped
      <2>2. RestTyped' BY DEF RestTyped, Writing
      <2>3. Same("compile") BY CommitSame, DropSame
      <2>4. open'["httpd"] = Closed BY CloseOwn
      <2>5. Pcs' BY <2>3, <2>4 DEF Pcs, Same, Writes
      <2> QED BY <2>1, <2>2, <2>5
<1>8. CASE AbortUnlink
      <2> USE <1>8 DEF AbortUnlink, compVars, HttpdStep, RemoveFails, fsVars
      <2>1. hfile \in Files BY DEF RestTyped
      <2>2. FsTyped' /\ open' = open BY <2>1, RemoveTyped DEF FsTyped, Remove
      <2>3. RestTyped' BY <2>1 DEF RestTyped, Touched
      <2>4. Pcs' BY <2>2 DEF Pcs, Writes
      <2> QED BY <2>2, <2>3, <2>4
<1>9. CASE FinishUpload
      <2> USE <1>9 DEF FinishUpload, compVars, HttpdStep, CloseFails
      <2>1. hfile \in Files /\ open["httpd"] # Closed BY DEF RestTyped, Pcs, Writes
      <2>2. FsTyped' BY CommitTyped, DropTyped
      <2>3. open["httpd"].text \in 0..MaxTexts BY <2>1 DEF FsTyped, Handle
      <2>4. RestTyped'
        <3>1. spoilt' \subseteq Files BY <2>1, Zenon DEF RestTyped
        <3>2. kept' \in [Files -> 0..MaxTexts]
          <4>1. 0 \in 0..MaxTexts BY MaxTextsAssumption
          <4>2. ASSUME NEW n \in 0..MaxTexts PROVE [kept EXCEPT ![hfile] = n] \in [Files -> 0..MaxTexts]
                BY Zenon DEF RestTyped
          <4> QED BY <4>1, <4>2, <2>3, Zenon DEF RestTyped
        <3>3. hpc' \in {"idle", "view"} \cup Writing BY Zenon
        <3>4. UNCHANGED <<dir, mode, texts, hfile, sent, cpc, cfile, ctext>> BY Zenon
        <3> QED BY <3>1, <3>2, <3>3, <3>4, Zenon DEF RestTyped
      <2>5. Same("compile") BY CommitSame, DropSame
      <2>6. open'["httpd"] = Closed BY CloseOwn
      <2>7. Pcs' BY <2>5, <2>6 DEF Pcs, Same, Writes
      <2> QED BY <2>2, <2>4, <2>7
<1>10. CASE SendPiece
      <2> USE <1>10 DEF SendPiece, compVars, fsVars
      <2>1. open["httpd"] \in Handle BY DEF FsTyped, Pcs
      <2>2. open["httpd"].list[Len(sent) + 1] \in Blocks BY <2>1 DEF Handle, RestTyped
      <2>3. RestTyped' BY <2>2 DEF RestTyped, FsTyped
      <2>4. FsTyped' /\ Pcs' BY DEF FsTyped, Pcs, Writes
      <2> QED BY <2>3, <2>4
<1>11. CASE EndView
      <2> USE <1>11 DEF EndView, compVars, HttpdStep
      <2>1. FsTyped' BY DropTyped
      <2>2. RestTyped' BY DEF RestTyped
      <2>3. Same("compile") BY DropSame
      <2>4. open'["httpd"] = Closed BY CloseOwn
      <2>5. Pcs' BY <2>3, <2>4 DEF Pcs, Same, Writes
      <2> QED BY <2>1, <2>2, <2>5
<1>12. CASE RemoveDir \/ MakeDir \/ SetMode
      <2> USE <1>12 DEF RemoveDir, MakeDir, SetMode, fsVars, httpVars, compVars
      <2>1. FsTyped' BY DEF FsTyped
      <2>2. RestTyped' BY DEF RestTyped
      <2>3. Pcs' BY DEF Pcs, Writes
      <2> QED BY <2>1, <2>2, <2>3
<1> QED BY <1>1, <1>2, <1>3, <1>4, <1>5, <1>6, <1>7, <1>8, <1>9, <1>10, <1>11, <1>12
        DEF HttpdNext

LEMMA CompileTyped == ASSUME Typed, CompileNext PROVE Typed'
<1> USE TheTasks DEF Typed
<1>1. ASSUME NEW f \in Files, Save(f) PROVE Typed'
      <2> USE <1>1 DEF Save, fsVars, httpVars, CompileStep
      <2>1. FsTyped' BY DEF FsTyped
      <2>2. texts' \in 1..MaxTexts BY DEF RestTyped
      <2>3. /\ dir' \in BOOLEAN /\ texts' \in 0..MaxTexts /\ ctext' \in 0..MaxTexts
            /\ cpc' \in {"idle", "open"} \cup Saving
            <3>1. dir' \in BOOLEAN BY Zenon DEF RestTyped
            <3>2. texts' \in 0..MaxTexts /\ ctext' \in 0..MaxTexts BY <2>2
            <3>3. cpc' \in {"idle", "open"} \cup Saving OBVIOUS
            <3> QED BY <3>1, <3>2, <3>3
      <2>4. RestTyped' BY <2>2, <2>3, Zenon DEF RestTyped
      <2>5. Pcs' BY <2>2 DEF Pcs, Writes
      <2> QED BY <2>1, <2>4, <2>5
<1>2. CASE SaveOpen
      <2> USE <1>2 DEF SaveOpen, httpVars, CompileStep
      <2>1. PICK s \in BOOLEAN : OpenWrite("compile", cfile, ctext, s) OBVIOUS
      <2>2. cfile \in Files /\ ctext \in 1..MaxTexts BY DEF RestTyped, Pcs
      <2>3. FsTyped' BY <2>1, <2>2, OpenWriteTyped
      <2>4. RestTyped' BY <2>2 DEF RestTyped, Touched, Saving
      <2>5. Same("httpd") BY <2>1, <2>2, OpenWriteSame
      <2>6. Writes("compile", cfile)' /\ open'["compile"].text = ctext
            BY <2>1, <2>2, OpenWriteOwn DEF Writes
      <2>7. Pcs' BY <2>2, <2>5, <2>6 DEF Pcs, Same, Writes
      <2> QED BY <2>3, <2>4, <2>7
<1>3. CASE SaveNotOpened
      <2> USE <1>3 DEF SaveNotOpened, fsVars, httpVars, CompileStep
      <2>1. cfile \in Files BY DEF RestTyped
      <2>2. FsTyped' /\ open' = open
            BY <2>1, OpenWriteFailsTyped DEF OpenWriteFails, FsTyped
      <2>3. RestTyped' BY <2>1 DEF RestTyped, Entered
      <2>4. Pcs' BY <2>2 DEF Pcs, Writes
      <2> QED BY <2>2, <2>3, <2>4
<1>4. CASE SavePiece
      <2> USE <1>4 DEF SavePiece, httpVars, compVars
      <2>1. FsTyped' BY WritePieceTyped
      <2>2. RestTyped' BY DEF RestTyped
      <2>3. Same("httpd") BY WritePieceSame
      <2>4. Writes("compile", cfile)' /\ open'["compile"].text = ctext
            BY WritePieceOwn DEF Pcs, Writes
      <2>5. Pcs' BY <2>3, <2>4 DEF Pcs, Same, Writes
      <2> QED BY <2>1, <2>2, <2>5
<1>5. CASE SaveBreaks
      <2> USE <1>5 DEF SaveBreaks, fsVars, httpVars, CompileStep
      <2>1. FsTyped' BY DEF FsTyped
      <2>2. RestTyped' BY DEF RestTyped, Saving
      <2>3. Pcs' BY DEF Pcs, Writes
      <2> QED BY <2>1, <2>2, <2>3
<1>6. CASE SaveFailedClose \/ SaveClose
      <2> USE <1>6 DEF SaveFailedClose, SaveClose, Saved, httpVars, CompileStep, CloseFails
      <2>1. cfile \in Files BY DEF RestTyped
      <2>2. FsTyped' BY CommitTyped, DropTyped
      <2>3. RestTyped' BY <2>1 DEF RestTyped, Saving
      <2>4. Same("httpd") BY CommitSame, DropSame
      <2>5. open'["compile"] = Closed BY CloseOwn
      <2>6. Pcs' BY <2>4, <2>5 DEF Pcs, Same, Writes
      <2> QED BY <2>2, <2>3, <2>6
<1>7. CASE SaveUnlink
      <2> USE <1>7 DEF SaveUnlink, httpVars, CompileStep, RemoveFails, fsVars
      <2>1. cfile \in Files BY DEF RestTyped
      <2>2. FsTyped' /\ open' = open BY <2>1, RemoveTyped DEF FsTyped, Remove
      <2>3. RestTyped' BY <2>1 DEF RestTyped, Touched
      <2>4. Pcs' BY <2>2 DEF Pcs, Writes
      <2> QED BY <2>2, <2>3, <2>4
<1> QED BY <1>1, <1>2, <1>3, <1>4, <1>5, <1>6, <1>7 DEF CompileNext

LEMMA RebootTyped == ASSUME Typed, Reboot PROVE Typed'
<1> USE DEF Typed, Reboot
<1>1. PICK z \in BOOLEAN :
        /\ PowerCycle(z)
        /\ dir' \in {TRUE, dir /\ ~z}
        /\ kept' = IF z THEN [f \in Files |-> 0] ELSE kept
        /\ spoilt' = IF z THEN {} ELSE spoilt \cup {f \in Files : HttpdOn(f) \/ CompileOn(f)}
      OBVIOUS
<1>2. FsTyped' BY <1>1, PowerCycleTyped
<1>3. RestTyped'
      <2>1. dir' \in BOOLEAN BY <1>1
      <2>2. kept' \in [Files -> 0..MaxTexts] /\ spoilt' \subseteq Files BY <1>1 DEF RestTyped
      <2> QED BY <2>1, <2>2 DEF RestTyped
<1>4. open' = [t \in Tasks |-> Closed] BY <1>1 DEF PowerCycle
<1>5. Pcs' BY <1>4 DEF Pcs, RestTyped
<1> QED BY <1>2, <1>3, <1>5

LEMMA StutterTyped == ASSUME Typed, UNCHANGED vars PROVE Typed'
BY DEF Typed, FsTyped, RestTyped, Pcs, Writes, vars, fsVars, httpVars, compVars

THEOREM AlwaysTyped == Spec => []Typed
<1>1. Init => Typed BY InitTyped
<1>2. Typed /\ [Next]_vars => Typed'
      BY HttpdTyped, CompileTyped, RebootTyped, StutterTyped DEF Next
<1> QED BY <1>1, <1>2, PTL DEF Spec

\* Every variable keeps its type, whatever the numbers of texts, pieces and blocks.
THEOREM TypesHold == Spec => []TypeOK
<1>1. Typed => TypeOK BY TypedIsTypeOK DEF Typed
<1> QED BY <1>1, AlwaysTyped, PTL

-----------------------------------------------------------------------------
(***************************************************************************)
(* What the blocks hold. A reader whose handle is not marked has the list  *)
(* that is in the directory, so lfs_fs_traverse finds its blocks there; a  *)
(* marked one's it finds in the handle. This is why a block that is        *)
(* allocated is in nobody's list.                                          *)
(***************************************************************************)
OfText(list, x) == \A i \in 1..Len(list) : data[list[i]] = <<x, i>>
OfOneText(list) == Len(list) <= Pieces /\ \E x \in 1..MaxTexts : OfText(list, x)

HandleOk(t) ==
  /\ Len(open[t].list) <= Pieces
  /\ ~open[t].reads => open[t].text \in 1..MaxTexts /\ OfText(open[t].list, open[t].text)
  /\ open[t].reads /\ ~open[t].dusty => meta[open[t].file] = open[t].list

Lists ==
  /\ \A f \in Files : meta[f] # Absent => OfOneText(meta[f])
  /\ \A t \in Tasks : open[t] # Closed => HandleOk(t)

DataSame(list) == \A i \in 1..Len(list) : data'[list[i]] = data[list[i]]

LEMMA EmptyList == OfOneText(<<>>)
<1>1. OfText(<<>>, 1) BY DEF OfText
<1> QED BY <1>1 DEF OfOneText

LEMMA SameText ==
  ASSUME NEW f, OfOneText(meta[f]), meta'[f] = meta[f], data' = data
  PROVE  OfOneText(meta[f])'
BY DEF OfOneText, OfText

LEMMA NotReused ==
  ASSUME FsTyped, Lists, NEW t \in Tasks, WritePiece(t)
  PROVE  /\ \A f \in Files : meta[f] # Absent => DataSame(meta[f])
         /\ \A u \in Tasks : open[u] # Closed => DataSame(open[u].list)
<1>1. PICK b \in Blocks \ InUse :
        data' = [data EXCEPT ![b] = <<open[t].text, Len(open[t].list) + 1>>]
      BY DEF WritePiece, Free
<1>2. ASSUME NEW list \in Seq(Blocks), b \notin BlocksOf(list) PROVE DataSame(list)
      BY <1>1, <1>2 DEF BlocksOf, DataSame, FsTyped
<1>3. ASSUME NEW f \in Files, meta[f] # Absent PROVE DataSame(meta[f])
      <2>1. b \notin BlocksOf(meta[f]) BY <1>1, <1>3 DEF InUse
      <2>2. meta[f] \in Seq(Blocks) BY <1>3 DEF FsTyped
      <2> QED BY <1>2, <2>1, <2>2
<1>4. ASSUME NEW u \in Tasks, open[u] # Closed PROVE DataSame(open[u].list)
      <2>1. open[u] \in Handle BY <1>4 DEF FsTyped
      <2>2. open[u].list \in Seq(Blocks) /\ open[u].file \in Files BY <2>1 DEF Handle
      <2>3. CASE open[u].dusty \/ ~open[u].reads
            <3>1. u \in {v \in Tasks : open[v] # Closed /\ (open[v].dusty \/ ~open[v].reads)}
                  BY <1>4, <2>3
            <3>2. BlocksOf(open[u].list) \subseteq InUse
                  <4> DEFINE S == {BlocksOf(open[v].list) : v \in {w \in Tasks :
                                     open[w] # Closed /\ (open[w].dusty \/ ~open[w].reads)}}
                  <4>1. BlocksOf(open[u].list) \in S BY <3>1
                  <4>2. BlocksOf(open[u].list) \subseteq UNION S BY <4>1, Zenon
                  <4>3. UNION S \subseteq InUse BY DEF InUse
                  <4> QED BY <4>2, <4>3
            <3>3. b \notin BlocksOf(open[u].list) BY <1>1, <3>2
            <3> QED BY <1>2, <2>2, <3>3
      <2>4. CASE open[u].reads /\ ~open[u].dusty
            <3>1. meta[open[u].file] = open[u].list BY <1>4, <2>4 DEF Lists, HandleOk
            <3> QED BY <3>1, <2>2, <1>3
      <2> QED BY <2>3, <2>4
<1> QED BY <1>3, <1>4

(* A list whose blocks keep their data stays of its text.                  *)
LEMMA OfTextKept ==
  ASSUME NEW list, NEW x, DataSame(list), OfText(list, x)
  PROVE  \A i \in 1..Len(list) : data'[list[i]] = <<x, i>>
BY DEF DataSame, OfText

LEMMA WritePieceLists ==
  ASSUME FsTyped, Lists, NEW t \in Tasks, WritePiece(t), ~open[t].reads PROVE Lists'
<1>1. ASSUME NEW f \in Files, meta'[f] # Absent PROVE OfOneText(meta[f])'
      <2>1. meta' = meta BY DEF WritePiece, Free
      <2>2. OfOneText(meta[f]) /\ DataSame(meta[f]) BY <1>1, <2>1, NotReused DEF Lists
      <2> QED BY <2>1, <2>2 DEF OfOneText, OfText, DataSame
<1>2. ASSUME NEW u \in Tasks, open'[u] # Closed, u # t PROVE HandleOk(u)'
      <2>1. open'[u] = open[u] /\ meta' = meta BY <1>2 DEF WritePiece, Free, FsTyped
      <2>2. HandleOk(u) /\ DataSame(open[u].list) BY <1>2, <2>1, NotReused DEF Lists
      <2> QED BY <2>1, <2>2 DEF HandleOk, OfText, DataSame
<1>3. HandleOk(t)'
      <2>1. open[t] \in Handle /\ open[t] # Closed /\ Len(open[t].list) < Pieces
            BY DEF FsTyped, WritePiece, Free, HasMore
      <2>2. PICK b \in Blocks \ InUse :
              /\ data' = [data EXCEPT ![b] = <<open[t].text, Len(open[t].list) + 1>>]
              /\ open' = [open EXCEPT ![t].list = Append(@, b)]
            BY DEF WritePiece, Free
      <2>3. HandleOk(t) /\ DataSame(open[t].list) BY <2>1, NotReused DEF Lists
      <2> DEFINE old == open[t].list
      <2>4. old \in Seq(Blocks) /\ Len(old) \in Nat BY <2>1 DEF Handle
      <2>5. open'[t].list = Append(old, b)
            <3>1. open'[t] = [open[t] EXCEPT !.list = Append(old, b)] BY <2>2 DEF FsTyped
            <3> QED BY <3>1, <2>1 DEF Handle
      <2>6. data'[b] = <<open[t].text, Len(old) + 1>> BY <2>2 DEF FsTyped
      <2>7. Len(open'[t].list) = Len(old) + 1 BY <2>4, <2>5
      <2>8. ASSUME NEW i \in 1..Len(open'[t].list)
            PROVE  data'[open'[t].list[i]] = <<open[t].text, i>>
            <3>1. CASE i = Len(old) + 1 BY <3>1, <2>4, <2>5, <2>6
            <3>2. CASE i \in 1..Len(old)
                  <4>1. open'[t].list[i] = old[i] BY <3>2, <2>4, <2>5
                  <4> QED BY <4>1, <3>2, <2>3 DEF HandleOk, OfText, DataSame
            <3> QED BY <3>1, <3>2, <2>4, <2>7
      <2>9. /\ ~open'[t].reads /\ open'[t].text = open[t].text
            /\ open[t].text \in 1..MaxTexts
            BY <2>3, WritePieceOwn DEF HandleOk
      <2>10. Len(open'[t].list) <= Pieces BY <2>1, <2>4, <2>7
      <2> QED BY <2>8, <2>9, <2>10 DEF HandleOk, OfText
<1> QED BY <1>1, <1>2, <1>3 DEF Lists

LEMMA OpenReadLists ==
  ASSUME FsTyped, Lists, NEW t \in Tasks, NEW f \in Files, OpenRead(t, f) PROVE Lists'
<1>1. meta' = meta /\ data' = data /\ meta[f] # Absent BY DEF OpenRead
<1>2. ASSUME NEW u \in Tasks, open'[u] # Closed, u # t PROVE HandleOk(u)'
      <2>1. open'[u] = open[u] BY <1>2 DEF OpenRead, FsTyped
      <2> QED BY <2>1, <1>1, <1>2 DEF Lists, HandleOk, OfText
<1>3. HandleOk(t)'
      BY <1>1, OpenReadOwn DEF Lists, HandleOk, OfOneText
<1>4. ASSUME NEW g \in Files, meta'[g] # Absent PROVE OfOneText(meta[g])'
      BY <1>1, <1>4 DEF Lists, OfOneText, OfText
<1> QED BY <1>2, <1>3, <1>4 DEF Lists

(* The reader of a file that somebody enters or empties is marked.         *)
LEMMA OpenWriteLists ==
  ASSUME FsTyped, Lists, NEW t \in Tasks, NEW f \in Files, NEW x \in 1..MaxTexts,
         NEW s \in BOOLEAN, OpenWrite(t, f, x, s)
  PROVE  Lists'
<1>1. data' = data BY DEF OpenWrite
<1>2. ASSUME NEW g \in Files, meta'[g] # Absent PROVE OfOneText(meta[g])'
      <2>1. OfOneText(<<>>)' BY <1>1, EmptyList DEF OfOneText, OfText
      <2>2. CASE g = f /\ (s \/ meta[f] = Absent)
            <3>1. meta'[g] = <<>> BY <2>2 DEF OpenWrite, FsTyped
            <3> QED BY <3>1, <2>1
      <2>3. CASE ~(g = f /\ (s \/ meta[f] = Absent))
            <3>1. meta'[g] = meta[g] BY <2>3 DEF OpenWrite, FsTyped
            <3>2. OfOneText(meta[g]) BY <3>1, <1>2 DEF Lists
            <3> QED BY <3>1, <3>2, SameText, <1>1
      <2> QED BY <2>2, <2>3
<1>3. HandleOk(t)' BY OpenWriteOwn DEF HandleOk, OfText
<1>4. ASSUME NEW u \in Tasks, open'[u] # Closed, u # t PROVE HandleOk(u)'
      <2>1. Same(u) BY <1>4, OpenWriteSame
      <2>2. open[u] \in Handle /\ open[u] # Closed /\ HandleOk(u)
            BY <1>4, <2>1 DEF Same, Lists, FsTyped
      <2>3. ASSUME ~open'[u].dusty, open'[u].reads PROVE meta'[open[u].file] = open[u].list
            <3>1. meta[open[u].file] = open[u].list BY <2>1, <2>2, <2>3 DEF Same, HandleOk
            <3>2. meta[open[u].file] # Absent BY <3>1, <2>2 DEF Handle
            <3>3. CASE open[u].file = f /\ s
                  <4>1. open'[u] = [open[u] EXCEPT !.dusty = TRUE]
                        BY <1>4, <2>2, <3>3, DustedTyped DEF OpenWrite, Dusted, Opened
                  <4> QED BY <4>1, <2>2, <2>3 DEF Handle
            <3>4. CASE ~(open[u].file = f /\ s)
                  BY <3>1, <3>2, <3>4, <2>2 DEF OpenWrite, FsTyped, Handle
            <3> QED BY <3>3, <3>4
      <2> QED BY <2>1, <2>2, <2>3, <1>1 DEF Same, HandleOk, OfText
<1> QED BY <1>2, <1>3, <1>4 DEF Lists

LEMMA OpenWriteFailsLists ==
  ASSUME FsTyped, Lists, NEW f \in Files, OpenWriteFails(f) PROVE Lists'
<1>1. data' = data /\ open' = open BY DEF OpenWriteFails
<1>2. ASSUME NEW g \in Files
      PROVE  meta'[g] = meta[g] \/ (meta[g] = Absent /\ meta'[g] = <<>>)
      BY DEF OpenWriteFails, FsTyped
<1>3. ASSUME NEW g \in Files, meta'[g] # Absent PROVE OfOneText(meta[g])'
      <2>1. OfOneText(<<>>)' BY <1>1, EmptyList DEF OfOneText, OfText
      <2>2. CASE meta'[g] = <<>> BY <2>1, <2>2
      <2>3. CASE meta'[g] = meta[g]
            <3>1. OfOneText(meta[g]) BY <2>3, <1>3 DEF Lists
            <3> QED BY <3>1, <2>3, SameText, <1>1
      <2> QED BY <2>2, <2>3, <1>2
<1>4. ASSUME NEW u \in Tasks, open'[u] # Closed PROVE HandleOk(u)'
      <2>1. open[u] \in Handle /\ HandleOk(u) BY <1>1, <1>4 DEF Lists, FsTyped
      <2>2. open[u].file \in Files /\ open[u].list # Absent BY <2>1 DEF Handle
      <2>3. open[u].reads /\ ~open[u].dusty => meta'[open[u].file] = open[u].list
            BY <2>1, <2>2, <1>2 DEF HandleOk
      <2> QED BY <2>1, <2>3, <1>1 DEF HandleOk, OfText
<1> QED BY <1>3, <1>4 DEF Lists

LEMMA CommitLists ==
  ASSUME FsTyped, Lists, NEW t \in Tasks, ~open[t].reads, Commit(t) PROVE Lists'
<1>1. data' = data /\ open[t] # Closed /\ open[t] \in Handle BY DEF Commit, FsTyped
<1>2. open[t].file \in Files BY <1>1 DEF Handle
<1>3. ASSUME NEW g \in Files, meta'[g] # Absent PROVE OfOneText(meta[g])'
      <2>1. CASE g = open[t].file
            <3>1. meta'[g] = open[t].list BY <2>1 DEF Commit, FsTyped
            <3>2. OfOneText(open[t].list) BY <1>1 DEF Lists, HandleOk, OfOneText
            <3> QED BY <3>1, <3>2, <1>1 DEF OfOneText, OfText
      <2>2. CASE g # open[t].file
            <3>1. meta'[g] = meta[g] BY <2>2 DEF Commit, FsTyped
            <3> QED BY <3>1, <1>1, <1>3 DEF Lists, OfOneText, OfText
      <2> QED BY <2>1, <2>2
<1>4. ASSUME NEW u \in Tasks, open'[u] # Closed PROVE HandleOk(u)'
      <2>1. u # t BY <1>4, CloseOwn
      <2>2. Same(u) BY <2>1, CommitSame
      <2>3. open[u] \in Handle /\ open[u] # Closed /\ HandleOk(u)
            BY <1>4, <2>2 DEF Same, Lists, FsTyped
      <2>4. ASSUME ~open'[u].dusty, open'[u].reads PROVE meta'[open[u].file] = open[u].list
            <3>1. meta[open[u].file] = open[u].list BY <2>2, <2>3, <2>4 DEF Same, HandleOk
            <3>2. CASE open[u].file = open[t].file
                  <4>1. open'[u] = [open[u] EXCEPT !.dusty = TRUE]
                        BY <1>2, <2>1, <2>3, <3>2, DustedTyped DEF Commit, Dusted, Opened
                  <4> QED BY <4>1, <2>3, <2>4 DEF Handle
            <3>3. CASE open[u].file # open[t].file
                  BY <3>1, <3>3, <2>3 DEF Commit, FsTyped, Handle
            <3> QED BY <3>2, <3>3
      <2> QED BY <2>2, <2>3, <2>4, <1>1 DEF Same, HandleOk, OfText
<1> QED BY <1>3, <1>4 DEF Lists

LEMMA DropLists ==
  ASSUME FsTyped, Lists, NEW t \in Tasks, NEW s \in BOOLEAN, Drop(t, s) PROVE Lists'
<1>1. meta' = meta /\ data' = data BY DEF Drop
<1>2. ASSUME NEW g \in Files, meta'[g] # Absent PROVE OfOneText(meta[g])'
      BY <1>1, <1>2, SameText DEF Lists
<1>3. ASSUME NEW u \in Tasks, open'[u] # Closed PROVE HandleOk(u)'
      <2>1. open'[u] = open[u] BY <1>3 DEF Drop, FsTyped
      <2> QED BY <1>1, <1>3, <2>1 DEF Lists, HandleOk, OfText
<1> QED BY <1>2, <1>3 DEF Lists

LEMMA RemoveLists ==
  ASSUME FsTyped, Lists, NEW f \in Files, Remove(f) PROVE Lists'
<1>1. data' = data /\ open' = open /\ Opened(f) = {} BY DEF Remove, Busy
<1>2. \A g \in Files \ {f} : meta'[g] = meta[g] BY DEF Remove, FsTyped
<1>3. meta'[f] = Absent BY DEF Remove, FsTyped
<1>4. ASSUME NEW u \in Tasks, open'[u] # Closed PROVE HandleOk(u)'
      <2>1. open[u] \in Handle /\ HandleOk(u) BY <1>1, <1>4 DEF Lists, FsTyped
      <2>2. open[u].file \in Files \ {f} BY <1>1, <1>4, <2>1 DEF Opened, Handle
      <2> QED BY <1>1, <1>2, <2>1, <2>2 DEF HandleOk, OfText
<1>5. ASSUME NEW g \in Files, meta'[g] # Absent PROVE OfOneText(meta[g])'
      <2>1. meta'[g] = meta[g] BY <1>2, <1>3, <1>5
      <2> QED BY <2>1, <1>1, <1>5 DEF Lists, OfOneText, OfText
<1> QED BY <1>4, <1>5 DEF Lists

LEMMA PowerCycleLists ==
  ASSUME FsTyped, Lists, NEW z \in BOOLEAN, PowerCycle(z) PROVE Lists'
BY DEF FsTyped, Lists, PowerCycle, OfOneText, OfText

LEMMA FsSameLists == ASSUME Lists, UNCHANGED fsVars PROVE Lists'
<1>1. meta' = meta /\ data' = data /\ open' = open BY DEF fsVars
<1>2. ASSUME NEW f \in Files, meta'[f] # Absent PROVE OfOneText(meta[f])'
      BY <1>1, <1>2, SameText DEF Lists
<1>3. ASSUME NEW u \in Tasks, open'[u] # Closed PROVE HandleOk(u)'
      BY <1>1, <1>3 DEF Lists, HandleOk, OfText
<1> QED BY <1>2, <1>3 DEF Lists

LEMMA HttpdLists == ASSUME Typed, Lists, HttpdNext PROVE Lists'
<1> USE TheTasks DEF Typed, CloseFails
<1>1. ASSUME UNCHANGED fsVars PROVE Lists' BY <1>1, FsSameLists
<1>2. ASSUME NEW f \in Files, Upload(f) PROVE Lists'
      <2>1. PICK s \in BOOLEAN : OpenWrite("httpd", f, texts + 1, s) BY <1>2 DEF Upload
      <2>2. texts + 1 \in 1..MaxTexts BY <1>2 DEF RestTyped, Upload
      <2> QED BY <2>1, <2>2, OpenWriteLists
<1>3. ASSUME NEW f \in Files, UploadNotOpened(f) PROVE Lists'
      BY <1>1, <1>3, OpenWriteFailsLists DEF UploadNotOpened
<1>4. ASSUME NEW f \in Files, View(f) PROVE Lists' BY <1>4, OpenReadLists DEF View
<1>5. ASSUME NEW f \in Files, Delete(f) PROVE Lists' BY <1>5, RemoveLists DEF Delete
<1>6. CASE ReceivePiece BY <1>6, WritePieceLists DEF ReceivePiece, Pcs, Writes
<1>7. CASE AbortClose BY <1>7, CommitLists, DropLists DEF AbortClose, Pcs, Writes, HttpdStep
<1>8. CASE AbortUnlink
      BY <1>1, <1>8, RemoveLists DEF AbortUnlink, RemoveFails, RestTyped
<1>9. CASE FinishUpload
      BY <1>9, CommitLists, DropLists DEF FinishUpload, Pcs, Writes, HttpdStep
<1>10. CASE EndView BY <1>10, DropLists DEF EndView
<1>11. CASE UploadBreaks \/ SendPiece \/ RemoveDir \/ MakeDir \/ SetMode
      BY <1>1, <1>11 DEF UploadBreaks, SendPiece, RemoveDir, MakeDir, SetMode
<1> QED BY <1>2, <1>3, <1>4, <1>5, <1>6, <1>7, <1>8, <1>9, <1>10, <1>11 DEF HttpdNext

LEMMA CompileLists == ASSUME Typed, Lists, CompileNext PROVE Lists'
<1> USE TheTasks DEF Typed, CloseFails
<1>1. ASSUME UNCHANGED fsVars PROVE Lists' BY <1>1, FsSameLists
<1>2. cfile \in Files BY DEF RestTyped
<1>3. CASE SaveOpen
      <2>1. PICK s \in BOOLEAN : OpenWrite("compile", cfile, ctext, s) BY <1>3 DEF SaveOpen
      <2>2. ctext \in 1..MaxTexts BY <1>3 DEF RestTyped, Pcs, SaveOpen, CompileStep
      <2> QED BY <1>2, <2>1, <2>2, OpenWriteLists
<1>4. CASE SaveNotOpened BY <1>1, <1>2, <1>4, OpenWriteFailsLists DEF SaveNotOpened
<1>5. CASE SavePiece BY <1>5, WritePieceLists DEF SavePiece, Pcs, Writes
<1>6. CASE SaveFailedClose \/ SaveClose
      BY <1>6, CommitLists, DropLists DEF SaveFailedClose, SaveClose, Pcs, Writes, CompileStep
<1>7. CASE SaveUnlink BY <1>1, <1>2, <1>7, RemoveLists DEF SaveUnlink, RemoveFails
<1>8. CASE SaveBreaks \/ \E f \in Files : Save(f) BY <1>1, <1>8 DEF SaveBreaks, Save
<1> QED BY <1>3, <1>4, <1>5, <1>6, <1>7, <1>8 DEF CompileNext

Sound == Typed /\ Lists

LEMMA AlwaysSound == Spec => []Sound
<1>1. Init => Sound
      <2>1. ASSUME Init PROVE Lists BY <2>1 DEF Init, FsInit, Lists
      <2> QED BY <2>1, InitTyped DEF Sound
<1>2. Sound /\ [Next]_vars => Sound'
      <2>1. ASSUME Sound, Reboot PROVE Lists'
            BY <2>1, PowerCycleLists DEF Reboot, Sound, Typed
      <2>2. ASSUME Sound, UNCHANGED vars PROVE Lists'
            BY <2>2, FsSameLists DEF Sound, vars
      <2> QED BY <2>1, <2>2, HttpdTyped, CompileTyped, RebootTyped, StutterTyped, HttpdLists,
                 CompileLists DEF Next, Sound
<1> QED BY <1>1, <1>2, PTL DEF Spec

-----------------------------------------------------------------------------
(* What the tasks do to the files.                                         *)
Stored(f, x) == meta[f] # Absent /\ Len(meta[f]) = Pieces /\ OfText(meta[f], x)
KeptOf(f) == kept[f] # 0 => ~HttpdOn(f) /\ ~CompileOn(f) /\ Stored(f, kept[f])
TornOf(f) == meta[f] # Absent /\ Len(meta[f]) < Pieces =>
               HttpdOn(f) \/ CompileOn(f) \/ f \in spoilt

Accounted == \A f \in Files : KeptOf(f) /\ TornOf(f)

FileSame(f) == meta'[f] = meta[f] /\ (meta[f] # Absent => DataSame(meta[f]))

Unaffected(f) ==
  /\ FileSame(f) /\ kept'[f] = kept[f]
  /\ HttpdOn(f)' <=> HttpdOn(f)
  /\ CompileOn(f)' <=> CompileOn(f)
  /\ f \in spoilt' <=> f \in spoilt

LEMMA Elsewhere ==
  ASSUME Accounted, NEW f \in Files, Unaffected(f) PROVE KeptOf(f)' /\ TornOf(f)'
<1> USE DEF Unaffected
<1>1. KeptOf(f)'
      <2>1. ASSUME NEW x, Stored(f, x), x = kept'[f] PROVE Stored(f, kept[f])'
            BY <2>1 DEF Stored, FileSame, DataSame, OfText
      <2> QED BY <2>1 DEF Accounted, KeptOf
<1>2. TornOf(f)' BY DEF Accounted, TornOf, FileSame
<1> QED BY <1>1, <1>2

LEMMA OneFile ==
  ASSUME Accounted, NEW f \in Files, KeptOf(f)', TornOf(f)',
         \A g \in Files \ {f} : Unaffected(g)
  PROVE  Accounted'
BY Elsewhere DEF Accounted

LEMMA NoFile == ASSUME Accounted, \A g \in Files : Unaffected(g) PROVE Accounted'
BY Elsewhere DEF Accounted

LEMMA AllSame ==
  ASSUME FsTyped, meta' = meta, data' = data, NEW f \in Files PROVE FileSame(f)
BY DEF FileSame, DataSame

LEMMA OtherSame ==
  ASSUME FsTyped, NEW f \in Files, data' = data,
         meta' = meta \/ \E c : meta' = [meta EXCEPT ![f] = c], NEW g \in Files \ {f}
  PROVE  FileSame(g)
BY DEF FileSame, DataSame, FsTyped

(* A commit by a task that has written everything.                         *)
LEMMA WholeCommit ==
  ASSUME FsTyped, Lists, NEW t \in Tasks, NEW f \in Files, Writes(t, f), Commit(t),
         ~HasMore(t), NEW x, open[t].text = x
  PROVE  /\ meta'[f] # Absent /\ Len(meta'[f]) = Pieces
         /\ \A i \in 1..Len(meta'[f]) : data'[meta'[f][i]] = <<x, i>>
<1>1. open[t] \in Handle /\ HandleOk(t) BY DEF FsTyped, Writes, Lists
<1>2. meta'[f] = open[t].list /\ data' = data BY DEF Commit, FsTyped, Writes
<1>3. open[t].list \in Seq(Blocks) /\ open[t].list # Absent BY <1>1 DEF Handle
<1>4. Len(open[t].list) = Pieces BY <1>1, <1>3 DEF HandleOk, HasMore
<1>5. \A i \in 1..Len(open[t].list) : data'[open[t].list[i]] = <<x, i>>
      BY <1>1, <1>2 DEF HandleOk, OfText, Writes
<1> QED BY <1>2, <1>3, <1>4, <1>5

(* The other files of the operations.                                      *)
LEMMA CommitOthers ==
  ASSUME FsTyped, NEW t \in Tasks, NEW f \in Files, Writes(t, f), Commit(t),
         NEW g \in Files \ {f}
  PROVE  FileSame(g)
BY OtherSame DEF Commit, Writes

LEMMA OpenWriteOthers ==
  ASSUME FsTyped, NEW t \in Tasks, NEW f \in Files, NEW x, NEW s \in BOOLEAN,
         OpenWrite(t, f, x, s), NEW g \in Files \ {f}
  PROVE  FileSame(g)
BY OtherSame DEF OpenWrite

(* An open for writing that fails, by either task.                         *)
LEMMA NotOpened ==
  ASSUME FsTyped, Accounted, NEW f \in Files, OpenWriteFails(f), Entered(f), kept' = kept,
         \A g \in Files : (HttpdOn(g)' <=> HttpdOn(g)) /\ (CompileOn(g)' <=> CompileOn(g))
  PROVE  Accounted'
<1>1. CASE meta' = meta
      BY <1>1, AllSame, NoFile DEF Unaffected, OpenWriteFails, Entered
<1>2. CASE meta' # meta
      <2>1. meta[f] = Absent
            <3>1. ASSUME meta[f] # Absent PROVE meta' = meta
                  BY <3>1 DEF OpenWriteFails, FsTyped
            <3> QED BY <3>1, <1>2
      <2>2. data' = data /\ \E c : meta' = [meta EXCEPT ![f] = c]
            BY <2>1, <1>2 DEF OpenWriteFails
      <2>3. spoilt' = spoilt \cup {f} BY <1>2 DEF Entered
      <2>4. \A g \in Files \ {f} : Unaffected(g) BY <2>2, <2>3, OtherSame DEF Unaffected
      <2>5. kept[f] = 0 BY <2>1 DEF Accounted, KeptOf, Stored
      <2>6. KeptOf(f)' BY <2>5 DEF KeptOf
      <2>7. TornOf(f)' BY <2>3 DEF TornOf
      <2> QED BY <2>4, <2>6, <2>7, OneFile
<1> QED BY <1>1, <1>2

(* The unlink after a failure, by either task.                             *)
LEMMA Cleanup ==
  ASSUME Typed, Accounted, NEW f \in Files, Touched(f),
         \/ Remove(f) /\ spoilt' = spoilt \ {f}
         \/ RemoveFails /\ spoilt' = spoilt \cup {f},
         \A g \in Files \ {f} :
           (HttpdOn(g)' <=> HttpdOn(g)) /\ (CompileOn(g)' <=> CompileOn(g))
  PROVE  Accounted'
<1> USE DEF Typed
<1>1. data' = data /\ (meta' = meta \/ \E c : meta' = [meta EXCEPT ![f] = c])
      BY DEF Remove, RemoveFails, fsVars
<1>2. \A g \in Files \ {f} : kept'[g] = kept[g] /\ (g \in spoilt' <=> g \in spoilt)
      BY DEF Touched, RestTyped
<1>3. \A g \in Files \ {f} : Unaffected(g) BY <1>1, <1>2, OtherSame DEF Unaffected
<1>4. KeptOf(f)' BY DEF KeptOf, Touched, RestTyped
<1>5. TornOf(f)' BY DEF TornOf, Remove, FsTyped
<1> QED BY <1>3, <1>4, <1>5, OneFile

LEMMA HttpdAccounted == ASSUME Sound, Accounted, HttpdNext PROVE Accounted'
<1> USE TheTasks DEF Sound, Typed
<1>1. ASSUME NEW f \in Files, Upload(f) PROVE Accounted'
      <2> USE <1>1 DEF Upload, HttpdStep, compVars
      <2>1. PICK s \in BOOLEAN : OpenWrite("httpd", f, texts + 1, s) OBVIOUS
      <2>2. \A g \in Files \ {f} : Unaffected(g)
            BY <2>1, OpenWriteOthers
            DEF Unaffected, HttpdOn, CompileOn, Writing, Touched, RestTyped
      <2>3. KeptOf(f)' BY DEF KeptOf, Touched, RestTyped
      <2>4. TornOf(f)' BY DEF TornOf, HttpdOn, Writing
      <2> QED BY <2>2, <2>3, <2>4, OneFile
<1>2. ASSUME NEW f \in Files, UploadNotOpened(f) PROVE Accounted'
      <2> USE <1>2 DEF UploadNotOpened, httpVars, compVars
      <2>1. \A g \in Files : (HttpdOn(g)' <=> HttpdOn(g)) /\ (CompileOn(g)' <=> CompileOn(g))
            BY DEF HttpdOn, CompileOn
      <2>2. OpenWriteFails(f) BY DEF OpenWriteFails, fsVars
      <2> QED BY <2>1, <2>2, NotOpened
<1>3. ASSUME NEW f \in Files, View(f) PROVE Accounted'
      BY <1>3, AllSame, NoFile
      DEF View, OpenRead, Unaffected, HttpdOn, CompileOn, HttpdStep, compVars, Writing
<1>4. ASSUME NEW f \in Files, Delete(f) PROVE Accounted'
      <2> USE <1>4 DEF Delete, httpVars, compVars
      <2>1. \A g \in Files \ {f} : (HttpdOn(g)' <=> HttpdOn(g)) /\ (CompileOn(g)' <=> CompileOn(g))
            BY DEF HttpdOn, CompileOn
      <2> QED BY <2>1, Cleanup
<1>5. CASE ReceivePiece
      <2>1. \A g \in Files : FileSame(g)
            BY <1>5, NotReused DEF ReceivePiece, FileSame, WritePiece, Free
      <2> QED BY <2>1, <1>5, NoFile
          DEF Unaffected, ReceivePiece, HttpdOn, CompileOn, httpVars, compVars
<1>6. CASE UploadBreaks
      BY <1>6, AllSame, NoFile
      DEF UploadBreaks, fsVars, Unaffected, HttpdOn, CompileOn, HttpdStep, compVars, Writing
<1>7. CASE AbortClose
      <2> USE <1>7 DEF AbortClose, HttpdStep, compVars, CloseFails
      <2>1. hfile \in Files /\ Writes("httpd", hfile) BY DEF RestTyped, Pcs
      <2>2. \A g \in Files \ {hfile} : FileSame(g)
            BY <2>1, CommitOthers, AllSame DEF Drop
      <2>3. \A g \in Files \ {hfile} : Unaffected(g)
            BY <2>2 DEF Unaffected, HttpdOn, CompileOn
      <2>4. kept[hfile] = 0 BY <2>1 DEF Accounted, KeptOf, HttpdOn, Writing
      <2>5. KeptOf(hfile)' BY <2>4 DEF KeptOf
      <2>6. TornOf(hfile)' BY DEF TornOf, HttpdOn, Writing
      <2>7. \A g \in Files : g = hfile => KeptOf(g)' /\ TornOf(g)' BY <2>5, <2>6
      <2> QED BY <2>1, <2>3, <2>7, OneFile
<1>8. CASE AbortUnlink
      <2>1. \A g \in Files \ {hfile} :
              (HttpdOn(g)' <=> HttpdOn(g)) /\ (CompileOn(g)' <=> CompileOn(g))
            BY <1>8 DEF AbortUnlink, HttpdOn, CompileOn, HttpdStep, compVars
      <2> QED BY <1>8, <2>1, Cleanup DEF AbortUnlink, RestTyped
<1>9. CASE FinishUpload
      <2> USE <1>9 DEF FinishUpload, HttpdStep, compVars, CloseFails
      <2>1. hfile \in Files /\ Writes("httpd", hfile) /\ spoilt \subseteq Files
            BY DEF RestTyped, Pcs
      <2>2. \A g \in Files \ {hfile} : FileSame(g)
            BY <2>1, CommitOthers, AllSame DEF Drop
      <2>3. \A g \in Files \ {hfile} : Unaffected(g)
            BY <2>1, <2>2 DEF Unaffected, HttpdOn, CompileOn, RestTyped
      <2>4. kept[hfile] = 0 BY <2>1 DEF Accounted, KeptOf, HttpdOn, Writing
      <2>5. CASE Commit("httpd") /\ spoilt' = spoilt \ {hfile} /\
                 kept' = [kept EXCEPT ![hfile] = IF CompileOn(hfile) THEN 0 ELSE open["httpd"].text]
            <3>1. kept'[hfile] = IF CompileOn(hfile) THEN 0 ELSE open["httpd"].text
                  BY <2>1, <2>5 DEF RestTyped
            <3>2. /\ meta'[hfile] # Absent /\ Len(meta'[hfile]) = Pieces
                  /\ \A i \in 1..Len(meta'[hfile]) :
                       data'[meta'[hfile][i]] = <<open["httpd"].text, i>>
                  BY <2>1, <2>5, WholeCommit
            <3>3. KeptOf(hfile)'
                  BY <3>1, <3>2 DEF KeptOf, Stored, OfText, HttpdOn, CompileOn, Writing
            <3>4. TornOf(hfile)' BY <3>2 DEF TornOf
            <3> QED BY <3>3, <3>4, <2>1, <2>3, OneFile
      <2>6. CASE CloseFails("httpd") /\ spoilt' = spoilt \cup {hfile} /\ UNCHANGED kept
            <3>1. KeptOf(hfile)' BY <2>4, <2>6 DEF KeptOf
            <3>2. TornOf(hfile)' BY <2>6 DEF TornOf
            <3> QED BY <3>1, <3>2, <2>1, <2>3, OneFile
      <2> QED BY <2>5, <2>6
<1>10. CASE SendPiece
      BY <1>10, AllSame, NoFile
      DEF SendPiece, fsVars, Unaffected, HttpdOn, CompileOn, compVars
<1>11. CASE EndView
      BY <1>11, AllSame, NoFile
      DEF EndView, Drop, Unaffected, HttpdOn, CompileOn, HttpdStep, compVars, Writing
<1>12. CASE RemoveDir \/ MakeDir \/ SetMode
      BY <1>12, AllSame, NoFile
      DEF RemoveDir, MakeDir, SetMode, fsVars, Unaffected, HttpdOn, CompileOn, httpVars, compVars
<1> QED BY <1>1, <1>2, <1>3, <1>4, <1>5, <1>6, <1>7, <1>8, <1>9, <1>10, <1>11, <1>12
        DEF HttpdNext

LEMMA WholeSave ==
  ASSUME FsTyped, Lists, cfile \in Files, Writes("compile", cfile), Commit("compile"),
         ~HasMore("compile"), open["compile"].text = ctext
  PROVE  /\ meta'[cfile] # Absent /\ Len(meta'[cfile]) = Pieces
         /\ \A i \in 1..Len(meta'[cfile]) : data'[meta'[cfile][i]] = <<ctext, i>>
<1>1. "compile" \in Tasks BY TheTasks
<1> QED BY <1>1, WholeCommit

LEMMA CompileAccounted == ASSUME Sound, Accounted, CompileNext PROVE Accounted'
<1> USE TheTasks DEF Sound, Typed
<1>1. cfile \in Files /\ spoilt \subseteq Files BY DEF RestTyped
<1>2. ASSUME NEW f \in Files, Save(f) PROVE Accounted'
      BY <1>2, AllSame, NoFile
      DEF Save, fsVars, Unaffected, HttpdOn, CompileOn, CompileStep, httpVars, Saving
<1>3. CASE SaveOpen
      <2> USE <1>1, <1>3 DEF SaveOpen, CompileStep, httpVars
      <2>1. PICK s \in BOOLEAN : OpenWrite("compile", cfile, ctext, s) OBVIOUS
      <2>2. \A g \in Files \ {cfile} : Unaffected(g)
            BY <2>1, OpenWriteOthers
            DEF Unaffected, HttpdOn, CompileOn, Saving, Touched, RestTyped
      <2>3. kept'[cfile] = 0 BY DEF Touched, RestTyped
      <2>4. KeptOf(cfile)' BY <2>3 DEF KeptOf
      <2>5. TornOf(cfile)' BY DEF TornOf, CompileOn, Saving
      <2> QED BY <2>2, <2>4, <2>5, OneFile
<1>4. CASE SaveNotOpened
      <2> USE <1>4 DEF SaveNotOpened, httpVars, CompileStep
      <2>1. \A g \in Files : (HttpdOn(g)' <=> HttpdOn(g)) /\ (CompileOn(g)' <=> CompileOn(g))
            BY DEF HttpdOn, CompileOn, Saving
      <2>2. OpenWriteFails(cfile) BY DEF OpenWriteFails, fsVars
      <2> QED BY <1>1, <2>1, <2>2, NotOpened
<1>5. CASE SavePiece
      <2>1. \A g \in Files : FileSame(g)
            BY <1>5, NotReused DEF SavePiece, FileSame, WritePiece, Free
      <2> QED BY <2>1, <1>5, NoFile
          DEF Unaffected, SavePiece, HttpdOn, CompileOn, httpVars, compVars
<1>6. CASE SaveBreaks
      BY <1>6, AllSame, NoFile
      DEF SaveBreaks, fsVars, Unaffected, HttpdOn, CompileOn, CompileStep, httpVars, Saving
<1>7. CASE SaveUnlink
      <2>1. \A g \in Files \ {cfile} :
              (HttpdOn(g)' <=> HttpdOn(g)) /\ (CompileOn(g)' <=> CompileOn(g))
            BY <1>7 DEF SaveUnlink, HttpdOn, CompileOn, CompileStep, httpVars
      <2> QED BY <1>1, <1>7, <2>1, Cleanup DEF SaveUnlink
<1>8. CASE SaveFailedClose \/ SaveClose
      <2> USE <1>1, <1>8 DEF SaveFailedClose, SaveClose, Saved, CompileStep, httpVars, CloseFails
      <2>1. Writes("compile", cfile) /\ open["compile"].text = ctext BY DEF Pcs
      <2>2. \A g \in Files \ {cfile} : FileSame(g)
            BY <2>1, CommitOthers, AllSame DEF Drop
      <2>3. \A g \in Files \ {cfile} : kept'[g] = kept[g] /\ (g \in spoilt' <=> g \in spoilt)
            BY DEF RestTyped
      <2>4. \A g \in Files \ {cfile} : Unaffected(g)
            BY <2>2, <2>3 DEF Unaffected, HttpdOn, CompileOn
      <2>5. kept[cfile] = 0 BY DEF Accounted, KeptOf, CompileOn, Saving
      <2>6. CASE cpc' \in Saving /\ UNCHANGED <<kept, spoilt>>
            <3>1. KeptOf(cfile)' BY <2>5, <2>6 DEF KeptOf
            <3>2. TornOf(cfile)' BY <2>6 DEF TornOf, CompileOn
            <3> QED BY <3>1, <3>2, <2>4, OneFile
      <2>7. CASE cpc' = "idle" /\ Commit("compile") /\ Saved /\ ~HasMore("compile")
            <3>1. kept'[cfile] = IF HttpdOn(cfile) THEN 0 ELSE ctext
                  BY <2>7 DEF RestTyped
            <3>2. /\ meta'[cfile] # Absent /\ Len(meta'[cfile]) = Pieces
                  /\ \A i \in 1..Len(meta'[cfile]) : data'[meta'[cfile][i]] = <<ctext, i>>
                  BY <2>1, <2>7, WholeSave
            <3>3. KeptOf(cfile)'
                  BY <2>7, <3>1, <3>2 DEF KeptOf, Stored, OfText, HttpdOn, CompileOn, Saving
            <3>4. TornOf(cfile)' BY <3>2 DEF TornOf
            <3> QED BY <3>3, <3>4, <2>4, OneFile
      <2> QED BY <2>6, <2>7 DEF Saving
<1> QED BY <1>2, <1>3, <1>4, <1>5, <1>6, <1>7, <1>8 DEF CompileNext

LEMMA RebootAccounted == ASSUME Sound, Accounted, Reboot PROVE Accounted'
<1> USE DEF Sound, Typed, Reboot
<1>1. PICK z \in BOOLEAN :
        /\ PowerCycle(z)
        /\ kept' = IF z THEN [f \in Files |-> 0] ELSE kept
        /\ spoilt' = IF z THEN {} ELSE spoilt \cup {f \in Files : HttpdOn(f) \/ CompileOn(f)}
      OBVIOUS
<1>2. ASSUME NEW f \in Files PROVE ~HttpdOn(f)' /\ ~CompileOn(f)'
      BY DEF HttpdOn, CompileOn, Writing, Saving
<1>3. CASE z
      BY <1>1, <1>3 DEF PowerCycle, Accounted, KeptOf, TornOf
<1>4. CASE ~z
      <2>1. meta' = meta /\ data' = data /\ kept' = kept BY <1>1, <1>4 DEF PowerCycle
      <2>2. \A f \in Files : KeptOf(f)'
            BY <1>2, <2>1 DEF Accounted, KeptOf, Stored, OfText
      <2>3. \A f \in Files : TornOf(f)'
            BY <1>1, <1>4, <2>1 DEF Accounted, TornOf
      <2> QED BY <2>2, <2>3 DEF Accounted
<1> QED BY <1>3, <1>4

LEMMA StutterAccounted == ASSUME Sound, Accounted, UNCHANGED vars PROVE Accounted'
<1>1. \A f \in Files : FileSame(f) BY AllSame DEF vars, fsVars, Sound, Typed
<1> QED BY <1>1, NoFile DEF Unaffected, vars, HttpdOn, CompileOn, httpVars, compVars

LEMMA AlwaysAccounted == Spec => []Accounted
<1>1. Init => Accounted
      BY DEF Init, FsInit, Accounted, KeptOf, TornOf
<1>2. Sound /\ Accounted /\ [Next]_vars => Accounted'
      BY HttpdAccounted, CompileAccounted, RebootAccounted, StutterAccounted DEF Next
<1> QED BY <1>1, <1>2, AlwaysSound, PTL DEF Spec

\* A text that was reported as stored stays, whole, until its file is touched or the file
\* system has to be formatted: proved from NotReused (nobody's blocks are written again) and
\* WholeCommit (a list is the file's only when all of it was written).
THEOREM StoredStays == Spec => []KeptIsStored
<1>1. Accounted => KeptIsStored
      BY DEF Accounted, KeptOf, KeptIsStored, Stored, OfText, ContentOf
<1> QED BY <1>1, AlwaysAccounted, PTL

\* A file that is empty or cut short has one of the causes TornHasCause names.
THEOREM TornExplained == Spec => []TornHasCause
<1>1. Accounted => TornHasCause BY DEF Accounted, TornOf, TornHasCause
<1> QED BY <1>1, AlwaysAccounted, PTL

=============================================================================
