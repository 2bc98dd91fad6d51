----------------------------- MODULE FileStore -----------------------------
(***************************************************************************)
(* The scripts on LittleFS, which two tasks write:                         *)
(*   httpd    the file manager: upload, view and download, delete, folders *)
(*   compile  the save of a script that was built                          *)
(* Uploads, deletions and folders need STOP; a save happens in any mode.   *)
(* httpd is one task and serves a request to its end, so neither the mode  *)
(* nor a second request of its own can come between its steps: only the    *)
(* compile task's steps and a reset of the board can.                      *)
(***************************************************************************)
EXTENDS LittleFs

VARIABLES
  dir,                \* the folder /scripts exists
  mode,
  texts,              \* how many texts somebody has started to write
  hpc, hfile,         \* httpd: its next step, its path
  sent,               \* what it has sent of the file it views
  cpc, cfile, ctext,  \* compile: its next step, its path, the script it saves
  kept,               \* history: the text reported as stored and not touched since, or 0
  spoilt              \* history: files a fault may have left empty or cut

httpVars == <<hpc, hfile, sent>>
compVars == <<cpc, cfile, ctext>>
vars == <<fsVars, dir, mode, texts, httpVars, compVars, kept, spoilt>>

ASSUME FileTasks == Tasks = {"httpd", "compile"}

Writing == {"receive", "abort", "unlink"}
Saving  == {"write", "failed", "unlink"}
HttpdOn(f)   == hpc \in Writing /\ hfile = f
CompileOn(f) == cpc \in Saving /\ cfile = f
Touched(f)   == kept' = [kept EXCEPT ![f] = 0]

Init ==
  /\ FsInit /\ dir = TRUE /\ mode = "RUN" /\ texts = 0
  /\ hpc = "idle" /\ hfile \in Files /\ sent = <<>>
  /\ cpc = "idle" /\ cfile \in Files /\ ctext = 0
  /\ kept = [f \in Files |-> 0] /\ spoilt = {}

Entered(f) ==      \* a new file without content, which nobody goes on to write
  spoilt' = IF meta' = meta THEN spoilt ELSE spoilt \cup {f}

-----------------------------------------------------------------------------
(***************************************************************************)
(* httpd                                                                   *)
(***************************************************************************)
HttpdStep(from, to) == hpc = from /\ hpc' = to

Upload(f) ==
  /\ mode = "STOP" /\ texts < MaxTexts /\ dir
  /\ HttpdStep("idle", "receive")
  /\ \E synced \in BOOLEAN : OpenWrite("httpd", f, texts + 1, synced)
  /\ texts' = texts + 1 /\ hfile' = f /\ Touched(f)
  /\ UNCHANGED <<dir, mode, sent, compVars, spoilt>>

UploadNotOpened(f) ==
  /\ mode = "STOP" /\ hpc = "idle"
  /\ \/ dir /\ OpenWriteFails(f)
     \/ ~dir /\ UNCHANGED fsVars
  /\ Entered(f)
  /\ UNCHANGED <<dir, mode, texts, httpVars, compVars, kept>>

ReceivePiece ==
  /\ hpc = "receive" /\ WritePiece("httpd")
  /\ UNCHANGED <<dir, mode, texts, httpVars, compVars, kept, spoilt>>

UploadBreaks ==    \* no buffer, no more body, or a write fails
  /\ HttpdStep("receive", "abort") /\ HasMore("httpd")
  /\ UNCHANGED <<fsVars, dir, mode, texts, hfile, sent, compVars, kept, spoilt>>

AbortClose ==
  /\ HttpdStep("abort", "unlink")
  /\ Commit("httpd") \/ CloseFails("httpd")
  /\ UNCHANGED <<dir, mode, texts, hfile, sent, compVars, kept, spoilt>>

\* Mutant: the unlink is forgotten.
AbortLeaves ==
  /\ HttpdStep("unlink", "idle")
  /\ UNCHANGED <<fsVars, dir, mode, texts, hfile, sent, compVars, kept, spoilt>>

AbortUnlink ==     \* its result is not looked at
  /\ HttpdStep("unlink", "idle")
  /\ \/ Remove(hfile) /\ spoilt' = spoilt \ {hfile}
     \/ RemoveFails /\ spoilt' = spoilt \cup {hfile}
  /\ Touched(hfile)
  /\ UNCHANGED <<dir, mode, texts, hfile, sent, compVars>>

\* The result of fclose is not looked at: the answer is {"ok":true} in every case.
FinishUpload ==
  /\ HttpdStep("receive", "idle") /\ ~HasMore("httpd")
  /\ \/ /\ Commit("httpd")
        /\ spoilt' = spoilt \ {hfile}
        /\ kept' = [kept EXCEPT ![hfile] = IF CompileOn(hfile) THEN 0 ELSE open["httpd"].text]
     \/ /\ CloseFails("httpd")
        /\ spoilt' = spoilt \cup {hfile}
        /\ UNCHANGED kept
  /\ UNCHANGED <<dir, mode, texts, hfile, sent, compVars>>

View(f) ==
  /\ HttpdStep("idle", "view")
  /\ OpenRead("httpd", f)
  /\ hfile' = f
  /\ UNCHANGED <<dir, mode, texts, sent, compVars, kept, spoilt>>

SendPiece ==
  /\ hpc = "view" /\ Len(sent) < Len(open["httpd"].list)
  /\ sent' = Append(sent, data[open["httpd"].list[Len(sent) + 1]])
  /\ UNCHANGED <<fsVars, dir, mode, texts, hpc, hfile, compVars, kept, spoilt>>

EndView ==         \* the end, an error of the read, which ends the answer alike, or of the send
  /\ HttpdStep("view", "idle")
  /\ Drop("httpd", FALSE)
  /\ sent' = <<>>
  /\ UNCHANGED <<dir, mode, texts, hfile, compVars, kept, spoilt>>

Delete(f) ==
  /\ mode = "STOP" /\ hpc = "idle"
  /\ Remove(f)
  /\ Touched(f) /\ spoilt' = spoilt \ {f}
  /\ UNCHANGED <<dir, mode, texts, httpVars, compVars>>

RemoveDir ==       \* files/delete of an empty folder
  /\ mode = "STOP" /\ hpc = "idle"
  /\ dir /\ \A f \in Files : meta[f] = Absent
  /\ dir' = FALSE
  /\ UNCHANGED <<fsVars, mode, texts, httpVars, compVars, kept, spoilt>>

MakeDir ==
  /\ mode = "STOP" /\ hpc = "idle" /\ ~dir
  /\ dir' = TRUE
  /\ UNCHANGED <<fsVars, mode, texts, httpVars, compVars, kept, spoilt>>

SetMode ==
  /\ hpc = "idle"
  /\ mode' \in {"RUN", "STOP"} \ {mode}
  /\ UNCHANGED <<fsVars, dir, texts, httpVars, compVars, kept, spoilt>>

-----------------------------------------------------------------------------
(***************************************************************************)
(* compile: script_engine_save_compiled_script_to_filesystem               *)
(***************************************************************************)
CompileStep(from, to) == cpc = from /\ cpc' = to

Save(f) ==         \* a script was built; mkdir, which may fail
  /\ CompileStep("idle", "open")
  /\ texts < MaxTexts
  /\ texts' = texts + 1 /\ ctext' = texts + 1 /\ cfile' = f
  /\ dir' \in {dir, TRUE}
  /\ UNCHANGED <<fsVars, mode, httpVars, kept, spoilt>>

SaveOpen ==
  /\ CompileStep("open", "write") /\ dir
  /\ \E synced \in BOOLEAN : OpenWrite("compile", cfile, ctext, synced)
  /\ Touched(cfile)
  /\ UNCHANGED <<dir, mode, texts, httpVars, cfile, ctext, spoilt>>

SaveNotOpened ==
  /\ CompileStep("open", "idle")
  /\ \/ dir /\ OpenWriteFails(cfile)
     \/ ~dir /\ UNCHANGED fsVars
  /\ Entered(cfile)
  /\ UNCHANGED <<dir, mode, texts, httpVars, cfile, ctext, kept>>

SavePiece ==
  /\ cpc = "write" /\ WritePiece("compile")
  /\ UNCHANGED <<dir, mode, texts, httpVars, compVars, kept, spoilt>>

SaveBreaks ==
  /\ CompileStep("write", "failed") /\ HasMore("compile")
  /\ UNCHANGED <<fsVars, dir, mode, texts, httpVars, cfile, ctext, kept, spoilt>>

SaveFailedClose ==
  /\ CompileStep("failed", "unlink")
  /\ Commit("compile") \/ CloseFails("compile")
  /\ UNCHANGED <<dir, mode, texts, httpVars, cfile, ctext, kept, spoilt>>

Saved ==
  /\ spoilt' = spoilt \ {cfile}
  /\ kept' = [kept EXCEPT ![cfile] = IF HttpdOn(cfile) THEN 0 ELSE ctext]

\* Mutant: fclose is trusted, as in the upload.
SaveCloseUnchecked ==
  /\ CompileStep("write", "idle") /\ ~HasMore("compile")
  /\ Commit("compile") \/ CloseFails("compile")
  /\ Saved
  /\ UNCHANGED <<dir, mode, texts, httpVars, cfile, ctext>>

SaveClose ==
  /\ cpc = "write" /\ ~HasMore("compile")
  /\ \/ CompileStep("write", "idle") /\ Commit("compile") /\ Saved
     \/ CompileStep("write", "unlink") /\ CloseFails("compile") /\ UNCHANGED <<kept, spoilt>>
  /\ UNCHANGED <<dir, mode, texts, httpVars, cfile, ctext>>

SaveUnlink ==      \* its result is not looked at
  /\ CompileStep("unlink", "idle")
  /\ \/ Remove(cfile) /\ spoilt' = spoilt \ {cfile}
     \/ RemoveFails /\ spoilt' = spoilt \cup {cfile}
  /\ Touched(cfile)
  /\ UNCHANGED <<dir, mode, texts, httpVars, cfile, ctext>>

-----------------------------------------------------------------------------
\* A reset, then plc_filesystem_init: a file system that does not mount is formatted; the
\* folders are made, if that works.
Reboot ==
  /\ \E formatted \in BOOLEAN :
       /\ PowerCycle(formatted)
       /\ dir' \in {TRUE, dir /\ ~formatted}
       /\ kept' = IF formatted THEN [f \in Files |-> 0] ELSE kept
       /\ spoilt' = IF formatted THEN {}
                    ELSE spoilt \cup {f \in Files : HttpdOn(f) \/ CompileOn(f)}
  /\ mode' = "RUN"
  /\ hpc' = "idle" /\ sent' = <<>> /\ cpc' = "idle"
  /\ UNCHANGED <<texts, hfile, cfile, ctext>>

HttpdNext ==
  \/ \E f \in Files : Upload(f) \/ UploadNotOpened(f) \/ View(f) \/ Delete(f)
  \/ ReceivePiece \/ UploadBreaks \/ AbortClose \/ AbortUnlink \/ FinishUpload
  \/ SendPiece \/ EndView \/ RemoveDir \/ MakeDir \/ SetMode

CompileNext ==
  \/ \E f \in Files : Save(f)
  \/ SaveOpen \/ SaveNotOpened \/ SavePiece \/ SaveBreaks \/ SaveFailedClose \/ SaveClose
  \/ SaveUnlink

Next == HttpdNext \/ CompileNext \/ Reboot

Spec == Init /\ [][Next]_vars

-----------------------------------------------------------------------------
ContentOf(list) == [i \in 1..Len(list) |-> data[list[i]]]

\* Every variable stays within the values its C counterpart can take; what is sent are
\* pieces that somebody wrote.
TypeOK ==
  /\ meta \in [Files -> Seq(Blocks) \cup {Absent}]
  /\ data \in [Blocks -> (0..MaxTexts) \X (0..Pieces)]
  /\ open \in [Tasks -> Handle \cup {Closed}]
  /\ stuck \subseteq Files /\ spoilt \subseteq Files
  /\ dir \in BOOLEAN /\ mode \in {"RUN", "STOP"} /\ texts \in 0..MaxTexts
  /\ hpc \in {"idle", "view"} \cup Writing /\ hfile \in Files
  /\ sent \in Seq((0..MaxTexts) \X (0..Pieces))
  /\ cpc \in {"idle", "open"} \cup Saving /\ cfile \in Files /\ ctext \in 0..MaxTexts
  /\ kept \in [Files -> 0..MaxTexts]

\* A text whose upload or save was reported as stored is on flash, whole, until somebody
\* starts to write or delete that file: no cleanup of an earlier failed write, no reset and
\* no other file's blocks take it away. (Excepted are a report while the other task is in
\* the middle of writing the same file, an upload whose fclose failed, and a reset that finds
\* a file system it must format.)
KeptIsStored ==
  \A f \in Files : kept[f] # 0 =>
    meta[f] # Absent /\ ContentOf(meta[f]) = [i \in 1..Pieces |-> <<kept[f], i>>]

\* A file that is empty or cut short is being written, or was left so by a reset, by an
\* error of the flash, or by an unlink refused because the file was open.
TornHasCause ==
  \A f \in Files : meta[f] # Absent /\ Len(meta[f]) < Pieces =>
    HttpdOn(f) \/ CompileOn(f) \/ f \in spoilt

-----------------------------------------------------------------------------
(***************************************************************************)
(* The store as its users see it: what the blocks of a file hold, what the *)
(* blocks of the file being viewed hold, and what was sent.                *)
(***************************************************************************)
StoreView == [f \in Files |-> IF meta[f] = Absent THEN Absent ELSE ContentOf(meta[f])]

ReaderView ==
  IF hpc = "view" THEN ContentOf(open["httpd"].list) ELSE <<>>

Atomic == INSTANCE AtomicFiles
            WITH store <- StoreView, view <- ReaderView, given <- sent

\* A view or download sends pieces of the one text the file held when it was opened,
\* although saves replace the file meanwhile; writers never mix their texts.
FilesAreAtomic == Atomic!Spec
=============================================================================
