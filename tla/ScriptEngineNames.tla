------------------------- MODULE ScriptEngineNames --------------------------
(***************************************************************************)
(* What the engine tells about its programs: the names on the status page, *)
(* the text that a name promises in /scripts, and the answer the upload    *)
(* page waits for. Each fact is given in one critical section and used in  *)
(* a later one, so each invariant says at which steps of the compile task  *)
(* and of httpd it is already, or still, true.                             *)
(***************************************************************************)
EXTENDS ScriptEngineRefinement

(***************************************************************************)
(* Named: the pending slot has no name while its text is being written,    *)
(* and the compile task gives it one only after the file is whole.         *)
(***************************************************************************)
Named ==
  /\ NamesAgree
  /\ NamedIsSaved
  /\ cpc \in SavePcs \ {"clear_ok"} => pendingName = NoName
  /\ cpc \in {"name", "naming"} => fs[jobName[cjob]] = cjob
  /\ \A j \in 1..jobs : jobName[j] \in Names

LEMMA InitNamed == Init => Named
BY DEF Init, Named, NamesAgree, NamedIsSaved, SavePcs

\* What is in a slot has been queued.
LEMMA SlotsQueued ==
  ASSUME Custody
  PROVE  Only(pending) \subseteq 1..jobs /\ Only(active) \subseteq 1..jobs
<1>1. Hands[3] \subseteq 1..jobs /\ Hands[4] \subseteq 1..jobs
      BY OwnersAre DEF Custody, Split
<1> QED BY <1>1, HandsAre

\* A step that leaves names, slots and files alone, and does not enter the save.
NamesUntouched ==
  /\ UNCHANGED <<jobs, jobName, fs, slotVars>>
  /\ cpc' \in SavePcs \ {"clear_ok"} => cpc \in SavePcs \ {"clear_ok"}
  /\ cpc' \in {"name", "naming"} => cpc \in {"name", "naming"} /\ cjob' = cjob

LEMMA UntouchedNamed == ASSUME Named, NamesUntouched PROVE Named'
BY Zenon DEF Named, NamesUntouched, NamesAgree, NamedIsSaved, slotVars

LEMMA HttpdNamed == ASSUME Typed, Flight, Custody, Named, HttpdNext PROVE Named'
<1>1. CASE ~(\E n \in Names : SubmitSend(n) /\ compileQ = None)
  <2>1. UNCHANGED <<jobs, jobName, fs, slotVars, compVars>>
        BY <1>1, Zenon DEF HttpdNext, StatusRead, StatusLock, StatusTimeout, StatusAnswer,
           SetMode, Preflight, PreflightLock, PreflightTimeout, PreflightAnswer, UploadFails,
           Submit, SubmitLock, SubmitTimeout, SubmitCheck, SubmitNoMemory, SubmitSend,
           SubmitQueued, SubmitAccepted, httpVars, restVars
  <2>2. NamesUntouched
        BY <2>1, Zenon DEF NamesUntouched, compVars
  <2> QED BY <2>2, UntouchedNamed
<1>2. CASE \E n \in Names : SubmitSend(n) /\ compileQ = None
  <2>1. PICK n \in Names : SubmitSend(n) /\ compileQ = None
        BY <1>2
  <2>2. /\ jobs \in Nat /\ jobs < MaxJobs /\ jobs' = jobs + 1
        /\ jobName' = [jobName EXCEPT ![jobs + 1] = n] /\ cpc = "wait"
        /\ UNCHANGED <<fs, slotVars, cpc, cjob>>
        BY <2>1 DEF SubmitSend, HttpdStep, Typed, TypeOK, OptJob, Submitting, Flight,
           SingleFlight, restVars, compVars
  <2>3. \A j \in 1..jobs : jobName'[j] = jobName[j]
        BY <2>2 DEF Typed, TypeOK, Job
  <2>4. jobName'[jobs + 1] = n
        BY <2>2, MaxJobsAssumption DEF Typed, TypeOK, Job
  <2>5. \A j \in 1..jobs' : jobName'[j] \in Names
        BY <2>2, <2>3, <2>4 DEF Named
  <2>6. NamesAgree'
        BY <2>2, <2>3, SlotsQueued DEF Named, NamesAgree, slotVars, Only
  <2>7. NamedIsSaved'
        BY <2>2, Zenon DEF Named, NamedIsSaved, slotVars
  <2> QED BY <2>2, <2>5, <2>6, <2>7 DEF Named, SavePcs
<1> QED BY <1>1, <1>2

LEMMA CompileNamed == ASSUME Typed, Flight, Custody, Named, CompileNext PROVE Named'
<1>1. cpc # "wait" => cjob \in 1..jobs
      BY DEF Custody, Newest, Typed, TypeOK, OptJob, None
<1>2. UNCHANGED <<jobs, jobName>>
      BY Zenon DEF CompileNext, JobReceive, PauseScans, ClaimSave, BuildOk, BuildFails,
         PublishLock, Publish, ReportOccupied, ReportPending, SaveOpen, SaveOpenFails,
         SaveWrite, SaveWriteFails, DiscardLock, DiscardTimeout, Discard, NameLock,
         NameTimeout, SetPendingName, ClearSaveBusy, ReportOk, UnpauseScans, ReportFailed,
         Release, CompileStep, httpVars
<1>3. CASE \/ JobReceive \/ PauseScans \/ ClaimSave \/ BuildOk \/ BuildFails
           \/ PublishLock \/ ReportOccupied \/ ReportPending \/ DiscardLock
           \/ DiscardTimeout \/ NameLock \/ NameTimeout \/ ClearSaveBusy \/ ReportOk
           \/ UnpauseScans \/ ReportFailed \/ Release
  <2>1. UNCHANGED <<fs, slotVars>>
        BY <1>3, Zenon DEF JobReceive, PauseScans, ClaimSave, BuildOk, BuildFails,
           PublishLock, ReportOccupied, ReportPending, DiscardLock, DiscardTimeout,
           NameLock, NameTimeout, ClearSaveBusy, ReportOk, UnpauseScans, ReportFailed,
           Release, restVars, slotVars
  <2>2. /\ cpc' \in SavePcs \ {"clear_ok"} => cpc \in SavePcs \ {"clear_ok"}
        /\ cpc' \in {"name", "naming"} => cpc \in {"name", "naming"} /\ cjob' = cjob
        BY <1>3 DEF JobReceive, PauseScans, ClaimSave, BuildOk, BuildFails,
           PublishLock, ReportOccupied, ReportPending, DiscardLock, DiscardTimeout,
           NameLock, NameTimeout, ClearSaveBusy, ReportOk, UnpauseScans, ReportFailed,
           Release, CompileStep, SavePcs
  <2> QED BY <1>2, <2>1, <2>2, UntouchedNamed, Zenon DEF NamesUntouched
<1>4. CASE Publish
  <2>1. /\ cpc' \in {"published", "occupied"} /\ (cpc' = "published" => pending = None)
        /\ (pending # None => pending' = pending)
        /\ UNCHANGED <<fs, active, activeName, pendingName>>
        BY <1>4 DEF Publish, SlotFree, CompileStep, restVars
  <2>2. pending = None => pendingName = NoName
        BY Zenon DEF Named, NamesAgree
  <2>3. NamesAgree' /\ NamedIsSaved'
        BY <1>2, <2>1, <2>2, Zenon DEF Named, NamesAgree, NamedIsSaved
  <2>4. /\ cpc' \notin {"name", "naming"}
        /\ cpc' \in SavePcs \ {"clear_ok"} => pendingName' = NoName
        BY <2>1, <2>2 DEF SavePcs
  <2> QED BY <1>2, <2>3, <2>4, Zenon DEF Named
<1>5. CASE SaveOpen \/ SaveOpenFails \/ SaveWriteFails
  <2>1. /\ cpc \in {"save", "write"} /\ cpc' \in {"write", "discard"}
        /\ UNCHANGED slotVars
        BY <1>5 DEF SaveOpen, SaveOpenFails, SaveWriteFails, CompileStep
  <2>2. pendingName = NoName /\ pendingName' = NoName
        BY <2>1 DEF Named, SavePcs, slotVars
  <2>3. NamesAgree' /\ NamedIsSaved'
        BY <1>2, <2>1, <2>2, Zenon DEF Named, NamesAgree, NamedIsSaved, slotVars
  <2> QED BY <1>2, <2>1, <2>2, <2>3 DEF Named
<1>6. CASE SaveWrite
  <2>1. /\ cpc = "write" /\ cpc' = "name" /\ cjob' = cjob /\ UNCHANGED slotVars
        /\ fs' = [fs EXCEPT ![jobName[cjob]] = cjob]
        BY <1>6, Zenon DEF SaveWrite, CompileStep
  <2>2. pendingName = NoName /\ pendingName' = NoName
        BY <2>1 DEF Named, SavePcs, slotVars
  <2>3. NamesAgree' /\ NamedIsSaved'
        BY <1>2, <2>1, <2>2, Zenon DEF Named, NamesAgree, NamedIsSaved, slotVars
  <2>4. jobName[cjob] \in Names
        BY <1>1, <2>1 DEF Named
  <2>5. fs'[jobName'[cjob']] = cjob'
        BY <1>2, <2>1, <2>4 DEF Typed, TypeOK
  <2> QED BY <1>2, <2>2, <2>3, <2>5, Zenon DEF Named
<1>7. CASE Discard
  <2>1. /\ cpc = "discarding" /\ cpc' = "clear_failed"
        /\ UNCHANGED <<fs, active, activeName, pendingName>>
        BY <1>7, Zenon DEF Discard, CompileStep, restVars
  <2>2. pendingName = NoName
        BY <2>1 DEF Named, SavePcs
  <2>3. NamesAgree' /\ NamedIsSaved'
        BY <1>2, <2>1, <2>2, Zenon DEF Named, NamesAgree, NamedIsSaved
  <2>4. cpc' \notin SavePcs /\ cpc' \notin {"name", "naming"}
        BY <2>1 DEF SavePcs
  <2> QED BY <1>2, <2>3, <2>4, Zenon DEF Named
<1>8. CASE SetPendingName
  <2>1. /\ cpc = "naming" /\ cpc' = "clear_ok" /\ pendingName' = jobName[cjob]
        /\ UNCHANGED <<fs, active, activeName, pending, cjob>>
        BY <1>8, Zenon DEF SetPendingName, CompileStep, restVars
  <2>2. pending = cjob /\ pending # None /\ fs[jobName[cjob]] = cjob
        BY <2>1 DEF Flight, SaveOwnsPending, SavePcs, Typed, Named
  <2>3. NamesAgree' /\ NamedIsSaved'
        BY <1>2, <2>1, <2>2, Zenon DEF Named, NamesAgree, NamedIsSaved
  <2>4. cpc' \notin SavePcs \ {"clear_ok"} /\ cpc' \notin {"name", "naming"}
        BY <2>1
  <2> QED BY <1>2, <2>3, <2>4, Zenon DEF Named
<1> QED BY <1>3, <1>4, <1>5, <1>6, <1>7, <1>8 DEF CompileNext

LEMMA OthersNamed ==
  ASSUME Typed, Flight, Custody, Named,
         CacheRead \/ CacheReadDone \/ ScanNext \/ CleanupNext \/ Reboot \/ UNCHANGED vars
  PROVE  Named'
<1>1. CASE \/ CacheRead \/ CacheReadDone \/ StartScan \/ EndProgram \/ BoundaryLock
           \/ BoundarySkip \/ NoActivation \/ LiftPause \/ CleanupNext \/ UNCHANGED vars
  <2>1. UNCHANGED <<jobs, jobName, fs, slotVars, cpc, cjob>>
        BY <1>1, Zenon DEF CacheRead, CacheReadDone, StartScan, EndProgram, BoundaryLock,
           BoundarySkip, NoActivation, LiftPause, ScanStep, CleanupNext, CleanupReceive,
           CleanupDestroy, vars, httpVars, compVars, slotVars, restVars
  <2> QED BY <2>1, UntouchedNamed, Zenon DEF NamesUntouched
<1>2. CASE Activate
  <2>1. /\ active' = pending /\ activeName' = pendingName /\ pendingName' = NoName
        /\ UNCHANGED <<jobs, jobName, fs, cpc, cjob>>
        BY <1>2, Zenon DEF Activate, ScanStep, restVars, httpVars, compVars
  <2>2. NamesAgree' /\ NamedIsSaved'
        BY <2>1, Zenon DEF Named, NamesAgree, NamedIsSaved
  <2> QED BY <2>1, <2>2, Zenon DEF Named
<1>3. CASE Reboot
  <2>1. /\ activeName' = NoName /\ pendingName' = NoName /\ cpc' = "wait"
        /\ UNCHANGED <<jobs, jobName, fs>>
        BY <1>3, Zenon DEF Reboot
  <2> QED BY <2>1 DEF Named, NamesAgree, NamedIsSaved, SavePcs
<1> QED BY <1>1, <1>2, <1>3 DEF ScanNext

LEMMA StepNamed == Typed /\ Flight /\ Custody /\ Named /\ [Next]_vars => Named'
BY HttpdNamed, CompileNamed, OthersNamed DEF Next

THEOREM NamedHolds == Spec => []Named
<1>1. Init => Named
      BY InitNamed
<1>2. Typed /\ Flight /\ Custody /\ Named /\ [Next]_vars => Named'
      BY StepNamed
<1> QED BY <1>1, <1>2, CustodyHolds, PTL DEF Spec

\* A name on the status page is that of the program in its slot.
THEOREM NamesFollowPrograms == Spec => []NamesAgree
<1>1. Named => NamesAgree
      BY DEF Named
<1> QED BY <1>1, NamedHolds, PTL

\* A program announced by name as pending is wholly on flash.
THEOREM NamePromisesText == Spec => []NamedIsSaved
<1>1. Named => NamedIsSaved
      BY DEF Named
<1> QED BY <1>1, NamedHolds, PTL

-----------------------------------------------------------------------------
(***************************************************************************)
(* Answered: "ok" is only to be read while the latest upload is in one of  *)
(* the slots, and stays true from httpd's read of it to its answer.        *)
(***************************************************************************)
InSlot == jobs \in Only(pending) \cup Only(active)

Answered ==
  /\ cpc \notin {"wait", "release"} => state # "ok"
  /\ cpc = "ok" => InSlot
  /\ cpc \in {"wait", "release"} /\ compileQ = None /\ state = "ok" => InSlot
  /\ hpc \in {"status", "reading"} /\ sawOk => ~busy /\ InSlot

LEMMA InitAnswered == Init => Answered
BY DEF Init, Answered

LEMMA HttpdAnswered == ASSUME Typed, Flight, Answered, HttpdNext PROVE Answered'
<1>0. busy \in BOOLEAN /\ sawOk \in BOOLEAN
      BY Zenon DEF Typed, TypeOK
<1>1. UNCHANGED <<cpc, cjob, pending, active>>
      BY Zenon DEF HttpdNext, StatusRead, StatusLock, StatusTimeout, StatusAnswer,
         SetMode, Preflight, PreflightLock, PreflightTimeout, PreflightAnswer, UploadFails,
         Submit, SubmitLock, SubmitTimeout, SubmitCheck, SubmitNoMemory, SubmitSend,
         SubmitQueued, SubmitAccepted, compVars, slotVars
<1>2. ASSUME jobs' = jobs PROVE InSlot' = InSlot
      BY <1>1, <1>2, Zenon DEF InSlot, Only
<1> USE <1>0, <1>1 DEF Answered, HttpdStep, Flight, SingleFlight, Submitting
<1>3. CASE StatusRead
      BY <1>2, <1>3 DEF StatusRead, flagVars
<1>4. CASE StatusLock \/ StatusTimeout \/ StatusAnswer \/ SetMode \/ Preflight
           \/ PreflightLock \/ PreflightTimeout \/ PreflightAnswer \/ UploadFails
           \/ SubmitLock \/ SubmitTimeout
      BY <1>2, <1>4 DEF StatusLock, StatusTimeout, StatusAnswer, SetMode, Preflight,
         PreflightLock, PreflightTimeout, PreflightAnswer, UploadFails, SubmitLock,
         SubmitTimeout, flagVars, httpVars
<1>5. CASE Submit \/ SubmitCheck \/ SubmitNoMemory \/ SubmitQueued \/ SubmitAccepted
      BY <1>2, <1>5 DEF Submit, SubmitCheck, SubmitNoMemory, SubmitQueued, SubmitAccepted
<1>6. ASSUME NEW n \in Names, SubmitSend(n) PROVE Answered'
  <2>1. jobs + 1 # None
        BY DEF Typed, TypeOK, OptJob, None
  <2>2. compileQ = None => compileQ' # None
        BY <1>6, <2>1 DEF SubmitSend
  <2> QED BY <1>2, <1>6, <2>2 DEF SubmitSend
<1> QED BY <1>3, <1>4, <1>5, <1>6 DEF HttpdNext

LEMMA CompileAnswered ==
  ASSUME Typed, Flight, Custody, Answered, CompileNext
  PROVE  Answered'
<1>0. busy \in BOOLEAN /\ sawOk \in BOOLEAN
      BY Zenon DEF Typed, TypeOK
<1>1. jobs' = jobs /\ hpc' = hpc /\ sawOk' = sawOk
      BY Zenon DEF CompileNext, JobReceive, PauseScans, ClaimSave, BuildOk, BuildFails,
         PublishLock, Publish, ReportOccupied, ReportPending, SaveOpen, SaveOpenFails,
         SaveWrite, SaveWriteFails, DiscardLock, DiscardTimeout, Discard, NameLock,
         NameTimeout, SetPendingName, ClearSaveBusy, ReportOk, UnpauseScans, ReportFailed,
         Release, CompileStep, httpVars
\* While there is a job, no answer can be on its way that says there is none.
<1>2. ~(hpc' \in {"status", "reading"} /\ sawOk')
  <2>1. cpc # "wait" \/ compileQ # None
        BY DEF CompileNext, JobReceive, PauseScans, ClaimSave, BuildOk, BuildFails,
           PublishLock, Publish, ReportOccupied, ReportPending, SaveOpen, SaveOpenFails,
           SaveWrite, SaveWriteFails, DiscardLock, DiscardTimeout, Discard, NameLock,
           NameTimeout, SetPendingName, ClearSaveBusy, ReportOk, UnpauseScans,
           ReportFailed, Release, CompileStep
  <2> QED BY <1>0, <1>1, <2>1 DEF Flight, SingleFlight, Answered
<1> USE DEF Answered, CompileStep
<1>3. CASE \/ PauseScans \/ ClaimSave \/ BuildOk \/ BuildFails \/ PublishLock \/ Publish
           \/ ReportOccupied \/ ReportPending \/ SaveOpen \/ SaveOpenFails \/ SaveWrite
           \/ SaveWriteFails \/ DiscardLock \/ DiscardTimeout \/ Discard \/ NameLock
           \/ NameTimeout \/ SetPendingName \/ UnpauseScans
  <2>1. state # "ok" /\ state' = state /\ cpc' \notin {"ok"}
        BY <1>3 DEF PauseScans, ClaimSave, BuildOk, BuildFails,
           PublishLock, Publish, ReportOccupied, ReportPending, SaveOpen, SaveOpenFails,
           SaveWrite, SaveWriteFails, DiscardLock, DiscardTimeout, Discard, NameLock,
           NameTimeout, SetPendingName, UnpauseScans, flagVars
  <2> QED BY <1>2, <2>1
<1>4. CASE JobReceive \/ ReportFailed
      BY <1>2, <1>4 DEF JobReceive, ReportFailed
<1>5. CASE ClearSaveBusy
  <2>1. /\ state # "ok" /\ state' = state /\ cpc' \in {"ok", "unpause"}
        /\ pending' = pending /\ active' = active
        BY <1>5 DEF ClearSaveBusy, slotVars
  <2>2. cpc' = "ok" => InSlot
    <3>1. ASSUME cpc = "clear_ok" PROVE pending = jobs /\ pending # None
          BY <3>1 DEF Flight, SaveOwnsPending, SavePcs, Custody, Newest, Typed
    <3> QED BY <1>5, <3>1 DEF ClearSaveBusy, InSlot, Only
  <2>3. InSlot' = InSlot
        BY <1>1, <2>1, Zenon DEF InSlot, Only
  <2> QED BY <1>2, <2>1, <2>2, <2>3
<1>6. CASE ReportOk
  <2>1. cpc = "ok" /\ cpc' = "release" /\ pending' = pending /\ active' = active
        BY <1>6 DEF ReportOk, slotVars
  <2>2. InSlot' = InSlot
        BY <1>1, <2>1, Zenon DEF InSlot, Only
  <2> QED BY <1>2, <2>1, <2>2
<1>7. CASE Release
  <2>1. /\ cpc = "release" /\ cpc' = "wait" /\ pending' = pending /\ active' = active
        /\ state' = state /\ compileQ' = compileQ
        BY <1>7 DEF Release, slotVars
  <2>2. InSlot' = InSlot
        BY <1>1, <2>1, Zenon DEF InSlot, Only
  <2> QED BY <1>2, <2>1, <2>2
<1> QED BY <1>3, <1>4, <1>5, <1>6, <1>7 DEF CompileNext

\* An activation takes the latest upload along, if it is in a slot.
LEMMA OthersAnswered ==
  ASSUME Typed, Flight, Custody, Answered,
         CacheRead \/ CacheReadDone \/ ScanNext \/ CleanupNext \/ Reboot \/ UNCHANGED vars
  PROVE  Answered'
<1>1. CASE Reboot
      BY <1>1, Zenon DEF Reboot, Answered
<1>2. CASE ~Reboot
  <2>1. UNCHANGED <<jobs, hpc, sawOk, cpc, compileQ, state, busy>>
        BY <1>2, Zenon DEF CacheRead, CacheReadDone, ScanNext, StartScan, EndProgram,
           BoundaryLock, BoundarySkip, Activate, NoActivation, LiftPause, ScanStep,
           CleanupNext, CleanupReceive, CleanupDestroy, vars, httpVars, compVars, flagVars
  <2>2. InSlot => InSlot'
    <3>1. CASE Activate
      <4>1. pending # None /\ active' = pending /\ active < pending
            BY <3>1 DEF Activate, MayActivate, Custody, Newest
      <4>2. pending \in 1..jobs /\ active \in Nat
            BY <4>1, SlotsQueued DEF Only, Typed, TypeOK, OptJob
      <4>3. InSlot => pending = jobs
            BY <4>1, <4>2 DEF InSlot, Only, Typed, TypeOK, OptJob
      <4> QED BY <2>1, <4>1, <4>3 DEF InSlot, Only
    <3>2. CASE ~Activate
      <4>1. UNCHANGED <<pending, active>>
            BY <1>2, <3>2, Zenon DEF CacheRead, CacheReadDone, ScanNext, StartScan,
               EndProgram, BoundaryLock, BoundarySkip, NoActivation, LiftPause, ScanStep,
               CleanupNext, CleanupReceive, CleanupDestroy, vars, slotVars
      <4> QED BY <2>1, <4>1, Zenon DEF InSlot, Only
    <3> QED BY <3>1, <3>2
  <2> QED BY <2>1, <2>2, Zenon DEF Answered
<1> QED BY <1>1, <1>2

\* What the upload page concludes from an answer holds: not busy, "ok" and nothing
\* pending means that the latest upload runs, though the fields were read in three steps.
THEOREM AnswersAreTrue == Spec => []StatusTellsTruth
<1>1. Init => Answered
      BY InitAnswered
<1>2. Typed /\ Flight /\ Custody /\ Answered /\ [Next]_vars => Answered'
      BY HttpdAnswered, CompileAnswered, OthersAnswered DEF Next
<1>3. Answered => StatusTellsTruth
      BY DEF Answered, StatusTellsTruth, InSlot, Only
<1> QED BY <1>1, <1>2, <1>3, CustodyHolds, PTL DEF Spec
=============================================================================
