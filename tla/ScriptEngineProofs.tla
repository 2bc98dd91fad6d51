------------------------- MODULE ScriptEngineProofs -------------------------
(***************************************************************************)
(* Proofs about ScriptEngine, for every number of names, jobs and restarts *)
(* and every length of the retired queue.                                  *)
(*                                                                         *)
(* The inductive invariant is built in layers, each proved with the layers *)
(* below it as hypotheses:                                                 *)
(*   Typed      the values of the variables;                               *)
(*   SingleFlight  one job between the claim and its release;              *)
(*   SaveHeld   the save flag is up as long as the pending slot is the     *)
(*              compile task's own.                                        *)
(***************************************************************************)
EXTENDS ScriptEngine, TLAPS

USE MaxJobsAssumption, RetiredCapAssumption, MaxRebootsAssumption, NamesAssumption

-----------------------------------------------------------------------------
(***************************************************************************)
(* Typed: TypeOK is not inductive by itself. A send needs a number that is *)
(* still free, and a compile step needs a job.                             *)
(***************************************************************************)
Typed ==
  /\ TypeOK
  /\ Submitting => jobs < MaxJobs
  /\ cpc # "wait" => cjob # None

LEMMA InitTyped == Init => Typed
<1> SUFFICES ASSUME Init PROVE Typed
    OBVIOUS
<1> USE DEF Init, None, Absent
<1>1. /\ jobs \in OptJob /\ compileQ \in OptJob /\ active \in OptJob
      /\ pending \in OptJob /\ cjob \in OptJob /\ dying \in OptJob
      BY DEF OptJob
<1>2. /\ reboots \in 0..MaxReboots /\ jobName \in [Job -> Names \cup {NoName}]
      /\ fs \in [Names -> 0..(MaxJobs + 1)] /\ retired \in Seq(Job)
      OBVIOUS
<1>3. /\ mode \in {"RUN", "STOP"} /\ mutex \in Tasks /\ state \in States
      /\ text \in Texts /\ hpc \in HttpdPcs /\ cpc \in CompilePcs /\ spc \in ScanPcs
      BY DEF Tasks, States, Texts, HttpdPcs, CompilePcs, ScanPcs
<1>4. /\ busy \in BOOLEAN /\ pause \in BOOLEAN /\ saveBusy \in BOOLEAN
      /\ sampled \in BOOLEAN /\ sawOk \in BOOLEAN
      OBVIOUS
<1>5. /\ activeName \in Names \cup {NoName} /\ pendingName \in Names \cup {NoName}
      /\ leaked \subseteq Job /\ destroyed \subseteq Job
      OBVIOUS
<1>6. ~Submitting /\ cpc = "wait"
      BY DEF Submitting
<1> QED BY <1>1, <1>2, <1>3, <1>4, <1>5, <1>6, Zenon DEF Typed, TypeOK

LEMMA HttpdTyped == ASSUME Typed, HttpdNext PROVE Typed'
<1> USE DEF Typed, TypeOK, Submitting, HttpdPcs, httpVars, compVars, scanVars, flagVars,
            slotVars, goneVars, restVars, HttpdStep
<1>1. CASE StatusRead BY <1>1 DEF StatusRead
<1>2. CASE StatusLock BY <1>2 DEF StatusLock, Take, Tasks
<1>3. CASE StatusTimeout BY <1>3 DEF StatusTimeout
<1>17. CASE StatusAnswer BY <1>17 DEF StatusAnswer, Give, Tasks
<1>18. CASE SetMode BY <1>18 DEF SetMode
<1>4. CASE Preflight BY <1>4 DEF Preflight
<1>5. CASE PreflightLock BY <1>5 DEF PreflightLock, Take, Tasks
<1>6. CASE PreflightTimeout BY <1>6 DEF PreflightTimeout
<1>7. CASE PreflightAnswer BY <1>7 DEF PreflightAnswer, Give, Tasks
<1>8. CASE UploadFails BY <1>8 DEF UploadFails
<1>9. CASE Submit BY <1>9 DEF Submit, States
<1>10. CASE SubmitLock BY <1>10 DEF SubmitLock, Take, Tasks
<1>11. CASE SubmitTimeout BY <1>11 DEF SubmitTimeout
<1>12. CASE SubmitCheck BY <1>12 DEF SubmitCheck, Give, Tasks, States
<1>13. CASE SubmitNoMemory BY <1>13 DEF SubmitNoMemory
<1>14. ASSUME NEW n \in Names, SubmitSend(n) PROVE Typed'
  <2> USE <1>14 DEF SubmitSend
  <2>1. jobs < MaxJobs /\ jobs + 1 \in Job /\ jobs + 1 \in OptJob
        BY DEF Job, OptJob
  <2>2. /\ jobs' \in OptJob /\ jobName' \in [Job -> Names \cup {NoName}]
        /\ compileQ' \in OptJob
        BY <2>1
  <2>3. busy' \in BOOLEAN /\ state' \in States
        BY Zenon DEF States
  <2>4. ~Submitting' /\ hpc' \in HttpdPcs
        OBVIOUS
  <2> QED BY <2>2, <2>3, <2>4, Zenon
<1>15. CASE SubmitQueued BY <1>15 DEF SubmitQueued, States
<1>16. CASE SubmitAccepted BY <1>16 DEF SubmitAccepted, Texts
<1> QED BY <1>1, <1>2, <1>3, <1>4, <1>5, <1>6, <1>7, <1>8, <1>9, <1>10, <1>11, <1>12,
           <1>13, <1>14, <1>15, <1>16, <1>17, <1>18 DEF HttpdNext

LEMMA Stored ==
  ASSUME NEW f \in [Names -> 0..(MaxJobs + 1)], NEW n, NEW v \in 0..(MaxJobs + 1)
  PROVE  [f EXCEPT ![n] = v] \in [Names -> 0..(MaxJobs + 1)]
OBVIOUS

LEMMA CutTyped ==
  ASSUME TypeOK, NEW n, NEW v \in {Absent, Partial, fs[n]}
  PROVE  [fs EXCEPT ![n] = v] \in [Names -> 0..(MaxJobs + 1)]
<1>1. Absent \in 0..(MaxJobs + 1) /\ Partial \in 0..(MaxJobs + 1)
      BY MaxJobsAssumption DEF Absent, Partial
<1>2. fs \in [Names -> 0..(MaxJobs + 1)]
      BY DEF TypeOK
<1>3. CASE n \in Names
      <2>1. v \in 0..(MaxJobs + 1) BY <1>1, <1>2, <1>3
      <2> QED BY <2>1, <1>2, Stored
<1>4. CASE n \notin Names
      BY <1>2, <1>4
<1> QED BY <1>3, <1>4

LEMMA CompileTyped == ASSUME Typed, CompileNext PROVE Typed'
<1> USE DEF Typed, TypeOK, Submitting, CompilePcs, httpVars, scanVars, flagVars, slotVars,
            goneVars, restVars, CompileStep
<1>1. CASE JobReceive
  <2>1. cjob' \in OptJob /\ cjob' # None /\ compileQ' \in OptJob
        BY <1>1 DEF JobReceive, OptJob, None
  <2> QED BY <1>1, <2>1, Zenon DEF JobReceive, States
<1>2. CASE PauseScans BY <1>2 DEF PauseScans
<1>3. CASE ClaimSave BY <1>3 DEF ClaimSave
<1>4. CASE BuildOk BY <1>4 DEF BuildOk
<1>5. CASE BuildFails BY <1>5 DEF BuildFails, Texts, Job, OptJob, None
<1>6. CASE PublishLock BY <1>6 DEF PublishLock, Take, Tasks
<1>7. CASE Publish BY <1>7 DEF Publish, Give, Tasks, Job, OptJob, None
<1>8. CASE ReportOccupied BY <1>8 DEF ReportOccupied, Texts
<1>9. CASE ReportPending BY <1>9 DEF ReportPending, Texts
<1>10. CASE SaveOpen
  <2>1. fs' \in [Names -> 0..(MaxJobs + 1)]
        <3>1. PICK cut \in {Partial, fs[jobName[cjob]]} : fs' = [fs EXCEPT ![jobName[cjob]] = cut]
              BY <1>10 DEF SaveOpen
        <3> QED BY <3>1, CutTyped
  <2> QED BY <1>10, <2>1, Zenon DEF SaveOpen
<1>11. CASE SaveOpenFails
  <2>1. fs' \in [Names -> 0..(MaxJobs + 1)]
        <3>1. PICK cut \in {Partial, fs[jobName[cjob]]} : fs' = [fs EXCEPT ![jobName[cjob]] = cut]
              BY <1>11 DEF SaveOpenFails
        <3> QED BY <3>1, CutTyped
  <2> QED BY <1>11, <2>1, Zenon DEF SaveOpenFails
<1>12. CASE SaveWrite
  <2>1. fs' \in [Names -> 0..(MaxJobs + 1)]
        <3>1. cjob \in 0..(MaxJobs + 1)
              BY DEF OptJob
        <3> QED BY <1>12, <3>1, Stored, Zenon DEF SaveWrite
  <2> QED BY <1>12, <2>1, Zenon DEF SaveWrite
<1>13. CASE SaveWriteFails
  <2>1. fs' \in [Names -> 0..(MaxJobs + 1)]
        <3>1. PICK left \in {Absent, Partial, fs[jobName[cjob]]} :
                fs' = [fs EXCEPT ![jobName[cjob]] = left]
              BY <1>13 DEF SaveWriteFails
        <3> QED BY <3>1, CutTyped
  <2> QED BY <1>13, <2>1, Zenon DEF SaveWriteFails
<1>14. CASE DiscardLock BY <1>14 DEF DiscardLock, Take, Tasks
<1>15. CASE DiscardTimeout BY <1>15 DEF DiscardTimeout
<1>16. CASE Discard BY <1>16 DEF Discard, Give, Tasks, Job, OptJob, None
<1>17. CASE NameLock BY <1>17 DEF NameLock, Take, Tasks
<1>18. CASE NameTimeout BY <1>18 DEF NameTimeout
<1>19. CASE SetPendingName BY <1>19 DEF SetPendingName, Give, Tasks, Job, OptJob, None
<1>20. CASE ClearSaveBusy
  <2>1. cpc # "wait" /\ cpc' \in CompilePcs /\ UNCHANGED <<httpVars, scanVars>>
        BY <1>20, Zenon DEF ClearSaveBusy
  <2> QED BY <1>20, <2>1, Zenon DEF ClearSaveBusy
<1>21. CASE ReportOk BY <1>21 DEF ReportOk, States
<1>22. CASE UnpauseScans BY <1>22 DEF UnpauseScans
<1>23. CASE ReportFailed BY <1>23 DEF ReportFailed, States
<1>24. CASE Release
  <2>1. None \in OptJob
        BY DEF OptJob, None
  <2> QED BY <1>24, <2>1, Zenon DEF Release
<1> QED BY <1>1, <1>2, <1>3, <1>4, <1>5, <1>6, <1>7, <1>8, <1>9, <1>10, <1>11, <1>12,
           <1>13, <1>14, <1>15, <1>16, <1>17, <1>18, <1>19, <1>20, <1>21, <1>22, <1>23,
           <1>24 DEF CompileNext

LEMMA OthersTyped ==
  ASSUME Typed, CacheRead \/ CacheReadDone \/ ScanNext \/ CleanupNext \/ Reboot
  PROVE Typed'
<1> USE DEF Typed, TypeOK, Submitting, ScanPcs, httpVars, compVars, scanVars, flagVars,
            slotVars, goneVars, restVars, ScanStep
<1>1. CASE CacheRead BY <1>1 DEF CacheRead, Take, Tasks
<1>2. CASE CacheReadDone BY <1>2 DEF CacheReadDone, Give, Tasks
<1>3. CASE StartScan BY <1>3 DEF StartScan
<1>4. CASE EndProgram BY <1>4 DEF EndProgram
<1>5. CASE BoundaryLock BY <1>5 DEF BoundaryLock, Take, Tasks
<1>6. CASE BoundarySkip BY <1>6 DEF BoundarySkip
<1>7. CASE Activate
  <2> USE <1>7 DEF Activate
  <2>1. None \in OptJob /\ (active # None => active \in Job)
        BY DEF OptJob, Job, None
  <2>2. retired' \in Seq(Job) /\ leaked' \subseteq Job
    <3>1. CASE active = None
          BY <3>1, Zenon DEF Retire
    <3>2. CASE active # None /\ Len(retired) < RetiredCap
      <4>1. retired' = Append(retired, active) /\ leaked' = leaked
            BY <3>2, Zenon DEF Retire
      <4>2. retired \in Seq(Job) /\ active \in Job /\ leaked \subseteq Job
            BY <3>2, <2>1
      <4> HIDE DEF Activate, Typed, TypeOK
      <4> QED BY <4>1, <4>2
    <3>3. CASE active # None /\ ~(Len(retired) < RetiredCap)
          BY <3>3, <2>1, Zenon DEF Retire
    <3> QED BY <3>1, <3>2, <3>3
  <2>3. /\ active' \in OptJob /\ pending' \in OptJob
        /\ activeName' \in Names \cup {NoName} /\ pendingName' \in Names \cup {NoName}
        BY <2>1, Zenon DEF MovedFrom
  <2>4. spc' \in ScanPcs /\ sampled' \in BOOLEAN /\ mutex' \in Tasks /\ text' \in Texts
        BY Zenon DEF Give, Tasks, Texts
  <2> QED BY <2>2, <2>3, <2>4, Zenon
<1>8. CASE NoActivation BY <1>8 DEF NoActivation, Give, Tasks
<1>9. CASE LiftPause BY <1>9 DEF LiftPause
<1>10. CASE CleanupReceive BY <1>10 DEF CleanupReceive, Job, OptJob, None
<1>11. CASE CleanupDestroy BY <1>11 DEF CleanupDestroy, Deleted, Job, OptJob, None
<1>12. CASE Reboot
  <2> USE <1>12 DEF Reboot
  <2>1. None \in OptJob /\ 1..jobs \subseteq Job /\ reboots' \in 0..MaxReboots
        BY DEF OptJob, Job, None
  <2>2. /\ hpc' \in HttpdPcs /\ cpc' \in CompilePcs /\ spc' \in ScanPcs
        /\ mutex' \in Tasks /\ state' \in States /\ text' \in Texts
        BY Zenon DEF HttpdPcs, CompilePcs, Tasks, States, Texts
  <2>3. retired' \in Seq(Job) /\ leaked' \subseteq Job /\ destroyed' \subseteq Job
        BY <2>1
  <2>4. ~Submitting' /\ cpc' = "wait"
        OBVIOUS
  <2> QED BY <2>1, <2>2, <2>3, <2>4, Zenon
<1> QED BY <1>1, <1>2, <1>3, <1>4, <1>5, <1>6, <1>7, <1>8, <1>9, <1>10, <1>11, <1>12
        DEF ScanNext, CleanupNext

LEMMA StepTyped == Typed /\ [Next]_vars => Typed'
<1> SUFFICES ASSUME Typed, [Next]_vars PROVE Typed'
    OBVIOUS
<1>1. CASE UNCHANGED vars
      BY <1>1 DEF vars, httpVars, compVars, scanVars, flagVars, slotVars, goneVars,
                  restVars, Typed, TypeOK, Submitting
<1> QED BY <1>1, HttpdTyped, CompileTyped, OthersTyped DEF Next

-----------------------------------------------------------------------------
(***************************************************************************)
(* Flight: SingleFlight needs nothing but the types. SaveOwnsPending needs *)
(* to know that the flag the scan task respects is up from ClaimSave on,   *)
(* before anything is published, until the compile task clears it.         *)
(***************************************************************************)
ClaimPcs == SavePcs \cup {"build", "publish", "publishing", "occupied", "clear_failed"}

Flight ==
  /\ SingleFlight
  /\ cpc \in ClaimPcs => saveBusy
  /\ SaveOwnsPending

LEMMA InitFlight == Init => Flight
BY DEF Init, Flight, SingleFlight, Submitting, SaveOwnsPending, SavePcs, ClaimPcs, None

LEMMA HttpdFlight == ASSUME Typed, Flight, HttpdNext PROVE Flight'
<1>0. busy \in BOOLEAN /\ saveBusy \in BOOLEAN
      BY Zenon DEF Typed, TypeOK
<1> USE <1>0 DEF Flight, SingleFlight, Submitting, SaveOwnsPending, httpVars, compVars,
                 flagVars, slotVars, HttpdStep, None
<1>1. CASE StatusRead BY <1>1 DEF StatusRead
<1>2. CASE StatusLock BY <1>2 DEF StatusLock
<1>3. CASE StatusTimeout BY <1>3 DEF StatusTimeout
<1>17. CASE StatusAnswer BY <1>17 DEF StatusAnswer
<1>18. CASE SetMode BY <1>18 DEF SetMode
<1>4. CASE Preflight BY <1>4 DEF Preflight
<1>5. CASE PreflightLock BY <1>5 DEF PreflightLock
<1>6. CASE PreflightTimeout BY <1>6 DEF PreflightTimeout
<1>7. CASE PreflightAnswer BY <1>7 DEF PreflightAnswer
<1>8. CASE UploadFails BY <1>8 DEF UploadFails
<1>9. CASE Submit BY <1>9 DEF Submit
<1>10. CASE SubmitLock BY <1>10 DEF SubmitLock
<1>11. CASE SubmitTimeout BY <1>11 DEF SubmitTimeout
<1>12. CASE SubmitCheck BY <1>12 DEF SubmitCheck
<1>13. CASE SubmitNoMemory BY <1>13 DEF SubmitNoMemory
<1>14. ASSUME NEW n \in Names, SubmitSend(n) PROVE Flight'
  <2>1. jobs + 1 # 0
        BY DEF Typed, TypeOK, OptJob
  <2> QED BY <1>14, <2>1 DEF SubmitSend
<1>15. CASE SubmitQueued BY <1>15 DEF SubmitQueued
<1>16. CASE SubmitAccepted BY <1>16 DEF SubmitAccepted
<1> QED BY <1>1, <1>2, <1>3, <1>4, <1>5, <1>6, <1>7, <1>8, <1>9, <1>10, <1>11, <1>12,
           <1>13, <1>14, <1>15, <1>16, <1>17, <1>18 DEF HttpdNext

LEMMA CompileFlight == ASSUME Typed, Flight, CompileNext PROVE Flight'
<1>0. busy \in BOOLEAN /\ saveBusy \in BOOLEAN
      BY Zenon DEF Typed, TypeOK
<1> USE <1>0 DEF Flight, SingleFlight, Submitting, SaveOwnsPending, SavePcs, ClaimPcs,
                 httpVars, flagVars, slotVars, CompileStep, None
<1>1. CASE JobReceive BY <1>1 DEF JobReceive
<1>2. CASE PauseScans BY <1>2 DEF PauseScans
<1>3. CASE ClaimSave BY <1>3 DEF ClaimSave
<1>4. CASE BuildOk BY <1>4 DEF BuildOk
<1>5. CASE BuildFails BY <1>5 DEF BuildFails
<1>6. CASE PublishLock BY <1>6 DEF PublishLock
<1>7. CASE Publish BY <1>7 DEF Publish
<1>8. CASE ReportOccupied BY <1>8 DEF ReportOccupied
<1>9. CASE ReportPending BY <1>9 DEF ReportPending
<1>10. CASE SaveOpen BY <1>10 DEF SaveOpen
<1>11. CASE SaveOpenFails BY <1>11 DEF SaveOpenFails
<1>12. CASE SaveWrite BY <1>12 DEF SaveWrite
<1>13. CASE SaveWriteFails BY <1>13 DEF SaveWriteFails
<1>14. CASE DiscardLock BY <1>14 DEF DiscardLock
<1>15. CASE DiscardTimeout BY <1>15 DEF DiscardTimeout
<1>16. CASE Discard BY <1>16 DEF Discard
<1>17. CASE NameLock BY <1>17 DEF NameLock
<1>18. CASE NameTimeout BY <1>18 DEF NameTimeout
<1>19. CASE SetPendingName BY <1>19 DEF SetPendingName
<1>20. CASE ClearSaveBusy BY <1>20 DEF ClearSaveBusy
<1>21. CASE ReportOk BY <1>21 DEF ReportOk
<1>22. CASE UnpauseScans BY <1>22 DEF UnpauseScans
<1>23. CASE ReportFailed BY <1>23 DEF ReportFailed
<1>24. CASE Release BY <1>24 DEF Release
<1> QED BY <1>1, <1>2, <1>3, <1>4, <1>5, <1>6, <1>7, <1>8, <1>9, <1>10, <1>11, <1>12,
           <1>13, <1>14, <1>15, <1>16, <1>17, <1>18, <1>19, <1>20, <1>21, <1>22, <1>23,
           <1>24 DEF CompileNext

LEMMA OthersFlight ==
  ASSUME Typed, Flight, CacheRead \/ CacheReadDone \/ ScanNext \/ CleanupNext \/ Reboot
  PROVE  Flight'
<1>0. busy \in BOOLEAN /\ saveBusy \in BOOLEAN
      BY Zenon DEF Typed, TypeOK
<1> USE <1>0 DEF Flight, SingleFlight, Submitting, SaveOwnsPending, SavePcs, ClaimPcs,
                 httpVars, compVars, flagVars, slotVars, ScanStep, None
<1>1. CASE CacheRead BY <1>1 DEF CacheRead
<1>2. CASE CacheReadDone BY <1>2 DEF CacheReadDone
<1>3. CASE StartScan BY <1>3 DEF StartScan
<1>4. CASE EndProgram BY <1>4 DEF EndProgram
<1>5. CASE BoundaryLock BY <1>5 DEF BoundaryLock
<1>6. CASE BoundarySkip BY <1>6 DEF BoundarySkip
<1>7. CASE Activate BY <1>7 DEF Activate, MayActivate
<1>8. CASE NoActivation BY <1>8 DEF NoActivation
<1>9. CASE LiftPause BY <1>9 DEF LiftPause
<1>10. CASE CleanupReceive BY <1>10 DEF CleanupReceive
<1>11. CASE CleanupDestroy BY <1>11 DEF CleanupDestroy
<1>12. CASE Reboot BY <1>12 DEF Reboot
<1> QED BY <1>1, <1>2, <1>3, <1>4, <1>5, <1>6, <1>7, <1>8, <1>9, <1>10, <1>11, <1>12 DEF
           ScanNext, CleanupNext

LEMMA StepFlight == Typed /\ Flight /\ [Next]_vars => Flight'
<1> SUFFICES ASSUME Typed, Flight, [Next]_vars PROVE Flight'
    OBVIOUS
<1>1. CASE UNCHANGED vars
      BY <1>1 DEF vars, httpVars, compVars, flagVars, slotVars, Flight, SingleFlight,
                  Submitting, SaveOwnsPending
<1> QED BY <1>1, HttpdFlight, CompileFlight, OthersFlight DEF Next

THEOREM Invariant == Spec => [](Typed /\ Flight)
<1>1. Init => Typed /\ Flight
      BY InitTyped, InitFlight
<1>2. Typed /\ Flight /\ [Next]_vars => (Typed /\ Flight)'
      BY StepTyped, StepFlight
<1> QED BY <1>1, <1>2, PTL DEF Spec

\* Every variable keeps its type, whatever the number of jobs, names and restarts.
THEOREM TypesHold == Spec => []TypeOK
<1>1. Typed => TypeOK
      BY DEF Typed
<1> QED BY <1>1, Invariant, PTL

\* One job between a handler's claim of g_compile_busy and the compile task's release.
THEOREM OneJobAtATime == Spec => []SingleFlight
<1>1. Flight => SingleFlight
      BY DEF Flight
<1> QED BY <1>1, Invariant, PTL

\* Between publication and the clearing of the save flag, the pending slot holds the
\* compile task's own program.
THEOREM SaveKeepsItsProgram == Spec => []SaveOwnsPending
<1>1. Flight => SaveOwnsPending
      BY DEF Flight
<1> QED BY <1>1, Invariant, PTL
=============================================================================
