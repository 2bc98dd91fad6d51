---------------------------- MODULE ScriptEngine ----------------------------
(***************************************************************************)
(* The hot-reload engine of the PLC (src/main/script_engine.cpp), with the *)
(* HTTP handler that feeds it (src/main/ethernet_web.c) and the task that  *)
(* calls it every 5 ms (src/main/perf_test.cpp).                           *)
(*                                                                         *)
(* Four tasks share the engine's state:                                    *)
(*   httpd    receives an upload, checks the engine twice and queues a job *)
(*   compile  builds the program, publishes it as pending, saves its text  *)
(*   scan     runs the active program and, between two scans, replaces it  *)
(*            by the pending one                                           *)
(*   cleanup  deletes a replaced program some time later                   *)
(* and a fifth, cache, only reads names under the program mutex. Each task *)
(* has a program counter (hpc, cpc, spc; cleanup's is dying, cache's is    *)
(* mutex) and one action per stretch of code between two accesses that     *)
(* another task can observe.                                               *)
(*                                                                         *)
(* A job, the ScriptProgram built from it and the text saved for it are    *)
(* all named by the job's number: jobs are numbered as httpd queues them.  *)
(* Counters that are only reported (requests, scans, pause windows, times, *)
(* heap sizes) are left out; the process image is the PlcIo module's.      *)
(***************************************************************************)
EXTENDS Naturals, Sequences, FiniteSets

CONSTANTS
  Names,       \* file names an upload may ask for, after sanitizing
  NoName,      \* the empty string
  MaxJobs,     \* bound on the jobs queued in a behaviour
  RetiredCap,  \* length of g_retired_queue
  MaxReboots   \* bound on the restarts in a behaviour

ASSUME NamesAssumption      == NoName \notin Names
ASSUME MaxJobsAssumption    == MaxJobs \in Nat
ASSUME RetiredCapAssumption == RetiredCap \in Nat
ASSUME MaxRebootsAssumption == MaxReboots \in Nat

Job  == 1..MaxJobs
None == 0                     \* nullptr, an empty queue slot
OptJob == 0..MaxJobs

Absent  == 0                  \* what /scripts/<name> holds when it holds no job's text:
Partial == MaxJobs + 1        \* nothing, or a text cut short

(***************************************************************************)
(* Program counters.                                                       *)
(***************************************************************************)
HttpdPcs == {"idle", "status", "reading", "preflight", "preflight_held", "body", "submit",
             "submit_held", "copy", "sent", "accepted"}
CompilePcs == {"wait", "defer", "paused", "build", "publish", "publishing", "occupied",
               "published", "save", "write", "discard", "discarding", "name", "naming",
               "clear_ok", "clear_failed", "ok", "unpause", "failed", "release"}
ScanPcs == {"wait", "run", "boundary", "activate", "unpause"}

States == {"idle", "queued", "compiling", "ok", "failed", "queue_full"}
Texts  == {"none", "accepted", "build_error", "occupied", "pending_ok", "active"}
Tasks  == {"free", "httpd", "cache", "compile", "scan"}

VARIABLES
  mode,        \* g_plc_runtime_enabled
  jobs,        \* number of the last job queued
  jobName,     \* the file name each job was submitted under
  mutex,       \* holder of g_program_mutex
  busy,        \* g_compile_busy
  state,       \* g_state
  text,        \* g_last_error, the "last_result" of the status page
  pause,       \* g_pause_script_for_compile
  saveBusy,    \* g_save_after_compile_busy
  compileQ,    \* g_compile_queue, one slot
  active,      \* g_active_program
  pending,     \* g_pending_program
  activeName,  \* g_active_script_name
  pendingName, \* g_pending_script_name
  retired,     \* g_retired_queue
  dying,       \* the program the cleanup task has taken off the queue
  leaked,      \* programs dropped because g_retired_queue was full
  destroyed,   \* programs deleted, or lost with the RAM of an earlier boot
  fs,          \* /scripts in LittleFS
  reboots,
  hpc, cpc, spc,
  sawOk,       \* httpd's locals of a status answer: state ok and not busy
  cjob,        \* the compile task's job
  sampled      \* the scan task's local copy of pause

httpVars == <<hpc, jobs, jobName, sawOk>>
compVars == <<cpc, cjob>>
scanVars == <<spc, sampled>>
flagVars == <<busy, state, text, pause, saveBusy>>
slotVars == <<active, pending, activeName, pendingName>>
goneVars == <<retired, dying, leaked, destroyed>>
restVars == <<mode, fs, reboots>>
vars == <<httpVars, compVars, scanVars, flagVars, slotVars, goneVars, restVars,
          mutex, compileQ>>

Init ==
  /\ mode = "RUN" /\ reboots = 0
  /\ fs = [n \in Names |-> Absent]
  /\ jobs = 0 /\ jobName = [j \in Job |-> NoName]
  /\ mutex = "free"
  /\ busy = FALSE /\ state = "idle" /\ text = "none" /\ pause = FALSE /\ saveBusy = FALSE
  /\ compileQ = None /\ active = None /\ pending = None
  /\ activeName = NoName /\ pendingName = NoName
  /\ retired = <<>> /\ dying = None /\ leaked = {} /\ destroyed = {}
  /\ hpc = "idle" /\ cpc = "wait" /\ spc = "wait" /\ cjob = None /\ sampled = FALSE
  /\ sawOk = FALSE

(***************************************************************************)
(* The program mutex. A take with a timeout comes back empty-handed only   *)
(* while another task holds the mutex. At 100 ticks per second the 2 ms    *)
(* timeouts are no wait at all and the 10 ms ones end at the next tick, so *)
(* any holder will do (Held). The compile task's 20 ms outlast a critical  *)
(* section of the scan task, which only the 1 ms task can preempt, but not *)
(* one of httpd or cache that is kept off core 1 (HeldLong).               *)
(***************************************************************************)
Take(t) == mutex = "free" /\ mutex' = t
Give    == mutex' = "free"
Held    == mutex # "free"
HeldLong == mutex \in {"httpd", "cache"}

-----------------------------------------------------------------------------
(***************************************************************************)
(* httpd: POST /api/upload_script, GET /api/script_status, POST /api/plc_mode. *)
(***************************************************************************)
HttpdStep(from, to) == hpc = from /\ hpc' = to

StatusRead ==       \* GET /api/script_status reads state and busy ...
  /\ HttpdStep("idle", "status")
  /\ sawOk' = (state = "ok" /\ ~busy)
  /\ UNCHANGED <<jobs, jobName, compVars, scanVars, flagVars, slotVars, goneVars, restVars,
                 mutex, compileQ>>

StatusLock ==       \* ... and then, under the mutex, the pending slot and the names
  /\ HttpdStep("status", "reading") /\ Take("httpd")
  /\ UNCHANGED <<jobs, jobName, sawOk, compVars, scanVars, flagVars, slotVars, goneVars,
                 restVars, compileQ>>

StatusTimeout ==    \* the answer says pending=false and gives no names
  /\ HttpdStep("status", "idle") /\ Held
  /\ sawOk' = FALSE
  /\ UNCHANGED <<jobs, jobName, compVars, scanVars, flagVars, slotVars, goneVars,
                 restVars, mutex, compileQ>>

StatusAnswer ==
  /\ HttpdStep("reading", "idle") /\ Give
  /\ sawOk' = FALSE
  /\ UNCHANGED <<jobs, jobName, compVars, scanVars, flagVars, slotVars, goneVars,
                 restVars, compileQ>>

SetMode ==          \* POST /api/plc_mode
  /\ hpc = "idle"
  /\ mode' \in {"RUN", "STOP"} \ {mode}
  /\ UNCHANGED <<httpVars, compVars, scanVars, flagVars, slotVars, goneVars, fs, reboots,
                 mutex, compileQ>>

Preflight ==        \* script_engine_can_accept_upload: busy answers 503
  /\ HttpdStep("idle", "preflight") /\ ~busy
  /\ UNCHANGED <<jobs, jobName, sawOk, compVars, scanVars, flagVars, slotVars, goneVars,
                 restVars, mutex, compileQ>>

PreflightLock ==
  /\ HttpdStep("preflight", "preflight_held") /\ Take("httpd")
  /\ UNCHANGED <<jobs, jobName, sawOk, compVars, scanVars, flagVars, slotVars, goneVars,
                 restVars, compileQ>>

PreflightTimeout == \* the mutex is not had: the pending slot goes unchecked
  /\ HttpdStep("preflight", "body") /\ Held
  /\ UNCHANGED <<jobs, jobName, sawOk, compVars, scanVars, flagVars, slotVars, goneVars,
                 restVars, mutex, compileQ>>

PreflightAnswer ==
  /\ HttpdStep("preflight_held", IF pending = None THEN "body" ELSE "idle") /\ Give
  /\ UNCHANGED <<jobs, jobName, sawOk, compVars, scanVars, flagVars, slotVars, goneVars,
                 restVars, compileQ>>

UploadFails ==      \* no buffer, a broken connection, a refused file name
  /\ HttpdStep("body", "idle")
  /\ UNCHANGED <<jobs, jobName, sawOk, compVars, scanVars, flagVars, slotVars, goneVars,
                 restVars, mutex, compileQ>>

Submit ==           \* the compare-and-swap on g_compile_busy
  /\ jobs < MaxJobs
  /\ HttpdStep("body", IF busy THEN "idle" ELSE "submit")
  /\ busy' = TRUE
  /\ state' = IF busy THEN "queue_full" ELSE state
  /\ UNCHANGED <<jobs, jobName, sawOk, compVars, scanVars, text, pause, saveBusy, slotVars,
                 goneVars, restVars, mutex, compileQ>>

SubmitLock ==
  /\ HttpdStep("submit", "submit_held") /\ Take("httpd")
  /\ UNCHANGED <<jobs, jobName, sawOk, compVars, scanVars, flagVars, slotVars, goneVars,
                 restVars, compileQ>>

SubmitTimeout ==
  /\ HttpdStep("submit", "copy") /\ Held
  /\ UNCHANGED <<jobs, jobName, sawOk, compVars, scanVars, flagVars, slotVars, goneVars,
                 restVars, mutex, compileQ>>

SubmitCheck ==
  /\ HttpdStep("submit_held", IF pending = None THEN "copy" ELSE "idle") /\ Give
  /\ busy'  = (pending = None)
  /\ state' = IF pending = None THEN state ELSE "queue_full"
  /\ UNCHANGED <<jobs, jobName, sawOk, compVars, scanVars, text, pause, saveBusy, slotVars,
                 goneVars, restVars, compileQ>>

\* Mutant: the early return forgets to drop the claim.
SubmitNoMemoryKeepsClaim ==
  /\ HttpdStep("copy", "idle")
  /\ UNCHANGED <<jobs, jobName, sawOk, compVars, scanVars, flagVars, slotVars, goneVars,
                 restVars, mutex, compileQ>>

SubmitNoMemory ==
  /\ HttpdStep("copy", "idle")
  /\ busy' = FALSE
  /\ UNCHANGED <<jobs, jobName, sawOk, compVars, scanVars, state, text, pause, saveBusy,
                 slotVars, goneVars, restVars, mutex, compileQ>>

SubmitSend(n) ==    \* xQueueSend with timeout 0
  /\ HttpdStep("copy", IF compileQ = None THEN "sent" ELSE "idle")
  /\ IF compileQ = None
     THEN /\ compileQ' = jobs + 1 /\ jobs' = jobs + 1
          /\ jobName' = [jobName EXCEPT ![jobs + 1] = n]
          /\ UNCHANGED <<busy, state>>
     ELSE /\ busy' = FALSE /\ state' = "queue_full"
          /\ UNCHANGED <<compileQ, jobs, jobName>>
  /\ UNCHANGED <<sawOk, compVars, scanVars, text, pause, saveBusy, slotVars, goneVars,
                 restVars, mutex>>

SubmitQueued ==     \* the job is already the compile task's
  /\ HttpdStep("sent", "accepted")
  /\ state' = "queued"
  /\ UNCHANGED <<jobs, jobName, sawOk, compVars, scanVars, busy, text, pause, saveBusy, slotVars,
                 goneVars, restVars, mutex, compileQ>>

SubmitAccepted ==
  /\ HttpdStep("accepted", "idle")
  /\ text' = "accepted"
  /\ UNCHANGED <<jobs, jobName, sawOk, compVars, scanVars, busy, state, pause, saveBusy,
                 slotVars, goneVars, restVars, mutex, compileQ>>

HttpdNext ==
  \/ StatusRead \/ StatusLock \/ StatusTimeout \/ StatusAnswer \/ SetMode
  \/ Preflight \/ PreflightLock \/ PreflightTimeout \/ PreflightAnswer \/ UploadFails
  \/ Submit \/ SubmitLock \/ SubmitTimeout \/ SubmitCheck \/ SubmitNoMemory
  \/ \E n \in Names : SubmitSend(n)
  \/ SubmitQueued \/ SubmitAccepted

(***************************************************************************)
(* cache: plc_data_cache_task reads the active name for /api/plc_data.     *)
(***************************************************************************)
CacheRead ==
  /\ Take("cache")
  /\ UNCHANGED <<httpVars, compVars, scanVars, flagVars, slotVars, goneVars, restVars,
                 compileQ>>

CacheReadDone ==
  /\ mutex = "cache" /\ Give
  /\ UNCHANGED <<httpVars, compVars, scanVars, flagVars, slotVars, goneVars, restVars,
                 compileQ>>

-----------------------------------------------------------------------------
(***************************************************************************)
(* compile: script_compile_task, with compile_to_pending and the save to   *)
(* LittleFS inlined where it calls them. Every job has a file name, as     *)
(* upload_script_get_query_name defaults it to "main.as".                  *)
(***************************************************************************)
CompileStep(from, to) == cpc = from /\ cpc' = to /\ UNCHANGED <<httpVars, scanVars>>

JobReceive ==
  /\ compileQ # None
  /\ CompileStep("wait", "defer")
  /\ cjob' = compileQ /\ compileQ' = None
  /\ state' = "compiling"
  /\ UNCHANGED <<busy, text, pause, saveBusy, slotVars, goneVars, restVars, mutex>>

PauseScans ==       \* after the 25 ms delay
  /\ CompileStep("defer", "paused")
  /\ pause' = TRUE
  /\ UNCHANGED <<cjob, busy, state, text, saveBusy, slotVars, goneVars, restVars, mutex,
                 compileQ>>

ClaimSave ==
  /\ CompileStep("paused", "build")
  /\ saveBusy' = TRUE
  /\ UNCHANGED <<cjob, busy, state, text, pause, slotVars, goneVars, restVars, mutex,
                 compileQ>>

BuildOk ==
  /\ CompileStep("build", "publish")
  /\ UNCHANGED <<cjob, flagVars, slotVars, goneVars, restVars, mutex, compileQ>>

\* Mutant: the result of compile() is ignored.
BuildFailsUnnoticed ==
  /\ CompileStep("build", "clear_ok")
  /\ text' = "build_error"
  /\ destroyed' = destroyed \cup {cjob}
  /\ UNCHANGED <<cjob, busy, state, pause, saveBusy, slotVars, retired, dying, leaked,
                 restVars, mutex, compileQ>>

BuildFails ==       \* the unique_ptr deletes the half-built program
  /\ CompileStep("build", "clear_failed")
  /\ text' = "build_error"
  /\ destroyed' = destroyed \cup {cjob}
  /\ UNCHANGED <<cjob, busy, state, pause, saveBusy, slotVars, retired, dying, leaked,
                 restVars, mutex, compileQ>>

PublishLock ==      \* portMAX_DELAY: no timeout
  /\ CompileStep("publish", "publishing") /\ Take("compile")
  /\ UNCHANGED <<cjob, flagVars, slotVars, goneVars, restVars, compileQ>>

SlotAssumedFree == TRUE             \* Mutant: the slot is not looked at
SlotFree        == pending = None

Publish ==
  /\ CompileStep("publishing", IF SlotFree THEN "published" ELSE "occupied") /\ Give
  /\ pending' = IF SlotFree THEN cjob ELSE pending
  /\ destroyed' = IF SlotFree THEN destroyed ELSE destroyed \cup {cjob}
  /\ UNCHANGED <<cjob, flagVars, active, activeName, pendingName, retired, dying, leaked,
                 restVars, compileQ>>

ReportOccupied ==
  /\ CompileStep("occupied", "clear_failed")
  /\ text' = "occupied"
  /\ UNCHANGED <<cjob, busy, state, pause, saveBusy, slotVars, goneVars, restVars, mutex,
                 compileQ>>

ReportPending ==
  /\ CompileStep("published", "save")
  /\ text' = "pending_ok"
  /\ UNCHANGED <<cjob, busy, state, pause, saveBusy, slotVars, goneVars, restVars, mutex,
                 compileQ>>

\* What LittleFS makes of a call that fails, or of one that succeeds, is FileStore's; here
\* a file is written, or cut, or as before.
SaveOpen ==         \* fopen "wb" empties the file, unless its sync fails
  /\ CompileStep("save", "write")
  /\ \E cut \in {Partial, fs[jobName[cjob]]} : fs' = [fs EXCEPT ![jobName[cjob]] = cut]
  /\ UNCHANGED <<cjob, flagVars, slotVars, goneVars, mode, reboots, mutex, compileQ>>

SaveOpenFails ==    \* a new file may have been entered
  /\ CompileStep("save", "discard")
  /\ \E cut \in {Partial, fs[jobName[cjob]]} : fs' = [fs EXCEPT ![jobName[cjob]] = cut]
  /\ UNCHANGED <<cjob, flagVars, slotVars, goneVars, mode, reboots, mutex, compileQ>>

SaveWrite ==        \* fwrite and fclose succeed
  /\ CompileStep("write", "name")
  /\ fs' = [fs EXCEPT ![jobName[cjob]] = cjob]
  /\ UNCHANGED <<cjob, flagVars, slotVars, goneVars, mode, reboots, mutex, compileQ>>

SaveWriteFails ==   \* one of them fails: unlink, which may be refused
  /\ CompileStep("write", "discard")
  /\ \E left \in {Absent, Partial, fs[jobName[cjob]]} :
       fs' = [fs EXCEPT ![jobName[cjob]] = left]
  /\ UNCHANGED <<cjob, flagVars, slotVars, goneVars, mode, reboots, mutex, compileQ>>

DiscardLock ==
  /\ CompileStep("discard", "discarding") /\ Take("compile")
  /\ UNCHANGED <<cjob, flagVars, slotVars, goneVars, restVars, compileQ>>

DiscardTimeout ==   \* the failed job's program stays pending
  /\ CompileStep("discard", "clear_failed") /\ HeldLong
  /\ UNCHANGED <<cjob, flagVars, slotVars, goneVars, restVars, mutex, compileQ>>

Discard ==          \* g_pending_program.reset()
  /\ CompileStep("discarding", "clear_failed") /\ Give
  /\ pending' = None
  /\ destroyed' = destroyed \cup ({pending} \ {None})
  /\ UNCHANGED <<cjob, flagVars, active, activeName, pendingName, retired, dying, leaked,
                 restVars, compileQ>>

NameLock ==
  /\ CompileStep("name", "naming") /\ Take("compile")
  /\ UNCHANGED <<cjob, flagVars, slotVars, goneVars, restVars, compileQ>>

NameTimeout ==      \* the pending program stays without a name
  /\ CompileStep("name", "clear_ok") /\ HeldLong
  /\ UNCHANGED <<cjob, flagVars, slotVars, goneVars, restVars, mutex, compileQ>>

SetPendingName ==
  /\ CompileStep("naming", "clear_ok") /\ Give
  /\ pendingName' = jobName[cjob]
  /\ UNCHANGED <<cjob, flagVars, active, pending, activeName, goneVars, restVars, compileQ>>

ClearSaveBusy ==
  /\ \/ CompileStep("clear_ok", "ok")
     \/ CompileStep("clear_failed", "unpause")
  /\ saveBusy' = FALSE
  /\ UNCHANGED <<cjob, busy, state, text, pause, slotVars, goneVars, restVars, mutex,
                 compileQ>>

ReportOk ==         \* the pause is left for the scan task to lift
  /\ CompileStep("ok", "release")
  /\ state' = "ok"
  /\ UNCHANGED <<cjob, busy, text, pause, saveBusy, slotVars, goneVars, restVars, mutex,
                 compileQ>>

UnpauseScans ==
  /\ CompileStep("unpause", "failed")
  /\ pause' = FALSE
  /\ UNCHANGED <<cjob, busy, state, text, saveBusy, slotVars, goneVars, restVars, mutex,
                 compileQ>>

ReportFailed ==
  /\ CompileStep("failed", "release")
  /\ state' = "failed"
  /\ UNCHANGED <<cjob, busy, text, pause, saveBusy, slotVars, goneVars, restVars, mutex,
                 compileQ>>

Release ==
  /\ CompileStep("release", "wait")
  /\ busy' = FALSE /\ cjob' = None
  /\ UNCHANGED <<state, text, pause, saveBusy, slotVars, goneVars, restVars, mutex,
                 compileQ>>

CompileNext ==
  \/ JobReceive \/ PauseScans \/ ClaimSave \/ BuildOk \/ BuildFails
  \/ PublishLock \/ Publish \/ ReportOccupied \/ ReportPending
  \/ SaveOpen \/ SaveOpenFails \/ SaveWrite \/ SaveWriteFails
  \/ DiscardLock \/ DiscardTimeout \/ Discard
  \/ NameLock \/ NameTimeout \/ SetPendingName
  \/ ClearSaveBusy \/ ReportOk \/ UnpauseScans \/ ReportFailed \/ Release

-----------------------------------------------------------------------------
(***************************************************************************)
(* scan: script_scan_task's call of script_engine_run_scan. The pause flag *)
(* is read once, when the scan starts; the boundary acts on that copy,     *)
(* which dies with the call.                                               *)
(***************************************************************************)
ScanStep(from, to) ==
  /\ spc = from /\ spc' = to
  /\ sampled' = (sampled /\ to # "wait")
  /\ UNCHANGED <<httpVars, compVars>>

StartScan ==
  /\ mode = "RUN"
  /\ spc = "wait"
  /\ spc' = IF ~pause /\ active # None THEN "run" ELSE "boundary"
  /\ sampled' = pause
  /\ UNCHANGED <<httpVars, compVars, flagVars, slotVars, goneVars, restVars, mutex, compileQ>>

EndProgram ==       \* Scan() returns, or raised an exception
  /\ ScanStep("run", "boundary")
  /\ UNCHANGED <<flagVars, slotVars, goneVars, restVars, mutex, compileQ>>

BoundaryLock ==
  /\ ScanStep("boundary", "activate") /\ Take("scan")
  /\ UNCHANGED <<flagVars, slotVars, goneVars, restVars, compileQ>>

BoundarySkip ==     \* timeout of 0 ticks: no activation in this scan
  /\ ScanStep("boundary", "wait") /\ Held
  /\ UNCHANGED <<flagVars, slotVars, goneVars, restVars, mutex, compileQ>>

\* Mutant: neither a null program nor a full queue is noticed.
RetireUnchecked(p) == retired' = Append(retired, p) /\ UNCHANGED leaked

\* queue_retired_program_for_cleanup: a full queue drops the program
Retire(p) ==
  IF p = None THEN UNCHANGED <<retired, leaked>>
  ELSE IF Len(retired) < RetiredCap
       THEN retired' = Append(retired, p) /\ UNCHANGED leaked
       ELSE leaked' = leaked \cup {p} /\ UNCHANGED retired

MayActivateUnsaved == pending # None                         \* Mutant: the save not awaited
MayActivatePaused  == pending # None /\ ~saveBusy /\ sampled  \* Mutant: only in a pause
MayActivate        == pending # None /\ ~saveBusy

Swapped   == active                 \* Mutant: std::swap for std::move
MovedFrom == None                   \* what std::move leaves in g_pending_program

Activate ==         \* g_last_error is written only if its mutex is free
  /\ MayActivate
  /\ ScanStep("activate", IF sampled THEN "unpause" ELSE "wait") /\ Give
  /\ active' = pending /\ pending' = MovedFrom
  /\ activeName' = pendingName /\ pendingName' = NoName
  /\ Retire(active)
  /\ text' \in {text, "active"}
  /\ UNCHANGED <<busy, state, pause, saveBusy, dying, destroyed, restVars,
                 compileQ>>

NoActivation ==
  /\ ~MayActivate
  /\ ScanStep("activate", "wait") /\ Give
  /\ UNCHANGED <<flagVars, slotVars, goneVars, restVars, compileQ>>

LiftPause ==
  /\ ScanStep("unpause", "wait")
  /\ pause' = FALSE
  /\ UNCHANGED <<busy, state, text, saveBusy, slotVars, goneVars, restVars,
                 mutex, compileQ>>

ScanNext ==
  \/ StartScan \/ EndProgram \/ BoundaryLock \/ BoundarySkip
  \/ Activate \/ NoActivation \/ LiftPause

(***************************************************************************)
(* cleanup: script_cleanup_task.                                           *)
(***************************************************************************)
CleanupReceive ==
  /\ dying = None /\ retired # <<>>
  /\ dying' = Head(retired) /\ retired' = Tail(retired)
  /\ UNCHANGED <<httpVars, compVars, scanVars, flagVars, slotVars, leaked, destroyed,
                 restVars, mutex, compileQ>>

NotDeleted(p) == {}                 \* Mutant: delete forgotten
Deleted(p)    == {p}

CleanupDestroy ==   \* after the 100 ms delay
  /\ dying # None
  /\ destroyed' = destroyed \cup Deleted(dying)
  /\ dying' = None
  /\ UNCHANGED <<httpVars, compVars, scanVars, flagVars, slotVars, retired, leaked,
                 restVars, mutex, compileQ>>

CleanupNext == CleanupReceive \/ CleanupDestroy

(***************************************************************************)
(* A reset of the board: the statics take their initial values again, the  *)
(* heap is gone, LittleFS keeps what reached it. Nothing is loaded.        *)
(***************************************************************************)
Reboot ==
  /\ reboots < MaxReboots
  /\ reboots' = reboots + 1
  /\ mode' = "RUN"
  /\ mutex' = "free"
  /\ busy' = FALSE /\ state' = "idle" /\ text' = "none" /\ pause' = FALSE
  /\ saveBusy' = FALSE
  /\ compileQ' = None /\ active' = None /\ pending' = None
  /\ activeName' = NoName /\ pendingName' = NoName
  /\ retired' = <<>> /\ dying' = None /\ leaked' = {} /\ destroyed' = 1..jobs
  /\ hpc' = "idle" /\ cpc' = "wait" /\ spc' = "wait" /\ cjob' = None /\ sampled' = FALSE
  /\ sawOk' = FALSE
  /\ UNCHANGED <<jobs, jobName, fs>>

Next ==
  \/ HttpdNext \/ CacheRead \/ CacheReadDone \/ CompileNext \/ ScanNext \/ CleanupNext
  \/ Reboot

Spec == Init /\ [][Next]_vars

-----------------------------------------------------------------------------
(***************************************************************************)
(* Properties.                                                             *)
(***************************************************************************)

\* Every variable stays within the values its C++ counterpart can take.
TypeOK ==
  /\ mode \in {"RUN", "STOP"} /\ reboots \in 0..MaxReboots
  /\ jobs \in OptJob /\ jobName \in [Job -> Names \cup {NoName}]
  /\ fs \in [Names -> 0..(MaxJobs + 1)]
  /\ mutex \in Tasks /\ state \in States /\ text \in Texts
  /\ busy \in BOOLEAN /\ pause \in BOOLEAN /\ saveBusy \in BOOLEAN /\ sampled \in BOOLEAN
  /\ sawOk \in BOOLEAN
  /\ compileQ \in OptJob /\ active \in OptJob /\ pending \in OptJob
  /\ cjob \in OptJob /\ dying \in OptJob
  /\ activeName \in Names \cup {NoName} /\ pendingName \in Names \cup {NoName}
  /\ retired \in Seq(Job) /\ leaked \subseteq Job /\ destroyed \subseteq Job
  /\ hpc \in HttpdPcs /\ cpc \in CompilePcs /\ spc \in ScanPcs

(***************************************************************************)
(* Who answers for a program: the queued job it will be built from, the    *)
(* compile task until it publishes it, one of the two slots, the retired   *)
(* queue, the cleanup task, or nobody any more.                            *)
(***************************************************************************)
Only(p)     == {p} \ {None}
BuildPcs    == {"defer", "paused", "build", "publish", "publishing"}
Built       == IF cpc \in BuildPcs THEN Only(cjob) ELSE {}
RetiredSet  == {retired[i] : i \in 1..Len(retired)}
Owners      == 1..8
Owned(o) ==
  CASE o = 1 -> Only(compileQ)
    [] o = 2 -> Built
    [] o = 3 -> Only(pending)
    [] o = 4 -> Only(active)
    [] o = 5 -> RetiredSet
    [] o = 6 -> Only(dying)
    [] o = 7 -> leaked
    [] o = 8 -> destroyed

\* No program is in two hands: the scan task never executes, and the compile task never
\* resets, a program that is queued for deletion, being deleted or deleted, and none is
\* deleted twice, although three tasks delete programs and two hand them over.
OneOwner ==
  /\ \A a, b \in Owners : a # b => Owned(a) \cap Owned(b) = {}
  /\ \A i, j \in 1..Len(retired) : i # j => retired[i] # retired[j]

\* No job disappears: each one's program has an owner.
NothingLost == \A j \in 1..jobs : \E o \in Owners : j \in Owned(o)

\* "Single-flight reload": from the moment a handler has claimed g_compile_busy until
\* the compile task has dropped it there is one job, either httpd's, queued or compiling.
Submitting == hpc \in {"submit", "submit_held", "copy"}
SingleFlight ==
  /\ busy <=> (Submitting \/ compileQ # None \/ cpc # "wait")
  /\ ~(Submitting /\ (compileQ # None \/ cpc # "wait"))
  /\ ~(compileQ # None /\ cpc # "wait")

\* Between publishing a program and clearing g_save_after_compile_busy the pending slot
\* holds that very program: the scan task does not take it, and the reset after a failed
\* save throws away the job's own program, never an earlier or a running one.
SavePcs == {"published", "save", "write", "discard", "discarding", "name", "naming",
            "clear_ok"}
SaveOwnsPending == cpc \in SavePcs => pending = cjob /\ saveBusy

\* A name on the status page is the name its program was uploaded under, or none,
\* although the name reaches the slot in a later critical section than the program.
NamesAgree ==
  /\ activeName # NoName => active # None /\ activeName = jobName[active]
  /\ pendingName # NoName => pending # None /\ pendingName = jobName[pending]

\* A program announced by name as pending has its whole text in /scripts, as far as the
\* engine's own writes go (in STOP the file manager can write there too).
NamedIsSaved == pendingName # NoName => fs[pendingName] = pending

\* What the upload page concludes from a status answer, whose fields are read at
\* different times: not busy, state "ok" and none pending means that the program now
\* running is the one uploaded last. (Answers given after a StatusTimeout are excluded.)
StatusTellsTruth == hpc = "reading" /\ sawOk /\ pending = None => active = jobs

\* "Keep script execution paused until the 5 ms script task sees and activates the
\* pending program": scans stay paused only while somebody will still lift the pause.
PauseHasOwner == pause => cpc # "wait" \/ pending # None \/ spc = "unpause"

\* "Compiled script save failed; pending program discarded": once a job has ended as
\* failed, its program neither waits for activation nor runs.
FailedNeverRuns ==
  hpc \in {"idle", "status", "reading"} /\ ~busy /\ state = "failed" => jobs \notin {pending, active}

\* A reload replaces a program by a later upload, never by an earlier one.
NeverBackwards == [][active' # None => active' >= active]_vars

-----------------------------------------------------------------------------
(***************************************************************************)
(* The engine implements HotReload: an upload waits while it is queued, in *)
(* the compile task's hands or in the pending slot.                        *)
(***************************************************************************)
Waiting == Only(compileQ) \cup Built \cup Only(pending)

Promise == INSTANCE HotReload
             WITH MaxUploads <- MaxJobs, last <- jobs, waiting <- Waiting, running <- active

\* Every step of the four tasks accepts, drops or installs one upload, or none.
KeepsPromise == Promise!Spec

(***************************************************************************)
(* Fairness. FreeRTOS runs every ready task in the end (the tasks above    *)
(* compile and cleanup block on a notification, a delay or a socket), and  *)
(* hands a mutex that is given to the task blocked on it: SF for takers.   *)
(* httpd finishes what it has begun, except that nothing bounds the wait   *)
(* for a body (HTTPD_SOCK_ERR_TIMEOUT is retried for ever) or makes a      *)
(* client send a request.                                                  *)
(***************************************************************************)
HttpdFinishes == hpc \notin {"idle", "body"} /\ HttpdNext

FairSpec ==
  /\ Spec
  /\ SF_vars(HttpdFinishes) /\ WF_vars(CacheReadDone)
  /\ SF_vars(CompileNext)
  /\ WF_vars(ScanNext) /\ SF_vars(BoundaryLock)
  /\ WF_vars(CleanupNext)

\* A claimed engine is released: uploads are not refused for ever.
JobEnds == busy ~> ~busy

\* In RUN, and unless every scan boundary happens to find the mutex taken, an upload
\* that was accepted is installed or dropped.
UploadSettles ==
  (<>[](mode = "RUN") /\ []<>(spc = "boundary" /\ mutex = "free"))
    => \A j \in Job : j \in Waiting ~> j \notin Waiting

\* A replaced program is deleted, unless the queue was full.
RetiredDies == \A j \in Job : j \in RetiredSet ~> j \in destroyed
=============================================================================
