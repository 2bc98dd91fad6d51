# Verification of the FreeMarket ESP32-P4 PLC firmware

The repository is the firmware of a small PLC (an ESP32-P4 under FreeRTOS) and its web
front end. User programs in AngelScript are uploaded over HTTP, compiled on the board and
swapped in while the old program keeps running; a 1 ms hardware tick debounces inputs and
drives outputs. This directory holds TLA+ models of that code, TLC configurations that check
them, and theorems that TLAPS proves about them. `PROJECT.json` ties every definition to the
lines it stands for, and every property to the hazards it is meant for.

Own code: `src/main` (C/C++), `src/Web/src` (Vue), `src/tools` (host scripts). The rest
(`src/components`, `src/managed_components`, the built web assets) is vendored or generated;
of it, only the part of LittleFS that the firmware's files depend on is modelled.

## 1. Inventory

All tasks share one address space. Times below are FreeRTOS ticks of 10 ms: `pdMS_TO_TICKS`
of 2 ms is 0, of 10 ms is 1, of 20 and 25 ms is 2.

| task | core, priority | runs |
|---|---|---|
| timer interrupt | 0 | gives `plc_io_1ms` a notification every 1 ms |
| `plc_io_1ms` | 0, 24 | `plc_scan_task`: samples, debounces, applies outputs, wakes the script task each 5th time |
| `as_scan_5ms` | 0, 12 | `script_scan_task`: `script_engine_run_scan` |
| `script_compile` | 1, 2 | compiles one job at a time, publishes it, saves its text |
| `script_cleanup` | 1, 1 | deletes retired programs |
| httpd | 1, 1 | every HTTP handler, one after another |
| `plc_data_cache` | 1, 1 | rebuilds the JSON of `/api/plc_data` |
| `udp_server`, `report`, `background_load` | 1, 14 / 4 / 3 | echo; log statistics; burn time |

**Script engine** (`script_engine.cpp`). State: `g_compile_busy`, `g_state`, the pause and
save flags, a one-place compile queue, the active and pending programs with their names under
`g_program_mutex`, the retired queue (8 places). Operations: preflight, submit, compile and
publish, save or discard, activate at a scan boundary, retire, delete, status. Hard: three
tasks hand programs to each other and delete them; the activation and all queries give up on a
busy mutex; flags are read once and acted on later; a save can fail or be cut by a reset.
Right when: nothing deleted is executed or deleted again, nothing is lost, one job at a time,
names and status answers belong to the right program, pauses end, uploads never go backwards.

**Script upload endpoint** (`ethernet_web.c`, `upload_script_post_handler`). State: the
request. It asks the preflight, receives the body (a stalled client holds the only httpd
task), and submits. Right when: a refusal leaves the engine unclaimed.

**Runtime tasks and RUN/STOP** (`perf_test.cpp`). State: the mode, notification counts, the
divider, statistics. Hard: notifications coalesce when a task is late; the mode is read once
per wake-up. Right when: every alarm is accounted for, and STOP lets end no more than what was
under way.

**I/O process image** (`plc_io.cpp`). State: `g_io` under a spin lock. Operations: tick,
apply, get and set one point, snapshots. Hard: the debounce count; images that mix two ticks
or two scans. Right when: inputs follow a defined filter and are not older than the scan that
reads them, outputs are a scan's.

**Tag registry** (`plc_tags.cpp`). State: a table of 64 tags, its NVS image; compiled programs
keep pointers into the table. Operations: defaults, load and replace from JSON, get, set,
save. Hard: the table is rearranged under programs that are bound to it; what a restart keeps.
Right when: a program's tag stays the tag it was compiled for until the table is replaced, and a
table whose upload was answered OK outlives resets.

**Data cache and `plc_write`** (`ethernet_web.c`). State: the cached JSON, its age, its mutex.
Operations: rebuild by the task outside the mutex and copy under it, serve under it or refuse
when it is busy or nothing is cached yet, write points and tags. Hard: stale answers, a cache
copy skipped because a slow client holds the mutex. Right when: an answer is never older than
it says, a write is seen by the first answer built after it.

**File manager** (`ethernet_web.c`, `plc_filesystem.cpp`). State: LittleFS. Operations: list,
read, upload in chunks, make and delete directories and files; writes only in STOP. Hard:
partial uploads, path checks, the compile task's writes beside it, in any mode and also while
a file is being sent. Right when: paths stay inside the root, what was reported as stored
stays, a file cut short has a cause, a reader gets one text.

**LittleFS** (vendored, `esp_littlefs.c`, `lfs.c`). State: the directory, the blocks, the open
files. Operations: open, read, write, sync and close, unlink, mount. Hard: two handles on one
path; a block is free when a traversal does not find it, so an open file that was replaced
keeps its blocks only by a mark; a close that fails leaves an entry behind.

**Web client** (`plcStore.js`, `HmiDesigner.vue`, `ScriptConsole.vue`, `TagRegistry.vue`,
`FileManager.vue`). State: the in-flight request, the shared polling timer and its reference
count, optimistic values of the HMI, the upload page's wait. Hard: answers that arrive after
what they contradict; a request that never settles. Right when: polling goes on, the page
shows the outcome of the upload it waited for.

**Boot, Ethernet, UDP echo, vendored libraries, host tools**: see `components` in
`PROJECT.json`.

Interactions: httpd calls into all firmware parts; the compile, scan and cleanup tasks meet in
the engine; `plc_io_1ms` and the script task meet in the process image; a compiled program
reaches tags and the image mirror; the browser polls httpd.

## 2. How the modules build on one another

| order | module | what | composes |
|---|---|---|---|
| 1 | `ScriptEngine` | the engine, its endpoint, its five tasks | |
| 2 | `HotReload` | abstract: uploads are accepted, dropped, installed in order | refined by 1 |
| 3 | `PlcIo`, `InputFilter` | process image; abstract debouncing filter | |
| 4 | `ScanCycle` | timer, I/O task, script task, mode, file writes | extends `PlcIo` |
| 5 | `PlcTags` | tag table, load, NVS, first callers, bindings of a compiled program | |
| 6 | `TagTable` | abstract: tags that change, and are stored, only as a whole | refined by 5 |
| 7 | `LittleFs` | blocks, directory, open files of the two tasks | |
| 8 | `FileStore` | file manager and script save on one file system, resets | extends 7 |
| 9 | `AtomicFiles` | abstract: files that change in one step, and readers of one text | refined by 8 |
| 10 | `DataCache` | the cache task, its mutex, the handler that sends | |
| 11 | `HmiClient` | polling store, HMI toggle, network, `plc_write` | extends 10 |
| 12 | `StaleReads` | abstract: a reader that lags but never goes back | refined by 11 |

Proofs are in modules of their own: `ScriptEngineProofs`, `ScriptEngineRefinement` and
`ScriptEngineNames` (1, 2), `ScanCycleProofs` (3, 4), `PlcTagsProofs` (5, 6), `FileStoreProofs` and
`FileStoreRefinement` (7 to 9), `HmiClientProofs` (10 to 12).

Where two models meet, the one gives the other the outcomes it may have: a scan leaves any
outputs in `ScanCycle`; a save in `ScriptEngine` leaves a file written, cut or as before, and
`FileStore` says when and why; `HmiClient` has one tag, whose values scripts and `plc_write`
change, and `PlcTags` says what they do to a table. A composition of all tasks in one model
would multiply state spaces that share almost no variable; the one place where they do share,
the pause flag and the activation inside a scan, is in `ScriptEngine`.

## 3. Modules

**`ScriptEngine`** has a program counter per task and one action per stretch of code between
two accesses another task can observe. `hpc` is httpd: status answers (`StatusRead` reads the
atomics, `StatusLock`/`StatusAnswer` the slots under the mutex), the preflight
(`Preflight*`), the body, and the submit (`Submit*`). `cpc` is the compile task with
`compile_to_pending` and the LittleFS save inlined. `spc` is the scan: `StartScan` copies the
pause flag, `BoundaryLock`/`Activate` swap the programs, `LiftPause` acts on the old copy.
`dying` is the program in the cleanup task's hands. A program, its job and its text share one
number, given when the job is queued. `Reboot` resets all statics and keeps `/scripts`.

A take with a timeout may fail while any other task holds the mutex (`Held`). The compile task's
20 ms timeouts may fail only while httpd or the cache holds it (`HeldLong`): the scan task
holds it for microseconds and only the 1 ms task can preempt it.

**`HotReload`** is the promise to a caller: accepted uploads wait, are dropped, or are installed,
and never one earlier than the running one. `ScriptEngine!Promise` maps the queue, the program
being built and the pending slot to the set of waiting uploads.

**`PlcIo`** has one action per critical section of `g_io_lock`. `recent` is a history variable,
the last `DebounceTicks` samples, which the code does not keep. **`InputFilter`** is the
reference: an input takes the value of the last n samples when they agree.

**`ScanCycle`** extends it with the tasks. `plc_io_1ms` shares core 0 with the script task and
never blocks between two notifications, so a script step requires it to wait with no
notification; httpd is on core 1 and interleaves with both. What the engine does in a scan
appears by its outcome (`ScanPaused`, `NoScan`, `ScanFails`, `ScanFinishes` with any outputs); before
it, `MirrorInput` reads the inputs into `I` one lock at a time, and after it `CopyOutput` writes the
outputs the same way. `alarms`, `ioWakes`, `sWakes`, `published`, `since` (the debounced levels each
input had since the scan began) and `late` (ticks and scans that ended since STOP) are history
variables. `ioMissed` and `sMissed` stand for
the counters summed over the windows after which the report task resets them.

**`PlcTags`** has one action per critical section of `g_tags_mutex`; only a load is cut in two,
because it holds the mutex from replacing the table (`Load`) to the end of the NVS write
(`Saved`, `NotSaved`), and a reset can come between. The first caller of any operation
initialises the registry (`plc_tags_init`): `pc` is where the httpd, cache or compile task is
in it and `op` the operation it returns to; several can be in it at once. A tag's value keeps
the type it was written as (`value.as`), the model's form of the union's bits, so a setter or a
global of another type is visible. `TextOf` and `Restored` are the conversions to and from the
stored JSON, with what they lose: an object ends at its first closing brace. `input` holds the texts
that are being loaded: the request's body and, per task that initialises, the stored one; a request
may be what initialises, and both are then under way. A compiled program
is the set of its globals, each a slot with the name and type it was registered under.
`Reboot` keeps NVS, or finds it without a free page or of a newer format and erases it.
`current`, `strayed`, `fromText` and `answered` are history: whether the table is still the one a
program was bound to, whether a program bound to another table wrote since, whether the table was
loaded from a text, and what the last upload was answered OK for. An upload that is answered while
an initialisation has yet to load the stored text promises nothing (`Settled`): the older stored
table replaces it in RAM and in NVS, as `plc_tags.cpp:379-381` lets it.
**`TagTable`** is what the registry promises about definitions (a tag without its value): the tags in
force change only as a whole, by a legal text or by `Start` at their end; what is stored is a table
that was in force, or stays, or is gone with the whole of NVS at a restart; the built-in tags return only before the registry is ready.

**`LittleFs`** has one action per call into LittleFS, which esp_littlefs makes one step by its
lock. A file is the list of its blocks; a writer gathers blocks that nobody uses (`Free`) and
its list becomes the file's when it closes (`Commit`). `InUse` is `lfs_fs_traverse`: blocks of
files, of writers, and of readers whose file was replaced since (`dusty`). A call can fail
(`OpenWriteFails`, `CloseFails`, `RemoveFails`) in the ways the code can leave behind: an open
for writing that enters an empty file first, a sync whose failure is only logged, a failed close
that keeps the path busy (`stuck`).

**`FileStore`** adds who calls: `hpc` is httpd in an upload (`Upload`, `ReceivePiece`,
`UploadBreaks`, `AbortClose`, `AbortUnlink`, `FinishUpload`) or a view (`View`, `SendPiece`,
`EndView`), or in a request of one step (`Delete`, `RemoveDir`, `MakeDir`, `SetMode`); `cpc` is the
compile task's save. httpd looks at the mode once per request, the save never. `Reboot` may
come at any step and may find a file system that must be formatted. `kept` and `spoilt` are
history: the text last reported as stored, and the files a fault may have left short.
**`AtomicFiles`** is what the firmware relies on: a file changes in one step and a reader is
given what was there when it opened it.

**`DataCache`** has the cache task (`kpc`: build, take the mutex or give up, copy part by part)
and the handler (`hpc`: take or refuse, send part by part, holding the mutex). One tag stands
for all points, and a value is known by its place in `past`.

**`HmiClient`** has one action per JavaScript callback and one per step of the network. `polls`
is the store's one promise (`dataInflight`), `shown` what it has put into `pointsByName`, `page`
the consumer the reference count counts. The toggle has the three fields of the widget; two
seconds pass whenever they like (`OverrideEnds`). A poll or a write can be lost before or after
it was served. `lone` is history: since the last click nothing else disputed what the toggle
shows. **`StaleReads`** is the promise: a page may lag but never goes back.

`MC*.tla` only name instances; constants are in the `.cfg` files. Operators commented
*Mutant* are faulty variants of the definition after them, each with the property that fails
with it in `PROJECT.json`.

## 4. Runs

| run | instance | shows |
|---|---|---|
| `engine_safety` | 1 name, 3 jobs, retired queue of 1 | types, `OneOwner`, `NothingLost`, `SingleFlight`, `SaveOwnsPending`, `StatusTellsTruth`, `NeverBackwards`, `KeepsPromise` (about 500 000 states) |
| `engine_reset` | 2 names, 2 jobs, 1 reset | `NamesAgree`, `NamedIsSaved`, `KeepsPromise` across a reset (about 860 000) |
| `engine_liveness` | 1 name, 2 jobs | `JobEnds`, `UploadSettles`, `RetiredDies` under fairness (about 100 000) |
| `scan_cycle` | 2 inputs, 2 outputs, threshold 3, divider 2, 5 alarms | types, `AlarmsAccounted`, `EveryNthTick`, `KeepsFilter`, `AppliesLastScan`, `MirrorIsRecent`, `StopLetsOneEnd` (about 3 470 000) |
| `tags` | 2 slots, 2 names and `Start`, 2 types, 5 uploads, any number of resets | types, `UniqueNames`, `OkIsStored`, `GlobalsAreTags`, `BitsHaveType`, `KeepsTable` (about 346 000) |
| `files` | 2 tasks, 2 files, 4 blocks, texts of 2 pieces, 3 texts, any number of resets | types, `KeptIsStored`, `TornHasCause`, `FilesAreAtomic` (about 350 000 up to symmetry) |
| `web` | texts of 2 parts, 4 values, 2 clicks, 1 fault | types, `SentWhole`, `NeverOlder`, `ClickStays`, `HmiConverges` under fairness (about 1 060 000) |
| five violations | see section 5 | |

*Why the bounds are enough.* Three jobs are what it takes to have a program running, one retired
and one dying or leaked with the queue full: a queue of one place overflows on the second
retirement as the real one of eight does on the ninth (the proofs hold for every length). Names
matter only by being equal or not, so two suffice; a torn file needs one reset. Two inputs are
the least that a tick can fall between, and more than the filter needs, which treats them
independently; two outputs are the least that can be torn or copied short; a divider of 2 and
five alarms give two script wake-ups, late ones included, and enough samples for an input to
change, settle and begin to change again (`torn_outputs` needs one input and has it). A threshold
of 3 is the code's own. Two tag slots make a table full, an upload too long and a compatibility
tag without room all happen; two types are the least that a stale setter can confuse; the uploads
differ in order, length, types and flags, and two are refused. Its passing run has one value,
because its properties compare names, types and places and never numbers; `lost_value` has two.
Three texts are a stored one, one that replaces it and one by the other task; two files are the
least for a block to go from one to the other; texts of two pieces can be cut in the middle; with
four blocks the flash is full when two files are whole, so that a writer finds no block, or takes
those the file had before, which a reader may still hold. Blocks and files are interchangeable
(`Symmetry`): no action, history variable or abstract action names one. Two parts are the least
that a copy can tear; four values leave the script a write of its own beside two clicks; two
clicks are a double click; one fault loses any one of the polls or writes. `MaxJobs`,
`MaxReboots`, `MaxAlarms`, `MaxTexts`, `MaxValues`, `MaxClicks` and `MaxFaults` are the only
bounds on behaviours (the tag model is finite without any): at `MaxJobs` only new submits stop,
at `MaxTexts` new writes. `web` is the only run with the deadlock check off, because a browser on
a page without points, with no click left, really has nothing to do; in all others the mode can
be switched, or the board reset, at any time.

*Fairness* (`FairSpec` of `ScriptEngine`). Every task blocks on a queue, a delay or a socket,
so FreeRTOS runs each ready task again and again. A mutex is handed to a blocked taker when it
is given: strong fairness for httpd's and the compile task's steps and for `BoundaryLock`, weak
for the rest. Not assumed: that a client ever finishes a body (its timeouts are retried for
ever, `ethernet_web.c:1598`), that anybody sends requests or sets RUN. `UploadSettles` says so
in its premise, and also that a boundary now and then finds the mutex free, which the zero-wait
take does not ensure. `ScanCycle` has no liveness property: with a bounded number of alarms it
would hold for want of alarms; `PlcTags` and `FileStore` have none because a reset may come at any
step.

*Fairness* (`FairSpec` of `HmiClient`). The cache task and httpd have priority 1 on core 1 and
FreeRTOS runs them in turn; who waits for the cache's mutex gets it in the end (strong fairness for
`TakeForCopy` and `ServePoll`). In the browser the timer goes on, answers reach their callbacks and
two seconds end. Not assumed: that a page is kept open or that a write is served. `HmiConverges`
has in its premise that the HMI page stays, and that the cache task now and then finds the mutex
free when it has built a text: it gives up after 10 ms, and nothing in the code keeps slow clients
from holding the mutex each time. A request is taken to be answered or to fail in the end; the
store sets no time limit of its own on it.

## 5. Where the code and its comments disagree

Each has a `violation` run whose trace TLC prints.

* `pause_latched` — a scan that started before the pause and reaches its boundary after the
  save activates the new program with its old copy of the flag; nobody lifts the pause.
* `failed_job_runs` — the discard after a failed save is skipped when the mutex is not had in
  20 ms; the job is reported failed and its program becomes active.
* `torn_outputs` — outputs are copied under one lock each; the 1 ms task drives pins with a mix
  of two scans.
* `stale_globals` — an uploaded table takes the old one's place under a program whose globals
  are pointers into its slots: they are now other tags, possibly of other types, until the next
  script upload.
* `lost_value` — the stored table is read back object by object, each ending at its first
  closing brace; a description with a brace hides the value behind it, which becomes 0.

## 6. Proofs

All are checked by `tlapm`, for every value of the constants allowed by the named `ASSUME`s
(`NoName` is no name, bounds are naturals, the threshold is at least 2, the divider and the numbers
of inputs and outputs at least 1).

**`ScriptEngineProofs`**. `Typed` is the type invariant; `Flight` adds where the job is, at each
program counter of httpd and the compile task, and what the save flag protects. Neither
`SingleFlight` nor `SaveOwnsPending` is inductive alone: that the pending slot still holds the
compile task's program during its save needs that the scan task cannot take it while
`saveBusy`, which needs that the flag is up at every step between publishing and clearing.
From them: `TypesHold`, `OneJobAtATime`, `SaveKeepsItsProgram`.

**`ScriptEngineRefinement`**. `Custody` says the eight owners of programs (queue, builder,
pending, active, retired, dying, leaked, deleted) partition the jobs, with an order between
the running program and those that wait. Each action is shown to be a *move* of one program
from one owner to another, or an arrival, and moves keep the partition. From it:
`EachProgramHasOneOwner`, `NoProgramIsLost`, `ReloadsMoveForward`, and `Refinement`: every
step is a step of `HotReload` or invisible to it.

**`ScriptEngineNames`** is about facts that one critical section establishes and a later one
relies on. `NamesAgree` and `NamedIsSaved` are not inductive: that the name given to the pending
slot is that of the program in it, and that its file is whole, needs that the slot has no name
at all while the text is written, and that the file stays whole from the write to the naming
(`Named`). `StatusTellsTruth` needs that "ok" is not to be read while a job is under way and that,
once read, the latest upload stays in one of the slots until the answer (`Answered`), across an
activation in between. From them: `NamesFollowPrograms`, `NamePromisesText`, `AnswersAreTrue`.

**`ScanCycleProofs`**. `CounterIsRunLength` ties the code's saturating counter to the samples it
no longer has; with it each tick is a `Sample` of `InputFilter` (`DebounceIsFilter`). It needs a
threshold of at least 2: at 1 the code's restart branch would delay a change by a sample.
`NoAlarmIsLost` and `OneScanPerNTicks` are inductive given that a task at rest holds no count
(`AtRest`). `PinsShowLastScan` rests on `Copying`: outside a copy the commands equal the last
published image, inside it the first `copied` of them equal the mirror. `MirrorNeverStale` needs that a scan
begins with nothing mirrored and that every input's present level is among those it had since
(`Mirroring`). `StopEndsBoth` needs that nothing is under way once something has ended
(`AtMostOneLate`): a tick or scan past its test when STOP was set is the only one, since the next
one tests again.

**`PlcTagsProofs`**. `Typing` adds to the type invariant what a task in the middle of an
operation holds: a task that initialises has an operation to return to (`Calling`), a scan has
a program (`Running`). `NamesAreUnique` rests on lemmas about the operators that build tables
(`WithStart`, `Accepts`, `TextOf`, `Restored` keep names distinct and tables in bounds), stated
for every table. `GlobalsPointToTheirTags` (`Bound`) holds because between two replacements a table only gets
new values or one more tag at its end (`Extends`, `TableExtended`), and a replacement marks
every program outdated. `BitsHaveType` (`OnlyStaleProgramsMistype`) needs that
the texts in flight and in NVS are typed too (`TextsTyped`), or a restored table need not be.
`AnsweredOkIsStored` follows an answered upload through resets: `Kept` says that an initialisation
that is still to load or to save the stored text has the answered one in its hands, and that no
other upload is between its load and its save; `Finish` adds `Start` at most, once
(`CompletedOnce`). The table in RAM is that upload only if it was loaded from a text: when there
is no memory to read the stored one, the built-in tags stay in force and the text stays in NVS.
`TableRefines` maps texts and tables to their definitions: writes of values, by requests and by
programs bound to whatever table, are then no steps at all, and what a brace costs a stored tag is
its value only (`RestoredTable`). That a save stores the tags in force although programs write
between the `memcpy` and the end of the save needs that only one task saves, and that it holds the
mutex until it has (`Saver`).

**`FileStoreProofs`**. `Typed` has with the types which handle each task holds at each step.
`Lists` says that the blocks of every file and of every writer hold one text, in order from its
first piece, and that a reader's handle either has its file's list or is marked. Either way the
traversal finds the reader's blocks, which makes a write harmless (`NotReused`): the block it
takes is in no list that anybody will read. `Accounted` then follows each file through each action: a text reported as
stored has all its pieces, a short file is being written or has a fault to blame; a `Commit`
leaves a whole file (`WholeCommit`) or one its writer answers for. From them: `TypesHold`, `StoredStays`,
`TornExplained`.

**`FileStoreRefinement`**. Each step changes what at most one file holds, opens, reads or closes the
view, restarts, or is not seen. What the reader opened stays as it was because its
blocks are not written again, whatever becomes of the file (`ReaderKept`). From it:
`FilesRefine`.

**`HmiClientProofs`**. `NeverOlder` is the end of a chain, shown ≤ answer ≤ cache ≤ built ≤ now,
each link of which is needed to keep the next (`Ahead`); that there is one request under way at
most (in `TypeOK`) is what keeps two answers from overtaking each other. `SentWhole` needs
that what is sent is what the cache holds (`Sending`) and that the cache holds one text unless
the cache task copies, which it does not while httpd holds the mutex (`OneText`, `Locks`). `Real`
excludes the empty buffer. From them: `TypesHold`, `AnswersAreWhole`, `ShowsForward`. `ClicksStay`
adds `Undisputed`: while nothing disputes a click, every write still under way is that click's, and
the values the tag had since the one shown change to the clicked one once and for all; so an answer
either is older than the write and overridden, or confirms it, and a confirmation is not taken back.
`ClickStays` leaves out what the code does not promise: a second click before the first is answered,
or a write of the script, can turn the toggle back for a moment (`lone`).

**Only model-checked**: liveness (`JobEnds`, `UploadSettles`, `RetiredDies`, `HmiConverges`), because
fairness and ENABLED are beyond the prover. Every invariant, action property and refinement that a
passing run checks is also a theorem.

## 7. Not modelled

* Counters, times and heap sizes that are only reported; the text of JSON answers and logs.
* The branch for a job without a file name (`script_engine.cpp:705-710`): the endpoint defaults
  the name, no other caller exists; `script_engine_compile_text`, which nothing calls.
* `script_engine_start` called twice at once during boot (the endpoint's calls and
  `perf_test_start`'s): queues and tasks are taken to exist when a behaviour begins.
* The engine's hand-over beside file-manager writes in one model: `NamedIsSaved` is about the
  engine's own writes, and `FileStore` about two writers without the program slots.
* A preflight that does not get the mutex answers ready: it happens in the model
  (`PreflightTimeout`), the code says nothing to the contrary, and no property is stated of it.
* How long the scan that was under way at STOP runs on beside a flash write: `StopLetsOneEnd` counts
  it, nothing in the code bounds its time. A copy that STOP finds half applied stays on the pins
  until RUN, because nothing applies the rest.
* What a program computes: a scan's outputs are arbitrary in `ScanCycle`, whatever it read. Analog
  values, which are synthetic or only stored.
* Uint32 wrap-around of tick and statistics counters, which needs 49 days at 1 ms and feeds
  only a synthetic analog and reports.
* Of tags: limits, units and the fields that are only reported; which characters make a name
  bad; `plc_tags_set_value_from_text`, which nothing calls; answers cut when the shared 8 KB
  buffer is full; two tasks that both find no mutex and create one each (the model's creation is
  one step; what follows from two mutexes is undefined, and listed as a hazard).
* Of files: which paths and names are legal, listings, the size limits, the HTML pages that are
  served; reads by the firmware itself (there are none: nothing loads a script at boot).
* Of LittleFS: its metadata log, commits and compaction, wear levelling, bad blocks, directories
  beyond the one folder, files so small that they live in the metadata (only the empty one). A
  call that is cut by a reset has happened or not, which is LittleFS's own promise.
* Of the web: the poll of the command center, which writes masks beside the points; the designer's
  editing; the script, tag and file pages, which await one request after the other; a toggle whose
  tag cannot be written; a request that never settles.
* UDP echo: one task that sends back what it receives; its only state are counters it reports.
* AngelScript is used as a build that succeeds or fails and a scan that returns or raises; the
  IP101 driver has no state the firmware reads. Nearly all lines of the repository are these
  vendored libraries.
* Host tools: they only call the HTTP API.
