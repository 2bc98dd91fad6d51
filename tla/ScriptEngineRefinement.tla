----------------------- MODULE ScriptEngineRefinement -----------------------
(***************************************************************************)
(* Who owns which program, in which order programs are installed, and that *)
(* the engine implements HotReload.                                        *)
(*                                                                         *)
(* The owners' sets always partition the numbers of the jobs queued so far *)
(* (Split). Every action either leaves the sets alone, hands one program   *)
(* from one owner to another, or brings a new one in; Activate makes two   *)
(* handovers. Beside it goes the order (Newest): what is queued or being   *)
(* built is the latest job, and what is pending is later than what runs.   *)
(***************************************************************************)
EXTENDS ScriptEngineProofs

-----------------------------------------------------------------------------
(***************************************************************************)
(* Partitions and handovers.                                               *)
(***************************************************************************)
Split(W, S) ==
  /\ \A a, b \in Owners : a # b => W[a] \cap W[b] = {}
  /\ \A o \in Owners : W[o] \subseteq S
  /\ \A j \in S : \E o \in Owners : j \in W[o]

Moves(W, V, x, a, b) ==
  /\ a \in Owners /\ b \in Owners /\ a # b /\ x \in W[a]
  /\ V[a] = W[a] \ {x} /\ V[b] = W[b] \cup {x}
  /\ \A o \in Owners \ {a, b} : V[o] = W[o]

LEMMA Handover ==
  ASSUME NEW W, NEW V, NEW S, NEW x, NEW a, NEW b, Split(W, S), Moves(W, V, x, a, b)
  PROVE  Split(V, S)
<1> USE DEF Moves
<1>1. \A o \in Owners : \A j : j \in V[o] <=> IF j = x THEN o = b ELSE j \in W[o]
  <2> TAKE o \in Owners
  <2> TAKE j
  <2>1. CASE o = a BY <2>1
  <2>2. CASE o = b BY <2>2
  <2>3. CASE o \notin {a, b}
    <3>1. V[o] = W[o] BY <2>3
    <3>2. x \notin W[o] BY <2>3, Zenon DEF Split
    <3> QED BY <3>1, <3>2, <2>3
  <2> QED BY <2>1, <2>2, <2>3
<1>2. x \in S
      BY DEF Split
<1>3. \A c, d \in Owners : c # d => V[c] \cap V[d] = {}
      BY <1>1, Zenon DEF Split
<1>4. \A o \in Owners : V[o] \subseteq S
      BY <1>1, <1>2, Zenon DEF Split
<1>5. \A j \in S : \E o \in Owners : j \in V[o]
      BY <1>1, Zenon DEF Split
<1> QED BY <1>3, <1>4, <1>5, Zenon DEF Split

LEMMA Arrival ==
  ASSUME NEW W, NEW V, NEW S, NEW x, NEW a \in Owners,
         Split(W, S), x \notin S, V[a] = W[a] \cup {x},
         \A o \in Owners \ {a} : V[o] = W[o]
  PROVE  Split(V, S \cup {x})
<1>1. \A o \in Owners : \A j : j \in V[o] <=> IF j = x THEN o = a ELSE j \in W[o]
      BY Zenon DEF Split
<1>2. \A c, d \in Owners : c # d => V[c] \cap V[d] = {}
      BY <1>1, Zenon DEF Split
<1>3. \A o \in Owners : V[o] \subseteq S \cup {x}
      BY <1>1, Zenon DEF Split
<1>4. \A j \in S \cup {x} : \E o \in Owners : j \in V[o]
      BY <1>1, Zenon DEF Split
<1> QED BY <1>2, <1>3, <1>4, Zenon DEF Split

Hands == [o \in Owners |-> Owned(o)]

LEMMA HandsAre ==
  /\ Hands[1] = Only(compileQ) /\ Hands[2] = Built /\ Hands[3] = Only(pending)
  /\ Hands[4] = Only(active) /\ Hands[5] = RetiredSet /\ Hands[6] = Only(dying)
  /\ Hands[7] = leaked /\ Hands[8] = destroyed
BY DEF Hands, Owned, Owners

LEMMA HandsAreNext ==
  /\ Hands'[1] = Only(compileQ') /\ Hands'[2] = Built' /\ Hands'[3] = Only(pending')
  /\ Hands'[4] = Only(active') /\ Hands'[5] = RetiredSet' /\ Hands'[6] = Only(dying')
  /\ Hands'[7] = leaked' /\ Hands'[8] = destroyed'
BY DEF Hands, Owned, Owners, Only

LEMMA OwnersAre == \A o : o \in Owners <=> o \in {1, 2, 3, 4, 5, 6, 7, 8}
BY DEF Owners

-----------------------------------------------------------------------------
(***************************************************************************)
(* The retired queue as a set.                                             *)
(***************************************************************************)
Elems(s) == {s[i] : i \in 1..Len(s)}
Distinct(s) == \A i, j \in 1..Len(s) : i # j => s[i] # s[j]

LEMMA ElemsAppend ==
  ASSUME NEW s \in Seq(Job), NEW x \in Job, x \notin Elems(s), Distinct(s)
  PROVE  Elems(Append(s, x)) = Elems(s) \cup {x} /\ Distinct(Append(s, x))
<1> DEFINE t == Append(s, x)
<1>1. /\ Len(s) \in Nat /\ Len(t) = Len(s) + 1
      /\ \A i \in 1..Len(s) : t[i] = s[i]
      /\ t[Len(s) + 1] = x
      OBVIOUS
<1> HIDE DEF t
<1>2. Elems(t) = Elems(s) \cup {x}
  <2>1. \A y \in Elems(t) : y \in Elems(s) \cup {x}
        BY <1>1 DEF Elems
  <2>2. \A y \in Elems(s) : y \in Elems(t)
        BY <1>1 DEF Elems
  <2>3. x \in Elems(t)
        BY <1>1 DEF Elems
  <2> QED BY <2>1, <2>2, <2>3
<1>3. Distinct(t)
      BY <1>1 DEF Distinct, Elems
<1> QED BY <1>2, <1>3 DEF t

LEMMA ElemsTail ==
  ASSUME NEW s \in Seq(Job), s # <<>>, Distinct(s)
  PROVE  /\ Head(s) \in Elems(s)
         /\ Elems(Tail(s)) = Elems(s) \ {Head(s)} /\ Distinct(Tail(s))
<1> DEFINE t == Tail(s)
<1>1. /\ Len(s) \in Nat /\ Len(s) > 0 /\ Len(t) = Len(s) - 1 /\ Head(s) = s[1]
      /\ \A i \in 1..Len(t) : t[i] = s[i + 1]
      OBVIOUS
<1> HIDE DEF t
<1>2. Head(s) \in Elems(s)
      BY <1>1 DEF Elems
<1>3. Elems(t) = Elems(s) \ {Head(s)}
  <2>1. \A y \in Elems(t) : y \in Elems(s) /\ y # Head(s)
        BY <1>1 DEF Elems, Distinct
  <2>2. ASSUME NEW y \in Elems(s), y # Head(s) PROVE y \in Elems(t)
    <3>1. PICK i \in 1..Len(s) : y = s[i]
          BY DEF Elems
    <3>2. i - 1 \in 1..Len(t) /\ t[i - 1] = y
          BY <3>1, <2>2, <1>1
    <3> QED BY <3>2 DEF Elems
  <2> QED BY <2>1, <2>2
<1>4. Distinct(t)
      BY <1>1 DEF Distinct
<1> QED BY <1>2, <1>3, <1>4 DEF t

-----------------------------------------------------------------------------
(***************************************************************************)
(* The invariant.                                                          *)
(***************************************************************************)
Newest ==
  /\ compileQ # None => compileQ = jobs
  /\ cpc # "wait" => cjob = jobs
  /\ pending # None => active < pending

Custody == Split(Hands, 1..jobs) /\ Distinct(retired) /\ Newest

\* A step that no program's owner notices.
Bystander ==
  /\ UNCHANGED <<jobs, compileQ, pending, active, retired, dying, leaked, destroyed>>
  /\ Built' = Built
  /\ cpc' # "wait" => cpc # "wait" /\ cjob' = cjob

LEMMA BystanderKeeps == ASSUME Custody, Bystander PROVE Custody'
<1>1. Hands' = Hands
  <2>1. \A o \in Owners : Owned(o)' = Owned(o)
        BY OwnersAre, Zenon DEF Bystander, Owned, Only, RetiredSet
  <2> QED BY <2>1, Zenon DEF Hands
<1>2. Newest'
      BY Zenon DEF Custody, Newest, Bystander
<1> QED BY <1>1, <1>2, Zenon DEF Custody, Bystander, Distinct

LEMMA InitCustody == Init => Custody
<1> SUFFICES ASSUME Init PROVE Custody
    OBVIOUS
<1>1. \A o \in Owners : Hands[o] = {}
  <2>1. RetiredSet = {} /\ Built = {} /\ Only(None) = {}
        BY DEF Init, RetiredSet, Built, BuildPcs, Only
  <2> QED BY <2>1, HandsAre, OwnersAre, Zenon DEF Init
<1>2. 1..jobs = {}
      BY DEF Init
<1>3. Split(Hands, 1..jobs)
      BY <1>1, <1>2, Zenon DEF Split
<1>4. Distinct(retired) /\ Newest
      BY DEF Init, Distinct, Newest
<1> QED BY <1>3, <1>4 DEF Custody

(***************************************************************************)
(* Bystanders: every action but eight.                                     *)
(***************************************************************************)
LEMMA HttpdBystander ==
  ASSUME HttpdNext, jobs' = jobs, compileQ' = compileQ
  PROVE  Bystander
<1> USE DEF Bystander, Built, Only, compVars, slotVars, goneVars, httpVars
<1>1. UNCHANGED <<compVars, slotVars, goneVars>>
      BY Zenon DEF HttpdNext, StatusRead, StatusLock, StatusTimeout, StatusAnswer, SetMode,
         Preflight, PreflightLock, PreflightTimeout, PreflightAnswer, UploadFails, Submit,
         SubmitLock, SubmitTimeout, SubmitCheck, SubmitNoMemory, SubmitSend, SubmitQueued,
         SubmitAccepted
<1> QED BY <1>1, Zenon

LEMMA CompileBystander ==
  ASSUME \/ PauseScans \/ ClaimSave \/ BuildOk \/ PublishLock \/ ReportOccupied
         \/ ReportPending \/ SaveOpen \/ SaveOpenFails \/ SaveWrite \/ SaveWriteFails
         \/ DiscardLock \/ DiscardTimeout \/ NameLock \/ NameTimeout \/ SetPendingName
         \/ ClearSaveBusy \/ ReportOk \/ UnpauseScans \/ ReportFailed \/ Release
  PROVE  Bystander
<1> USE DEF Bystander, CompileStep, slotVars, goneVars, httpVars
<1>1. UNCHANGED <<jobs, compileQ, pending, active, goneVars>>
      BY Zenon DEF PauseScans, ClaimSave, BuildOk, PublishLock, ReportOccupied,
         ReportPending, SaveOpen, SaveOpenFails, SaveWrite, SaveWriteFails, DiscardLock,
         DiscardTimeout, NameLock, NameTimeout, SetPendingName, ClearSaveBusy, ReportOk,
         UnpauseScans, ReportFailed, Release
<1>2. CASE PauseScans \/ ClaimSave \/ BuildOk \/ PublishLock
  <2>1. cpc \in BuildPcs /\ cpc' \in BuildPcs /\ cjob' = cjob
        BY <1>2 DEF PauseScans, ClaimSave, BuildOk, PublishLock, BuildPcs
  <2> QED BY <1>1, <2>1 DEF Built, Only, BuildPcs
<1>3. CASE Release
  <2>1. cpc = "release" /\ cpc' = "wait"
        BY <1>3 DEF Release
  <2> QED BY <1>1, <2>1 DEF Built, BuildPcs
<1>4. CASE ~(PauseScans \/ ClaimSave \/ BuildOk \/ PublishLock \/ Release)
  <2>1. cpc \notin BuildPcs /\ cpc' \notin BuildPcs /\ cpc # "wait" /\ cjob' = cjob
        BY <1>4 DEF ReportOccupied, ReportPending, SaveOpen, SaveOpenFails, SaveWrite,
           SaveWriteFails, DiscardLock, DiscardTimeout, NameLock, NameTimeout,
           SetPendingName, ClearSaveBusy, ReportOk, UnpauseScans, ReportFailed, BuildPcs
  <2> QED BY <1>1, <2>1 DEF Built
<1> QED BY <1>2, <1>3, <1>4

LEMMA OthersBystander ==
  ASSUME \/ CacheRead \/ CacheReadDone \/ StartScan \/ EndProgram \/ BoundaryLock
         \/ BoundarySkip \/ NoActivation \/ LiftPause \/ UNCHANGED vars
  PROVE  Bystander
<1>1. UNCHANGED <<jobs, compileQ, cpc, cjob, pending, active, retired, dying, leaked,
                  destroyed>>
      BY Zenon DEF CacheRead, CacheReadDone, StartScan, EndProgram, BoundaryLock,
         BoundarySkip, NoActivation, LiftPause, ScanStep, vars, httpVars, compVars,
         slotVars, goneVars
<1> QED BY <1>1, Zenon DEF Bystander, Built, Only

(***************************************************************************)
(* Handovers of httpd and the compile task.                                *)
(***************************************************************************)
LEMMA SendCustody ==
  ASSUME Typed, Flight, Custody, NEW n \in Names, SubmitSend(n), compileQ = None
  PROVE  Custody'
<1> USE DEF SubmitSend
<1>1. /\ compileQ' = jobs + 1 /\ jobs' = jobs + 1 /\ jobs \in Nat
      /\ UNCHANGED <<pending, active, retired, dying, leaked, destroyed, cpc, cjob>>
      BY DEF Typed, TypeOK, OptJob, compVars, slotVars, goneVars
<1>2. Built' = Built /\ RetiredSet' = RetiredSet /\ cpc = "wait"
      BY <1>1, Zenon DEF Built, Only, RetiredSet, Flight, SingleFlight, Submitting, HttpdStep
<1>3. Only(compileQ) = {} /\ Only(compileQ') = {jobs + 1}
      BY <1>1 DEF Only, None
<1>4. 1..jobs' = (1..jobs) \cup {jobs + 1} /\ jobs + 1 \notin 1..jobs
      BY <1>1
<1>5. \A o \in Owners \ {1} : Hands'[o] = Hands[o]
      BY <1>1, <1>2, HandsAre, HandsAreNext, OwnersAre, Zenon
<1>6. 1 \in Owners /\ Hands'[1] = Hands[1] \cup {jobs + 1}
      BY <1>3, HandsAre, HandsAreNext, OwnersAre
<1>7. Split(Hands', 1..jobs')
  <2>1. Split(Hands, 1..jobs)
        BY DEF Custody
  <2>2. Split(Hands', (1..jobs) \cup {jobs + 1})
        BY <1>4, <1>5, <1>6, <2>1, Arrival, Zenon
  <2> QED BY <1>4, <2>2, Zenon
<1>8. Newest' /\ Distinct(retired)'
      BY <1>1, <1>2 DEF Custody, Newest, Distinct
<1> QED BY <1>7, <1>8 DEF Custody

LEMMA ReceiveCustody ==
  ASSUME Typed, Flight, Custody, JobReceive
  PROVE  Custody'
<1> USE DEF JobReceive, CompileStep
<1>1. /\ compileQ # None /\ compileQ' = None /\ cjob' = compileQ /\ cpc = "wait"
      /\ cpc' = "defer"
      /\ UNCHANGED <<jobs, pending, active, retired, dying, leaked, destroyed>>
      BY DEF httpVars, slotVars, goneVars
<1>2. /\ Built = {} /\ Built' = {compileQ} /\ RetiredSet' = RetiredSet
      /\ Only(compileQ) = {compileQ} /\ Only(compileQ') = {}
      BY <1>1 DEF Built, BuildPcs, Only, RetiredSet
<1>3. /\ 1 \in Owners /\ 2 \in Owners /\ compileQ \in Hands[1]
      /\ Hands'[1] = Hands[1] \ {compileQ} /\ Hands'[2] = Hands[2] \cup {compileQ}
      BY <1>2, HandsAre, HandsAreNext, OwnersAre
<1>4. \A o \in Owners \ {1, 2} : Hands'[o] = Hands[o]
      BY <1>1, <1>2, HandsAre, HandsAreNext, OwnersAre, Zenon
<1>5. Split(Hands', 1..jobs)
  <2>1. Moves(Hands, Hands', compileQ, 1, 2)
        BY <1>3, <1>4 DEF Moves
  <2>2. Split(Hands, 1..jobs)
        BY DEF Custody
  <2> QED BY <2>1, <2>2, Handover, Zenon
<1>6. Newest' /\ Distinct(retired)'
      BY <1>1 DEF Custody, Newest, Distinct
<1> QED BY <1>1, <1>5, <1>6 DEF Custody

LEMMA BuildFailsCustody ==
  ASSUME Typed, Flight, Custody, BuildFails
  PROVE  Custody'
<1> USE DEF BuildFails, CompileStep
<1>1. /\ cpc = "build" /\ cpc' = "clear_failed" /\ cjob' = cjob
      /\ destroyed' = destroyed \cup {cjob}
      /\ UNCHANGED <<jobs, compileQ, pending, active, retired, dying, leaked>>
      BY DEF httpVars, slotVars
<1>2. Built = {cjob} /\ Built' = {} /\ RetiredSet' = RetiredSet
      BY <1>1 DEF Built, BuildPcs, Only, RetiredSet, Typed
<1>3. /\ 2 \in Owners /\ 8 \in Owners /\ cjob \in Hands[2]
      /\ Hands'[2] = Hands[2] \ {cjob} /\ Hands'[8] = Hands[8] \cup {cjob}
      BY <1>1, <1>2, HandsAre, HandsAreNext, OwnersAre
<1>4. \A o \in Owners \ {2, 8} : Hands'[o] = Hands[o]
      BY <1>1, <1>2, HandsAre, HandsAreNext, OwnersAre, Zenon DEF Only
<1>5. Split(Hands', 1..jobs)
  <2>1. Moves(Hands, Hands', cjob, 2, 8)
        BY <1>3, <1>4 DEF Moves
  <2>2. Split(Hands, 1..jobs)
        BY DEF Custody
  <2> QED BY <2>1, <2>2, Handover, Zenon
<1>6. Newest' /\ Distinct(retired)'
      BY <1>1 DEF Custody, Newest, Distinct
<1> QED BY <1>1, <1>5, <1>6 DEF Custody

LEMMA PublishCustody ==
  ASSUME Typed, Flight, Custody, Publish
  PROVE  Custody'
<1> USE DEF Publish, CompileStep, SlotFree
<1>1. /\ cpc = "publishing" /\ cjob' = cjob /\ cpc' \in {"published", "occupied"}
      /\ UNCHANGED <<jobs, compileQ, active, retired, dying, leaked>>
      BY DEF httpVars
<1>2. Built = {cjob} /\ Built' = {} /\ RetiredSet' = RetiredSet
      BY <1>1 DEF Built, BuildPcs, Only, RetiredSet, Typed
<1>3. {2, 3, 4, 8} \subseteq Owners /\ cjob \in Hands[2] /\ Hands'[2] = Hands[2] \ {cjob}
      BY <1>1, <1>2, HandsAre, HandsAreNext, OwnersAre
<1>4. CASE pending = None
  <2>1. pending' = cjob /\ destroyed' = destroyed
        BY <1>4
  <2>2. Only(pending) = {} /\ Only(pending') = {cjob}
        BY <1>1, <1>4, <2>1 DEF Only, Typed
  <2>3. Hands'[3] = Hands[3] \cup {cjob}
        BY <2>2, HandsAre, HandsAreNext
  <2>4. \A o \in Owners \ {2, 3} : Hands'[o] = Hands[o]
        BY <1>1, <1>2, <2>1, HandsAre, HandsAreNext, OwnersAre, Zenon DEF Only
  <2>5. Split(Hands', 1..jobs)
    <3>1. Moves(Hands, Hands', cjob, 2, 3)
          BY <1>3, <2>3, <2>4 DEF Moves
    <3>2. Split(Hands, 1..jobs)
          BY DEF Custody
    <3> QED BY <3>1, <3>2, Handover, Zenon
  <2>6. active # cjob /\ active <= jobs /\ cjob = jobs
    <3>1. active # None => active \in Hands[4] /\ active \in 1..jobs
          BY <1>3, HandsAre, Zenon DEF Custody, Split, Only
    <3>2. Hands[2] \cap Hands[4] = {} /\ cjob \in 1..jobs
          BY <1>3 DEF Custody, Split
    <3>3. cjob = jobs
          BY <1>1 DEF Custody, Newest
    <3> QED BY <1>3, <3>1, <3>2, <3>3 DEF Typed, TypeOK, OptJob, None
  <2>7. Newest' /\ Distinct(retired)'
        BY <1>1, <2>1, <2>6 DEF Custody, Newest, Distinct, Typed, TypeOK, OptJob
  <2> QED BY <1>1, <2>5, <2>7 DEF Custody
<1>5. CASE pending # None
  <2>1. pending' = pending /\ destroyed' = destroyed \cup {cjob}
        BY <1>5
  <2>2. Hands'[8] = Hands[8] \cup {cjob}
        BY <2>1, HandsAre, HandsAreNext
  <2>3. \A o \in Owners \ {2, 8} : Hands'[o] = Hands[o]
        BY <1>1, <1>2, <2>1, HandsAre, HandsAreNext, OwnersAre, Zenon DEF Only
  <2>4. Split(Hands', 1..jobs)
    <3>1. Moves(Hands, Hands', cjob, 2, 8)
          BY <1>3, <2>2, <2>3 DEF Moves
    <3>2. Split(Hands, 1..jobs)
          BY DEF Custody
    <3> QED BY <3>1, <3>2, Handover, Zenon
  <2>5. Newest' /\ Distinct(retired)'
        BY <1>1, <2>1 DEF Custody, Newest, Distinct
  <2> QED BY <1>1, <2>4, <2>5 DEF Custody
<1> QED BY <1>4, <1>5

LEMMA DiscardCustody ==
  ASSUME Typed, Flight, Custody, Discard
  PROVE  Custody'
<1> USE DEF Discard, CompileStep
<1>1. /\ cpc = "discarding" /\ cpc' = "clear_failed" /\ cjob' = cjob /\ pending' = None
      /\ destroyed' = destroyed \cup (IF pending = None THEN {} ELSE {pending})
      /\ UNCHANGED <<jobs, compileQ, active, retired, dying, leaked>>
      BY DEF httpVars
<1>2. pending # None
      BY <1>1 DEF Flight, SaveOwnsPending, SavePcs, Typed
<1>3. /\ Built' = Built /\ RetiredSet' = RetiredSet
      /\ Only(pending) = {pending} /\ Only(pending') = {}
      BY <1>1, <1>2 DEF Built, BuildPcs, Only, RetiredSet
<1>4. /\ 3 \in Owners /\ 8 \in Owners /\ pending \in Hands[3]
      /\ Hands'[3] = Hands[3] \ {pending} /\ Hands'[8] = Hands[8] \cup {pending}
      BY <1>1, <1>2, <1>3, HandsAre, HandsAreNext, OwnersAre
<1>5. \A o \in Owners \ {3, 8} : Hands'[o] = Hands[o]
      BY <1>1, <1>3, HandsAre, HandsAreNext, OwnersAre, Zenon DEF Only
<1>6. Split(Hands', 1..jobs)
  <2>1. Moves(Hands, Hands', pending, 3, 8)
        BY <1>4, <1>5 DEF Moves
  <2>2. Split(Hands, 1..jobs)
        BY DEF Custody
  <2> QED BY <2>1, <2>2, Handover, Zenon
<1>7. Newest' /\ Distinct(retired)'
      BY <1>1 DEF Custody, Newest, Distinct
<1> QED BY <1>1, <1>6, <1>7 DEF Custody

(***************************************************************************)
(* Handovers of the scan and cleanup tasks.                                *)
(***************************************************************************)
LEMMA ActivateCustody ==
  ASSUME Typed, Flight, Custody, Activate
  PROVE  Custody'
<1> DEFINE full == ~(Len(retired) < RetiredCap)
           o == IF full THEN 7 ELSE 5
           W == [h \in Owners |-> IF h = 4 THEN {}
                                  ELSE IF h = o THEN Hands[h] \cup Only(active)
                                  ELSE Hands[h]]
<1>1. /\ pending # None /\ active' = pending /\ pending' = None
      /\ UNCHANGED <<jobs, compileQ, cpc, cjob, dying, destroyed>>
      /\ Retire(active)
      BY Zenon DEF Activate, MayActivate, MovedFrom, ScanStep, httpVars, compVars
<1>2. Built' = Built /\ Only(pending) = {pending} /\ Only(pending') = {}
      /\ Only(active') = {pending} /\ Only(compileQ') = Only(compileQ)
      /\ Only(dying') = Only(dying)
      BY <1>1 DEF Built, Only
<1>3. active \notin RetiredSet /\ (active # None => active \in Job)
  <2>1. active # None => active \in Hands[4] /\ Hands[4] \cap Hands[5] = {}
        BY HandsAre, OwnersAre DEF Custody, Split, Only
  <2>2. RetiredSet \subseteq Job
        BY DEF RetiredSet, Typed, TypeOK
  <2>3. None \notin Job
        BY DEF None, Job
  <2> QED BY <2>1, <2>2, <2>3, HandsAre DEF Typed, TypeOK, OptJob, Job, None
<1>4. /\ Distinct(retired')
      /\ RetiredSet' = IF full THEN RetiredSet ELSE RetiredSet \cup Only(active)
      /\ leaked' = IF full THEN leaked \cup Only(active) ELSE leaked
  <2>1. CASE active = None
    <3>1. retired' = retired /\ leaked' = leaked /\ Only(active) = {}
          BY <1>1, <2>1, Zenon DEF Retire, Only
    <3> QED BY <3>1, Zenon DEF Custody, RetiredSet
  <2>2. CASE active # None /\ full
    <3>1. retired' = retired /\ leaked' = leaked \cup {active} /\ Only(active) = {active}
          BY <1>1, <2>2 DEF Retire, Only
    <3> QED BY <3>1, <2>2, Zenon DEF Custody, RetiredSet
  <2>3. CASE active # None /\ ~full
    <3>1. /\ retired' = Append(retired, active) /\ leaked' = leaked
          /\ Only(active) = {active}
          BY <1>1, <2>3 DEF Retire, Only
    <3>2. retired \in Seq(Job) /\ Distinct(retired) /\ active \in Job
          /\ active \notin Elems(retired)
          BY <1>3, <2>3 DEF Typed, TypeOK, Custody, Elems, RetiredSet
    <3>3. Elems(retired') = Elems(retired) \cup {active} /\ Distinct(retired')
          BY <3>1, <3>2, ElemsAppend, Zenon
    <3> QED BY <3>1, <3>3, <2>3, Zenon DEF Elems, RetiredSet
  <2> QED BY <2>1, <2>2, <2>3
<1>5. Split(W, 1..jobs)
  <2>1. CASE active = None
    <3>1. Only(active) = {} /\ Hands[4] = {}
          BY <2>1, HandsAre DEF Only
    <3>2. \A h \in Owners : W[h] = Hands[h]
          BY <3>1
    <3>3. Split(Hands, 1..jobs)
          BY DEF Custody
    <3> HIDE DEF W
    <3> QED BY <3>2, <3>3, Zenon DEF Split
  <2>2. CASE active # None
    <3>1. Only(active) = {active} /\ Hands[4] = {active}
          BY <2>2, HandsAre DEF Only
    <3>2. o \in Owners /\ 4 \in Owners /\ o # 4
          BY OwnersAre
    <3>3. Moves(Hands, W, active, 4, o)
          BY <3>1, <3>2 DEF Moves
    <3>4. Split(Hands, 1..jobs)
          BY DEF Custody
    <3> HIDE DEF W, o
    <3> QED BY <3>3, <3>4, Handover, Zenon
  <2> QED BY <2>1, <2>2
<1>6. Moves(W, Hands', pending, 3, 4)
  <2>1. /\ W[1] = Only(compileQ) /\ W[2] = Built /\ W[3] = Only(pending) /\ W[4] = {}
        /\ W[5] = IF full THEN RetiredSet ELSE RetiredSet \cup Only(active)
        /\ W[6] = Only(dying)
        /\ W[7] = IF full THEN leaked \cup Only(active) ELSE leaked
        /\ W[8] = destroyed
    <3> HIDE DEF full
    <3> QED BY HandsAre, OwnersAre
  <2> HIDE DEF W, o, full
  <2>2. 3 \in Owners /\ 4 \in Owners /\ pending \in W[3]
        BY <1>2, <2>1, OwnersAre
  <2>3. Hands'[3] = W[3] \ {pending} /\ Hands'[4] = W[4] \cup {pending}
        BY <1>2, <2>1, HandsAreNext
  <2>4. \A h \in Owners \ {3, 4} : Hands'[h] = W[h]
        BY <1>1, <1>2, <1>4, <2>1, HandsAreNext, OwnersAre, Zenon
  <2> QED BY <2>2, <2>3, <2>4 DEF Moves
<1>7. Split(Hands', 1..jobs)
  <2> HIDE DEF W
  <2> QED BY <1>5, <1>6, Handover, Zenon
<1>8. Newest'
      BY <1>1, Zenon DEF Custody, Newest
<1> QED BY <1>1, <1>4, <1>7, <1>8 DEF Custody, Distinct

LEMMA CleanupCustody ==
  ASSUME Typed, Flight, Custody, CleanupNext
  PROVE  Custody'
<1>1. CASE CleanupReceive
  <2>1. /\ dying = None /\ retired # <<>> /\ dying' = Head(retired)
        /\ retired' = Tail(retired)
        /\ UNCHANGED <<jobs, compileQ, cpc, cjob, pending, active, leaked, destroyed>>
        BY <1>1, Zenon DEF CleanupReceive, httpVars, compVars, slotVars
  <2>2. retired \in Seq(Job) /\ Distinct(retired)
        BY DEF Typed, TypeOK, Custody
  <2>3. /\ Head(retired) \in Elems(retired) /\ Distinct(retired')
        /\ Elems(retired') = Elems(retired) \ {Head(retired)}
        BY <2>1, <2>2, ElemsTail, Zenon
  <2>4. Head(retired) # None
    <3>1. Elems(retired) \subseteq Job
          BY <2>2 DEF Elems
    <3>2. None \notin Job
          BY DEF Job, None
    <3> QED BY <2>3, <3>1, <3>2
  <2>5. Only(dying) = {} /\ Only(dying') = {Head(retired)} /\ Built' = Built
        BY <2>1, <2>4 DEF Only, Built
  <2>6. RetiredSet = Elems(retired) /\ RetiredSet' = Elems(retired')
        BY DEF RetiredSet, Elems
  <2>7. Moves(Hands, Hands', Head(retired), 5, 6)
    <3>1. /\ 5 \in Owners /\ 6 \in Owners /\ Head(retired) \in Hands[5]
          /\ Hands'[5] = Hands[5] \ {Head(retired)}
          /\ Hands'[6] = Hands[6] \cup {Head(retired)}
          BY <2>3, <2>5, <2>6, HandsAre, HandsAreNext, OwnersAre
    <3>2. \A o \in Owners \ {5, 6} : Hands'[o] = Hands[o]
          BY <2>1, <2>5, HandsAre, HandsAreNext, OwnersAre, Zenon DEF Only
    <3> QED BY <3>1, <3>2 DEF Moves
  <2>8. Split(Hands, 1..jobs)
        BY DEF Custody
  <2>9. Split(Hands', 1..jobs)
        BY <2>7, <2>8, Handover, Zenon
  <2>10. Newest'
        BY <2>1, Zenon DEF Custody, Newest
  <2> QED BY <2>1, <2>3, <2>9, <2>10 DEF Custody, Distinct
<1>2. CASE CleanupDestroy
  <2>1. /\ dying # None /\ dying' = None /\ destroyed' = destroyed \cup {dying}
        /\ UNCHANGED <<jobs, compileQ, cpc, cjob, pending, active, retired, leaked>>
        BY <1>2, Zenon DEF CleanupDestroy, Deleted, httpVars, compVars, slotVars
  <2>2. /\ Only(dying) = {dying} /\ Only(dying') = {} /\ Built' = Built
        /\ RetiredSet' = RetiredSet
        BY <2>1 DEF Only, Built, RetiredSet
  <2>3. Moves(Hands, Hands', dying, 6, 8)
    <3>1. /\ 6 \in Owners /\ 8 \in Owners /\ dying \in Hands[6]
          /\ Hands'[6] = Hands[6] \ {dying} /\ Hands'[8] = Hands[8] \cup {dying}
          BY <2>1, <2>2, HandsAre, HandsAreNext, OwnersAre
    <3>2. \A o \in Owners \ {6, 8} : Hands'[o] = Hands[o]
          BY <2>1, <2>2, HandsAre, HandsAreNext, OwnersAre, Zenon DEF Only
    <3> QED BY <3>1, <3>2 DEF Moves
  <2>4. Split(Hands, 1..jobs)
        BY DEF Custody
  <2>5. Split(Hands', 1..jobs)
        BY <2>3, <2>4, Handover, Zenon
  <2>6. Newest'
        BY <2>1, Zenon DEF Custody, Newest
  <2> QED BY <2>1, <2>5, <2>6 DEF Custody, Distinct
<1> QED BY <1>1, <1>2 DEF CleanupNext

LEMMA RebootCustody ==
  ASSUME Typed, Flight, Custody, Reboot
  PROVE  Custody'
<1>1. /\ compileQ' = None /\ active' = None /\ pending' = None /\ retired' = <<>>
      /\ dying' = None /\ leaked' = {} /\ destroyed' = 1..jobs /\ jobs' = jobs
      /\ cpc' = "wait"
      BY Zenon DEF Reboot
<1>2. Only(None) = {} /\ RetiredSet' = {} /\ Built' = {}
      BY <1>1 DEF Only, RetiredSet, Built, BuildPcs
<1>3. Hands'[8] = 1..jobs
      BY <1>1, HandsAreNext
<1>4. \A o \in Owners \ {8} : Hands'[o] = {}
      BY <1>1, <1>2, HandsAreNext, OwnersAre, Zenon
<1>5. 8 \in Owners
      BY OwnersAre
<1>6. Split(Hands', 1..jobs)
  <2>1. \A a, b \in Owners : a # b => Hands'[a] \cap Hands'[b] = {}
        BY <1>4
  <2>2. \A o \in Owners : Hands'[o] \subseteq 1..jobs
        BY <1>3, <1>4
  <2>3. \A j \in 1..jobs : \E o \in Owners : j \in Hands'[o]
        BY <1>3, <1>5
  <2> QED BY <2>1, <2>2, <2>3, Zenon DEF Split
<1>7. Newest' /\ Distinct(retired')
      BY <1>1 DEF Newest, Distinct
<1> QED BY <1>1, <1>6, <1>7 DEF Custody, Distinct

-----------------------------------------------------------------------------
(***************************************************************************)
(* The invariant holds.                                                    *)
(***************************************************************************)
LEMMA HttpdCustody == ASSUME Typed, Flight, Custody, HttpdNext PROVE Custody'
<1>1. CASE jobs' = jobs /\ compileQ' = compileQ
      BY <1>1, HttpdBystander, BystanderKeeps
<1>2. CASE ~(jobs' = jobs /\ compileQ' = compileQ)
  <2>1. PICK n \in Names : SubmitSend(n) /\ compileQ = None
        BY <1>2, Zenon DEF HttpdNext, StatusRead, StatusLock, StatusTimeout, StatusAnswer,
           SetMode, Preflight, PreflightLock, PreflightTimeout, PreflightAnswer, UploadFails,
           Submit, SubmitLock, SubmitTimeout, SubmitCheck, SubmitNoMemory, SubmitSend,
           SubmitQueued, SubmitAccepted, httpVars
  <2> QED BY <2>1, SendCustody
<1> QED BY <1>1, <1>2

LEMMA StepCustody == Typed /\ Flight /\ Custody /\ [Next]_vars => Custody'
<1> SUFFICES ASSUME Typed, Flight, Custody, [Next]_vars PROVE Custody'
    OBVIOUS
<1>1. CASE HttpdNext
      BY <1>1, HttpdCustody
<1>2. CASE CompileNext
      BY <1>2, CompileBystander, BystanderKeeps, ReceiveCustody, BuildFailsCustody,
         PublishCustody, DiscardCustody DEF CompileNext
<1>3. CASE ScanNext
      BY <1>3, OthersBystander, BystanderKeeps, ActivateCustody DEF ScanNext
<1>4. CASE CleanupNext
      BY <1>4, CleanupCustody
<1>5. CASE CacheRead \/ CacheReadDone \/ UNCHANGED vars
      BY <1>5, OthersBystander, BystanderKeeps
<1>6. CASE Reboot
      BY <1>6, RebootCustody
<1> QED BY <1>1, <1>2, <1>3, <1>4, <1>5, <1>6 DEF Next

THEOREM CustodyHolds == Spec => [](Typed /\ Flight /\ Custody)
<1>1. Init => Typed /\ Flight /\ Custody
      BY InitTyped, InitFlight, InitCustody
<1>2. Typed /\ Flight /\ Custody /\ [Next]_vars => (Typed /\ Flight /\ Custody)'
      BY StepTyped, StepFlight, StepCustody
<1> QED BY <1>1, <1>2, PTL DEF Spec

\* No program is ever in two hands, so none runs after, or is deleted twice.
THEOREM EachProgramHasOneOwner == Spec => []OneOwner
<1>1. Custody => OneOwner
  <2>1. \A o \in Owners : Hands[o] = Owned(o)
        BY DEF Hands
  <2> QED BY <2>1, Zenon DEF Custody, Split, OneOwner, Distinct
<1> QED BY <1>1, CustodyHolds, PTL

\* No queued job's program drops out of sight.
THEOREM NoProgramIsLost == Spec => []NothingLost
<1>1. Custody => NothingLost
  <2>1. \A o \in Owners : Hands[o] = Owned(o)
        BY DEF Hands
  <2> QED BY <2>1, Zenon DEF Custody, Split, NothingLost
<1> QED BY <1>1, CustodyHolds, PTL

-----------------------------------------------------------------------------
(***************************************************************************)
(* The engine implements HotReload.                                        *)
(***************************************************************************)
View == <<jobs, Waiting, active>>

LEMMA BystanderStutters == ASSUME Bystander PROVE UNCHANGED View
BY DEF Bystander, View, Waiting, Only

LEMMA SendAccepts ==
  ASSUME Typed, Flight, NEW n \in Names, SubmitSend(n), compileQ = None
  PROVE  Promise!Accept
<1>1. /\ compileQ' = jobs + 1 /\ jobs' = jobs + 1 /\ jobs \in Nat /\ jobs < MaxJobs
      /\ UNCHANGED <<pending, active, cpc, cjob>>
      BY DEF SubmitSend, HttpdStep, Typed, TypeOK, Submitting, OptJob, compVars, slotVars
<1>2. Built' = Built /\ Only(pending') = Only(pending)
      BY <1>1, Zenon DEF Built, Only
<1>3. Only(compileQ) = {} /\ Only(compileQ') = {jobs + 1}
      BY <1>1 DEF Only, None
<1>4. Waiting' = Waiting \cup {jobs + 1}
      BY <1>2, <1>3 DEF Waiting
<1> QED BY <1>1, <1>4 DEF Promise!Accept

LEMMA ReceiveStutters == ASSUME Flight, JobReceive PROVE UNCHANGED View
<1>1. /\ compileQ # None /\ compileQ' = None /\ cjob' = compileQ /\ cpc = "wait"
      /\ cpc' = "defer" /\ UNCHANGED <<jobs, pending, active>>
      BY DEF JobReceive, CompileStep, httpVars, slotVars
<1>2. Built = {} /\ Built' = Only(compileQ) /\ Only(compileQ') = {}
      BY <1>1 DEF Built, BuildPcs, Only
<1>3. Waiting' = Waiting
      BY <1>1, <1>2 DEF Waiting, Only
<1> QED BY <1>1, <1>3 DEF View

\* While a program is being built, nothing is queued and its own number is in no slot.
LEMMA BuiltAlone ==
  ASSUME Typed, Flight, Custody, cpc \in BuildPcs
  PROVE  /\ compileQ = None /\ Built = {cjob} /\ cjob # pending
         /\ Waiting = {cjob} \cup Only(pending)
<1>1. cpc # "wait" /\ cjob # None
      BY DEF Typed, BuildPcs
<1>2. compileQ = None /\ Built = {cjob}
      BY <1>1 DEF Flight, SingleFlight, Built, Only
<1>3. cjob # pending
  <2>1. Hands[2] \cap Hands[3] = {}
        BY OwnersAre DEF Custody, Split
  <2> QED BY <1>1, <1>2, <2>1, HandsAre DEF Only
<1> QED BY <1>2, <1>3 DEF Waiting, Only

LEMMA BuildFailsDrops ==
  ASSUME Typed, Flight, Custody, BuildFails
  PROVE  \E u \in Waiting : Promise!Drop(u)
<1>1. /\ cpc = "build" /\ cpc' = "clear_failed"
      /\ UNCHANGED <<jobs, compileQ, pending, active>>
      BY DEF BuildFails, CompileStep, httpVars, slotVars
<1>2. compileQ = None /\ cjob # pending /\ Waiting = {cjob} \cup Only(pending)
      BY <1>1, BuiltAlone DEF BuildPcs
<1>3. Waiting' = Only(pending)
      BY <1>1, <1>2 DEF Waiting, Built, BuildPcs, Only
<1>4. Waiting' = Waiting \ {cjob} /\ cjob \in Waiting
      BY <1>2, <1>3 DEF Only
<1> QED BY <1>1, <1>4 DEF Promise!Drop

LEMMA PublishDropsOrStutters ==
  ASSUME Typed, Flight, Custody, Publish
  PROVE  UNCHANGED View \/ \E u \in Waiting : Promise!Drop(u)
<1>1. /\ cpc = "publishing" /\ cpc' \in {"published", "occupied"}
      /\ pending' = IF pending = None THEN cjob ELSE pending
      /\ UNCHANGED <<jobs, compileQ, active>>
      BY DEF Publish, SlotFree, CompileStep, httpVars
<1>2. /\ compileQ = None /\ cjob # pending /\ Waiting = {cjob} \cup Only(pending)
      /\ cjob # None
      BY <1>1, BuiltAlone DEF BuildPcs, Typed
<1>3. Waiting' = Only(pending')
      BY <1>1, <1>2 DEF Waiting, Built, BuildPcs, Only
<1>4. CASE pending = None
      BY <1>1, <1>2, <1>3, <1>4 DEF View, Only
<1>5. CASE pending # None
  <2>1. Waiting' = Waiting \ {cjob} /\ cjob \in Waiting
        BY <1>1, <1>2, <1>3, <1>5 DEF Only
  <2> QED BY <1>1, <2>1 DEF Promise!Drop
<1> QED BY <1>4, <1>5

LEMMA DiscardDrops ==
  ASSUME Typed, Flight, Custody, Discard
  PROVE  \E u \in Waiting : Promise!Drop(u)
<1>1. /\ cpc = "discarding" /\ cpc' = "clear_failed" /\ pending' = None
      /\ UNCHANGED <<jobs, compileQ, active>>
      BY DEF Discard, CompileStep, httpVars
<1>2. pending # None /\ compileQ = None
      BY <1>1 DEF Flight, SaveOwnsPending, SavePcs, Typed, SingleFlight
<1>3. Waiting = {pending} /\ Waiting' = {}
      BY <1>1, <1>2 DEF Waiting, Built, BuildPcs, Only
<1> QED BY <1>1, <1>3 DEF Promise!Drop

LEMMA ActivateInstalls ==
  ASSUME Typed, Flight, Custody, Activate
  PROVE  \E u \in Waiting : Promise!Install(u)
<1>1. /\ pending # None /\ active' = pending /\ pending' = None
      /\ UNCHANGED <<jobs, compileQ, cpc, cjob>>
      BY Zenon DEF Activate, MayActivate, MovedFrom, ScanStep, httpVars, compVars
<1>2. pending > active /\ active \in Nat /\ pending \in Nat
      BY <1>1 DEF Custody, Newest, Typed, TypeOK, OptJob
<1>3. Built' = Built /\ Only(pending) = {pending} /\ Only(pending') = {}
      BY <1>1 DEF Built, Only
<1>4. /\ Only(compileQ) \cap Only(pending) = {} /\ Built \cap Only(pending) = {}
      /\ pending \in 1..jobs
  <2>1. /\ Hands[1] \cap Hands[3] = {} /\ Hands[2] \cap Hands[3] = {}
        /\ Hands[3] \subseteq 1..jobs
        BY OwnersAre DEF Custody, Split
  <2> QED BY <1>3, <2>1, HandsAre
<1>5. Waiting' = Waiting \ {pending} /\ pending \in Waiting
      BY <1>1, <1>3, <1>4 DEF Waiting, Only
<1>6. \A w \in Waiting : pending <= w
  <2>1. \A w \in Only(compileQ) \cup Built : w = jobs
        BY DEF Custody, Newest, Only, Built, BuildPcs
  <2> QED BY <1>2, <1>3, <1>4, <2>1 DEF Waiting, Typed, TypeOK, OptJob
<1>7. Promise!Install(pending)
      BY <1>1, <1>2, <1>5, <1>6 DEF Promise!Install
<1> QED BY <1>5, <1>7

LEMMA CleanupStutters == ASSUME CleanupNext PROVE UNCHANGED View
<1>1. UNCHANGED <<jobs, compileQ, cpc, cjob, pending, active>>
      BY Zenon DEF CleanupNext, CleanupReceive, CleanupDestroy, httpVars, compVars, slotVars
<1> QED BY <1>1, Zenon DEF View, Waiting, Built, Only

LEMMA RebootRestarts == ASSUME Reboot PROVE Promise!Restart
<1>1. jobs' = jobs /\ compileQ' = None /\ cpc' = "wait" /\ pending' = None /\ active' = None
      BY Zenon DEF Reboot
<1>2. Waiting' = {}
      BY <1>1 DEF Waiting, Built, BuildPcs, Only
<1> QED BY <1>1, <1>2 DEF Promise!Restart, None

LEMMA StepPromise ==
  ASSUME Typed, Flight, Custody, [Next]_vars
  PROVE  Promise!Next \/ UNCHANGED View
<1>1. CASE HttpdNext
  <2>1. CASE jobs' = jobs /\ compileQ' = compileQ
        BY <1>1, <2>1, HttpdBystander, BystanderStutters
  <2>2. CASE ~(jobs' = jobs /\ compileQ' = compileQ)
    <3>1. PICK n \in Names : SubmitSend(n) /\ compileQ = None
          BY <1>1, <2>2, Zenon DEF HttpdNext, StatusRead, StatusLock, StatusTimeout,
             StatusAnswer, SetMode, Preflight, PreflightLock, PreflightTimeout,
             PreflightAnswer, UploadFails, Submit, SubmitLock, SubmitTimeout, SubmitCheck,
             SubmitNoMemory, SubmitSend, SubmitQueued, SubmitAccepted, httpVars
    <3> QED BY <3>1, SendAccepts, Zenon DEF Promise!Next
  <2> QED BY <2>1, <2>2
<1>2. CASE CompileNext
  <2>1. \/ Bystander \/ JobReceive \/ BuildFails \/ Publish \/ Discard
        BY <1>2, CompileBystander DEF CompileNext
  <2> QED BY <2>1, BystanderStutters, ReceiveStutters, BuildFailsDrops,
             PublishDropsOrStutters, DiscardDrops, Zenon DEF Promise!Next
<1>3. CASE ScanNext
  <2>1. Bystander \/ Activate
        BY <1>3, OthersBystander DEF ScanNext
  <2> QED BY <2>1, BystanderStutters, ActivateInstalls, Zenon DEF Promise!Next
<1>4. CASE CleanupNext
      BY <1>4, CleanupStutters
<1>5. CASE CacheRead \/ CacheReadDone \/ UNCHANGED vars
      BY <1>5, OthersBystander, BystanderStutters
<1>6. CASE Reboot
      BY <1>6, RebootRestarts, Zenon DEF Promise!Next
<1> QED BY <1>1, <1>2, <1>3, <1>4, <1>5, <1>6 DEF Next

\* Each step of the four tasks accepts, drops or installs one upload, restarts, or
\* changes nothing a caller of the engine can rely on: ScriptEngine implements HotReload.
THEOREM Refinement == Spec => KeepsPromise
<1>1. Init => Promise!Init
  <2>1. ASSUME Init PROVE Waiting = {}
        BY <2>1 DEF Init, Waiting, Built, BuildPcs, Only
  <2> QED BY <2>1 DEF Init, Promise!Init, None
<1>2. Typed /\ Flight /\ Custody /\ [Next]_vars => [Promise!Next]_View
      BY StepPromise
<1> QED BY <1>1, <1>2, CustodyHolds, PTL DEF Spec, KeepsPromise, Promise!Spec, View

\* The running program is only ever replaced by a later upload.
THEOREM ReloadsMoveForward == Spec => NeverBackwards
<1>1. ASSUME Typed, Flight, Custody, [Next]_vars, active' # None
      PROVE  active' >= active
  <2>1. active \in Nat /\ (Promise!Next \/ active' = active)
        BY <1>1, StepPromise DEF View, Typed, TypeOK, OptJob
  <2>2. active' = active \/ active' = 0 \/ \E u \in Waiting : Promise!Install(u)
        BY <2>1, Zenon DEF Promise!Next, Promise!Accept, Promise!Drop, Promise!Restart
  <2>3. ASSUME NEW u \in Waiting, Promise!Install(u) PROVE active' > active
        BY <2>3 DEF Promise!Install
  <2>4. active' \in Nat
        BY <1>1, StepTyped DEF Typed, TypeOK, OptJob
  <2> QED BY <1>1, <2>1, <2>2, <2>3, <2>4 DEF None
<1>2. Typed /\ Flight /\ Custody /\ [Next]_vars
        => [active' # None => active' >= active]_vars
      BY <1>1
<1> QED BY <1>2, CustodyHolds, PTL DEF Spec, NeverBackwards
=============================================================================
