----------------------------- MODULE HmiClient ------------------------------
(***************************************************************************)
(* A browser at the controller: the polling store (plcStore.js), which all *)
(* pages share, and a toggle of the HMI page, which shows a click at once  *)
(* and a polled value later. JavaScript runs each callback to its end; the *)
(* steps between are requests and their answers, on connections of their   *)
(* own: a write and a poll may overtake each other. A connection may be    *)
(* lost with its request or its answer; it does not hang for ever.         *)
(* Not modelled: the poll of the command center, which overwrites the      *)
(* masks beside the points; a toggle whose tag is not writable.            *)
(***************************************************************************)
EXTENDS DataCache, FiniteSets

CONSTANTS
  MaxClicks,   \* bound: clicks of the user
  MaxFaults    \* bound: connections lost, and polls refused because of a copy

ASSUME ClientAssumption == MaxClicks \in Nat /\ MaxFaults \in Nat

VARIABLES
  page,        \* the page shown: "hmi", or one that needs no points
  polls,       \* dataInflight: {} or one request
  shown,       \* the number of the value in pointsByName
  writes,      \* POSTs of /api/plc_write under way
  active, pending, override,  \* of the toggle; override: localOverrideUntil is to come
  clicks, faults,
  lone         \* history: what the toggle shows is disputed by no other write

storeVars == <<polls, shown>>
toggleVars == <<active, pending, override>>
clientVars == <<page, storeVars, writes, toggleVars, clicks, faults, lone>>
vars == <<serverVars, clientVars>>

Answers == {<<"data", n>> : n \in 0..MaxValues}
Asked   == <<"asked", 0>>
Failed  == <<"failed", 0>>

Init ==
  /\ ServerInit
  /\ page = "other" /\ polls = {} /\ shown = 0 /\ writes = {}
  /\ active = FALSE /\ pending = FALSE /\ override = FALSE
  /\ clicks = 0 /\ faults = 0 /\ lone = FALSE

-----------------------------------------------------------------------------
(* The store.                                                              *)
AskAgain == polls' = polls \cup {Asked}      \* Mutant: the one in flight is not looked at.
AskOnce  == polls' = IF polls = {} THEN {Asked} ELSE polls

RefreshPlcData == AskOnce

Poll ==             \* the timer, which runs while dataUsers > 0
  /\ page # "other"
  /\ RefreshPlcData
  /\ UNCHANGED <<serverVars, page, shown, writes, toggleVars, clicks, faults, lone>>

\* The router: the old page is released, the new one calls usePlcData. The layout, with the
\* toggle as it is, is kept in localStorage meanwhile; answers to writes no longer reach it.
Go(p) ==
  /\ p # page
  /\ page' = p
  /\ IF p = "other" THEN UNCHANGED polls ELSE RefreshPlcData
  /\ writes' = {[w EXCEPT !.mine = FALSE] : w \in writes}
  /\ lone' = FALSE
  /\ UNCHANGED <<serverVars, shown, toggleVars, clicks, faults>>

-----------------------------------------------------------------------------
(* The toggle.                                                             *)
Value(n) == past[n]

\* Mutant: a click is forgotten with the first answer.
ApplyAlways(v) ==
  /\ active' = v /\ pending' = FALSE /\ override' = FALSE

ApplyTags(v) ==
  LET confirmed == pending /\ v = active IN
  /\ override' = (override /\ ~confirmed)
  /\ IF pending /\ ~confirmed /\ override
     THEN UNCHANGED <<active, pending>>
     ELSE active' = v /\ pending' = FALSE

ToggleCommand ==
  /\ page = "hmi" /\ clicks < MaxClicks
  /\ clicks' = clicks + 1
  /\ active' = ~active /\ pending' = TRUE /\ override' = TRUE
  /\ writes' = writes \cup {[n |-> clicks + 1, on |-> ~active, at |-> "sent", mine |-> TRUE]}
  /\ lone' = (writes = {} /\ shown = Now)
  /\ UNCHANGED <<serverVars, page, storeVars, faults>>

OverrideEnds ==
  /\ override /\ override' = FALSE
  /\ lone' = FALSE
  /\ UNCHANGED <<serverVars, page, storeVars, writes, active, pending, clicks, faults>>

WriteAnswered ==    \* plcWrite: then the points are asked for
  \E w \in writes :
    /\ w.at = "done"
    /\ writes' = writes \ {w}
    /\ RefreshPlcData
    /\ UNCHANGED <<serverVars, page, shown, toggleVars, clicks, faults, lone>>

WriteFailed ==      \* toggleCommand's catch
  \E w \in writes :
    /\ w.at = "failed"
    /\ writes' = writes \ {w}
    /\ override' = (override \/ w.mine)
    /\ UNCHANGED <<serverVars, page, storeVars, active, pending, clicks, faults, lone>>

-----------------------------------------------------------------------------
(* Answers to polls.                                                       *)
Forget(a) == polls' = polls \ {a}

DataArrives ==
  \E n \in 0..MaxValues :
    /\ <<"data", n>> \in polls
    /\ Forget(<<"data", n>>)
    /\ shown' = n
    /\ IF page = "hmi" THEN ApplyTags(Value(n)) ELSE UNCHANGED toggleVars
    /\ UNCHANGED <<serverVars, page, writes, clicks, faults, lone>>

KeepInFlight == UNCHANGED polls     \* Mutant: only an answer ends the flight.
EndFlight    == Forget(Failed)

DataFails ==
  /\ Failed \in polls
  /\ EndFlight
  /\ UNCHANGED <<serverVars, page, shown, writes, toggleVars, clicks, faults, lone>>

-----------------------------------------------------------------------------
(* The network and httpd, which serves one request to its end.             *)
Lost == faults < MaxFaults /\ faults' = faults + 1
Becomes(a) == polls' = (polls \ {Asked}) \cup {a}

ServePoll ==
  /\ Asked \in polls
  /\ TakeForSend
  /\ UNCHANGED clientVars

SendMore == SendPart /\ UNCHANGED clientVars

ServedPoll ==
  /\ SendEnds
  /\ \/ Len(sent) = Parts /\ Becomes(<<"data", sent[1]>>) /\ UNCHANGED faults
     \/ Lost /\ Becomes(Failed)
  /\ UNCHANGED <<page, shown, writes, toggleVars, clicks, lone>>

RefusePoll ==
  /\ Asked \in polls /\ Becomes(Failed)
  /\ (WarmingUp /\ UNCHANGED faults) \/ (Busy /\ Lost)
  /\ UNCHANGED <<serverVars, page, shown, writes, toggleVars, clicks, lone>>

PollLost ==
  /\ hpc = "idle" /\ Asked \in polls /\ Becomes(Failed)
  /\ Lost
  /\ UNCHANGED <<serverVars, page, shown, writes, toggleVars, clicks, lone>>

ServeWrite ==       \* plc_write_post_handler; the answer may be lost
  /\ hpc = "idle"
  /\ \E w \in writes :
       /\ w.at = "sent"
       /\ TagTakes(w.on)
       /\ \E at \in {"done", "failed"} :
            /\ IF at = "done" THEN UNCHANGED faults ELSE Lost
            /\ writes' = (writes \ {w}) \cup {[w EXCEPT !.at = at]}
  /\ UNCHANGED <<cacheVars, json, ready, mutex, hpc, sent, page, storeVars, toggleVars,
                 clicks, lone>>

WriteLost ==
  /\ Lost
  /\ \E w \in writes :
       w.at = "sent" /\ writes' = (writes \ {w}) \cup {[w EXCEPT !.at = "failed"]}
  /\ UNCHANGED <<serverVars, page, storeVars, toggleVars, clicks, lone>>

ScriptWrites ==     \* the running script writes the tag; the bound keeps room for the clicks
  /\ Now + (MaxClicks - clicks) + Cardinality({w \in writes : w.at = "sent"}) < MaxValues
  /\ TagTakes(~past[Now])
  /\ lone' = FALSE
  /\ UNCHANGED <<cacheVars, json, ready, mutex, hpc, sent, page, storeVars, writes, toggleVars,
                 clicks, faults>>

CacheStep == CacheNext /\ UNCHANGED clientVars

ClientNext ==
  \/ Poll \/ (\E p \in {"hmi", "other"} : Go(p)) \/ ToggleCommand \/ OverrideEnds
  \/ WriteAnswered \/ WriteFailed \/ DataArrives \/ DataFails

ServerNext ==
  \/ ServePoll \/ SendMore \/ ServedPoll \/ RefusePoll \/ ServeWrite

Next ==
  \/ ClientNext \/ ServerNext \/ PollLost \/ WriteLost \/ ScriptWrites \/ CacheStep

Spec == Init /\ [][Next]_vars

-----------------------------------------------------------------------------
\* Every variable stays within the values its counterpart can take, and refreshPlcData has
\* one request under way at most.
TypeOK ==
  /\ past \in Seq(BOOLEAN) /\ Now \in 1..MaxValues
  /\ kpc \in {"sleep", "publish", "copy"} /\ built \in 0..MaxValues /\ copied \in 0..Parts
  /\ json \in [1..Parts -> 0..MaxValues] /\ ready \in BOOLEAN
  /\ mutex \in {"free", "cache", "httpd"} /\ hpc \in {"idle", "send"}
  /\ sent \in Seq(0..MaxValues) /\ Len(sent) <= Parts
  /\ page \in {"hmi", "other"} /\ shown \in 0..MaxValues
  /\ polls \subseteq Answers \cup {Asked, Failed} /\ \A p, q \in polls : p = q
  /\ writes \subseteq [n: 1..MaxClicks, on: BOOLEAN, at: {"sent", "done", "failed"}, mine: BOOLEAN]
  /\ active \in BOOLEAN /\ pending \in BOOLEAN /\ override \in BOOLEAN /\ lone \in BOOLEAN
  /\ clicks \in 0..MaxClicks /\ faults \in 0..MaxFaults

\* "Keep the mutex while sending so the cache task cannot overwrite the buffer mid-transfer":
\* an answer is one text, however slowly it is sent and whenever the cache task copies.
SentWhole == \A i, j \in 1..Len(sent) : sent[i] = sent[j]

Stale == INSTANCE StaleReads WITH now <- Now

\* A page never goes back to an older value, although answers are built, copied and sent at
\* different times and requests are made by a timer, by pages and after writes.
NeverOlder == Stale!Spec

\* "Keep the clicked state visible even if the readback endpoint has not caught up yet": until
\* the override ends no answer turns the toggle back, unless another write disputes it (an
\* earlier click not yet answered, the script) or the page is left.
ClickStays == [][lone /\ lone' /\ clicks' = clicks => active' = active]_vars

-----------------------------------------------------------------------------
(***************************************************************************)
(* Fairness. FreeRTOS runs the cache task and httpd, both of priority 1, in *)
(* turn; a task that waits for the mutex gets it in the end. The timer goes *)
(* on, answers reach their callbacks and two seconds end.                  *)
(***************************************************************************)
FairSpec ==
  /\ Spec
  /\ WF_vars((Build \/ CopyPart \/ CopyDone) /\ UNCHANGED clientVars)
  /\ SF_vars(TakeForCopy /\ UNCHANGED clientVars)
  /\ SF_vars(ServePoll) /\ WF_vars(SendMore \/ ServedPoll)
  /\ WF_vars(Poll) /\ WF_vars(DataArrives \/ DataFails) /\ WF_vars(OverrideEnds)

\* While the HMI is shown, and unless the cache task finds the mutex taken each time it has
\* built a text, the toggle comes to show what the tag is: no click, lost connection, refused
\* poll or failed write leaves it with another value for good.
HmiConverges ==
  (<>[](page = "hmi") /\ []<>(kpc = "publish" /\ mutex = "free"))
    => <>[](active = past[Now])
=============================================================================
