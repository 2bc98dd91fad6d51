--------------------------- MODULE HmiClientProofs ---------------------------
(***************************************************************************)
(* Proofs about HmiClient, for every number of parts, values, clicks and   *)
(* faults. Along the way of a value its number can only be caught up with: *)
(*   shown <= answer <= json <= built <= Now                               *)
(* (Ahead), and with one request under way at most there is one answer.    *)
(* What is sent is what json holds (Sending), and json holds one text      *)
(* except while the cache task copies (OneText).                           *)
(***************************************************************************)
EXTENDS HmiClient, TLAPS

USE PartsAssumption, MaxValuesAssumption, ClientAssumption

Locks ==
  /\ kpc = "copy" <=> mutex = "cache"
  /\ hpc = "send" <=> mutex = "httpd"
  /\ hpc = "send" => polls = {Asked}
  /\ hpc = "idle" => sent = <<>>

OneText ==
  /\ kpc # "copy" => \A i, j \in 1..Parts : json[i] = json[j]
  /\ kpc = "copy" => \A i \in 1..Parts : i <= copied => json[i] = built

Sending == \A i \in 1..Len(sent) : sent[i] = json[i]

Ahead ==
  /\ built <= Now
  /\ \A i \in 1..Parts : json[i] <= built /\ shown <= json[i]
  /\ \A n \in 0..MaxValues : <<"data", n>> \in polls =>
       shown <= n /\ \A i \in 1..Parts : n <= json[i]

Real ==             \* what is sent was once the tag's value, not the empty buffer
  /\ kpc # "sleep" \/ ready => built >= 1
  /\ ready => \A i \in 1..Parts : json[i] >= 1
  /\ hpc = "send" => ready
  /\ \A n \in 0..MaxValues : <<"data", n>> \in polls => n >= 1

IInv == TypeOK /\ Locks /\ OneText /\ Sending /\ Ahead /\ Real

LEMMA Initially == ASSUME Init PROVE IInv
<1> USE DEF Init, ServerInit, Now
<1>1. past \in Seq(BOOLEAN) /\ Len(past) \in 1..MaxValues
      <2>1. <<FALSE>> \in Seq(BOOLEAN) /\ Len(<<FALSE>>) = 1 OBVIOUS
      <2> QED BY <2>1
<1>2. json \in [1..Parts -> 0..MaxValues] /\ sent \in Seq(0..MaxValues) /\ Len(sent) <= Parts
      OBVIOUS
<1>3. /\ polls \subseteq Answers \cup {Asked, Failed} /\ \A p, q \in polls : p = q
      /\ writes \subseteq [n: 1..MaxClicks, on: BOOLEAN, at: {"sent", "done", "failed"},
                           mine: BOOLEAN]
      OBVIOUS
<1>4. /\ clicks \in 0..MaxClicks /\ faults \in 0..MaxFaults /\ copied \in 0..Parts
      /\ built \in 0..MaxValues /\ shown \in 0..MaxValues
      OBVIOUS
<1>5. TypeOK
      <2> HIDE PartsAssumption, MaxValuesAssumption, ClientAssumption
      <2> QED BY <1>1, <1>2, <1>3, <1>4 DEF TypeOK
<1>6. Locks /\ OneText /\ Sending BY DEF Locks, OneText, Sending
<1>7. Ahead /\ Real BY DEF Ahead, Real
<1> QED BY <1>5, <1>6, <1>7 DEF IInv

-----------------------------------------------------------------------------
(* The cache task.                                                         *)
LEMMA CacheKeeps == ASSUME IInv, CacheStep PROVE IInv'
<1> USE DEF IInv, clientVars, storeVars, toggleVars
<1>1. CASE Build /\ UNCHANGED clientVars
      <2> USE <1>1 DEF Build
      <2>1. TypeOK' BY DEF TypeOK, Now
      <2>2. Locks' /\ OneText' /\ Sending' BY DEF Locks, OneText, Sending
      <2>3. Ahead' /\ Real' BY DEF Ahead, Real, Now, TypeOK
      <2> QED BY <2>1, <2>2, <2>3
<1>2. CASE TakeForCopy /\ UNCHANGED clientVars
      <2> USE <1>2 DEF TakeForCopy
      <2>1. TypeOK' BY DEF TypeOK, Now
      <2>2. Locks' /\ OneText' /\ Sending' BY DEF Locks, OneText, Sending
      <2>3. Ahead' /\ Real' BY DEF Ahead, Real, Now
      <2> QED BY <2>1, <2>2, <2>3
<1>3. CASE GiveUp /\ UNCHANGED clientVars
      <2> USE <1>3 DEF GiveUp
      <2>1. TypeOK' BY DEF TypeOK, Now
      <2>2. Locks' /\ OneText' /\ Sending' BY DEF Locks, OneText, Sending
      <2>3. Ahead' /\ Real' BY DEF Ahead, Real, Now
      <2> QED BY <2>1, <2>2, <2>3
<1>4. CASE CopyPart /\ UNCHANGED clientVars
      <2> USE <1>4 DEF CopyPart
      <2>1. TypeOK' BY DEF TypeOK, Now
      <2>2. sent = <<>> BY DEF Locks, TypeOK
      <2>3. copied + 1 \in 1..Parts /\ json \in [1..Parts -> 0..MaxValues] BY DEF TypeOK
      <2>4. Locks' /\ OneText' /\ Sending' BY <2>2, <2>3 DEF Locks, OneText, Sending, TypeOK
      <2>5. built \in Nat /\ shown \in Nat BY DEF TypeOK
      <2>6. \A i \in 1..Parts : json[i] <= json'[i] BY <2>3, <2>5 DEF Ahead
      <2>7. Ahead' /\ Real' BY <2>3, <2>5, <2>6 DEF Ahead, Real, Now, OneText, Locks
      <2> QED BY <2>1, <2>4, <2>7
<1>5. CASE CopyDone /\ UNCHANGED clientVars
      <2> USE <1>5 DEF CopyDone
      <2>1. TypeOK' BY DEF TypeOK, Now
      <2>2. Locks' /\ Sending' BY DEF Locks, Sending, TypeOK
      <2>3. \A i \in 1..Parts : json[i] = built BY DEF OneText
      <2>4. OneText' BY <2>3 DEF OneText
      <2>5. Ahead' /\ Real' BY <2>3 DEF Ahead, Real, Now
      <2> QED BY <2>1, <2>2, <2>4, <2>5
<1> QED BY <1>1, <1>2, <1>3, <1>4, <1>5 DEF CacheStep, CacheNext

-----------------------------------------------------------------------------
(* A step after which the buffers are the same, and the request under way  *)
(* is the same, gone, asked for, or failed.                                *)
LEMMA RequestOnly ==
  ASSUME IInv, TypeOK', UNCHANGED <<cacheVars, json, ready, mutex, hpc, sent, shown>>, Now' >= Now,
         polls' \in {polls, {}, {Asked}, {Failed}}, hpc = "send" => polls' = polls
  PROVE  IInv'
<1> USE DEF IInv, cacheVars
<1>1. Locks' /\ OneText' /\ Sending' BY DEF Locks, OneText, Sending
<1>2. built \in Nat /\ Now \in Nat /\ Now' \in Nat BY DEF TypeOK
<1>3. \A n \in 0..MaxValues : <<"data", n>> \in polls' => <<"data", n>> \in polls
      BY DEF Asked, Failed
<1>4. Ahead' /\ Real' BY <1>2, <1>3 DEF Ahead, Real
<1> QED BY <1>1, <1>4

LEMMA RefreshOne ==
  ASSUME RefreshPlcData PROVE polls' \in {polls, {Asked}} /\ (polls # {} => polls' = polls)
BY DEF RefreshPlcData, AskOnce

LEMMA OneRequest == ASSUME TypeOK, NEW a \in polls PROVE polls = {a}
BY DEF TypeOK

LEMMA NamedRequest == Asked \in Answers \cup {Asked, Failed} /\ Failed \in Answers \cup {Asked, Failed}
OBVIOUS

LEMMA ClientKeeps == ASSUME IInv, ClientNext PROVE IInv'
<1> USE DEF serverVars, cacheVars, storeVars, toggleVars
<1>0. TypeOK BY DEF IInv
<1>1. ASSUME RefreshPlcData
      PROVE  /\ polls' \subseteq Answers \cup {Asked, Failed} /\ \A p, q \in polls' : p = q
             /\ polls' \in {polls, {}, {Asked}, {Failed}} /\ (hpc = "send" => polls' = polls)
      BY <1>0, <1>1, RefreshOne, NamedRequest DEF TypeOK, Locks, IInv
<1>2. CASE Poll
      <2>1. TypeOK' BY <1>0, <1>1, <1>2 DEF TypeOK, Poll, Now
      <2> QED BY <1>1, <1>2, <2>1, RequestOnly DEF Poll, TypeOK, Now, IInv
<1>3. ASSUME NEW p \in {"hmi", "other"}, Go(p) PROVE IInv'
      <2>1. /\ polls' \subseteq Answers \cup {Asked, Failed} /\ \A a, b \in polls' : a = b
            /\ polls' \in {polls, {}, {Asked}, {Failed}} /\ (hpc = "send" => polls' = polls)
            BY <1>0, <1>1, <1>3 DEF Go, TypeOK
      <2>2. writes' \subseteq [n: 1..MaxClicks, on: BOOLEAN, at: {"sent", "done", "failed"},
                               mine: BOOLEAN]
            <3>1. ASSUME NEW w \in writes
                  PROVE  [w EXCEPT !.mine = FALSE]
                           \in [n: 1..MaxClicks, on: BOOLEAN, at: {"sent", "done", "failed"},
                               mine: BOOLEAN]
                  BY <1>0, <3>1 DEF TypeOK
            <3> QED BY <1>3, <3>1 DEF Go
      <2>3. TypeOK' BY <1>0, <1>3, <2>1, <2>2 DEF TypeOK, Go, Now
      <2> QED BY <1>3, <2>1, <2>3, RequestOnly DEF Go, TypeOK, Now, IInv
<1>4. CASE ToggleCommand
      <2>1. [n |-> clicks + 1, on |-> ~active, at |-> "sent", mine |-> TRUE]
              \in [n: 1..MaxClicks, on: BOOLEAN, at: {"sent", "done", "failed"}, mine: BOOLEAN]
            BY <1>0, <1>4 DEF TypeOK, ToggleCommand
      <2>2. writes' \subseteq [n: 1..MaxClicks, on: BOOLEAN, at: {"sent", "done", "failed"},
                               mine: BOOLEAN]
            BY <1>0, <1>4, <2>1 DEF TypeOK, ToggleCommand
      <2>3. clicks' \in 0..MaxClicks /\ active' \in BOOLEAN /\ lone' \in BOOLEAN
            BY <1>0, <1>4 DEF TypeOK, ToggleCommand
      <2>4. TypeOK' BY <1>0, <1>4, <2>2, <2>3 DEF TypeOK, ToggleCommand, Now
      <2> QED BY <1>4, <2>4, RequestOnly DEF ToggleCommand, TypeOK, Now, IInv
<1>5. CASE OverrideEnds
      <2>1. TypeOK' BY <1>0, <1>5 DEF TypeOK, OverrideEnds, Now
      <2> QED BY <1>5, <2>1, RequestOnly DEF OverrideEnds, TypeOK, Now, IInv
<1>6. CASE WriteAnswered
      <2>1. TypeOK' BY <1>0, <1>1, <1>6 DEF TypeOK, WriteAnswered, Now
      <2> QED BY <1>1, <1>6, <2>1, RequestOnly DEF WriteAnswered, TypeOK, Now, IInv
<1>7. CASE WriteFailed
      <2>1. writes' \subseteq writes /\ override' \in BOOLEAN
            BY <1>0, <1>7 DEF TypeOK, WriteFailed
      <2>2. TypeOK' BY <1>0, <1>7, <2>1 DEF TypeOK, WriteFailed, Now
      <2> QED BY <1>7, <2>2, RequestOnly DEF WriteFailed, TypeOK, Now, IInv
<1>8. CASE DataFails
      <2>1. polls' = {}
            BY <1>0, <1>8, OneRequest DEF DataFails, EndFlight, Forget
      <2>2. TypeOK' BY <1>0, <1>8, <2>1 DEF TypeOK, DataFails, Now
      <2>3. hpc # "send" BY <1>8 DEF DataFails, IInv, Locks, Asked, Failed
      <2> QED BY <1>8, <2>1, <2>2, <2>3, RequestOnly DEF DataFails, TypeOK, Now, IInv
<1>9. CASE DataArrives
      <2>1. PICK n \in 0..MaxValues :
              /\ <<"data", n>> \in polls /\ Forget(<<"data", n>>) /\ shown' = n
              /\ IF page = "hmi" THEN ApplyTags(Value(n)) ELSE UNCHANGED toggleVars
              /\ UNCHANGED <<serverVars, page, writes, clicks, faults, lone>>
            BY <1>9 DEF DataArrives
      <2>2. polls' = {} BY <1>0, <2>1, OneRequest DEF Forget
      <2>3. hpc # "send" BY <2>1 DEF IInv, Locks, Asked
      <2>4. \A i \in 1..Parts : n <= json[i] BY <2>1 DEF IInv, Ahead
      <2>5. Value(n) \in BOOLEAN
            <3>1. 1 <= n /\ n <= json[1] /\ json[1] <= built /\ built <= Now
                  BY <2>1 DEF IInv, Real, Ahead
            <3>2. json[1] \in Nat /\ built \in Nat /\ Now \in Nat BY <1>0 DEF TypeOK
            <3>3. n \in 1..Len(past) BY <3>1, <3>2 DEF Now
            <3> QED BY <1>0, <3>3 DEF TypeOK, Value
      <2>6. active' \in BOOLEAN /\ pending' \in BOOLEAN /\ override' \in BOOLEAN
            BY <1>0, <2>1, <2>5 DEF TypeOK, ApplyTags
      <2>7. TypeOK' BY <1>0, <2>1, <2>2, <2>6 DEF TypeOK, Now
      <2>8. Locks' /\ OneText' /\ Sending' /\ Ahead' /\ Real'
            BY <2>1, <2>2, <2>3, <2>4 DEF IInv, Locks, OneText, Sending, Ahead, Real, Now
      <2> QED BY <2>7, <2>8 DEF IInv
<1> QED BY <1>2, <1>3, <1>4, <1>5, <1>6, <1>7, <1>8, <1>9 DEF ClientNext

-----------------------------------------------------------------------------
(* httpd and the network.                                                  *)
WriteOf == [n: 1..MaxClicks, on: BOOLEAN, at: {"sent", "done", "failed"}, mine: BOOLEAN]

LEMMA TagKeeps ==
  ASSUME TypeOK, NEW v \in BOOLEAN, TagTakes(v)
  PROVE  past' \in Seq(BOOLEAN) /\ Now' \in 1..MaxValues /\ Now' = Now + 1
BY DEF TypeOK, TagTakes, Now

LEMMA Flips == ASSUME TypeOK PROVE (~past[Now]) \in BOOLEAN
OBVIOUS

LEMMA LostKeeps == ASSUME TypeOK, Lost PROVE faults' \in 0..MaxFaults
BY DEF TypeOK, Lost

LEMMA Answered ==
  ASSUME TypeOK, Asked \in polls, NEW a \in Answers \cup {Asked, Failed}, Becomes(a)
  PROVE  polls' = {a} /\ polls' \subseteq Answers \cup {Asked, Failed}
                      /\ \A p, q \in polls' : p = q
BY OneRequest DEF Becomes

LEMMA Marked ==
  ASSUME TypeOK, NEW w \in writes, NEW at \in {"done", "failed"},
         writes' = (writes \ {w}) \cup {[w EXCEPT !.at = at]}
  PROVE  writes' \subseteq WriteOf
<1>1. writes \subseteq WriteOf BY DEF TypeOK, WriteOf
<1>2. [w EXCEPT !.at = at] \in WriteOf BY <1>1 DEF WriteOf
<1> QED BY <1>1, <1>2

LEMMA Appended ==
  ASSUME NEW S, NEW s \in Seq(S), NEW e \in S
  PROVE  /\ Append(s, e) \in Seq(S) /\ Len(Append(s, e)) = Len(s) + 1
         /\ \A i \in 1..Len(Append(s, e)) :
              Append(s, e)[i] = IF i <= Len(s) THEN s[i] ELSE e
OBVIOUS

LEMMA ServerKeeps == ASSUME IInv, ServerNext PROVE IInv'
<1> USE DEF IInv, cacheVars, clientVars, storeVars, toggleVars
<1>1. CASE ServePoll
      <2> USE <1>1 DEF ServePoll, TakeForSend, KeepForSend
      <2>1. TypeOK' BY DEF TypeOK, Now
      <2>2. polls = {Asked} BY OneRequest
      <2>3. Locks' /\ OneText' /\ Sending' BY <2>2 DEF Locks, OneText, Sending
      <2>4. Ahead' /\ Real' BY DEF Ahead, Real, Now
      <2> QED BY <2>1, <2>3, <2>4
<1>2. CASE SendMore
      <2> USE <1>2 DEF SendMore, SendPart
      <2>1. Len(sent) + 1 \in 1..Parts /\ json[Len(sent) + 1] \in 0..MaxValues BY DEF TypeOK
      <2>2. /\ sent' \in Seq(0..MaxValues) /\ Len(sent') = Len(sent) + 1
            /\ \A i \in 1..Len(sent') :
                 sent'[i] = IF i <= Len(sent) THEN sent[i] ELSE json[Len(sent) + 1]
            BY <2>1, Appended DEF TypeOK
      <2>3. TypeOK' BY <2>1, <2>2 DEF TypeOK, Now
      <2>4. Sending' BY <2>2 DEF Sending, TypeOK
      <2>5. Locks' /\ OneText' BY DEF Locks, OneText
      <2>6. Ahead' /\ Real' BY DEF Ahead, Real, Now
      <2> QED BY <2>3, <2>4, <2>5, <2>6
<1>3. CASE ServedPoll
      <2> USE <1>3 DEF ServedPoll, SendEnds
      <2>0. TypeOK OBVIOUS
      <2>1. Asked \in polls /\ ready BY DEF Locks, Real
      <2>2. polls = {Asked} BY <2>0, <2>1, OneRequest
      <2>3. ASSUME Len(sent) = Parts
            PROVE  /\ sent[1] = json[1] /\ sent[1] \in 0..MaxValues
                   /\ \A i \in 1..Parts : json[i] = json[1]
            BY <2>3 DEF Sending, OneText, Locks, TypeOK
      <2>4. \/ Lost /\ polls' = {Failed}
            \/ Len(sent) = Parts /\ polls' = {<<"data", sent[1]>>} /\ UNCHANGED faults
            BY <2>2 DEF Becomes
      <2>5. faults' \in 0..MaxFaults BY <2>0, <2>4, LostKeeps DEF TypeOK
      <2>6. polls' \subseteq Answers \cup {Asked, Failed} /\ \A p, q \in polls' : p = q
            BY <2>3, <2>4 DEF Answers
      <2>7. TypeOK' BY <2>5, <2>6 DEF TypeOK, Now
      <2>8. Locks' /\ OneText' /\ Sending' BY DEF Locks, OneText, Sending
      <2>9. ASSUME NEW n \in 0..MaxValues, <<"data", n>> \in polls'
            PROVE  n = json[1] /\ \A i \in 1..Parts : json[i] = n
            BY <2>3, <2>4, <2>9 DEF Failed
      <2>10. Ahead' /\ Real' BY <2>1, <2>9 DEF Ahead, Real, Now, TypeOK
      <2> QED BY <2>7, <2>8, <2>10
<1>4. CASE RefusePoll
      <2>0. TypeOK OBVIOUS
      <2>1. polls' = {Failed} /\ polls' \subseteq Answers \cup {Asked, Failed}
            BY <2>0, <1>4, Answered, NamedRequest DEF RefusePoll
      <2>2. faults' \in 0..MaxFaults BY <2>0, <1>4, LostKeeps DEF RefusePoll, TypeOK
      <2>3. TypeOK' BY <1>4, <2>1, <2>2 DEF RefusePoll, TypeOK, serverVars, Now
      <2>4. hpc # "send" BY <1>4 DEF RefusePoll, WarmingUp, Busy
      <2> QED BY <1>4, <2>1, <2>3, <2>4, RequestOnly DEF RefusePoll, serverVars, Now, TypeOK
<1>5. CASE ServeWrite
      <2>0. TypeOK OBVIOUS
      <2>1. PICK w \in writes, at \in {"done", "failed"} :
              /\ TagTakes(w.on) /\ IF at = "done" THEN UNCHANGED faults ELSE Lost
              /\ writes' = (writes \ {w}) \cup {[w EXCEPT !.at = at]}
            BY <1>5 DEF ServeWrite
      <2>2. w.on \in BOOLEAN BY DEF TypeOK
      <2>3. past' \in Seq(BOOLEAN) /\ Now' \in 1..MaxValues /\ Now' = Now + 1
            BY <2>0, <2>1, <2>2, TagKeeps
      <2>4. faults' \in 0..MaxFaults BY <2>0, <2>1, LostKeeps DEF TypeOK
      <2>5. writes' \subseteq WriteOf BY <2>0, <2>1, Marked
      <2>6. TypeOK' BY <1>5, <2>3, <2>4, <2>5 DEF TypeOK, ServeWrite, WriteOf
      <2>7. Now' >= Now BY <2>3 DEF TypeOK
      <2> QED BY <1>5, <2>6, <2>7, RequestOnly DEF ServeWrite
<1> QED BY <1>1, <1>2, <1>3, <1>4, <1>5 DEF ServerNext

LEMMA OthersKeep == ASSUME IInv, PollLost \/ WriteLost \/ ScriptWrites PROVE IInv'
<1> USE DEF cacheVars, storeVars, toggleVars
<1>0. TypeOK BY DEF IInv
<1>1. CASE PollLost
      <2>1. polls' = {Failed} /\ polls' \subseteq Answers \cup {Asked, Failed}
            BY <1>0, <1>1, Answered, NamedRequest DEF PollLost
      <2>2. TypeOK' BY <1>0, <1>1, <2>1, LostKeeps DEF PollLost, TypeOK, serverVars, Now
      <2> QED BY <1>0, <1>1, <2>1, <2>2, RequestOnly DEF PollLost, serverVars, Now, TypeOK
<1>2. CASE WriteLost
      <2>1. writes' \subseteq WriteOf BY <1>0, <1>2, Marked DEF WriteLost
      <2>2. TypeOK' BY <1>0, <1>2, <2>1, LostKeeps DEF WriteLost, TypeOK, WriteOf, serverVars, Now
      <2> QED BY <1>0, <1>2, <2>2, RequestOnly DEF WriteLost, serverVars, Now, TypeOK
<1>3. CASE ScriptWrites
      <2>1. past' \in Seq(BOOLEAN) /\ Now' \in 1..MaxValues /\ Now' = Now + 1
            BY <1>0, <1>3, Flips, TagKeeps DEF ScriptWrites
      <2>2. TypeOK' BY <1>0, <1>3, <2>1 DEF TypeOK, ScriptWrites
      <2>3. Now' >= Now BY <1>0, <2>1 DEF TypeOK
      <2> QED BY <1>3, <2>2, <2>3, RequestOnly DEF ScriptWrites
<1> QED BY <1>1, <1>2, <1>3

LEMMA StepKeeps == ASSUME IInv, [Next]_vars PROVE IInv'
<1>1. CASE UNCHANGED vars
      <2>1. TypeOK' BY <1>1 DEF IInv, TypeOK, vars, serverVars, cacheVars, clientVars, storeVars,
                              toggleVars, Now
      <2> QED BY <1>1, <2>1, RequestOnly DEF IInv, TypeOK, vars, serverVars, cacheVars, clientVars,
                              storeVars, Now
<1> QED BY <1>1, CacheKeeps, ClientKeeps, ServerKeeps, OthersKeep DEF Next

THEOREM Always == Spec => []IInv
<1>1. Init => IInv BY Initially
<1>2. IInv /\ [Next]_vars => IInv' BY StepKeeps
<1> QED BY <1>1, <1>2, PTL DEF Spec

\* Every variable stays within its type, and at most one poll is under way.
THEOREM TypesHold == Spec => []TypeOK
<1>1. IInv => TypeOK BY DEF IInv
<1> QED BY <1>1, Always, PTL

\* An answer is one text: the parts that httpd has sent are of the same build of the cache
\* task, at any speed of the one and of the other.
THEOREM AnswersAreWhole == Spec => []SentWhole
<1>1. IInv => SentWhole
      BY DEF IInv, TypeOK, Locks, OneText, Sending, SentWhole
<1> QED BY <1>1, Always, PTL

-----------------------------------------------------------------------------
(* The refinement: what the page shows is read late, but never backwards.  *)
LEMMA StartsStale == ASSUME Init PROVE Stale!Init
BY DEF Init, ServerInit, Stale!Init, Now

LEMMA StepIsStale == ASSUME IInv, [Next]_vars PROVE [Stale!Next]_<<Now, shown>>
<1> USE DEF Stale!Next, Stale!Change, Stale!Show
<1>0. TypeOK /\ Now \in Nat BY DEF IInv, TypeOK
<1>1. ASSUME UNCHANGED past, UNCHANGED shown PROVE UNCHANGED <<Now, shown>>
      BY <1>1 DEF Now
<1>2. CASE UNCHANGED vars
      BY <1>1, <1>2 DEF vars, serverVars, clientVars, storeVars
<1>3. CASE CacheStep
      BY <1>1, <1>3 DEF CacheStep, CacheNext, Build, TakeForCopy, GiveUp, CopyPart, CopyDone,
                        clientVars, storeVars
<1>4. CASE ClientNext
      <2>1. CASE DataArrives
            <3>1. PICK n \in 0..MaxValues : <<"data", n>> \in polls /\ shown' = n /\ past' = past
                  BY <2>1 DEF DataArrives, serverVars
            <3>2. /\ shown <= n /\ n <= json[1] /\ json[1] <= built /\ built <= Now
                  BY <3>1 DEF IInv, Ahead
            <3>3. shown \in Nat /\ json[1] \in Nat /\ built \in Nat BY <1>0 DEF TypeOK
            <3>4. Now' = Now BY <3>1 DEF Now
            <3> QED BY <1>0, <3>1, <3>2, <3>3, <3>4
      <2>2. CASE Poll \/ (\E p \in {"hmi", "other"} : Go(p)) \/ ToggleCommand \/ OverrideEnds
                   \/ WriteAnswered \/ WriteFailed \/ DataFails
            BY <1>1, <2>2 DEF Poll, Go, ToggleCommand, OverrideEnds, WriteAnswered, WriteFailed,
                              DataFails, serverVars, storeVars
      <2> QED BY <1>4, <2>1, <2>2 DEF ClientNext
<1>5. CASE ServePoll \/ SendMore \/ ServedPoll \/ RefusePoll \/ PollLost \/ WriteLost
      BY <1>1, <1>5 DEF ServePoll, SendMore, ServedPoll, RefusePoll, PollLost, WriteLost,
                        TakeForSend, SendPart, SendEnds, serverVars, clientVars, storeVars
<1>6. CASE ServeWrite \/ ScriptWrites
      <2>1. PICK v \in BOOLEAN : TagTakes(v) /\ shown' = shown
            BY <1>0, <1>6, Flips DEF ServeWrite, ScriptWrites, TypeOK, storeVars
      <2> QED BY <1>0, <2>1, TagKeeps
<1> QED BY <1>2, <1>3, <1>4, <1>5, <1>6 DEF Next, ServerNext

\* The page shows values the tag really had and never an older one after a newer one: the
\* firmware's cache and the browser's store implement StaleReads.
THEOREM ShowsForward == Spec => NeverOlder
<1>1. Init => Stale!Init BY StartsStale
<1>2. IInv /\ [Next]_vars => [Stale!Next]_<<Now, shown>> BY StepIsStale
<1> QED BY <1>1, <1>2, Always, PTL DEF Spec, NeverOlder, Stale!Spec, Stale!vars

-----------------------------------------------------------------------------
(* The click. A value read before the click may still come and is held off *)
(* by the override; of the values from the one shown on, none turns back   *)
(* after one that is as clicked (Undisputed).                              *)
Undisputed ==
  lone =>
    /\ shown >= 1
    /\ \A w \in writes : w.on = active
    /\ \A n, m \in shown..Now : n <= m /\ past[n] = active => past[m] = active
    /\ (pending /\ override) \/ \A n \in shown..Now : past[n] = active

LEMMA ClickKeeps == ASSUME IInv, Undisputed, [Next]_vars PROVE Undisputed'
<1> USE DEF serverVars, cacheVars, clientVars, storeVars, toggleVars
<1>0. TypeOK /\ past \in Seq(BOOLEAN) /\ Now \in Nat /\ Now >= 1 BY DEF IInv, TypeOK
<1>1. ASSUME UNCHANGED <<past, shown, active, pending, lone>>, override => override',
             \A w \in writes' : \E u \in writes : w.on = u.on
      PROVE  Undisputed'
      BY <1>1 DEF Undisputed, Now
<1>2. CASE UNCHANGED vars
      BY <1>1, <1>2 DEF vars
<1>3. CASE CacheStep
      BY <1>1, <1>3 DEF CacheStep, CacheNext, Build, TakeForCopy, GiveUp, CopyPart, CopyDone
<1>4. CASE Poll \/ WriteAnswered \/ WriteFailed \/ DataFails
      BY <1>1, <1>4 DEF Poll, WriteAnswered, WriteFailed, DataFails
<1>5. CASE ServePoll \/ SendMore \/ ServedPoll \/ RefusePoll \/ PollLost
      BY <1>1, <1>5 DEF ServePoll, SendMore, ServedPoll, RefusePoll, PollLost,
                        TakeForSend, SendPart, SendEnds
<1>6. CASE WriteLost
      <2>1. PICK w \in writes : writes' = (writes \ {w}) \cup {[w EXCEPT !.at = "failed"]}
            BY <1>6 DEF WriteLost
      <2>2. [w EXCEPT !.at = "failed"].on = w.on BY <1>0 DEF TypeOK
      <2>3. \A x \in writes' : \E u \in writes : x.on = u.on BY <2>1, <2>2
      <2> QED BY <1>1, <1>6, <2>3 DEF WriteLost
<1>7. CASE OverrideEnds \/ ScriptWrites \/ \E p \in {"hmi", "other"} : Go(p)
      BY <1>7 DEF OverrideEnds, ScriptWrites, Go, Undisputed
<1>8. CASE ToggleCommand
      <2>1. SUFFICES ASSUME lone' PROVE Undisputed' BY DEF Undisputed
      <2>2. writes = {} /\ shown = Now /\ UNCHANGED <<past, shown>> /\ pending' /\ override'
            BY <1>8, <2>1 DEF ToggleCommand
      <2>3. writes' = {[n |-> clicks + 1, on |-> active', at |-> "sent", mine |-> TRUE]}
            BY <1>8, <2>2 DEF ToggleCommand
      <2>4. \A n, m \in (shown..Now)' : n = m BY <1>0, <2>2 DEF Now
      <2> QED BY <1>0, <2>2, <2>3, <2>4 DEF Undisputed
<1>9. CASE DataArrives
      <2>1. PICK n \in 0..MaxValues :
              /\ <<"data", n>> \in polls /\ shown' = n
              /\ IF page = "hmi" THEN ApplyTags(Value(n)) ELSE UNCHANGED toggleVars
              /\ UNCHANGED <<past, writes, lone>>
            BY <1>9 DEF DataArrives
      <2>2. n \in shown..Now
            <3>1. shown <= n /\ n <= json[1] /\ json[1] <= built /\ built <= Now
                  BY <2>1 DEF IInv, Ahead
            <3>2. shown \in Nat /\ json[1] \in Nat /\ built \in Nat BY <1>0 DEF TypeOK
            <3> QED BY <1>0, <3>1, <3>2
      <2>3. SUFFICES ASSUME lone PROVE Undisputed' BY <2>1 DEF Undisputed
      <2>4. (n..Now)' \subseteq shown..Now BY <1>0, <2>1, <2>2 DEF Now, TypeOK
      <2>5. active' = active
            BY <2>1, <2>2, <2>3 DEF Undisputed, ApplyTags, Value
      <2>6. (pending /\ override)' \/ past[n] = active
            BY <2>1, <2>2, <2>3 DEF Undisputed, ApplyTags, Value
      <2>7. past[n] = active => \A m \in (n..Now)' : past[m] = active
            BY <2>2, <2>3, <2>4 DEF Undisputed
      <2>8. shown' >= 1 BY <1>0, <2>1, <2>2, <2>3 DEF Undisputed, TypeOK
      <2> QED BY <2>1, <2>3, <2>4, <2>5, <2>6, <2>7, <2>8 DEF Undisputed
<1>10. CASE ServeWrite
      <2>1. SUFFICES ASSUME lone PROVE Undisputed' BY <1>10 DEF ServeWrite, Undisputed
      <2>2. PICK w \in writes, at \in {"done", "failed"} :
              /\ TagTakes(w.on)
              /\ writes' = (writes \ {w}) \cup {[w EXCEPT !.at = at]}
            BY <1>10 DEF ServeWrite
      <2>3. UNCHANGED <<shown, active, pending, override>> /\ w.on = active
            BY <1>10, <2>1, <2>2 DEF ServeWrite, Undisputed
      <2>4. \A u \in writes' : u.on = active
            BY <1>0, <2>1, <2>2, <2>3 DEF Undisputed, TypeOK
      <2>5. past' = Append(past, active) /\ active \in BOOLEAN
            BY <1>0, <2>2, <2>3 DEF TagTakes, TypeOK
      <2>6. Now' = Now + 1 /\ past'[Now + 1] = active /\ \A n \in 1..Now : past'[n] = past[n]
            BY <1>0, <2>5 DEF Now
      <2>7. shown \in Nat /\ shown >= 1 BY <1>0, <2>1 DEF Undisputed, TypeOK
      <2>8. \A n \in shown..Now' : n = Now + 1 \/ (n \in shown..Now /\ n \in 1..Now)
            BY <1>0, <2>6, <2>7
      <2>9. \A n, m \in shown..Now' : n <= m /\ past'[n] = active => past'[m] = active
            BY <1>0, <2>1, <2>6, <2>8 DEF Undisputed
      <2>10. (pending /\ override) \/ \A n \in shown..Now' : past'[n] = active
            BY <1>0, <2>1, <2>6, <2>8 DEF Undisputed
      <2> QED BY <2>3, <2>4, <2>7, <2>9, <2>10 DEF Undisputed
<1> QED BY <1>2, <1>3, <1>4, <1>5, <1>6, <1>7, <1>8, <1>9, <1>10 DEF Next, ClientNext, ServerNext

LEMMA ClickShown ==
  ASSUME IInv, Undisputed, [Next]_vars, lone, lone', clicks' = clicks
  PROVE  active' = active
<1> USE DEF serverVars, cacheVars, clientVars, storeVars, toggleVars
<1>1. CASE DataArrives
      <2>1. PICK n \in 0..MaxValues :
              /\ <<"data", n>> \in polls
              /\ IF page = "hmi" THEN ApplyTags(Value(n)) ELSE UNCHANGED toggleVars
            BY <1>1 DEF DataArrives
      <2>2. n \in shown..Now
            <3>1. shown <= n /\ n <= json[1] /\ json[1] <= built /\ built <= Now
                  BY <2>1 DEF IInv, Ahead
            <3>2. shown \in Nat /\ json[1] \in Nat /\ built \in Nat /\ Now \in Nat
                  BY DEF IInv, TypeOK
            <3> QED BY <3>1, <3>2
      <2> QED BY <2>1, <2>2 DEF Undisputed, ApplyTags, Value
<1>2. CASE ToggleCommand
      <2>1. clicks \in Nat /\ clicks' = clicks + 1 BY <1>2 DEF ToggleCommand, IInv, TypeOK
      <2> QED BY <2>1
<1>3. CASE CacheStep BY <1>3 DEF CacheStep
<1>4. CASE Poll \/ WriteAnswered \/ WriteFailed \/ DataFails \/ OverrideEnds
           \/ \E p \in {"hmi", "other"} : Go(p)
      BY <1>4 DEF Poll, WriteAnswered, WriteFailed, DataFails, OverrideEnds, Go
<1>5. CASE ServerNext \/ PollLost \/ WriteLost \/ ScriptWrites
      BY <1>5 DEF ServerNext, ServePoll, SendMore, ServedPoll, RefusePoll, ServeWrite, PollLost,
                  WriteLost, ScriptWrites
<1>6. CASE UNCHANGED vars BY <1>6 DEF vars
<1> QED BY <1>1, <1>2, <1>3, <1>4, <1>5, <1>6 DEF Next, ClientNext

\* A click stays visible: until the override ends, the script writes, another click is made or
\* the page is left, no answer turns the toggle back, in whatever order the write, the polls
\* asked before and after it, and the copies of the cache task come.
THEOREM ClicksStay == Spec => ClickStays
<1>1. Init => Undisputed BY DEF Init, Undisputed
<1>2. IInv /\ Undisputed /\ [Next]_vars => Undisputed' BY ClickKeeps
<1>3. IInv /\ Undisputed /\ [Next]_vars
        => [lone /\ lone' /\ clicks' = clicks => active' = active]_vars
      BY ClickShown
<1> QED BY <1>1, <1>2, <1>3, Always, PTL DEF Spec, ClickStays
=============================================================================
