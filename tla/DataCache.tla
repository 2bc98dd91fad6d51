----------------------------- MODULE DataCache ------------------------------
(***************************************************************************)
(* The values of the tags on their way to a browser: the cache task builds *)
(* the JSON in a buffer of its own every 100 ms and copies it to the one   *)
(* the httpd task sends; a mutex guards the copy and the sending. One tag  *)
(* stands for all points; its values are numbered, and a text is known by  *)
(* the number of the value in it, part by part, because neither memcpy nor *)
(* the sending of 24 KB is one step.                                       *)
(***************************************************************************)
EXTENDS Naturals, Sequences

CONSTANTS
  Parts,       \* of the text
  MaxValues    \* bound: how many values the tag takes

ASSUME PartsAssumption == Parts \in Nat \ {0}
ASSUME MaxValuesAssumption == MaxValues \in Nat \ {0}

VARIABLES
  past,        \* the values the tag has had, the last one now
  kpc,         \* cache task: its next step
  built,       \* what is in build_json
  copied,      \* parts of it that are in g_plc_data_cache_json
  json,        \* g_plc_data_cache_json
  ready,       \* g_plc_data_cache_ready
  mutex,       \* g_plc_data_cache_mutex: its holder
  hpc,         \* httpd: its next step in plc_data_get_handler
  sent         \* what it has sent of the text

cacheVars == <<kpc, built, copied>>
serverVars == <<past, cacheVars, json, ready, mutex, hpc, sent>>

Now == Len(past)

ServerInit ==
  /\ past = <<FALSE>>
  /\ kpc = "sleep" /\ built = 0 /\ copied = 0
  /\ json = [i \in 1..Parts |-> 0] /\ ready = FALSE /\ mutex = "free"
  /\ hpc = "idle" /\ sent = <<>>

TagTakes(v) ==      \* from a script, or from plc_write
  /\ Now < MaxValues
  /\ past' = Append(past, v)

-----------------------------------------------------------------------------
\* plc_data_build_json_into. When the text does not fit, the task sleeps on: no step.
Build ==
  /\ kpc = "sleep" /\ kpc' = "publish"
  /\ built' = Now
  /\ UNCHANGED <<past, copied, json, ready, mutex, hpc, sent>>

TakeForCopy ==
  /\ kpc = "publish" /\ kpc' = "copy"
  /\ mutex = "free" /\ mutex' = "cache"
  /\ copied' = 0
  /\ UNCHANGED <<past, built, json, ready, hpc, sent>>

GiveUp ==           \* 10 ms, and the handler still sends
  /\ kpc = "publish" /\ kpc' = "sleep"
  /\ mutex # "free"
  /\ UNCHANGED <<past, built, copied, json, ready, mutex, hpc, sent>>

CopyPart ==
  /\ kpc = "copy" /\ copied < Parts
  /\ json' = [json EXCEPT ![copied + 1] = built]
  /\ copied' = copied + 1
  /\ UNCHANGED <<past, kpc, built, ready, mutex, hpc, sent>>

CopyDone ==
  /\ kpc = "copy" /\ kpc' = "sleep"
  /\ copied = Parts
  /\ ready' = TRUE /\ mutex' = "free"
  /\ UNCHANGED <<past, built, copied, json, hpc, sent>>

CacheNext == Build \/ TakeForCopy \/ GiveUp \/ CopyPart \/ CopyDone

-----------------------------------------------------------------------------
(* plc_data_get_handler, step by step; who asked is told at the end.       *)
GiveBeforeSend == "free"           \* Mutant: the mutex is not kept while sending.
KeepForSend    == "httpd"

TakeForSend ==
  /\ hpc = "idle" /\ hpc' = "send"
  /\ mutex = "free" /\ ready
  /\ mutex' = KeepForSend
  /\ UNCHANGED <<past, cacheVars, json, ready, sent>>

SendPart ==
  /\ hpc = "send" /\ Len(sent) < Parts
  /\ sent' = Append(sent, json[Len(sent) + 1])
  /\ UNCHANGED <<past, cacheVars, json, ready, mutex, hpc>>

SendEnds ==         \* all is sent, or the connection is lost
  /\ hpc = "send" /\ hpc' = "idle"
  /\ sent' = <<>>
  /\ mutex' = "free"
  /\ UNCHANGED <<past, cacheVars, json, ready>>

\* 503: nothing was ever copied; or the mutex was not had in 20 ms.
WarmingUp == hpc = "idle" /\ ~ready
Busy      == hpc = "idle" /\ mutex # "free"
=============================================================================
