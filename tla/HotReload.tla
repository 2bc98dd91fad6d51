----------------------------- MODULE HotReload ------------------------------
(***************************************************************************)
(* What the script engine promises its callers, without tasks, locks or    *)
(* flags: uploads are numbered as they are accepted; each accepted upload  *)
(* waits until it is either installed as the running program or dropped;   *)
(* uploads are installed oldest first, so the running program is always    *)
(* the latest of those installed; a restart forgets everything.            *)
(***************************************************************************)
EXTENDS Naturals

CONSTANT MaxUploads

VARIABLES last, waiting, running

Init == last = 0 /\ waiting = {} /\ running = 0

Accept ==
  /\ last < MaxUploads
  /\ last' = last + 1 /\ waiting' = waiting \cup {last + 1}
  /\ UNCHANGED running

Drop(u) ==
  /\ waiting' = waiting \ {u}
  /\ UNCHANGED <<last, running>>

Install(u) ==
  /\ u > running /\ \A w \in waiting : u <= w
  /\ running' = u /\ waiting' = waiting \ {u}
  /\ UNCHANGED last

Restart ==
  /\ running' = 0 /\ waiting' = {}
  /\ UNCHANGED last

Next ==
  \/ Accept
  \/ \E u \in waiting : Drop(u) \/ Install(u)
  \/ Restart

Spec == Init /\ [][Next]_<<last, waiting, running>>
=============================================================================
