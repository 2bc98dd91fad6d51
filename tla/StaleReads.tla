----------------------------- MODULE StaleReads -----------------------------
(* What a page may rely on: it shows values the tag really had, each for   *)
(* as long as it likes, but never an older one after a newer one. Values   *)
(* are known by their number, in the order in which the tag took them.     *)
EXTENDS Naturals

VARIABLES now, shown
vars == <<now, shown>>

Init == now = 1 /\ shown = 0
Change == now' = now + 1 /\ UNCHANGED shown
Show == shown' \in (shown + 1)..now /\ UNCHANGED now

Next == Change \/ Show
Spec == Init /\ [][Next]_vars
=============================================================================
