---------------------------- MODULE AtomicFiles ----------------------------
(* What the firmware relies on LittleFS for: a file holds pieces of one    *)
(* text, in their order and from its first; it changes in one step; and    *)
(* whoever reads it is given the text that was there when it was opened.   *)
EXTENDS Naturals, Sequences

CONSTANTS Files, MaxTexts, Pieces, Absent

VARIABLES
  store,    \* what each file holds
  view,     \* what a reader opened
  given     \* what it was given of that

vars == <<store, view, given>>

Start(text, n) == [i \in 1..n |-> <<text, i>>]
Content == {Start(text, n) : text \in 1..MaxTexts, n \in 0..Pieces}

Init == store = [f \in Files |-> Absent] /\ view = <<>> /\ given = <<>>

Change(f) ==
  /\ store' \in [Files -> Content \cup {Absent}]
  /\ \A g \in Files \ {f} : store'[g] = store[g]
  /\ UNCHANGED <<view, given>>

Open(f) ==
  /\ store[f] # Absent
  /\ view' = store[f] /\ given' = <<>>
  /\ UNCHANGED store

Read ==
  /\ Len(given) < Len(view)
  /\ given' = Append(given, view[Len(given) + 1])
  /\ UNCHANGED <<store, view>>

Close == view' = <<>> /\ given' = <<>> /\ UNCHANGED store

Restart ==   \* a file system that cannot be mounted is formatted
  /\ store' \in {store, [f \in Files |-> Absent]}
  /\ view' = <<>> /\ given' = <<>>

Next == (\E f \in Files : Change(f) \/ Open(f)) \/ Read \/ Close \/ Restart

Spec == Init /\ [][Next]_vars
=============================================================================
