---------------------------- MODULE InputFilter -----------------------------
(***************************************************************************)
(* What debouncing promises: a digital input follows its pin as soon as    *)
(* the last Depth samples agree, and otherwise keeps the value it had.     *)
(***************************************************************************)
EXTENDS Naturals

CONSTANTS Inputs, Depth

Level    == {0, 1}
NoSample == 2                 \* before the first Depth samples

VARIABLES
  recent,   \* the last Depth samples, newest first
  value     \* what the program sees

Settled(r, i, v) == \A k \in 1..Depth : r[k][i] = v

Init ==
  /\ recent = [k \in 1..Depth |-> [i \in Inputs |-> NoSample]]
  /\ value = [i \in Inputs |-> 0]

Sample(raw) ==
  /\ recent' = [k \in 1..Depth |-> IF k = 1 THEN raw ELSE recent[k - 1]]
  /\ value' = [i \in Inputs |-> IF Settled(recent', i, raw[i]) THEN raw[i] ELSE value[i]]

Next == \E raw \in [Inputs -> Level] : Sample(raw)

Spec == Init /\ [][Next]_<<recent, value>>
=============================================================================
