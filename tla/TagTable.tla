------------------------------ MODULE TagTable ------------------------------
(***************************************************************************)
(* What the tag registry promises about its table, to programs, pages and  *)
(* whoever restarts the board: the tags in force change only as a whole,   *)
(* by a text that is legal from its first entry to its last, or by the     *)
(* compatibility tag at their end; what is stored is always a table that   *)
(* was in force, or none after the board has had to erase its memory; and  *)
(* no write to a value, whoever makes it, touches a tag's name, type or    *)
(* flags. A tag is its definition: values have no place here.              *)
(***************************************************************************)
EXTENDS Naturals, Sequences

CONSTANTS
  Buffers,       \* where texts wait to be loaded
  Uploads,       \* what clients may send
  Factory,       \* the tags in force before anything is loaded
  Boards,        \* what may be stored when a board is first switched on
  Compatibility, \* the tag that old programs expect
  BadName, MaxTags

VARIABLES
  tags,          \* the tags in force
  stored,        \* the table a restart will find, as a set: there may be none
  incoming,      \* per buffer: a text that may replace the tags
  storing,       \* the tags in force are being stored
  ready          \* the registry was initialised since the last restart
table == <<tags, stored, incoming, storing, ready>>

NamesIn(text) == {text[i].name : i \in 1..Len(text)}

Legal(text) ==
  /\ Len(text) <= MaxTags /\ BadName \notin NamesIn(text)
  /\ \A i, j \in 1..Len(text) : text[i].name = text[j].name => i = j

Completed(text) ==
  IF Compatibility.name \in NamesIn(text) \/ Len(text) = MaxTags THEN text
  ELSE Append(text, Compatibility)

Nothing == [b \in Buffers |-> <<>>]

Init ==
  /\ tags = <<>> /\ stored \in Boards
  /\ incoming = Nothing /\ storing = FALSE /\ ready = FALSE

Receive ==           \* from a client
  /\ \E b \in Buffers, text \in Uploads : incoming' = [incoming EXCEPT ![b] = text]
  /\ UNCHANGED <<tags, stored, storing, ready>>

Find ==              \* what was stored, at first use
  /\ ~ready /\ ~storing
  /\ tags' = Factory
  /\ \E b \in Buffers, text \in stored : incoming' = [incoming EXCEPT ![b] = text]
  /\ UNCHANGED <<stored, storing, ready>>

Drop ==
  /\ \E b \in Buffers : incoming' = [incoming EXCEPT ![b] = <<>>]
  /\ UNCHANGED <<tags, stored, storing, ready>>

Replace ==
  /\ ~storing /\ storing' = TRUE
  /\ \E b \in Buffers :
       /\ Legal(incoming[b])
       /\ tags' = incoming[b] /\ incoming' = [incoming EXCEPT ![b] = <<>>]
  /\ UNCHANGED <<stored, ready>>

Store ==
  /\ storing /\ storing' = FALSE
  /\ stored' \in {{tags}, stored}      \* or there is no room for it
  /\ UNCHANGED <<tags, incoming, ready>>

Complete ==          \* the end of the initialisation
  /\ ~storing /\ ready' = TRUE
  /\ tags' = Completed(tags)
  /\ UNCHANGED <<stored, incoming, storing>>

Supply ==            \* likewise, when nothing was found
  /\ ~storing /\ ~ready /\ ready' = TRUE
  /\ tags' = Completed(Factory)
  /\ UNCHANGED <<stored, incoming, storing>>

Restart ==           \* the memory may be found unusable, and is erased then
  /\ tags' = <<>> /\ incoming' = Nothing /\ storing' = FALSE /\ ready' = FALSE
  /\ stored' \in {stored, {}}

Next == Receive \/ Find \/ Drop \/ Replace \/ Store \/ Complete \/ Supply \/ Restart

Spec == Init /\ [][Next]_table
=============================================================================
