----------------------------- MODULE MCPlcTags ------------------------------
(* Instances of PlcTags for TLC: two slots, two types, uploaded tables that *)
(* differ in order, types and flags, one with a name twice, one too long.   *)
EXTENDS PlcTags, TLC

CONSTANTS a, b

T(name, type, writable, visible, v) ==
  [name |-> name, type |-> type, writable |-> writable, visible |-> visible,
   brace |-> FALSE, value |-> [as |-> type, v |-> v]]

MCDefaults == <<T(a, "bool", TRUE, TRUE, 0)>>

MCPosts ==
  {<<T(Start, "int", TRUE, TRUE, 0)>>,
   <<T(b, "bool", FALSE, FALSE, 0), T(a, "bool", TRUE, TRUE, 0)>>,
   <<T(a, "bool", TRUE, TRUE, 0), T(a, "int", TRUE, TRUE, 0)>>,
   <<T(b, "bool", TRUE, TRUE, 0), T(a, "int", TRUE, TRUE, 0),
     T(Start, "bool", TRUE, TRUE, 0)>>,
   <<T(BadName, "bool", TRUE, TRUE, 0)>>}

\* A board that holds one tag, whose description has a closing brace, with a value other
\* than 0.
MCBrace == {<<[T(a, "int", TRUE, TRUE, 1) EXCEPT !.brace = TRUE]>>}
MCEmpty == {NoImage}
=============================================================================
