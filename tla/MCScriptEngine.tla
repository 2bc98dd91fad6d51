--------------------------- MODULE MCScriptEngine ---------------------------
(* Small instances of ScriptEngine for TLC. *)
EXTENDS ScriptEngine
=============================================================================
