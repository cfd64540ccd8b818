--------------------------- MODULE MCScriptRuntime ----------------------------
(* Patterns for model checking ScriptRuntime: one of a single symbol, one    *)
(* that begins with it and spans two chunks.                                 *)
EXTENDS ScriptRuntime, TLC

CONSTANTS a, b

MCPatterns == {<<a>>, <<a, b>>}
SpanPatterns == {<<a, b>>}
==============================================================================
