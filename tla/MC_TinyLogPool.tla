--------------------------- MODULE MC_TinyLogPool ---------------------------
(***************************************************************************)
(* Model-checking instance of TinyLogPool: one or two dispatchers, up to  *)
(* four sealed tiny logs, logQueue capacity 1 or large enough for all.    *)
(***************************************************************************)
EXTENDS TinyLogPool

CONSTANTS d1, d2
==============================================================================
