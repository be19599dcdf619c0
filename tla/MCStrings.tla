------------------------------ MODULE MCStrings -----------------------------
(***************************************************************************)
(* Questions about strings, alone.                                         *)
(***************************************************************************)
EXTENDS Strings

StringsSpec == StringsInit /\ SortInit /\ [][StringsNext /\ UNCHANGED sortVars]_<<stringsVars, sortVars>>
=============================================================================
