-------------------------- MODULE MCParserBuilder ---------------------------
(***************************************************************************)
(* A parser with its help option and two arguments more.  Every array and  *)
(* the dependencies of an argument have room for one or two, so that the   *)
(* limits are met within few calls.                                        *)
(***************************************************************************)
EXTENDS HelpSections

CONSTANTS help, a1, a2, custom

MCArgId == {help, a1, a2}
MCTypeName == {"int", custom}
MCNargs == {1, 2, ZERO_OR_ONE, ONE_OR_MORE}
MCMutexId == {NONE, 0, 1}
MCAction == {"STORE", "APPEND", "HELP"}
MCText == {"help"}

MCSymmetry == Permutations({a1, a2})
=============================================================================
