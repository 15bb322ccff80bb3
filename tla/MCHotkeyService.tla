-------------------------- MODULE MCHotkeyService --------------------------
(***************************************************************************)
(* Finite instances of HotkeyService.  Combination a is used by this       *)
(* process only, combination b by other programs as well; a configuration  *)
(* may repeat a combination.                                               *)
(***************************************************************************)
EXTENDS HotkeyService, TLC

CONSTANTS a, b

MCCombos  == {a, b}
MCOthers  == {b}
MCConfigs == {<<>>, <<a>>, <<b, a>>, <<a, a>>}
MCFewer   == {<<>>, <<a>>, <<b, a>>}

\* The smallest instance on which handlers can race.
MCOneCombo  == {a}
MCNoOthers  == {}
MCOneConfig == {<<>>, <<a>>}

\* Workers are interchangeable, and so are thread identities (safety runs only).
MCSymmetry == Permutations(Workers) \union Permutations(Threads)
============================================================================
