------------------------- MODULE MCKeybindingsPanel -------------------------
(***************************************************************************)
(* A finite instance of KeybindingsPanel: one modifier, Shift; a letter, a *)
(* digit and an arrow key; a file of two bindings or none.                 *)
(***************************************************************************)
EXTENDS KeybindingsPanel

CONSTANTS a, one, up

Plain(k, mods) == [mods |-> mods, main |-> [key |-> k, other |-> FALSE]]
MCFiles == {<<>>, <<Plain(a, {}), Plain(one, {Shift})>>}
=============================================================================
