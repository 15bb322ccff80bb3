--------------------------- MODULE MCHotkeyPanel ----------------------------
(***************************************************************************)
(* A finite instance of HotkeyPanel: two keys with a ramp each, and one    *)
(* display.                                                                *)
(***************************************************************************)
EXTENDS HotkeyPanel, TLC

CONSTANTS a, b, reading, gaming

MCConfigs == {<<>>, <<a>>, <<b>>}
MCDoes == a :> [sel |-> <<>>, ramp |-> reading] @@ b :> [sel |-> <<1>>, ramp |-> gaming]
============================================================================
