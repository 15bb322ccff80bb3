----------------------------- MODULE MCProgram ------------------------------
(***************************************************************************)
(* A finite instance of Program: one preset, or eleven, the fewest with    *)
(* which menu numbers collide; displays with and without a gap.            *)
(***************************************************************************)
EXTENDS Program

MCDirs     == {{2}, 1 .. 11}
MCDesktops == {{0}, {0, 2}, {0, 1, 2}}
============================================================================
