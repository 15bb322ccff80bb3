---------------------------- MODULE MCPresetFiles ----------------------------
(***************************************************************************)
(* A finite instance of PresetFiles: three clients, one file, two presets. *)
(* Either presets of any size, saved one at a time with writes that fail,  *)
(* or presets that fit in a buffer, saved in parallel.                     *)
(***************************************************************************)
EXTENDS PresetFiles, TLC

MCSettings == {[buffered |-> FALSE, parallel |-> FALSE, diskFull |-> TRUE],
               [buffered |-> TRUE,  parallel |-> TRUE,  diskFull |-> FALSE]}

\* Clients are interchangeable, and so are presets.
MCSymmetry == Permutations(Clients) \union Permutations(Presets)
=============================================================================
