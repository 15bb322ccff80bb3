---------------------------- MODULE MCGammaPanel ----------------------------
(***************************************************************************)
(* Finite instances of GammaPanel: three adapters, so that the attached    *)
(* displays can leave a gap, or two where the gap plays no part.           *)
(***************************************************************************)
EXTENDS GammaPanel, TLC

\* A hotkey for all displays, for one, and for a list of two entries.
MCBindings == {<<>>, <<0>>, <<2>>, <<1, 0>>}

Case(clients, ramps, bindings, hotplug, overlap) ==
    [clients |-> clients, ramps |-> ramps, bindings |-> bindings,
     hotplug |-> hotplug, overlap |-> overlap]

\* Requests of every client one at a time, or overlapping enumerations by the
\* server and by hotkeys.
MCSettings == {Case(Clients, Ramps, Bindings, TRUE, FALSE),
               Case(Workers \union HotkeyThreads, {Linear}, {<<>>}, TRUE, TRUE)}

\* One handler and one hotkey, displays fixed; one handler alone.
MCHotkeyAtExit == {Case(Workers \union HotkeyThreads, Ramps, {<<>>}, FALSE, TRUE)}
MCOnePage      == {Case(Workers, Ramps, {}, FALSE, FALSE)}

\* The server's threads are interchangeable.
MCSymmetry == Permutations(Workers)
============================================================================
