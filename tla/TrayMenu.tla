------------------------------ MODULE TrayMenu ------------------------------
(***************************************************************************)
(* The tray's context menu (tray.cpp): ShowContextMenu gives every item a  *)
(* command number made from positions, in the list of presets and in the   *)
(* list of displays; TrackPopupMenu posts the number of the item picked;   *)
(* TrayWndProc turns it back into what to do.  The displays are cached     *)
(* with the menu, the presets are listed again.  Meanwhile the page may    *)
(* have added or removed presets and displays may have come and gone.      *)
(*                                                                         *)
(* A preset is a number, in the order of the file names.  What an item     *)
(* does to the displays is GammaPanel's business; Program puts the menu    *)
(* together with the thread it runs on.                                    *)
(***************************************************************************)
EXTENDS Naturals, Sequences, FiniteSets

CONSTANTS
    Dirs,    \* the contents gamma/ may have: sets of presets
    Desktops \* the displays that may be attached: sets of adapter numbers

VARIABLES
    dir,      \* the presets in gamma/
    attached, \* the attached displays
    cached,   \* s_displayIndices
    menu,     \* the items of the menu on screen, none when there is no menu
    chosen,   \* the item picked, until its command has been dispatched
    effect,   \* what was done last, until the next menu
    shownDir  \* history: the presets when the menu was made

vars == <<dir, attached, cached, menu, chosen, effect, shownDir>>

IDM_RESET_ALL   == 1001
IDM_RESET_DISP  == 2000
IDM_PRESET_ALL  == 3000
IDM_PRESET_DISP == 4000
IDM_OPEN_WEBUI  == 5001
IDM_QUIT        == 5002

\* The members of a set of numbers in ascending order.
InOrder(S) ==
    [n \in 1 .. Cardinality(S) |-> CHOOSE x \in S : Cardinality({y \in S : y <= x}) = n]

----------------------------------------------------------------------------
(* What can be done; on = <<>> stands for every display, <<d>> for one. *)

Do(what, preset, on) == [what |-> what, preset |-> preset, on |-> on]
Open    == Do("open", <<>>, <<>>)
Quit    == Do("quit", <<>>, <<>>)
Nothing == Do("nothing", <<>>, <<>>)
Reset(on)    == Do("reset", <<>>, on)
Apply(p, on) == Do("apply", <<p>>, on)

Item(id, does) == [id |-> id, does |-> does]
NoItem == Item(0, Nothing)

\* The items ShowContextMenu makes from presets p and displays l: with one display
\* or none an item for each preset, otherwise a submenu for each.
Items(p, l) ==
    {Item(IDM_RESET_ALL, Reset(<<>>)), Item(IDM_OPEN_WEBUI, Open), Item(IDM_QUIT, Quit)}
    \union {Item(IDM_RESET_DISP + (j - 1), Reset(<<l[j]>>)) : j \in DOMAIN l}
    \union {Item(IDM_PRESET_ALL + (i - 1), Apply(p[i], <<>>)) : i \in DOMAIN p}
    \union IF Len(l) <= 1 THEN {}
           ELSE {Item(IDM_PRESET_DISP + (i - 1) * 100 + (j - 1), Apply(p[i], <<l[j]>>)) :
                    i \in DOMAIN p, j \in DOMAIN l}

\* MUTANT of ForOneDisplay: the two parts of the number are swapped.
ForOneDisplaySwapped(n, p, l) ==
    LET pi == n % 100
        di == n \div 100
    IN  IF pi < Len(p) /\ di < Len(l) THEN Apply(p[pi + 1], <<l[di + 1]>>) ELSE Nothing

\* The commands that apply one preset to one display.
ForOneDisplay(n, p, l) ==
    LET pi == n \div 100
        di == n % 100
    IN  IF pi < Len(p) /\ di < Len(l) THEN Apply(p[pi + 1], <<l[di + 1]>>) ELSE Nothing

\* What TrayWndProc does on WM_COMMAND cmd, when presets() returns p and l is
\* cached.  The tests are made in this order.
Dispatched(cmd, p, l) ==
    CASE cmd = IDM_QUIT -> Quit
      [] cmd = IDM_OPEN_WEBUI -> Open
      [] cmd = IDM_RESET_ALL -> Reset(<<>>)
      [] cmd \in IDM_RESET_DISP .. IDM_RESET_DISP + 999 ->
            LET idx == cmd - IDM_RESET_DISP
            IN  IF idx < Len(l) THEN Reset(<<l[idx + 1]>>) ELSE Nothing
      [] cmd \in (IDM_PRESET_DISP .. IDM_PRESET_DISP + 9999) \ {IDM_QUIT, IDM_OPEN_WEBUI} ->
            ForOneDisplay(cmd - IDM_PRESET_DISP, p, l)
      [] cmd \in IDM_PRESET_ALL .. IDM_PRESET_ALL + 999 ->
            LET pi == cmd - IDM_PRESET_ALL
            IN  IF pi < Len(p) THEN Apply(p[pi + 1], <<>>) ELSE Nothing
      [] OTHER -> Nothing

----------------------------------------------------------------------------

\* No menu on screen and no command to be dispatched.
Idle == menu = {} /\ chosen = NoItem

\* The types of the variables; the cached list is one listing of the displays.
TypeOK ==
    /\ dir \in Dirs
    /\ shownDir \in Dirs
    /\ attached \in Desktops
    /\ \E A \in Desktops \union {{}} : cached = InOrder(A)
    /\ \A i \in menu \union {chosen} : i.id \in 0 .. 65535

Init ==
    /\ dir \in Dirs
    /\ attached \in Desktops
    /\ cached = <<>>
    /\ menu = {}
    /\ chosen = NoItem
    /\ effect = Nothing
    /\ shownDir = dir

\* MUTANT of Recached: s_displayIndices is not cleared.
RecachedAppends == cached \o InOrder(attached)

\* s_displayIndices is emptied and filled with the displays listed now.
Recached == InOrder(attached)

ShowContextMenu ==
    /\ Idle
    /\ cached' = Recached
    /\ menu' = Items(InOrder(dir), InOrder(attached))
    /\ shownDir' = dir
    /\ effect' = Nothing
    /\ UNCHANGED <<dir, attached, chosen>>

\* TrackPopupMenu posts the item's WM_COMMAND and returns.
Pick ==
    /\ chosen' \in menu
    /\ menu' = {}
    /\ UNCHANGED <<dir, attached, cached, effect, shownDir>>

Dismiss ==
    /\ menu # {}
    /\ menu' = {}
    /\ UNCHANGED <<dir, attached, cached, chosen, effect, shownDir>>

\* MUTANT of Looked: a position is looked up in the displays of now.
LookedLive == InOrder(attached)

\* Where WM_COMMAND looks the position of a display up.
Looked == cached

WmCommand ==
    /\ chosen # NoItem
    /\ effect' = Dispatched(chosen.id % 65536, InOrder(dir), Looked)
    /\ chosen' = NoItem
    /\ UNCHANGED <<dir, attached, cached, menu, shownDir>>

\* The page saves presets, the user adds and removes files; displays are plugged.
PresetsChange ==
    /\ dir' \in Dirs \ {dir}
    /\ UNCHANGED <<attached, cached, menu, chosen, effect, shownDir>>

DisplaysChange ==
    /\ attached' \in Desktops \ {attached}
    /\ UNCHANGED <<dir, cached, menu, chosen, effect, shownDir>>

----------------------------------------------------------------------------
(* Properties. *)

Dispatches == chosen # NoItem /\ chosen' = NoItem

\* From the eleventh preset on, the numbers "+ preset_index * 100 + idx" (tray.cpp:18)
\* of its second and third display are those of Open Web UI and Quit.
Collides(i) == i.does.what = "apply" /\ i.id \in {IDM_OPEN_WEBUI, IDM_QUIT}

\* While the presets stay as they were when the menu was made, the command of an
\* item does what the item says, whatever has happened to the displays; but for
\* the two items above, which open the page and end the program.
ItemDoesWhatItSays ==
    [][Dispatches /\ dir = shownDir =>
        effect' = IF ~Collides(chosen) THEN chosen.does
                  ELSE IF chosen.id = IDM_QUIT THEN Quit ELSE Open]_vars

\* Whatever the page has done to the presets meanwhile: an item never turns into
\* one of another kind or for another display; at worst it applies another preset
\* or does nothing.
ItemStaysItself ==
    [][Dispatches /\ ~Collides(chosen) =>
        \/ effect' = Nothing
        \/ /\ effect'.what = chosen.does.what
           /\ effect'.on = chosen.does.on]_vars
============================================================================
