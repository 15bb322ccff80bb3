------------------------------ MODULE Program -------------------------------
(***************************************************************************)
(* The process: Lifecycle, the steps of main(), the server and the tray    *)
(* thread, together with TrayMenu, the menu that runs on the tray thread.  *)
(* Quit is a command of the menu, so a menu on screen, or an item picked   *)
(* and not yet dispatched, meets the program's end.                        *)
(***************************************************************************)
EXTENDS Lifecycle

CONSTANTS
    Dirs,    \* as in TrayMenu
    Desktops

ASSUME DirsAssumption == \A D \in Dirs : D \subseteq Nat
ASSUME DesktopsAssumption == \A A \in Desktops : A \subseteq Nat

VARIABLES dir, attached, cached, menu, chosen, effect, shownDir

Menu == INSTANCE TrayMenu

menuVars == <<dir, attached, cached, menu, chosen, effect, shownDir>>
all      == <<vars, menuVars>>

ProgramInit == Init /\ Menu!Init

Gone == mpc \in {"exited", "turnedaway"}

\* The tray thread is in its message loop, or in that of the menu it shows.
Looping == tray = "loop" /\ ~Gone

----------------------------------------------------------------------------
(* The steps that wait for nobody but the program itself. *)

MainStep ==
    /\ \/ TestMutex
       \/ ApplyShortkeys
       \/ RunTrayMenu
       \/ StartWeb
       \/ Served
       \/ OpenHandle
       \/ CommandDone
       \/ EndREPL
       \/ StopWebServer
       \/ JoinWeb
       \/ StopTrayMenu
       \/ JoinTray
       \/ Release
    /\ UNCHANGED menuVars

\* The command of the item picked is dispatched.  (TrackPopupMenu posted it ahead
\* of any WM_QUIT.)
Command ==
    /\ Looping
    /\ Menu!WmCommand
    /\ IF effect' = Menu!Quit THEN QuitPicked ELSE UNCHANGED vars

\* WM_QUIT ends the loop of the menu, which leaves it for the thread's own loop.
MenuCloses ==
    /\ Looping
    /\ trayQuit
    /\ Menu!Dismiss
    /\ UNCHANGED vars

TrayStep ==
    \/ (CreateTrayWindow \/ RequestQuit) /\ UNCHANGED menuVars
    \/ Menu!Idle /\ TrayEnds /\ UNCHANGED menuVars
    \/ Command
    \/ MenuCloses

WebStep == (ServerUp \/ ServerReturns) /\ UNCHANGED menuVars

----------------------------------------------------------------------------
(* The user and the rest of the system. *)

UseMenu ==
    /\ Looping
    /\ ~trayQuit
    /\ Menu!ShowContextMenu \/ Menu!Pick \/ Menu!Dismiss
    /\ UNCHANGED vars

Change ==
    /\ ~Gone
    /\ Menu!PresetsChange \/ Menu!DisplaysChange
    /\ UNCHANGED vars

User ==
    \/ (\E line \in {"exit", "eof", "other"} : GetLine(line)) /\ UNCHANGED menuVars
    \/ CtrlC /\ UNCHANGED menuVars
    \/ Menu!Idle /\ TrayDestroyed /\ UNCHANGED menuVars

Next ==
    \/ MainStep
    \/ TrayStep
    \/ WebStep
    \/ UseMenu
    \/ Change
    \/ User
    \/ Gone /\ UNCHANGED all

\* The threads are scheduled and the server comes up and down; nothing forces
\* the user.
Fairness ==
    /\ WF_all(MainStep)
    /\ WF_all(TrayStep)
    /\ WF_all(WebStep)

Spec == ProgramInit /\ [][Next]_all /\ Fairness

----------------------------------------------------------------------------
(* Properties. *)

Types == TypeOK /\ Menu!TypeOK

\* release() runs alone: the server's workers and the tray thread, which use the
\* panel and the hotkey service, have ended, and no command of the menu is left
\* to be carried out (HotkeyService and GammaPanel take this for granted in
\* BeginRelease).
ReleaseAlone ==
    mpc \in {"release", "exited"} => web = "done" /\ tray = "done" /\ Menu!Idle

\* Once the prompt is left with the server up and the tray window made, the
\* program ends, even with the menu open, or if the tray's Quit or an interrupt
\* comes on top.
ExitEnds == (mpc = "endrepl" /\ web = "up" /\ hwnd) ~> mpc = "exited"

\* GUI build: picking Quit, or an item that collides with it, while the server is
\* up ends the program.
QuitEndsGui ==
    (chosen.id = Menu!IDM_QUIT /\ web = "up" /\ build = "gui") ~> mpc = "exited"

\* See TrayMenu.
ItemDoesWhatItSays == Menu!ItemDoesWhatItSays

\* See TrayMenu.
ItemStaysItself == Menu!ItemStaysItself
============================================================================
