----------------------------- MODULE Lifecycle ------------------------------
(***************************************************************************)
(* How the program starts, runs and ends: main(), the tray thread of       *)
(* RunTrayMenu / StopTrayMenu, the web server of RunWebServer /            *)
(* StopWebServer, the prompt of RunREPL, and RequestQuit, which the tray's *)
(* Quit item calls.  In the GUI build main() runs the server itself; in    *)
(* the REPL build (GAPA_REPL) another thread does and main() runs the      *)
(* prompt.                                                                 *)
(*                                                                         *)
(* The server is Crow, which is not in the repository: stop() before run() *)
(* has made its server object does nothing; afterwards run() returns.      *)
(* Both calls of gamma_panel by main() itself, apply_shortkeys() and       *)
(* release(), are one step here (see HotkeyService and GammaPanel).        *)
(* Program puts these steps and those of the tray's menu together.         *)
(***************************************************************************)
EXTENDS Naturals

CONSTANT Builds \* the builds of the instance: "gui", "repl"

ASSUME BuildsAssumption == Builds \subseteq {"gui", "repl"}

VARIABLES
    build,         \* GAPA_REPL or not
    mpc,           \* the next step of main()
    web,           \* RunWebServer, on whichever thread runs it
    tray,          \* the next step of the tray thread
    hwnd,          \* s_hwnd is set
    trayQuit,      \* WM_QUIT is in the tray thread's queue
    running,       \* s_running
    handle,        \* s_hMainThread is set
    quitRequested  \* s_quitRequested

vars == <<build, mpc, web, tray, hwnd, trayQuit, running, handle, quitRequested>>

MainPCs == {"mutex", "shortkeys", "turnedaway", "runtray", "startweb", "serve", "openhandle",
            "prompt", "command", "endrepl",
            "stopweb", "joinweb", "stoptray", "jointray", "release", "exited"}
WebStates == {"unborn", "starting", "up", "stopping", "done"}
TrayPCs   == {"unborn", "starting", "loop", "quitting", "done"}

\* The types of the variables, and s_hwnd is set exactly while there is a window.
TypeOK ==
    /\ build \in Builds
    /\ mpc \in MainPCs
    /\ web \in WebStates
    /\ tray \in TrayPCs
    /\ hwnd \in BOOLEAN
    /\ trayQuit \in BOOLEAN
    /\ running \in BOOLEAN
    /\ handle \in BOOLEAN
    /\ quitRequested \in BOOLEAN
    /\ hwnd <=> tray \in {"loop", "quitting"}

Init ==
    /\ build \in Builds
    /\ mpc = "mutex"
    /\ web = "unborn"
    /\ tray = "unborn"
    /\ hwnd = FALSE
    /\ trayQuit = FALSE
    /\ running = FALSE
    /\ handle = FALSE
    /\ quitRequested = FALSE

----------------------------------------------------------------------------
(* main() *)

MainFromTo(p, q) == mpc = p /\ mpc' = q

\* app.stop(): nothing to stop, and nothing remembered, before the server is up.
Stopped(w) == IF w = "up" THEN "stopping" ELSE w

\* The named mutex is made, or is another instance's already: then the page is
\* opened and main() returns.
TestMutex ==
    /\ mpc = "mutex"
    /\ mpc' \in {"shortkeys", "turnedaway"}
    /\ UNCHANGED <<build, web, tray, hwnd, trayQuit, running, handle, quitRequested>>

ApplyShortkeys ==
    /\ MainFromTo("shortkeys", "runtray")
    /\ UNCHANGED <<build, web, tray, hwnd, trayQuit, running, handle, quitRequested>>

RunTrayMenu ==
    /\ MainFromTo("runtray", "startweb")
    /\ running' = TRUE
    /\ tray' = "starting"
    /\ UNCHANGED <<build, web, hwnd, trayQuit, handle, quitRequested>>

\* RunWebServer is called, or a thread is made for it.
StartWeb ==
    /\ MainFromTo("startweb", IF build = "repl" THEN "openhandle" ELSE "serve")
    /\ web' = "starting"
    /\ UNCHANGED <<build, tray, hwnd, trayQuit, running, handle, quitRequested>>

\* The GUI build's main() comes out of app.run().
Served ==
    /\ MainFromTo("serve", "stoptray")
    /\ web = "done"
    /\ UNCHANGED <<build, web, tray, hwnd, trayQuit, running, handle, quitRequested>>

\* RunREPL opens a handle to its own thread, for CancelSynchronousIo.
OpenHandle ==
    /\ MainFromTo("openhandle", "prompt")
    /\ handle' = TRUE
    /\ UNCHANGED <<build, web, tray, hwnd, trayQuit, running, quitRequested>>

\* getline returns a line, or fails at the end of the input; s_quitRequested is
\* looked at only now.
GetLine(line) ==
    /\ mpc = "prompt"
    /\ mpc' = IF line \in {"exit", "eof"} \/ quitRequested THEN "endrepl" ELSE "command"
    /\ UNCHANGED <<build, web, tray, hwnd, trayQuit, running, handle, quitRequested>>

\* A command has been carried out (see GammaPanel).
CommandDone ==
    /\ MainFromTo("command", "prompt")
    /\ UNCHANGED <<build, web, tray, hwnd, trayQuit, running, handle, quitRequested>>

\* The handle is closed, the variable keeps its value.
EndREPL ==
    /\ MainFromTo("endrepl", "stopweb")
    /\ UNCHANGED <<build, web, tray, hwnd, trayQuit, running, handle, quitRequested>>

StopWebServer ==
    /\ MainFromTo("stopweb", "joinweb")
    /\ web' = Stopped(web)
    /\ UNCHANGED <<build, tray, hwnd, trayQuit, running, handle, quitRequested>>

\* MUTANT of JoinWeb: the server's thread is not waited for.
JoinWebDetaches ==
    /\ MainFromTo("joinweb", "stoptray")
    /\ UNCHANGED <<build, web, tray, hwnd, trayQuit, running, handle, quitRequested>>

JoinWeb ==
    /\ MainFromTo("joinweb", "stoptray")
    /\ web = "done"
    /\ UNCHANGED <<build, web, tray, hwnd, trayQuit, running, handle, quitRequested>>

\* MUTANT of StopTrayMenu: the tray's message loop is not told to end.
StopTrayForgets ==
    /\ MainFromTo("stoptray", "jointray")
    /\ running' = FALSE
    /\ UNCHANGED <<build, web, tray, hwnd, trayQuit, handle, quitRequested>>

\* WM_QUIT is posted only to a window there is; nothing is done a second time.
StopTrayMenu ==
    /\ MainFromTo("stoptray", IF running THEN "jointray" ELSE "release")
    /\ running' = FALSE
    /\ trayQuit' = (trayQuit \/ (running /\ hwnd))
    /\ UNCHANGED <<build, web, tray, hwnd, handle, quitRequested>>

JoinTray ==
    /\ MainFromTo("jointray", "release")
    /\ tray = "done"
    /\ UNCHANGED <<build, web, tray, hwnd, trayQuit, running, handle, quitRequested>>

Release ==
    /\ MainFromTo("release", "exited")
    /\ UNCHANGED <<build, web, tray, hwnd, trayQuit, running, handle, quitRequested>>

----------------------------------------------------------------------------
(* The tray thread. *)

TrayFromTo(p, q) == tray = p /\ tray' = q /\ mpc # "exited"

\* The window is made and the message loop entered.
CreateTrayWindow ==
    /\ TrayFromTo("starting", "loop")
    /\ hwnd' = TRUE
    /\ UNCHANGED <<build, mpc, web, trayQuit, running, handle, quitRequested>>

\* The Quit item: RequestQuit sets the flag ...
QuitPicked ==
    /\ TrayFromTo("loop", "quitting")
    /\ quitRequested' = TRUE
    /\ UNCHANGED <<build, mpc, web, hwnd, trayQuit, running, handle>>

\* MUTANT of RequestQuit: only the flag is set.
RequestQuitFlagOnly ==
    /\ TrayFromTo("quitting", "loop")
    /\ UNCHANGED <<build, mpc, web, hwnd, trayQuit, running, handle, quitRequested>>

\* ... and then stops the server, or breaks off main()'s getline if main() is
\* blocked in it: CancelSynchronousIo has no effect on a thread that is not.
RequestQuit ==
    /\ TrayFromTo("quitting", "loop")
    /\ IF build = "gui"
       THEN web' = Stopped(web) /\ UNCHANGED mpc
       ELSE /\ mpc' = IF handle /\ mpc = "prompt" THEN "endrepl" ELSE mpc
            /\ UNCHANGED web
    /\ UNCHANGED <<build, hwnd, trayQuit, running, handle, quitRequested>>

\* MUTANT of TrayEnds: s_hwnd is left set.
TrayEndsStale ==
    /\ TrayFromTo("loop", "done")
    /\ trayQuit
    /\ UNCHANGED <<build, mpc, web, hwnd, trayQuit, running, handle, quitRequested>>

\* GetMessage returns WM_QUIT.
TrayEnds ==
    /\ TrayFromTo("loop", "done")
    /\ trayQuit
    /\ hwnd' = FALSE
    /\ UNCHANGED <<build, mpc, web, trayQuit, running, handle, quitRequested>>

\* The window is closed from outside: WM_DESTROY posts WM_QUIT.
TrayDestroyed ==
    /\ TrayFromTo("loop", "done")
    /\ ~trayQuit
    /\ hwnd' = FALSE
    /\ UNCHANGED <<build, mpc, web, trayQuit, running, handle, quitRequested>>

----------------------------------------------------------------------------
(* The server. *)

WebFromTo(p, q) == web = p /\ web' = q

ServerUp ==
    /\ WebFromTo("starting", "up")
    /\ UNCHANGED <<build, mpc, tray, hwnd, trayQuit, running, handle, quitRequested>>

\* Crow stops on an interrupt.
CtrlC ==
    /\ WebFromTo("up", "stopping")
    /\ UNCHANGED <<build, mpc, tray, hwnd, trayQuit, running, handle, quitRequested>>

\* app.run() has joined the workers and returns.
ServerReturns ==
    /\ WebFromTo("stopping", "done")
    /\ UNCHANGED <<build, mpc, tray, hwnd, trayQuit, running, handle, quitRequested>>

============================================================================
