---------------------------- MODULE HotkeyPanel -----------------------------
(***************************************************************************)
(* HotkeyService and GammaPanel as one program: what a hotkey does is the  *)
(* work of the panel on the thread that got it, a worker of the server     *)
(* either saves keybindings or sets displays, and release() resets the     *)
(* displays and then stops the hotkey thread.  An action here is an action *)
(* of one module, or of both where the code calls from one into the other. *)
(***************************************************************************)
EXTENDS HotkeyService

CONSTANTS
    Adapters, \* as in GammaPanel
    Linear,
    Does,     \* Does[k]: the displays and the ramp of the binding of combination k
    WebKinds  \* bound: the kinds of request the server's workers get

ASSUME PartiesAssumption == Main \notin Threads /\ Workers \intersect Threads = {}
ASSUME DisplaysAssumption == Adapters \in Nat
ASSUME DoesAssumption == \A k \in Combos : Does[k].sel \in Seq(0 .. Adapters)

Ramps    == {Linear} \union {Does[k].ramp : k \in Combos}
Bindings == {Does[k].sel : k \in Combos}

\* Requests overlap; displays stay as they are.
Circumstances ==
    [clients |-> Workers \union Threads, ramps |-> Ramps, bindings |-> Bindings,
     hotplug |-> FALSE, overlap |-> TRUE]

VARIABLES
    panelPhase, setting, attached, lut, table, pc, job, list, cursor, targets, failed,
    cached, menuOpen, before, moved,
    pressed \* history: a hotkey's handler was at work since release() began

Panel == INSTANCE GammaPanel WITH
    phase <- panelPhase, HotkeyThreads <- Threads, Trays <- {}, Settings <- {Circumstances}

devVars   == <<setting, attached, lut, table, pc, job, list, cursor, targets, failed,
               cached, menuOpen, before, moved>>
panelVars == <<panelPhase, devVars>>
allVars   == <<vars, panelVars, pressed>>

PanelInit == Init /\ Panel!Init /\ pressed = FALSE

PanelAlive == panelPhase \in {"running", "releasing"}

\* What GammaPanel is asked for when combination k is pressed.
JobOf(k) == [kind |-> "hotkey", sel |-> Does[k].sel, ramp |-> Does[k].ramp]

----------------------------------------------------------------------------
(* Steps of one module; the other takes no part. *)

\* An exception that main() does not catch, or std::terminate, ends the process.
CallerAlone(c) ==
    /\ PanelAlive
    /\ CallerStep(c)
    /\ panelPhase' = IF phase' \in {"uncaught", "terminated"} THEN "dead" ELSE panelPhase
    /\ UNCHANGED <<devVars, pressed>>

ThreadAlone(t) ==
    /\ PanelAlive
    /\ \/ CreateQueue(t)
       \/ Register(t)
       \/ CheckFlag(t)
       \/ GetQuit(t)
       \/ Unregister(t)
       \/ ThreadEnds(t)
    /\ UNCHANGED <<panelVars, pressed>>

OnPanel(c) ==
    /\ \/ Panel!Clear(c)
       \/ Panel!Probe(c)
       \/ Panel!Listed(c)
       \/ Panel!Apply(c)
       \/ Panel!LookupThrows(c)
       \/ Panel!ResetNext(c)
    /\ UNCHANGED <<vars, pressed>>

----------------------------------------------------------------------------
(* A hotkey. *)

\* WM_HOTKEY: the binding is carried out on the hotkey thread ...
Handle(t) ==
    /\ PanelAlive
    /\ GetHotkey(t)
    /\ Panel!HotkeyPressed(t)
    /\ job'[t] = JobOf(actions[t][idx'[t]])
    /\ pressed' = (pressed \/ panelPhase = "releasing")

\* ... which then goes back to its loop.
Handled(t) ==
    /\ HandlerReturns(t)
    /\ Panel!Finish(t)
    /\ UNCHANGED pressed

HotkeyStep(t) == ThreadAlone(t) \/ Handle(t) \/ OnPanel(t) \/ Handled(t)

----------------------------------------------------------------------------
(* The server's workers: one request at a time each. *)

SaveRequested(w) ==
    /\ panelPhase = "running"
    /\ pc[w] \in {"idle", "thrown"}
    /\ PostOpens(w)
    /\ UNCHANGED <<panelVars, pressed>>

PanelRequested(w) ==
    /\ phase = "serving"
    /\ cpc[w] = "idle"
    /\ Panel!WebRequest(w)
    /\ job'[w].kind \in WebKinds
    /\ UNCHANGED <<vars, pressed>>

WorkerStep(w) ==
    \/ PanelAlive /\ PostWrites(w) /\ UNCHANGED <<panelVars, pressed>>
    \/ CallerAlone(w)
    \/ OnPanel(w)
    \/ Panel!Finish(w) /\ UNCHANGED <<vars, pressed>>

----------------------------------------------------------------------------
(* main() *)

\* The server has stopped: main() calls release() ...
ReleaseCalled ==
    /\ phase = "serving"
    /\ \A w \in Workers : cpc[w] = "idle"
    /\ Panel!BeginRelease
    /\ pressed' = \E t \in Threads : pc[t] # "idle"
    /\ UNCHANGED vars

\* ... which, past the loop over the displays, stops the hotkey thread ...
ReleaseStops ==
    /\ BeginRelease
    /\ Panel!ResetDone(Main)
    /\ UNCHANGED pressed

\* ... and returns.
Returns ==
    /\ ExitProcess
    /\ Panel!Joined
    /\ UNCHANGED pressed

MainGoesOn ==
    \/ CallerAlone(Main)
    \/ PanelAlive /\ BeginServing /\ UNCHANGED <<panelVars, pressed>>
    \/ OnPanel(Main)
    \/ ReleaseStops
    \/ Returns

----------------------------------------------------------------------------

Over == ~PanelAlive /\ UNCHANGED allVars

PanelNext ==
    \/ \E t \in Threads : HotkeyStep(t)
    \/ \E w \in Workers : SaveRequested(w) \/ PanelRequested(w) \/ WorkerStep(w)
    \/ ReleaseCalled
    \/ MainGoesOn
    \/ PanelAlive /\ Environment /\ UNCHANGED <<panelVars, pressed>>
    \/ Over

\* Every thread that has something to do goes on; nothing forces a request, a key
\* press or the end of serving.
PanelSpec ==
    /\ PanelInit
    /\ [][PanelNext]_allVars
    /\ \A t \in Threads : WF_allVars(HotkeyStep(t))
    /\ \A w \in Workers : WF_allVars(WorkerStep(w))
    /\ WF_allVars(MainGoesOn)

----------------------------------------------------------------------------
(* Properties. *)

\* Between saves, whatever a hotkey's handler is doing to the displays is what
\* gapa.json says of one of its keys: no binding of a former file is carried out
\* after a save has been answered.
ActsAsSaved ==
    Settled => \A t \in Threads : pc[t] # "idle" =>
        file # Malformed /\ \E k \in Keys(file) : job[t] = JobOf(k)

\* "Safe exit" (repl.cpp:167) holds but for a hotkey whose handler is at work after
\* release() has begun: then, and only then, a display may keep its ramp.
SafeExitUnlessPressed == ~pressed => Panel!SafeExit

\* Liveness: the save of keybindings, or the release, that stops a hotkey thread
\* busy setting displays gets past the join, unless the process dies.
StopOutlastsHandler ==
    \A c \in Callers : cpc[c] = "joining" ~> cpc[c] # "joining" \/ panelPhase = "dead"
============================================================================
