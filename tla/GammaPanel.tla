----------------------------- MODULE GammaPanel -----------------------------
(***************************************************************************)
(* gamma_panel and the threads that call it: the table displays_, which    *)
(* displays() empties and refills and apply_ramp looks displays up in,     *)
(* shared without a lock by the web server's workers, the tray thread, the *)
(* hotkey thread and the main thread (REPL and release).                   *)
(*                                                                         *)
(* A display is its adapter number (devNum, display_info.index): the       *)
(* numbers of the attached displays may have gaps.  One step is one access *)
(* to displays_ or one device call.  The std::map is taken to be whole     *)
(* between two accesses.  A preset is the ramp it yields; requests the     *)
(* handlers reject before they call the panel change nothing and are left  *)
(* out.                                                                    *)
(***************************************************************************)
EXTENDS Naturals, Sequences, FiniteSets, SequencesExt

CONSTANTS
    Workers,       \* threads of the web server
    Trays,         \* the tray thread, in a set (empty: not in the instance)
    HotkeyThreads, \* the hotkey thread, in a set
    Main,          \* the main thread
    Adapters,      \* EnumDisplayDevices knows adapters 0 .. Adapters - 1
    Ramps,         \* ramps a request may carry
    Linear,        \* the identity ramp
    Bindings,      \* the "display" arrays of the hotkeys
    Settings       \* the circumstances the instance covers

ASSUME ClientsAssumption ==
    /\ Main \notin Workers \union Trays \union HotkeyThreads
    /\ Workers \intersect (Trays \union HotkeyThreads) = {}
    /\ Trays \intersect HotkeyThreads = {}
ASSUME AdaptersAssumption == Adapters \in Nat
ASSUME RampsAssumption == Linear \in Ramps
ASSUME BindingsAssumption == Bindings \subseteq Seq(0 .. Adapters)

Devices == 0 .. Adapters - 1
Clients == Workers \union Trays \union HotkeyThreads \union {Main}

ASSUME SettingsAssumption ==
    \A s \in Settings :
        /\ s.clients \subseteq Clients   \* who makes requests; Main: GAPA_REPL
        /\ s.ramps \subseteq Ramps       \* the ramps they carry
        /\ s.bindings \subseteq Bindings \* the hotkeys
        /\ s.hotplug \in BOOLEAN         \* displays come and go
        /\ s.overlap \in BOOLEAN         \* requests overlap in time

VARIABLES
    setting,  \* the circumstances of this behaviour
    phase,    \* main() is in the server or REPL, in release(), gone, or dead
    attached, \* the displays attached to the desktop
    lut,      \* lut[d]: the ramp display d shows
    table,    \* the keys of displays_
    pc,       \* pc[c]: the next step of client c
    job,      \* job[c]: the request c works on, or the last one
    list,     \* list[c]: the vector displays() is filling or has returned
    cursor,   \* cursor[c]: the adapter displays() or release() has come to
    targets,  \* targets[c]: the displays still to be set
    failed,   \* failed[c]: the displays that could not be set
    cached,   \* s_displayIndices
    menuOpen, \* the tray menu is on screen
    before,   \* history: lut when the last request began, if one at a time
    moved     \* history: the displays (un)plugged since a request that enumerates
              \* began with every client idle (all of them, before the first)

jobVars  == <<pc, job, list, cursor, targets, failed>>
trayVars == <<cached, menuOpen>>
histVars == <<before, moved>>
vars     == <<setting, phase, attached, lut, table, jobVars, trayVars, histVars>>

Kinds  == {"none", "web", "current", "list", "repl", "status", "hotkey",
           "menu", "tray", "release"}
Jobs   == [kind : Kinds, sel : Seq(0 .. Adapters), ramp : Ramps]
Phases == {"running", "releasing", "exited", "dead"}
PCs    == {"idle", "clear", "enum", "apply", "thrown", "resetting", "joining"}

TypeOK ==
    /\ setting \in Settings
    /\ phase \in Phases
    /\ attached \in SUBSET Devices
    /\ lut \in [Devices -> Ramps]
    /\ table \in SUBSET Devices
    /\ pc \in [Clients -> PCs]
    /\ job \in [Clients -> Jobs]
    /\ list \in [Clients -> Seq(Devices)]
    /\ cursor \in [Clients -> Nat]
    /\ targets \in [Clients -> Seq(Devices)]
    /\ failed \in [Clients -> SUBSET Devices]
    /\ cached \in Seq(Devices)
    /\ menuOpen \in BOOLEAN
    /\ before \in [Devices -> Ramps]
    /\ moved \in SUBSET Devices

NoJob == [kind |-> "none", sel |-> <<>>, ramp |-> Linear]

Init ==
    /\ setting \in Settings
    /\ phase = "running"
    /\ attached \in SUBSET Devices
    /\ lut = [d \in Devices |-> Linear]
    /\ table = {}
    /\ pc = [c \in Clients |-> "idle"]
    /\ job = [c \in Clients |-> NoJob]
    /\ list = [c \in Clients |-> <<>>]
    /\ cursor = [c \in Clients |-> 0]
    /\ targets = [c \in Clients |-> <<>>]
    /\ failed = [c \in Clients |-> {}]
    /\ cached = <<>>
    /\ menuOpen = FALSE
    /\ before = lut
    /\ moved = Devices

----------------------------------------------------------------------------
(* Which displays a request is applied to. *)

Alive == phase \in {"running", "releasing"}
Quiet == \A c \in Clients : pc[c] \in {"idle", "thrown"}

\* MUTANT of Adapter: a number is taken for the adapter itself.
AdapterOffByOne(n) == n

\* The adapter a hotkey's number stands for.
Adapter(n) == n - 1

\* The entries of a hotkey's "display" array, one after the other: 0 stands for
\* every display listed, n for adapter n - 1, listed or not.
Entries(sel, l) ==
    FlattenSeq([i \in DOMAIN sel |-> IF sel[i] = 0 THEN l ELSE <<Adapter(sel[i])>>])

\* MUTANT of WebMeans: displays() yields positions.
WebMeansPosition(n, d) == n = 0 \/ d = n

\* The web handlers compare the number asked for with d.index + 1.
WebMeans(n, d) == n = 0 \/ d + 1 = n

\* The displays of list l that a web handler takes.
Matching(n, l) ==
    FlattenSeq([i \in DOMAIN l |-> IF WebMeans(n, l[i]) THEN <<l[i]>> ELSE <<>>])

\* What the code does with the list displays() has returned.
Selected(j, l) ==
    CASE j.kind = "web" -> Matching(j.sel[1], l)
      [] j.kind = "repl" ->    \* takes numbers for positions in the list
            IF j.sel[1] = 0 THEN l
            ELSE IF j.sel[1] <= Len(l) THEN <<l[j.sel[1]]>> ELSE <<>>
      [] j.kind = "hotkey"  -> IF j.sel = <<>> THEN l ELSE Entries(j.sel, l)
      [] j.kind \in {"tray", "status"} -> l
      [] j.kind = "current" -> IF l = <<>> THEN <<>> ELSE <<l[1]>>
      [] OTHER              -> <<>>

\* status and GET /api/gamma/current only look displays up.
Sets(j) == j.kind \in {"web", "repl", "hotkey", "tray"}

\* The ramp that is set.  The REPL passes the bare file name of the preset, which
\* is not looked for in gamma/: gamma_desc finds no file and to_ramp yields the
\* identity.
RampOf(j) == IF j.kind = "repl" THEN Linear ELSE j.ramp

----------------------------------------------------------------------------
(* Requests. *)

\* Client c begins request j, at the call of displays() or, for a tray item of
\* one display, with the display the menu had cached.
Begin(c, j) ==
    /\ c \in setting.clients \/ j.kind = "release"
    /\ pc[c] \in {"idle", "thrown"}
    /\ setting.overlap \/ Quiet
    /\ job' = [job EXCEPT ![c] = j]
    /\ IF j.kind = "tray" /\ j.sel # <<>>
       THEN /\ pc' = [pc EXCEPT ![c] = "apply"]
            /\ targets' = [targets EXCEPT ![c] = <<cached[j.sel[1]]>>]
            /\ UNCHANGED moved
       ELSE /\ pc' = [pc EXCEPT ![c] = "clear"]
            /\ targets' = [targets EXCEPT ![c] = <<>>]
            /\ moved' = IF Quiet THEN {} ELSE moved
    /\ list' = [list EXCEPT ![c] = <<>>]
    /\ failed' = [failed EXCEPT ![c] = {}]
    /\ cursor' = [cursor EXCEPT ![c] = 0]
    /\ before' = IF setting.overlap THEN before ELSE lut
    /\ UNCHANGED <<setting, attached, lut, table, cached>>

\* POST /api/gamma/apply and /reset; GET /api/gamma/current and /api/displays.
WebRequest(w) ==
    /\ phase = "running"
    /\ \/ \E n \in 0 .. Adapters, r \in setting.ramps :
            Begin(w, [kind |-> "web", sel |-> <<n>>, ramp |-> r])
       \/ \E k \in {"current", "list"} :
            Begin(w, [kind |-> k, sel |-> <<>>, ramp |-> Linear])
    /\ UNCHANGED <<phase, menuOpen>>

\* apply and reset, status, list.
ReplCommand ==
    /\ phase = "running"
    /\ \/ \E n \in 0 .. Adapters, r \in setting.ramps :
            Begin(Main, [kind |-> "repl", sel |-> <<n>>, ramp |-> r])
       \/ \E k \in {"status", "list"} :
            Begin(Main, [kind |-> k, sel |-> <<>>, ramp |-> Linear])
    /\ UNCHANGED <<phase, menuOpen>>

\* A registered hotkey is pressed; release() stops the thread only at its end.
HotkeyPressed(k) ==
    /\ Alive
    /\ \E b \in setting.bindings, r \in setting.ramps :
        Begin(k, [kind |-> "hotkey", sel |-> b, ramp |-> r])
    /\ UNCHANGED <<phase, menuOpen>>

\* ShowContextMenu.
MenuRequested(t) ==
    /\ phase = "running"
    /\ ~menuOpen
    /\ Begin(t, [kind |-> "menu", sel |-> <<>>, ramp |-> Linear])
    /\ UNCHANGED <<phase, menuOpen>>

\* An item is picked: for all displays, or for one.  (Item numbers: TrayMenu.)
MenuPicked(t) ==
    /\ phase = "running"
    /\ menuOpen
    /\ menuOpen' = FALSE
    /\ \E s \in {<<>>} \union {<<i>> : i \in 1 .. Len(cached)}, r \in setting.ramps :
        Begin(t, [kind |-> "tray", sel |-> s, ramp |-> r])
    /\ UNCHANGED phase

MenuDismissed ==
    /\ phase = "running"
    /\ menuOpen
    /\ menuOpen' = FALSE
    /\ UNCHANGED <<setting, phase, attached, lut, table, jobVars, cached, histVars>>

\* The server is stopped, the tray thread joined: main() calls release().
BeginRelease ==
    /\ phase = "running"
    /\ \A c \in Workers \union Trays \union {Main} : pc[c] \in {"idle", "thrown"}
    /\ phase' = "releasing"
    /\ menuOpen' = FALSE
    /\ Begin(Main, [kind |-> "release", sel |-> <<>>, ramp |-> Linear])

----------------------------------------------------------------------------
(* displays() *)

ClientAt(c, p) == Alive /\ pc[c] = p
ClientTo(c, p) == pc' = [pc EXCEPT ![c] = p]

\* displays_.clear()
Clear(c) ==
    /\ ClientAt(c, "clear")
    /\ table' = {}
    /\ ClientTo(c, "enum")
    /\ UNCHANGED <<setting, phase, attached, lut, job, list, cursor, targets, failed,
                   trayVars, histVars>>

\* MUTANT of Key: the table is keyed by the position in the list.
KeyPosition(c) == Len(list[c])

\* The key of the adapter just probed: devNum.
Key(c) == cursor[c]

\* One turn of the loop over the adapters.
Probe(c) ==
    /\ ClientAt(c, "enum")
    /\ cursor[c] < Adapters
    /\ IF cursor[c] \in attached
       THEN /\ list' = [list EXCEPT ![c] = Append(@, cursor[c])]
            /\ table' = table \union {Key(c)}
       ELSE UNCHANGED <<list, table>>
    /\ cursor' = [cursor EXCEPT ![c] = @ + 1]
    /\ UNCHANGED <<setting, phase, attached, lut, pc, job, targets, failed, trayVars, histVars>>

\* displays() returns; the caller goes on with its list.
Listed(c) ==
    /\ ClientAt(c, "enum")
    /\ cursor[c] = Adapters
    /\ CASE job[c].kind = "release" ->
                /\ ClientTo(c, "resetting")
                /\ cursor' = [cursor EXCEPT ![c] = 0]
                /\ UNCHANGED <<targets, trayVars>>
         [] job[c].kind = "menu" ->
                /\ ClientTo(c, "apply")
                /\ cached' = list[c]
                /\ menuOpen' = TRUE
                /\ UNCHANGED <<targets, cursor>>
         [] OTHER ->
                /\ ClientTo(c, "apply")
                /\ targets' = [targets EXCEPT ![c] = Selected(job[c], list[c])]
                /\ UNCHANGED <<cursor, trayVars>>
    /\ UNCHANGED <<setting, phase, attached, lut, table, job, list, failed, histVars>>

----------------------------------------------------------------------------
(* apply_ramp, reset_display and current_gamma, for each target in turn. *)

\* SetDeviceGammaRamp may refuse, and does when the display is gone.
SetRamp(c, d, r) ==
    \/ /\ d \in attached
       /\ lut' = [lut EXCEPT ![d] = r]
       /\ UNCHANGED failed
    \/ failed' = [failed EXCEPT ![c] = @ \union {d}] /\ UNCHANGED lut

\* displays_.at finds the display.
Apply(c) ==
    /\ ClientAt(c, "apply")
    /\ targets[c] # <<>>
    /\ Head(targets[c]) \in table
    /\ targets' = [targets EXCEPT ![c] = Tail(@)]
    /\ IF Sets(job[c])
       THEN SetRamp(c, Head(targets[c]), RampOf(job[c]))
       ELSE UNCHANGED <<lut, failed>>
    /\ UNCHANGED <<setting, phase, attached, table, pc, job, list, cursor, trayVars, histVars>>

\* displays_.at throws std::out_of_range: the server answers 500; on any other
\* thread nothing catches it and the process dies.  (apply_ramp looks the display up
\* again to report that it cannot be opened; nothing has been changed in between, so
\* the second lookup's failure is this step as well.)
LookupThrows(c) ==
    /\ ClientAt(c, "apply")
    /\ targets[c] # <<>>
    /\ Head(targets[c]) \notin table
    /\ ClientTo(c, "thrown")
    /\ phase' = IF c \in Workers THEN phase ELSE "dead"
    /\ UNCHANGED <<setting, attached, lut, table, job, list, cursor, targets, failed,
                   trayVars, histVars>>

\* The request is answered (ok when nothing failed) or the handler returns, and
\* its local variables are gone.
Finish(c) ==
    /\ ClientAt(c, "apply")
    /\ targets[c] = <<>>
    /\ ClientTo(c, "idle")
    /\ job' = [job EXCEPT ![c] = NoJob]
    /\ list' = [list EXCEPT ![c] = <<>>]
    /\ cursor' = [cursor EXCEPT ![c] = 0]
    /\ failed' = [failed EXCEPT ![c] = {}]
    /\ before' = [d \in Devices |-> Linear]
    /\ UNCHANGED <<setting, phase, attached, lut, table, targets, trayVars, moved>>

----------------------------------------------------------------------------
(* release() *)

\* MUTANT of Ahead: the loop starts after the first display.
AheadStrict(c) == {d \in table : d > cursor[c]}

\* The rest of the live table, from the iterator on.
Ahead(c) == {d \in table : d >= cursor[c]}

\* One turn of the loop over displays_, which other threads may be refilling.
ResetNext(c) ==
    /\ ClientAt(c, "resetting")
    /\ \E d \in Ahead(c) :
        /\ \A e \in Ahead(c) : d <= e
        /\ SetRamp(c, d, Linear)
        /\ cursor' = [cursor EXCEPT ![c] = d + 1]
    /\ UNCHANGED <<setting, phase, attached, table, pc, job, list, targets, trayVars, histVars>>

\* The loop is over; the hotkey thread is told to stop.
ResetDone(c) ==
    /\ ClientAt(c, "resetting")
    /\ Ahead(c) = {}
    /\ ClientTo(c, "joining")
    /\ UNCHANGED <<setting, phase, attached, lut, table, job, list, cursor, targets, failed,
                   trayVars, histVars>>

\* The hotkey thread, which finishes the binding at hand first, is joined.
Joined ==
    /\ ClientAt(Main, "joining")
    /\ \A k \in HotkeyThreads : pc[k] = "idle"
    /\ phase' = "exited"
    /\ UNCHANGED <<setting, attached, lut, table, jobVars, trayVars, histVars>>

----------------------------------------------------------------------------
(* The environment: a display that comes back starts with the identity. *)

Plug(d) ==
    /\ Alive /\ setting.hotplug
    /\ d \notin attached
    /\ attached' = attached \union {d}
    /\ lut' = [lut EXCEPT ![d] = Linear]
    /\ moved' = moved \union {d}
    /\ UNCHANGED <<setting, phase, table, jobVars, trayVars, before>>

Unplug(d) ==
    /\ Alive /\ setting.hotplug
    /\ d \in attached
    /\ attached' = attached \ {d}
    /\ moved' = moved \union {d}
    /\ UNCHANGED <<setting, phase, lut, table, jobVars, trayVars, before>>

Request ==
    \/ \E w \in Workers : WebRequest(w)
    \/ ReplCommand
    \/ \E k \in HotkeyThreads : HotkeyPressed(k)
    \/ \E t \in Trays : MenuRequested(t) \/ MenuPicked(t)
    \/ MenuDismissed
    \/ BeginRelease

PanelStep(c) ==
    \/ Clear(c)
    \/ Probe(c)
    \/ Listed(c)
    \/ Apply(c)
    \/ LookupThrows(c)
    \/ Finish(c)
    \/ ResetNext(c)
    \/ ResetDone(c)

Gone == ~Alive /\ UNCHANGED vars

Next ==
    \/ Request
    \/ \E c \in Clients : PanelStep(c)
    \/ Joined
    \/ \E d \in Devices : Plug(d) \/ Unplug(d)
    \/ Gone

Spec == Init /\ [][Next]_vars
----------------------------------------------------------------------------
(* Properties. *)

\* The n-th display of the list a user is shown.
Nth(n, S) == CHOOSE d \in S : Cardinality({e \in S : e <= d}) = n

\* What the request asks for, in the numbering of the client that makes it:
\* adapter numbers plus one (web, hotkeys), positions in the list (REPL), the
\* display cached with the menu (tray).
Meant(j) ==
    CASE j.kind = "web" -> IF j.sel[1] = 0 THEN attached ELSE {j.sel[1] - 1}
      [] j.kind = "repl" ->
            IF j.sel[1] = 0 THEN attached
            ELSE IF j.sel[1] <= Cardinality(attached) THEN {Nth(j.sel[1], attached)} ELSE {}
      [] j.kind = "hotkey" ->
            IF j.sel = <<>> THEN attached
            ELSE UNION {IF j.sel[i] = 0 THEN attached ELSE {j.sel[i] - 1} : i \in 1 .. Len(j.sel)}
      [] j.kind = "tray" -> IF j.sel = <<>> THEN attached ELSE {cached[j.sel[1]]}

\* Client c is about to answer that nothing failed, and no display has come or
\* gone meanwhile.
Succeeds(c) ==
    /\ ClientAt(c, "apply")
    /\ targets[c] = <<>>
    /\ Sets(job[c])
    /\ failed[c] = {}
    /\ moved = {}

\* The prompt's apply of a preset, which sets the identity instead (RampOf), though it
\* is to "Apply named preset to display D (0=all)" (repl.cpp:162, README.md:54).
LosesPreset(j) == j.kind = "repl" /\ j.ramp # Linear

\* Requests one at a time: a request that reports success has set every display it
\* means to the ramp it asks for, and no other display, gaps in the numbering or not;
\* but for the prompt's apply, whose displays get another ramp than its preset's.
AsAsked ==
    ~setting.overlap => \A c \in Clients : Succeeds(c) =>
        \A d \in attached :
            IF d \in Meant(job[c])
            THEN lut[d] = job[c].ramp \/ LosesPreset(job[c])
            ELSE lut[d] = before[d]

\* The numbers by which a hotkey or tray item names displays on its own.
Names(j) ==
    IF j.kind \in {"hotkey", "tray"} THEN {j.sel[i] : i \in DOMAIN j.sel} \ {0} ELSE {}

\* "Safe exit (reset gamma + release)" (repl.cpp:167, README.md:58): the process
\* leaves every display linear that it did not report as failed.
SafeExit ==
    phase = "exited" => \A d \in attached \ failed[Main] : lut[d] = Linear

\* It does when no hotkey is pressed while release() is under way.
SafeExitAlone == ~setting.overlap => SafeExit

\* A display that was listed is missing from the table, so that displays_.at throws
\* for it, only while another call of displays() is under way or, where requests
\* overlap, because a display moved.  Requests one at a time never find one missing.
MissingOnlyMidway ==
    \A c \in Clients :
        ClientAt(c, "apply") /\ targets[c] # <<>> /\ list[c] # <<>> /\ Names(job[c]) = {} =>
            \/ Head(targets[c]) \in table \union (IF setting.overlap THEN moved ELSE {})
            \/ \E e \in Clients : pc[e] = "enum"

\* "Multi-display support - apply/reset per display independently" (README.md:12):
\* the web page sends the position, in the list it shows, of the display picked
\* (+page.svelte:66); a request that succeeds has set that display.
PickedDisplayIsSet ==
    \A c \in Clients :
        /\ Succeeds(c)
        /\ job[c].kind = "web"
        /\ job[c].sel[1] \in 1 .. Cardinality(attached)
        => lut[Nth(job[c].sel[1], attached)] = job[c].ramp
============================================================================
