# gapaNEXT: TLA+ models, checks and proofs

gapaNEXT is a Windows program that sets the gamma ramps of the attached
displays. One process holds a web server with a page to edit curves on, global
hotkeys, a tray icon with a menu and, in one build, a prompt. All of them call
one unlocked singleton, `gamma_panel`. This directory models that program in
TLA+, checks the models with TLC and proves with TLAPS, for every value of the
constants, every safety property the passing runs check.

Paths are those of the repository. `gamma.cpp`, `websvr.cpp`, `tray.cpp`,
`repl.cpp` and `main.cpp` are in `src/`; the page is in `webui/src/`. The module
`X` is in `X.tla`; `PROJECT.json` names, for every definition, the lines it
stands for.

## 1. Inventory

| Component | State it keeps | Operations | Modules |
|---|---|---|---|
| Hotkey service (`gamma.cpp:203-434`) | `s_hotkeysRunning`, `s_hotkeyThread`, the thread's queue and registrations, `gapa.json` | `apply_shortkeys` at startup and after every `POST /api/keybindings`, the hotkey thread, the stop in `release()` | `KeybindingSet`, `HotkeyService`, `HotkeyProofs`, `HotkeyPanel` |
| Gamma panel (`gamma.cpp:400-530`) | `displays_` (a map from adapter number to device name), the ramps in the devices | `displays()`, `apply_ramp`, `reset_display`, `current_gamma`, `release()`, called by the server's workers, the tray thread, the hotkey thread and the main thread | `GammaPanel`, `GammaPanelProofs`, `HotkeyPanel`, `HotkeyProofs` |
| Startup and shutdown (`main.cpp`, `tray.cpp:274-316`, `websvr.cpp:118`, `repl.cpp`) | the threads, `s_hwnd`, `s_running`, `s_quitRequested`, `s_hMainThread` | start of tray, server, prompt; Quit, Ctrl+C, `exit`; stop and join of each | `Lifecycle`, `Program`, `ProgramProofs` |
| Tray menu (`tray.cpp:108-257`) | the menu shown, `s_displayIndices` | build the menu, dispatch a command number | `TrayMenu`, `Program`, `ProgramProofs` |
| Preset files (`gamma.cpp:57-76, 182-201`, `websvr.cpp:264-391`) | the files in `gamma/`, open streams | save, load, list, download | `PresetFiles`, `PresetFilesProofs` |
| Ramp arithmetic (`gamma.cpp:78-180`, `websvr.cpp:70-108`, `gamma.ts`) | none | control points to a ramp, twice; the page's ramp taken over | `Spline`, `CurveEditorProofs` |
| Curve editor (`CurveEditor.svelte`, `state.svelte.ts`) | the control points of three channels, selection, drag, visibility, link | mouse handlers, toggles, Reset, a preset that arrives | `CurveEditor`, `CurveEditorProofs` |
| Keybinding form (`KeybindingsPanel.svelte`, `state.svelte.ts`, `api.ts`) | the list, the form, the capture, the requests under way | capture, submit, edit, delete, cancel, fetch, save | `KeybindingsPanel`, `KeybindingsPanelProofs` |
| Key combinations (`gamma.cpp:272-299`) | none | key names to modifiers and a virtual key | `KeybindingsPanel` (by kinds of key) |
| Prompt (`repl.cpp`) | the line, the main thread's handle | `apply`, `reset`, `list`, `status`, `exit` | `GammaPanel`, `Lifecycle` |
| Web page state (`state.svelte.ts`, `api.ts`, `+page.svelte`) | the store, the requests under way | Apply, Reset, saves and loads of presets, status line with its timer | `PresetsPage`, `PresetsPageProofs`; points and keybindings: `CurveEditor`, `KeybindingsPanel` |
| Single instance (`main.cpp:18-24`) | the named mutex | tested at startup | `Lifecycle` (`TestMutex`) |
| Languages (`i18n.svelte.ts`) | the language of the page | switched at any time | `KeybindingsPanel` (the form's prompt) |
| Static files, tray icon, browser launch, preview, `webui/index.html`, asio | little or none | | not modelled, see section 7 |

**How they interact.** The tray thread, the server's workers, the hotkey thread
and the main thread call `gamma_panel` directly and share `displays_` without a
lock. The hotkey thread is restarted by a worker and stopped by the main thread
through a flag, a `WM_QUIT` posted to its queue and a join. Settings go through
files nobody locks: `gapa.json` and the presets in `gamma/`. The page talks to
the server by requests it mostly does not wait for. The tray's Quit stops the
server (GUI build) or breaks off the main thread's `getline` (REPL build).

**What is hard.** The restart handshake (a flag and a message that can be lost);
handlers that run at once; enumerations of displays that overlap; three
numberings of displays (adapter number, adapter number plus one, position in the
list); shutdown that depends on who has got how far; files truncated before they
are written; positions kept in a menu or a form while the list behind them
changes; answers that come late or in another order; one index used in three
channels that differ.

**What must hold.** For each component, the properties of section 4. The hazards,
with the lines where they bite and the properties aimed at them, are listed in
`PROJECT.json`.

## 2. The modules and the code

**KeybindingSet** is the promise of the hotkey service, without threads, flags or
messages: one configuration in force at a time, keys taken only for it, all given
back before the next. Its actions are `Adopt`, `Take`, `Retire`, `GiveBack`,
`Withdraw`.

**HotkeyService** models `apply_shortkeys` step by step, one step for each access
to state another thread sees: `StopCheck` (the test of the flag), `ClearFlag`,
`PostQuit`, `Join`, `Load`, `SetFlag`, `Spawn` or `SpawnFails`. Two callers that
join one `std::thread` are `JoinRaced`, a choice over the outcomes. The thread
body is `CreateQueue` (PeekMessage), `Register`, `CheckFlag`, `GetHotkey`,
`GetQuit`, `HandlerReturns`, `Unregister`, `ThreadEnds`. `PostOpens` and
`PostWrites` are the web handler, `BeginServing`, `BeginRelease` and `ExitProcess`
the main thread. `RegisterHotKey`, the posting of `WM_HOTKEY` and other programs
are external. A message posted before the queue exists is lost. A configuration is
the sequence of key combinations a `gapa.json` yields; a file that is missing,
truncated or unusable yields `<<>>`, and one of the wrong shape throws.

**GammaPanel** takes over where `HotkeyService` leaves what a key does: a request
(`WebRequest`, `ReplCommand`, `HotkeyPressed`, `MenuRequested`, `MenuPicked`,
`BeginRelease`) begins with `displays()`, which empties the table (`Clear`) and asks
for one adapter a step (`Probe`, `Listed`), or, for a tray command or some hotkeys,
looks a display up at once; then `Apply` sets one display a step, or `LookupThrows`
because `displays_.at` found nothing. `release()` is `ResetNext`, `ResetDone`,
`Joined`. `Selected` holds the three numberings as the handlers have them. Displays
come and go with `Plug` and `Unplug`. A behaviour has one `setting`, chosen from the
constant `Settings`: who makes requests, with which ramps and bindings, whether displays
move and whether requests overlap. `Matching` is the loop of `POST /api/gamma/apply`,
`Entries` the two loops of a hotkey's handler, one over the numbers of the binding inside one
over the displays.

**HotkeyPanel** is `HotkeyService` and `GammaPanel` as one program. `Handle` is
`HotkeyService`'s `GetHotkey` together with `GammaPanel`'s `HotkeyPressed` for the binding
got; the panel's steps follow on the hotkey thread (`OnPanel`), and `Handled` is
`HandlerReturns` together with `Finish`. `SaveRequested` and `PanelRequested` are what a
worker may get; `ReleaseCalled`, `ReleaseStops` and `Returns` join the two halves of
`release()`, the loop over the displays and the stop of the thread.

**Lifecycle** has a program counter for `main()` in both builds, from the named mutex
(`TestMutex`) on, the states of the server and of the tray thread, and the four flags.
Crow's `stop()` before `run()` has made the server is a no-op, as `websvr.cpp:118-121` uses it.

**TrayMenu** gives each item the number `ShowContextMenu` computes and dispatches it
by the ranges of `TrayWndProc`, with presets and displays changing in between.

**Program** puts the two together: the menu is shown, picked from and dispatched on the
tray thread (`UseMenu`, `Command`), Quit is one of its commands, and a `WM_QUIT` that comes
while the menu is on screen closes it first (`MenuCloses`).

**PresetFiles** models a file as the words `to_file` streams out (for each channel a
count and the points). `SaveOpens` truncates, `SaveFlushes` writes any part of what
is buffered, or fails, `SaveCloses` answers before the last write. `LoadReads` reads
a channel at a time as `read_vec` does, with what a stream that has ended yields.

**Spline** (no state) evaluates `pointsToRamp`, `to_ramp` and `JsonToRamp` exactly, as
fractions. **CurveEditor** uses it. It models every mouse handler as one action, since
handlers of a page do not interleave. A place on the canvas is taken to the grid of
values, but a point dragged along in a linked channel may leave the range of x
(`ControlPoints`); `Hits` is any visible point no earlier one hides. `broken` says that drawing
has thrown, after which only a reload helps.

**KeybindingsPanel** models the tab: the capture of a combination key by key, the form,
the list and the requests under way, which may overtake one another or fail; a reload of the
page forgets the request for the list and leaves the saves to the server (`Reload`). A form that
waits for keys holds the prompt "press combo..." as its text, and Save knows it by comparing it
with that of the language of the moment (`Prompt`, `Unfinished`); `ToggleLang` switches the
language, whatever the form is at.
`Registered` is what the program makes of the combination in the file.

**PresetsPage** is the side panel of the page and the server's end of its requests. A click
sends a request record; `ListFiles`, `GetPreset`, `SavePreset` and `SetGamma` handle one, in
any order; `ListArrives`, `PresetArrives`, `SaveArrives` and `GammaArrives` are the rest of
the page's handler, after its `await`, for an answer that says ok or for anything else. Each
works with the store as it is by then: the name field is emptied after a save whatever has
been typed, a loaded preset overwrites name and points. `SetStatus` and `TimerFires` are the
status line. What
`GetPreset` sends is not always what was saved: the rounding of `websvr.cpp:335` is right for
inputs from 0 on, and moves those below, which a linked drag can leave, up by one (`Reread`).
Variables
marked "history" are not in the code; properties use them to name an exception.

Two compositions are models of their own, `HotkeyPanel` and `Program`. Elsewhere the modules
meet at named places: `GammaPanel`'s `BeginRelease` takes for granted what `Program` shows as
`ReleaseAlone`; `Lifecycle` takes `release()` as one step, and that its join returns though
handlers are at work is `StopOutlastsHandler`; `TrayMenu` ends where `GammaPanel`'s
`MenuPicked` begins; `HotkeyService` chooses any file content `KeybindingsPanel` could have
sent; a handler of the server that is one step in `PresetsPage` is taken apart in
`PresetFiles` or `GammaPanel`; whatever `CurveEditor` does to the points is `Edit` there.

## 3. Plan

Done, in this order: the hotkey service with its promise and its proofs; the panel and its
callers; startup and shutdown; the tray menu; preset files; the spline and the curve editor;
the keybinding form; then the compositions `Program` and `HotkeyPanel`, the single-instance
test, the page's other requests, and the proofs about shutdown; then the proofs: of the panel,
the page, the keybinding form, the two compositions, the preset files, and the curve editor
with its splines. No module uses a RECURSIVE operator, so all of them can be proved about.

Left of the plan: nothing that a run checks and the prover can reach. The liveness properties
stay with TLC (end of section 5).

Still to model, if it is found worth while: the display numbers the page stores in bindings,
joined with `GammaPanel` (the wrong number is already shown for Apply, `PanelWrongDisplay`);
the tray icon and its return when Explorer restarts.

## 4. The runs

| Run | Instance | Checks | Distinct states |
|---|---|---|---|
| `HotkeySerial` | 1 worker, main, 2 thread identities, a key of ours and one others use too, 4 configurations | types, `StopsExisting`, `JoinNotStuck`, `NeverTerminates`, `FileInForce`, `IndInv`, refinement `KeepsPromise`, liveness `SavedKeysWork` | 321,712 |
| `HotkeyConcurrent` | 2 workers, one key, symmetry | `KeysHaveAThread` | 3.2 million |
| `HotkeySaveRace` | as above, without symmetry | `SkipsOnlyWithoutThread` is violated | |
| `Panel` | 2 adapters, hot-plug, symmetry; either 5 clients (2 workers, tray, hotkeys, prompt) one at a time, or workers and hotkeys enumerating at once | types, `AsAsked`, `SafeExitAlone`, `MissingOnlyMidway` | 3.4 million |
| `PanelUnsafeExit` | a worker and the hotkey thread, overlapping | `SafeExit` is violated | |
| `PanelWrongDisplay` | 3 adapters | `PickedDisplayIsSet` is violated | |
| `Program` | both builds, 1 or 11 presets, 1 to 3 displays | types, `ReleaseAlone`, `ItemDoesWhatItSays`, `ItemStaysItself`, liveness `ExitEnds`, `QuitEndsGui` | 188,424 |
| `Together` | 1 worker, main, 2 thread identities, 2 keys, 1 display | `ActsAsSaved`, `SafeExitUnlessPressed`, liveness `StopOutlastsHandler` | 353,596 |
| `Files` | 3 clients, 1 file, 2 presets, symmetry | types, `LoadsWhatIsStored`, `BeginningOfOne`, `WholeOrNothing` | 315,146 |
| `Curves` | 2 channels, 5 by 16 values, 4 places, up to 4 points, 3 changes | types, `SplineKeepsShape`, `BothAgree`, `OrderKept`, `BreaksOnlyByReplacing` | 2.4 million |
| `Keybindings` | Shift, a letter, a digit, an arrow key, files of 0 or 2 bindings, 2 languages, 2 changes | types, `SavedAsShown`, `EditsWhatItShowed`, `KeyAsPressed` | 8.1 million |
| `Page` | 2 names, 3 curves, 2 displays, 2 clicks under way besides the first list | types, `UpdateReplacesLoaded`, `OnlyItsOwnTimer`, `ShowsLastAsked`, `SaidSavedIsListed` | 3.0 million |

Deadlock is checked in every run; a program that has ended stutters explicitly (`Gone`, `Over`).

**What they show.**

- *The restart is right if saves do not overlap.* Whatever the order of flag, message,
  queue and the thread's first look, a stop reaches the thread (`JoinNotStuck`), it has
  ended before the file is read (`StopsExisting`), the next one gets its keys, in the end
  (`SavedKeysWork`) and all that only this process uses (`HoldInv`), and the service
  implements `KeybindingSet`.
- *It is not, if they do.* The server is multithreaded (`websvr.cpp:450`). In
  `HotkeySaveRace` a hotkey thread runs when two saves come: the first handler has cleared the
  flag and has yet to post `WM_QUIT` and to join; the second finds the flag clear, passes over
  the block under "// Stop existing hotkey thread" (`gamma.cpp:213`) and goes on to read the
  file while that thread lives. Even so no key is left without a thread (`HotkeyConcurrent`).
- *One request at a time sets exactly the displays it means*, with gaps in the adapter
  numbers and displays coming and going, when it reports success, and `displays_.at` never
  throws but for a hotkey or tray item that names a display on its own. But what the page *means*
  is a position in its list and what it sends is taken for an adapter number plus one:
  `PanelWrongDisplay`. And the ramp
  is not the one asked for where the prompt applies a preset, an exception `AsAsked` names
  (`LosesPreset`).
- *Overlapping enumerations* may leave a display that was listed missing from the table, and
  `displays_.at` throw for it, but only while another enumeration is under way
  (`MissingOnlyMidway`): on the hotkey or tray thread that ends the process.
- *A save waits for the handler at work*, device calls and all: once it has been answered, no
  former binding acts (`ActsAsSaved`), however many presses were queued. Neither the save nor
  `release()` waits for ever (`StopOutlastsHandler`).
- *Exit is not safe from a hotkey.* `release()` resets the displays before it stops the
  hotkey thread: `PanelUnsafeExit`. It is safe if no handler is at work meanwhile
  (`SafeExitUnlessPressed`), and for requests one at a time with displays coming and going
  (`SafeExitAlone`).
- *A program that is up ends when told to*, menu on screen or not, and `release()` runs when
  all other users of the panel have ended and no menu command is left.
- *Tray items do what they say* however the displays change meanwhile, up to ten presets.
  With an eleventh, the number of its second display is that of Open Web UI and the
  number of its third that of Quit. If the presets change while the menu is open, an item
  may apply another preset but never becomes another kind of item.
- *A preset file* never mixes two presets while saves come one at a time, though they fail
  or are killed; small presets on a disk with room are read whole or as no points even
  when saves overlap.
- *The two splines agree* to one unit whatever order editing has left the points in, keep
  the shape of points that never fall, and the program takes the page's ramp over as it is.
  Points stay in order but for three kinds of double click.
- *The file is what the page shows* once all requests have been answered in order; Save
  replaces what Edit has shown unless a binding before it was deleted or the list arrived
  meanwhile; a letter, digit or function key is registered as pressed, but for a digit
  with Shift.
- *The page* shows a preset in its list the moment it says it is saved, however saves and
  lists overtake one another; Update replaces the preset whose points were loaded last; a
  message's timer never takes a later message with it; the displays end up as last asked
  unless requests fail or are handled out of order.

**Bounds, and why they are enough.**

- *Two thread identities*: an identity is free again only when no handle names it, and a
  second is needed only to have an old and a new thread at once. Two workers suffice for a
  race; one for the runs about serial handlers, where a second is never busy at the same
  time. A configuration that repeats a key (`<<a, a>>`) makes a registration fail inside
  one process; `<<b, a>>` makes one fail because of another program and go on.
- *Two adapters* have every pattern of attached displays but a gap between two, so the run
  about numbering takes three. Two ramps tell linear from not linear.
- *Menus*: eleven presets are the fewest with a collision; three displays are the first with
  which both collisions occur; with one display the menu has another shape.
- *Hotkeys with displays* (`Together`): two keys with different ramps, in different files, tell
  a former binding from the one in force; one display suffices, for the table of the panel is
  either emptied or not, and `Panel` has more; the worker's other request is the enumeration,
  which is what can hurt a handler.
- *Page*: of the three curves one comes back from a file as another; two clicks give every pair of requests of which one overtakes the other, with the
  list that follows each save, and the page's first list as a third.
- *Files*: two presets tell parts of one from parts of two; a third client makes a load
  overlap two saves. Two settings are checked, because in the others (large presets saved in
  parallel, or small ones on a full disk in parallel) neither `BeginningOfOne` nor
  `WholeOrNothing` is promised.
- *Curves*: a linked edit relates two channels; the third behaves like the second. Five
  inputs have room for a gap of one and of two between points; sixteen values let a wrong
  tangent or a straight line show after rounding; four points give an inner segment with two
  neighbours (the general tangent). The four places reach every column but the last. Three
  changes between reloads allow the chain that breaks a channel: make the channels differ,
  then insert, drag or delete where they do.
- *Keybindings*: two bindings give one before or one after the one edited; two changes
  give a second save that can overtake the first, and delete followed by submit.

`MaxPoints`, `MaxEdits` and `MaxClicks` are the only bounds in guards, `WebKinds` and `Settings`
the only ones on requests; the other models are finite by
themselves.

**Fairness.** `HotkeyService`: weak fairness for every step of a thread that exists (scheduler)
and for `BeginServing` and `ExitProcess`, the main thread's own next step. A handler that has
opened the file finishes. Nothing makes a request, a key press or the end of serving happen,
and other programs keep keys as long as they like, so `SavedKeysWork` is about keys no other
program uses. `HotkeyPanel`: weak fairness for each thread that has something to do. `Program`:
weak fairness for the main thread, the tray thread (it dispatches what it has been posted) and
the server's coming up and down; none for the user. `ExitEnds` and `QuitEndsGui` assume the
server is up, because the program promises no more (section 6). The other specifications state
safety only and have no fairness.

Each property of a passing run is paired, in `PROJECT.json`, with a definition changed as a
plausible bug would change it (`MUTANT of ...` in the modules), under which the run fails.

## 5. The proofs

**Hotkeys.** `HotkeyProofs` proves, for every set of workers, thread identities, key
combinations and configurations that the assumptions of `HotkeyService` allow:

| Theorem | States | Needs `SerialWorkers` |
|---|---|---|
| `TypeCorrect` | `[]TypeOK` | no |
| `HotkeysOwned` | `[]KeysHaveAThread` | no |
| `Inductive` | `[](TypeOK /\ IndInv)` | yes |
| `StopFirst` | `[]StopsExisting` | yes |
| `NeverOrphaned` | `[]NoOrphan` | yes |
| `NoLostWakeup` | `[]JoinNotStuck` | yes |
| `NoTerminate` | `[]NeverTerminates` | yes |
| `FileRules` | `[]FileInForce` | yes |
| `KeysHeld` | `[]HoldsItsKeys` | yes |
| `LeavesNothing` | `[]CleanExit` | yes |
| `ImplementsPromise` | `KeepsPromise`, that is `Spec` implements `KeybindingSet!Spec` | yes |

*Assumptions.* `CallersAssumption`: the main thread is no worker. `ThreadsAssumption`:
`NoThread` is no thread. `CombosAssumption`: what others may register are combinations.
`ConfigsAssumption`: configurations are sequences of combinations, the empty one among
them, and neither `Malformed` nor `NoThread` is one. `SerialWorkers` (any two workers are
equal, so handlers do not overlap) is a hypothesis of the theorems that need it, not an
assumption of the module: without it they are false, as `HotkeySaveRace` shows.

*The argument.* None of the properties is inductive. That no thread lives once the stop
block is passed depends on the join having been of the right thread, this on the flag
being set exactly when there is a healthy thread, this on who may be in which step in
which phase. `IndInv` has these layers:

- `ThreadInv` needs no assumption on callers: a thread is made only for bindings
  (`ArmedInv`), loop indices are in range (`LoopInv`), a registration is one its live thread
  has made and not undone (`RegInv`), combinations are unique (`UniqueInv`), and `WM_QUIT`
  waits only in a queue that exists (`QuitInv`). `TypeCorrect` and `HotkeysOwned` follow.
- `BusyInv`: in which phase which caller may be busy. With `SerialWorkers` it gives
  `OneBusy`: two busy callers are the same.
- `CallInv`: what each step of a call relies on, among it the lost wake-up argument: a
  joined thread that blocks has its `WM_QUIT`.
- `HandleInv`: the live thread is the one `s_hotkeyThread` names; until the flag is cleared
  it is neither leaving nor told to.
- `FileInv` and `HoldInv` relate the bindings of a thread to `gapa.json` and to the keys held.

`TypeInit` and `IndInit` are the base; `TypeStep`, `ThreadInvStep`, `BusyStep`, `CallStep`,
`HandleStep`, `FileStep` and `HoldStep` each have one step per action; `IndStep` joins them.
The refinement maps the configuration in force to that of the live thread `s_hotkeyThread`
names, and `retiring` to that thread's way from leaving its loop to its end; `PromiseStep` maps
every action to `Adopt` (`Spawn`), `Take` (`Register`), `Retire`, `GiveBack`, `Withdraw` or a
stutter. TLC checks `IndInv` and `KeepsPromise` in `HotkeySerial`. `NoOrphan`, `HoldsItsKeys`
and `CleanExit` follow from `IndInv` and have no run of their own.

**Shutdown and menu.** `ProgramProofs` proves, for any `Builds`, `Dirs` and `Desktops`:

| Theorem | States | Needs `Few` |
|---|---|---|
| `LifecycleTypes` | `[]TypeOK` of `Lifecycle` | no |
| `ReleasesAlone` | `[]ReleaseAlone` | no |
| `ItemsStay` | `ItemStaysItself` | yes |
| `ItemsAct` | `ItemDoesWhatItSays` | yes |
| `ProgramTypes` | `[]Types` | yes |

`ReleaseAlone` is not inductive: that the tray thread has ended at
`release()` rests on `StopTrayMenu` having found `s_running` set, which holds from
`RunTrayMenu` on (`RunningInv`), on the order of the two joins, and on a tray thread ending
only when no menu and no command is left. `EndInv` says this; `EndStep` goes through the steps.
Types need that there is no tray thread before `RunTrayMenu` (`BeginInv`).

An item's command says no more than a number. `MenuInv` keeps, from the menu to the dispatch,
that the item picked is one of those made from the presets and displays of that time;
`DispatchItem` goes through the four kinds of item and computes what `TrayWndProc` makes of
each number. `Few` says that there are at most a hundred presets and displays at a time, and is
the condition under which the scheme of numbers works at all (but for the two collisions the
properties name): the hundred-and-first preset's item for one display has the number 14000,
which nobody looks at, and the hundred-and-first display's runs into the next preset.

**Displays.** `GammaPanelProofs` proves, for any workers, hotkey threads and trays, any number
of adapters, ramps, bindings (any sequences of numbers, repeated ones too) and `Settings`, from
the assumptions of `GammaPanel`:

| Theorem | States |
|---|---|
| `PanelInvariant` | `[]IndInv` |
| `PanelTypes` | `[]TypeOK` |
| `ListedIsFound` | `[]MissingOnlyMidway` |
| `ReleaseLeavesLinear` | `[]SafeExitAlone` |
| `PanelAsAsked` | `[]AsAsked` |

Its `IndInv` has, besides types, bounds and the shape of a request (`BoundInv`, `JobInv`), a
part for each question. `CoverInv`: since all was quiet nobody has emptied the table, or
somebody is filling it and has put in every steady display it has come past, or all are in; a
display that any client has listed can therefore be missing only midway. `ListInv` and
`TargetInv`: what a client sets it has listed, and with requests one at a time (`OneBusy`) the
table still has it. `ReleaseInv` and `ResetInv`: of the displays behind `release()`'s loop all
are linear, have failed, or are not attached; those not yet come to are in the table. `AskInv`:
a request has changed nothing before it applies ramps, and from then on every display it means
is set, has failed or is still among its targets. That the targets are those meant is a fact
about three numberings, proved once in `SelectedMeant` from `EntriesMembers` and
`MatchingMembers`.

**Hotkeys and displays.** The last part of `HotkeyProofs` proves of the composed program, for
any workers, threads, keys and displays:

| Theorem | States | Needs `SerialWorkers` |
|---|---|---|
| `ComposedIsService` | `PanelSpec => Spec` of `HotkeyService` | no |
| `ComposedDisplays` | the displays' part of the invariant | no |
| `SafeUnlessPressed` | `[]SafeExitUnlessPressed` | no |
| `HotkeysActAsSaved` | `[]ActsAsSaved` | yes |

Nothing is proved twice: by `ComposedIsService` the theorems about `HotkeyService` hold of the
composition, and the lemmas of `GammaPanelProofs` about a step of a client are used through
`INSTANCE`, since a step of the composition is one of the panel's for the displays.
`HandlerInv` ties the two halves together (a thread is at work on the panel exactly while
`HotkeyService` has it handle a message, with the binding of that message). `ActsAsSaved` then
follows from `FileInForce`'s argument about the thread's bindings (`FileInv`). `AloneInv` says
that, unless a key has been handled since `release()` began, main is alone with the displays
and its loop leaves them linear.

**Preset files.** `PresetFilesProofs` proves, for any clients, names, presets and all eight
settings:

| Theorem | States |
|---|---|
| `FilesInvariant` | `[](Shape /\ FilesInv)` |
| `FilesTypes` | `[]TypeOK` |
| `LoadsStored` | `[]LoadsWhatIsStored` |
| `OnePreset` | `[]BeginningOfOne` |
| `WholeLoads` | `[]WholeOrNothing` |

`FilesInv` says that a save nobody has disturbed is alone with its file and has written a
beginning of its preset (`CleanSaver`), that a file said to hold a preset whole holds it and is
open to no save (`StoredInv`), that a load nobody has disturbed has read a beginning of it
(`LoadInv`), that saves one at a time are undisturbed (`SerialInv`), and that in the buffered
setting a file is empty or whole (`BufferedInv`). The lemmas `OverlayBegun`, `OverlayWhole` and
`ReadWhole` are the facts about `to_file` and `read_vec` they rest on. `PresetsAssumption`,
that there is a preset, is needed for an empty file to be the beginning of one.

**The page.** `PresetsPageProofs` and `KeybindingsPanelProofs` prove, for any names, curves,
files, keys and any number of clicks and changes:

| Module | Theorem | States |
|---|---|---|
| `PresetsPageProofs` | `PageInvariant` | `[]IndInv` |
| | `PageTypes` | `[]TypeOK` |
| | `PageUpdates` | `[]UpdateReplacesLoaded` |
| | `PageTimers` | `[]OnlyItsOwnTimer` |
| | `PageShows` | `[]ShowsLastAsked` |
| | `PageLists` | `SaidSavedIsListed` |
| `KeybindingsPanelProofs` | `FormInvariant` | `[]IndInv` |
| | `FormTypes` | `[]TypeOK` |
| | `FormSaved` | `[]SavedAsShown` |
| | `FormEdits` | `[]EditsWhatItShowed` |
| | `FormKeys` | `KeyAsPressed` |

Here the invariants are about requests under way. `RequestInv`: what a request says and has got
fits the files that exist (`Fits`), above all that a list asked for after a save was asked for
when the preset was there; files are never removed, so it still holds when it arrives.
`DueInv`: of the requests still to set a display the latest has the curve last asked for, and a
display with none due shows it. `SyncInv`: the last request of the queue sends the list as it
is, or asks for it. `HeldInv`: modifiers captured are still held if none was released. The types of the form say
what can get into the list: combinations, holes and, by a switch of the language, the prompt of
either language, but never the empty form (`FormTypes`).

**Curve editor and spline.** `CurveEditorProofs` proves, for any number of channels, any size
of the grid, largest value, presets, places of the mouse and bounds:

| Theorem | States |
|---|---|
| `EditorInvariant` | `[]IndInv` |
| `EditorTypes` | `[]TypeOK` |
| `EditorBreaks` | `BreaksOnlyByReplacing` |
| `EditorOrder` | `OrderKept`, if `PresetsInOrder` |
| `EditorKeepsShape` | `[]SplineKeepsShape` |
| `EditorBothAgree` | `[]BothAgree` |

Its `IndInv` is small. `DrawInv`: `broken` says just whether drawing what the page now holds
would throw. Types rest on it, because a handler takes a point by a stored index, and the
index is in its channel only while the page can be drawn. `DragInv`: while a point is dragged,
no other is selected. The work is in what the three handlers that change points make of those
of *every* channel (`MouseMoveOf`, `DblClickOf`, `ContextMenuOf`), for the linked ones follow
with the index of a channel they need not resemble. `PresetsInOrder` is a hypothesis of
`EditorOrder` alone: the page saves whatever order editing has left the points in, and such a
file puts them out of order when it is loaded.

The two properties of ramps are about arithmetic, of fractions with positive denominators
(`FractionOf`). That the spline never falls is the theorem of Fritsch and Carlson, for the
tangents `gamma.ts` chooses: a weighted harmonic mean is at most three times either slope
(`MeanBound`, `TangentBound`); the difference of two values in a segment is linear in the two
tangents (`WeightsOf`), so it suffices to look at the four corners where each tangent is 0 or
three times the slope (`WeightsRise`, `BetweenCorners`); hence `SegmentRises`, and with the
rounding and the ends of segments (`ValuesOf`) `CurveRises`. For the two programs: truncating
what the other rounds takes off 0 or 1 (`TruncatedOf`), and clamping and the last loop keep
such differences (`ClampClose`, `RisingClose`), so `RampsClose` holds of points in any order;
the last loop leaves its own result as it is (`RampOf`, for `JsonToRamp`).

**Sequences.** `SequenceLemmas` has the facts about the community modules' operators these
proofs need: the range of a concatenation or an `Append`, what `InsertAt`, `RemoveAt`,
`RemoveFirst` and `FlattenSeq` return. `FlattenMembers` is an induction, over a recursive
function; the induction theorems of the library cannot be instantiated here, so it goes by the
least counterexample (`LeastMember`).

*Assumptions.* All that the modules assume are facts about the sets of an instance: who is a
different thread from whom, that bindings and files are sequences of the right kind, that
counts are natural numbers (`MaxClicks` and `MaxEdits` are arbitrary), that the grid of the
spline has two columns at least and the points of a preset have values on it. TLC evaluates
each of them in the runs. No theorem needs finite sets of clients, files or keys. The only
hypotheses beyond them are `SerialWorkers`, `Few` (the only bound) and `PresetsInOrder`; the
runs that check the properties in question satisfy them.

*Only model-checked.* Liveness (`SavedKeysWork`, `ExitEnds`, `QuitEndsGui`,
`StopOutlastsHandler`): fairness and ENABLED are out of the prover's reach. Of
`HotkeyService`, `NoOrphan`, `HoldsItsKeys` and `CleanExit` are proved and have no run of their
own.

## 6. What the code does not promise

Disagreements with a comment or a doc, each with a violated run:
`HotkeySaveRace`/`SkipsOnlyWithoutThread` (`gamma.cpp:213`),
`PanelUnsafeExit`/`SafeExit`
(`repl.cpp:167`, `README.md:58`), `PanelWrongDisplay`/`PickedDisplayIsSet` (`README.md:12`).

Met while modelling; the models do as the code does, and the properties leave room for it:

- `PostWrites`: `gapa.json` is truncated before it is written (`websvr.cpp:426`); killed in
  between, the next start finds no bindings.
- `RampOf`: "apply, a <preset> [D]  Apply named preset to display D (0=all)" (`repl.cpp:162`,
  `README.md:54`) is not what the prompt does. `presets()` yields bare file names; `CmdApply`
  has one opened as it is, in the working directory instead of `gamma/` (`repl.cpp:45`), so
  nothing is found, the identity is set and the prompt says OK. `AsAsked` makes an exception of
  it, `LosesPreset`; it has no run of its own.
- `LookupThrows`: a hotkey that names an adapter without a display throws on a thread that
  catches nothing and ends the process (`gamma.cpp:358`).
- `Stopped`: a Quit or an exit before the server is up is lost (`websvr.cpp:120`): the GUI
  build runs on, the REPL build waits in the join (`main.cpp:31`). `StopTrayMenu` before the
  window exists loses its message (`tray.cpp:311`). In the REPL build, a Quit that finds
  `main()` outside `getline` is not noticed before the next line (`repl.cpp:20`).
- `Dispatched`: the collision at the eleventh preset (`tray.cpp:161`), and presets listed
  again when an item is dispatched (`tray.cpp:236`).
- `SaveCloses`: `to_file` answers before the stream is closed (`gamma.cpp:200`).
  `Download`: `/api/files/<name>` looks in `<cwd>gamma/`, so it always yields the identity
  (`websvr.cpp:283`).
- `OnDblClick`: a double click on a point, outside the curve or where channels differ puts
  the new point out of order. `OnMouseMove`: a linked point may be moved out of 0..255, and
  a linked channel without the index makes the handler throw half way. `OnContextMenu`: a
  linked channel may lose an end.
- `DrawingThrows`: Reset, or a preset that arrives, while a point is selected that then no
  longer exists; and a preset whose file is gone, which arrives with no points
  (`gamma.ts:20`).
- `DeleteKeybinding`: an edit of a later binding goes on at the old index; it may replace
  another binding or leave a hole, sent to `gapa.json` as `null`. A change before the list
  has arrived overwrites all bindings. A save that fails is reported on the console only.
- `Unfinished`: if the language is switched between the start of a capture and Save, the prompt
  in the form is not the one it is compared with (`KeybindingsPanel.svelte:51`) and is saved as a
  binding; the program registers nothing for it.
- `ModifierUp`, `Registered`: a modifier released during the capture counts as held; a digit
  with Shift is captured as another character, whose code is another virtual key; words
  (arrows) and unfinished combinations are saved and never registered.
- `PresetArrives`: the message that a preset is loaded is set as an error (`+page.svelte:43`), so
  it never goes away by itself. `SaveArrives`: the name field is emptied whatever it says by
  then (`state.svelte.ts:135`). `GammaArrives`: the message names the display picked when the
  answer arrives (`+page.svelte:22`). Apply and Reset may be handled in another order than
  clicked.
- `TrayEnds`: the icon is taken away on `WM_DESTROY` only (`tray.cpp:254`), which `StopTrayMenu`
  does not bring about; it stays until Explorer notices.

## 7. Abstractions and what is not modelled

- `displays_` is a `std::map` used without a lock; it is taken to be whole between two
  accesses, so corrupted memory is not among the outcomes.
- A preset is a model value or the ramp it yields, and all presets of an instance of
  `PresetFiles` have the same number of points.
- A request a handler rejects before it changes anything is left out. JSON is parsed or
  not; its text is not modelled.
- A right click on the tray icon while its menu is open, and a port already in use, are left
  out.
- `Spline` computes exactly. What `float` may do to a product is the parameter `short` of
  `Truncated`: the product falls just short of a whole number. Differences in the
  comparison of x with a point's x are not modelled. The properties of ramps are looked at
  in states with no point selected; a click beside all points leads to one with the same
  points.
- A mouse place is one of the grid. The radius of `hitTest` is abstracted to any point not
  exactly under another.
- After drawing has thrown, the page does nothing but reload.
- In `PresetsPage` the adapters have no gap, only this page saves presets, and the handlers of
  the server are one step each. The list of displays is not a variable: it is fetched once and
  only shown.
- `apply_ramp` looks a display up once more to report that it cannot be opened
  (`gamma.cpp:491`); that this fails because the table has been emptied since is the step
  `LookupThrows`, which has changed as little.
- In `HotkeyPanel` displays stay as they are; `Panel` has them move.
- In `KeybindingsPanel` action, preset and display of a binding take no part, and a name is
  of one of four kinds: a plain key, a key Shift changes, a word, a modifier. Keys without
  effect in a capture (Escape, the Windows key) are left out.

Not modelled: `POST /api/files/save`, which no page calls: it writes a raw ramp under a name in
the working directory, and nothing reads one back (`gamma_ramp(path)` has no caller);
`addPointAfterSelection` (`state.svelte.ts:58`), which is imported and never called; the
splitting of the prompt's line into words; static files (a map from paths to files); the tray
icon and the launch of the browser (calls of the shell the program never asks about); the
preview (drawing) and the wording of the page; `webui/index.html`, which the build does not
use; `asio`, which is vendored. Crow is not in
the repository.
