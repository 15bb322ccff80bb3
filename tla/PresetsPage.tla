---------------------------- MODULE PresetsPage -----------------------------
(***************************************************************************)
(* The side panel of the web page: the name and the list of presets, the   *)
(* display picked, Apply, Reset and Save, and the status line with its     *)
(* timer (+page.svelte, state.svelte.ts, api.ts), and the server's side of *)
(* the requests.  A click sends a request, and its handler goes on when    *)
(* the answer arrives: meanwhile the user types, edits, picks and clicks   *)
(* on.  Requests are handled in any order, answers arrive in any order,    *)
(* and any of them may fail.                                               *)
(*                                                                         *)
(* A curve stands for the points of three channels and for their ramp.     *)
(* Handlers of the server are one step here; PresetFiles and GammaPanel    *)
(* take them apart.                                                        *)
(***************************************************************************)
EXTENDS Naturals, FiniteSets

CONSTANTS
    Stems,    \* the names of presets, without suffix
    NoStem,   \* the empty text
    Curves,   \* what the editor may show
    Linear,   \* the curve of the identity
    NoFile,   \* not a curve
    Reread,   \* Reread[c]: how curve c comes back from a file
    Stored,   \* what gamma/ may hold at first
    Displays, \* displays 1 .. Displays are attached
    MaxClicks \* bound: clicks that send a request or a message

ASSUME StemsAssumption == NoStem \notin Stems
ASSUME CurvesAssumption == Linear \in Curves /\ NoFile \notin Curves
\* Points are sent back as (int)(x * 255 + 0.5), which moves an x of -1 to 0.
ASSUME RereadAssumption == Reread \in [Curves -> Curves]
ASSUME DisplaysAssumption == Displays \in Nat

\* Texts of the name field, with or without .gmd at the end.
Names == [stem : Stems, gmd : BOOLEAN]
Blank == [stem |-> NoStem, gmd |-> FALSE]
Full(s) == [stem |-> s, gmd |-> TRUE]

\* Files without .gmd are never listed, loaded or written, and are left out.
ASSUME StoredAssumption ==
    \A s \in Stored :
        /\ s \in [Names -> Curves \union {NoFile}]
        /\ \A n \in Names : s[n] # NoFile => n.gmd
ASSUME BoundAssumption == MaxClicks \in Nat

VARIABLES
    presetName,         \* the name field
    selectedPresetFile, \* the preset marked in the list, or Blank
    presets,            \* the list
    curPoints,          \* the curve in the editor
    selectedDisplay,    \* 0: all
    status,             \* the message shown: the click it answers, text, statusErr
    timers,             \* the messages whose setTimeout is pending
    requests,           \* the requests under way
    stored,             \* stored[n]: the curve in file n
    shown,              \* shown[d]: the ramp of display d
    clicks,             \* the clicks so far
    lineage,            \* history: the preset whose points were last loaded
    asked,              \* history: what shown should be by the clicks so far
    hitch               \* history: an Apply or Reset failed or overtook another

formVars == <<presetName, selectedPresetFile, presets, curPoints, selectedDisplay>>
statVars == <<status, timers>>
histVars == <<lineage, asked, hitch>>
vars     == <<formVars, statVars, requests, stored, shown, clicks, histVars>>

Ids      == 0 .. MaxClicks
Ready    == [id |-> 0, text |-> "ready", err |-> FALSE]
Messages == [id : Ids, err : BOOLEAN,
             text : {"ready", "enter", "applied", "reset", "saved", "loaded", "failed"}]
Requests == [id : Ids, kind : {"list", "load", "save", "apply", "reset"},
             name : Names \union {Blank}, display : 0 .. Displays, curve : Curves \union {NoFile},
             handled : BOOLEAN, ok : BOOLEAN, files : SUBSET Names]

\* The types of the variables; every file in gamma/ is a preset by its name.
TypeOK ==
    /\ presetName \in Names \union {Blank}
    /\ selectedPresetFile \in Names \union {Blank}
    /\ presets \subseteq Names
    /\ curPoints \in Curves
    /\ selectedDisplay \in 0 .. Displays
    /\ status \in Messages
    /\ timers \subseteq Ids
    /\ requests \subseteq Requests
    /\ stored \in [Names -> Curves \union {NoFile}]
    /\ \A n \in Names : stored[n] # NoFile => n.gmd
    /\ shown \in [1 .. Displays -> Curves]
    /\ clicks \in Ids
    /\ lineage \in Names \union {Blank}
    /\ asked \in [1 .. Displays -> Curves]
    /\ hitch \in BOOLEAN

\* A request as it is sent.
Sent(i, k, n, d, c) ==
    [id |-> i, kind |-> k, name |-> n, display |-> d, curve |-> c,
     handled |-> FALSE, ok |-> TRUE, files |-> {}]

\* refreshPresets; n: the preset saved, Blank when the page opens.
List(i, n) == Sent(i, "list", n, 0, NoFile)

\* onMount.
Init ==
    /\ presetName = Blank
    /\ selectedPresetFile = Blank
    /\ presets = {}
    /\ curPoints = Linear
    /\ selectedDisplay = 0
    /\ status = Ready
    /\ timers = {}
    /\ requests = {List(0, Blank)}
    /\ stored \in Stored
    /\ shown = [d \in 1 .. Displays |-> Linear]
    /\ clicks = 0
    /\ lineage = Blank
    /\ asked = shown
    /\ hitch = FALSE

----------------------------------------------------------------------------
(* The status line. *)

\* MUTANT of Running: clearTimeout is left out.
RunningOn == timers

\* The timers that go on when a message is set: none.
Running == {}

SetStatus(i, msg, isErr) ==
    /\ status' = [id |-> i, text |-> msg, err |-> isErr]
    /\ timers' = Running \union (IF isErr THEN {} ELSE {i})

TimerFires(i) ==
    /\ i \in timers
    /\ timers' = timers \ {i}
    /\ status' = Ready
    /\ UNCHANGED <<formVars, requests, stored, shown, clicks, histVars>>

----------------------------------------------------------------------------
(* The user. *)

TypeName(n) ==
    /\ presetName' = n
    /\ UNCHANGED <<selectedPresetFile, presets, curPoints, selectedDisplay, statVars, requests,
                   stored, shown, clicks, histVars>>

\* Whatever CurveEditor does to the points.
Edit(c) ==
    /\ curPoints' = c
    /\ UNCHANGED <<presetName, selectedPresetFile, presets, selectedDisplay, statVars, requests,
                   stored, shown, clicks, histVars>>

PickDisplay(d) ==
    /\ selectedDisplay' = d
    /\ UNCHANGED <<presetName, selectedPresetFile, presets, curPoints, statVars, requests,
                   stored, shown, clicks, histVars>>

Click ==
    /\ clicks < MaxClicks
    /\ clicks' = clicks + 1

\* MUTANT of Means: "all" is not understood.
MeansOne(n, d) == d = n

\* The displays a request is for; they are taken to be adapters 0 .. Displays - 1.
Means(n, d) == n = 0 \/ d = n

\* The Apply and Reset buttons: handleApply, handleReset up to the request.
Ask(kind, c) ==
    /\ Click
    /\ requests' = requests \union {Sent(clicks', kind, Blank, selectedDisplay, c)}
    /\ asked' = [d \in 1 .. Displays |-> IF selectedDisplay \in {0, d} THEN c ELSE asked[d]]
    /\ UNCHANGED <<formVars, statVars, stored, shown, lineage, hitch>>

HandleApply == Ask("apply", curPoints)
HandleReset == Ask("reset", Linear)

\* MUTANT of FileName: .gmd is not added.
FileNameAsTyped(n) == n

\* The name a preset is saved under.
FileName(n) == [n EXCEPT !.gmd = TRUE]

\* The Save button: handleSavePreset up to the request.
HandleSavePreset ==
    /\ Click
    /\ IF presetName = Blank
       THEN SetStatus(clicks', "enter", TRUE) /\ UNCHANGED requests
       ELSE /\ requests' = requests \union
                    {Sent(clicks', "save", FileName(presetName), 0, curPoints)}
            /\ UNCHANGED statVars
    /\ UNCHANGED <<formVars, stored, shown, histVars>>

\* MUTANT of OnClick: the preset is marked when it is clicked.
OnClickMarks(n) == presetName' = n /\ selectedPresetFile' = n

\* What clicking preset n changes on the page: nothing until the points are there.
OnClick(n) == UNCHANGED <<presetName, selectedPresetFile>>

\* handleLoadPreset up to the request.
HandleLoadPreset(n) ==
    /\ Click
    /\ requests' = requests \union {Sent(clicks', "load", n, 0, NoFile)}
    /\ OnClick(n)
    /\ UNCHANGED <<presets, curPoints, selectedDisplay, statVars, stored, shown, histVars>>

----------------------------------------------------------------------------
(* The server. *)

Handled(r, s) == requests' = (requests \ {r}) \union {s}

\* GET /api/files: the names that end in .gmd.
ListFiles(r) ==
    /\ r.kind = "list" /\ ~r.handled
    /\ Handled(r, [r EXCEPT !.handled = TRUE,
                            !.files = {n \in Names : n.gmd /\ stored[n] # NoFile}])
    /\ UNCHANGED <<formVars, statVars, stored, shown, clicks, histVars>>

\* The points in file n as numbers of the page again, if the file is there.
Reads(n) == IF stored[n] = NoFile THEN NoFile ELSE Reread[stored[n]]

\* GET /api/presets/<name>.
GetPreset(r) ==
    /\ r.kind = "load" /\ ~r.handled
    /\ Handled(r, [r EXCEPT !.handled = TRUE, !.curve = Reads(r.name)])
    /\ UNCHANGED <<formVars, statVars, stored, shown, clicks, histVars>>

\* POST /api/presets/save: the file is written, or cannot be opened.
SavePreset(r) ==
    /\ r.kind = "save" /\ ~r.handled
    /\ \/ /\ stored' = [stored EXCEPT ![r.name] = r.curve]
          /\ Handled(r, [r EXCEPT !.handled = TRUE])
       \/ /\ Handled(r, [r EXCEPT !.handled = TRUE, !.ok = FALSE])
          /\ UNCHANGED stored
    /\ UNCHANGED <<formVars, statVars, shown, clicks, histVars>>

\* POST /api/gamma/apply and /reset: each display meant is set, or refuses.
SetGamma(r) ==
    /\ r.kind \in {"apply", "reset"} /\ ~r.handled
    /\ \E bad \in SUBSET {d \in 1 .. Displays : Means(r.display, d)} :
        /\ shown' = [d \in 1 .. Displays |->
                        IF Means(r.display, d) /\ d \notin bad THEN r.curve ELSE shown[d]]
        /\ Handled(r, [r EXCEPT !.handled = TRUE, !.ok = (bad = {})])
        /\ hitch' = (hitch \/ bad # {} \/ \E q \in requests :
                        q.kind \in {"apply", "reset"} /\ ~q.handled /\ q.id < r.id)
    /\ UNCHANGED <<formVars, statVars, stored, clicks, lineage, asked>>

----------------------------------------------------------------------------
(* The answers.  ok: it has arrived, and says ok; otherwise an error, or the request *)
(* or its answer was lost.                                                           *)

Arrives(r, ok) == ok => r.handled /\ r.ok

\* The rest of refreshPresets and, after a save, of handleSavePreset.
ListArrives(r, ok) ==
    /\ r.kind = "list" /\ Arrives(r, ok)
    /\ requests' = requests \ {r}
    /\ presets' = IF ok THEN r.files ELSE {}
    /\ IF r.name = Blank THEN UNCHANGED statVars ELSE SetStatus(r.id, "saved", FALSE)
    /\ UNCHANGED <<presetName, selectedPresetFile, curPoints, selectedDisplay, stored, shown,
                   clicks, histVars>>

\* The rest of loadPresetFile and handleLoadPreset, which shows either outcome as an
\* error.
PresetArrives(r, ok) ==
    /\ r.kind = "load" /\ Arrives(r, ok)
    /\ requests' = requests \ {r}
    /\ IF ok
       THEN /\ curPoints' = r.curve
            /\ selectedPresetFile' = r.name
            /\ presetName' = r.name
            /\ lineage' = r.name
            /\ SetStatus(r.id, "loaded", TRUE)
       ELSE /\ SetStatus(r.id, "failed", TRUE)
            /\ UNCHANGED <<curPoints, selectedPresetFile, presetName, lineage>>
    /\ UNCHANGED <<presets, selectedDisplay, stored, shown, clicks, asked, hitch>>

\* The rest of saveCurrentPreset: the name field is emptied, whatever it says by now,
\* and the list asked for.
SaveArrives(r, ok) ==
    /\ r.kind = "save" /\ Arrives(r, ok)
    /\ IF ok
       THEN /\ presetName' = Blank
            /\ requests' = (requests \ {r}) \union {List(r.id, r.name)}
            /\ UNCHANGED statVars
       ELSE /\ requests' = requests \ {r}
            /\ SetStatus(r.id, "failed", TRUE)
            /\ UNCHANGED presetName
    /\ UNCHANGED <<selectedPresetFile, presets, curPoints, selectedDisplay, stored, shown,
                   clicks, histVars>>

\* The rest of handleApply and handleReset.
GammaArrives(r, ok) ==
    /\ r.kind \in {"apply", "reset"} /\ Arrives(r, ok)
    /\ requests' = requests \ {r}
    /\ SetStatus(r.id, IF ~ok THEN "failed" ELSE IF r.kind = "reset" THEN "reset" ELSE "applied",
                 ~ok)
    /\ hitch' = (hitch \/ ~ok)
    /\ UNCHANGED <<formVars, stored, shown, clicks, lineage, asked>>

UserStep ==
    \/ \E n \in Names \union {Blank} : TypeName(n)
    \/ \E c \in Curves : Edit(c)
    \/ \E d \in 0 .. Displays : PickDisplay(d)
    \/ HandleApply
    \/ HandleReset
    \/ HandleSavePreset
    \/ \E n \in presets : HandleLoadPreset(n)

ServerStep(r) == ListFiles(r) \/ GetPreset(r) \/ SavePreset(r) \/ SetGamma(r)

Answer(r) ==
    \E ok \in BOOLEAN :
        \/ ListArrives(r, ok)
        \/ PresetArrives(r, ok)
        \/ SaveArrives(r, ok)
        \/ GammaArrives(r, ok)

Next ==
    \/ \E i \in Ids : TimerFires(i)
    \/ UserStep
    \/ \E r \in requests : ServerStep(r) \/ Answer(r)

Spec == Init /\ [][Next]_vars

----------------------------------------------------------------------------
(* Properties. *)

\* When the page says that a preset is saved, the list shows it, whatever other
\* saves and lists are under way or have overtaken this one; or no list came.
SaidSavedIsListed ==
    [][\A r \in requests :
        r.kind = "list" /\ r.name # Blank /\ (\A s \in requests' : s.id # r.id) =>
            presets' = {} \/ Full(r.name.stem) \in presets']_vars

\* While the button says "Update", the points shown are those loaded from the preset
\* it will replace, or an edit of them, in whatever order answers have come.
UpdateReplacesLoaded ==
    selectedPresetFile # Blank /\ selectedPresetFile = presetName => lineage = presetName

\* A timer that is pending will take away the message shown, never a later one.
OnlyItsOwnTimer == timers \subseteq {status.id}

\* When nothing is under way, the displays show what was asked for by Apply and Reset,
\* each click on top of those before; but for requests that failed or were handled
\* before an earlier one, which the page does not prevent.
ShowsLastAsked ==
    requests = {} /\ ~hitch => shown = asked
=============================================================================
