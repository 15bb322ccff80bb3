-------------------------- MODULE KeybindingsPanel --------------------------
(***************************************************************************)
(* The keybindings tab of the web page (KeybindingsPanel.svelte), its list *)
(* in the store, and the requests that keep gapa.json like it: the list is *)
(* fetched once, when the page opens, and sent whole after every change,   *)
(* without waiting for the answer.  And the way of a hotkey from the       *)
(* keyboard through the form and the file to the virtual key the program   *)
(* registers (apply_shortkeys).  The language of the page can be switched  *)
(* at any time, and the form knows its own prompt only by its text.        *)
(*                                                                         *)
(* A binding is its key combination; action, preset and display take no    *)
(* part.  The handlers of a page never interleave; requests may be handled *)
(* in another order than sent, or fail.                                    *)
(***************************************************************************)
EXTENDS Naturals, SequencesExt

CONSTANTS
    Modifiers, \* the modifier keys a capture takes note of: Shift among them
    Shift,
    Keys,      \* the other keys
    Shifting,  \* those that Shift makes another character
    Wordy,     \* those whose name is a word, like ArrowUp
    Files,     \* what gapa.json may hold at first
    InitialLang, \* getInitialLang: the language the page opens in
    MaxEdits   \* bound: changes of the list

ASSUME ModifiersAssumption == Shift \in Modifiers
ASSUME KeysAssumption == Shifting \subseteq Keys /\ Wordy \subseteq Keys
ASSUME BoundAssumption == MaxEdits \in Nat

Languages == {"zh", "en"}

ASSUME LangAssumption == InitialLang \in Languages

VARIABLES
    lang,        \* lang.current
    list,        \* store.keybindings
    fetched,     \* the list has been asked for, and has arrived or not
    editing,     \* editingIdx; 0: null
    kbKey,       \* the combination in the form
    capturing,   \* keys go to the form
    captureMods, \* the modifiers captured so far
    held,        \* the modifiers held down
    requests,    \* the requests sent and not answered
    file,        \* the bindings in gapa.json
    broken,      \* drawing the tab has thrown
    edits,       \* the changes so far
    original,    \* history: the binding whose Edit was clicked
    shifted,     \* history: since then the list has changed in front of it
    stray,       \* history: a modifier was released since the capture began
    hitch        \* history: a change was made before the list had arrived, a
                 \* request failed or overtook another

formVars == <<editing, kbKey>>
keyVars  == <<capturing, captureMods, held, stray>>
histVars == <<original, shifted, hitch>>
vars     == <<lang, list, fetched, formVars, keyVars, requests, file, broken, edits, histVars>>

\* What e.key.toLowerCase() says of a key: its own name, or with Shift that of
\* another character.
Texts == [key : Keys, other : BOOLEAN]
Text(k) == [key |-> k, other |-> Shift \in held /\ k \in Shifting]

\* A combination as the form writes it, unfinished ones ("control+...") included.
Word(s)  == [key |-> s, other |-> FALSE]
None     == [mods |-> {}, main |-> Word("none")]
Combos   == [mods : SUBSET Modifiers, main : Texts \union {Word("...")}]
Hole     == [mods |-> {}, main |-> Word("null")]

\* t('press_combo') in each language, the text of a form that waits for keys.
PressCombo == [zh |-> "press_combo in zh", en |-> "press_combo in en"]
Prompt(l)  == [mods |-> {}, main |-> Word(PressCombo[l])]
Prompts    == {Prompt(l) : l \in Languages}

Bindings == Combos \union Prompts \union {Hole}

ASSUME FilesAssumption == Files \subseteq Seq(Bindings)

Requests == [kind : {"get"}, body : {<<>>}] \union [kind : {"post"}, body : Seq(Bindings)]
Get     == [kind |-> "get", body |-> <<>>]
Post(b) == [kind |-> "post", body |-> b]

\* The types of the variables; no binding of the list, of a request or of the file is
\* the empty form's.
TypeOK ==
    /\ lang \in Languages
    /\ list \in Seq(Bindings)
    /\ fetched \in BOOLEAN
    /\ editing \in Nat
    /\ kbKey \in Combos \union Prompts \union {None}
    /\ capturing \in BOOLEAN
    /\ captureMods \subseteq Modifiers
    /\ held \subseteq Modifiers
    /\ requests \in Seq(Requests)
    /\ file \in Seq(Bindings)
    /\ {broken, shifted, stray, hitch} \subseteq BOOLEAN
    /\ edits \in 0 .. MaxEdits
    /\ original \in Bindings \union {None}

Init ==
    /\ lang = InitialLang
    /\ list = <<>>
    /\ fetched = FALSE
    /\ editing = 0
    /\ kbKey = None
    /\ capturing = FALSE
    /\ captureMods = {}
    /\ held = {}
    /\ requests = <<Get>>
    /\ file \in Files
    /\ broken = FALSE
    /\ edits = 0
    /\ original = None
    /\ shifted = FALSE
    /\ stray = FALSE
    /\ hitch = FALSE

----------------------------------------------------------------------------
(* The list and the form. *)

\* resetForm, which leaves a capture under way.
ResetForm ==
    /\ editing' = 0
    /\ kbKey' = None
    /\ original' = None
    /\ shifted' = FALSE

\* Drawing the tab reads every binding of the list.
Redraw == broken' = (Hole \in Range(list'))

\* MUTANT of Body: what is sent is the list before the change.
BodyBefore == list

\* What is sent.
Body == list'

\* saveKeybindingsToServer: the list is sent as it is now.
Persist ==
    /\ edits < MaxEdits
    /\ edits' = edits + 1
    /\ requests' = Append(requests, Post(Body))
    /\ hitch' = (hitch \/ ~fetched)
    /\ Redraw

\* list[i] = e; a place behind the end leaves holes.
Assign(i, e) ==
    [j \in 1 .. IF i > Len(list) THEN i ELSE Len(list) |->
        IF j = i THEN e ELSE IF j <= Len(list) THEN list[j] ELSE Hole]

\* MUTANT of Unfinished: an empty form is submitted.
UnfinishedPrompt == {Prompt(lang)}

\* What the button does not submit.  The prompt is that of the language by now, which
\* need not be the one the capture began in: the other one is taken for a combination.
Unfinished == {None, Prompt(lang)}

\* The Save or + button.
SubmitKeybinding ==
    /\ ~broken
    /\ kbKey \notin Unfinished
    /\ list' = IF editing # 0 THEN Assign(editing, kbKey) ELSE Append(list, kbKey)
    /\ ResetForm
    /\ Persist
    /\ UNCHANGED <<lang, fetched, keyVars, file>>

StartEdit(i) ==
    /\ ~broken
    /\ editing' = i
    /\ kbKey' = list[i]
    /\ original' = list[i]
    /\ shifted' = FALSE
    /\ UNCHANGED <<lang, list, fetched, keyVars, requests, file, broken, edits, hitch>>

Cancel ==
    /\ ~broken
    /\ editing # 0
    /\ ResetForm
    /\ UNCHANGED <<lang, list, fetched, keyVars, requests, file, broken, edits, hitch>>

\* MUTANT of Edits: the form stays as it is.
EditsNot(i) == FALSE

\* The form is about binding i.
Edits(i) == editing = i

\* The cross behind a binding.  An edit of another binding goes on at its index.
DeleteKeybinding(i) ==
    /\ ~broken
    /\ list' = RemoveAt(list, i)
    /\ IF Edits(i) THEN ResetForm
       ELSE shifted' = (shifted \/ i < editing) /\ UNCHANGED <<formVars, original>>
    /\ Persist
    /\ UNCHANGED <<lang, fetched, keyVars, file>>

----------------------------------------------------------------------------
(* Capturing a combination. *)

StartCapture ==
    /\ ~broken
    /\ capturing' = TRUE
    /\ captureMods' = {}
    /\ kbKey' = Prompt(lang)
    /\ stray' = FALSE
    /\ UNCHANGED <<lang, list, fetched, editing, held, requests, file, broken, edits,
                   histVars>>

ModifierDown(m) ==
    /\ held' = held \union {m}
    /\ IF capturing
       THEN /\ captureMods' = captureMods \union {m}
            /\ kbKey' = [mods |-> captureMods', main |-> Word("...")]
       ELSE UNCHANGED <<captureMods, kbKey>>
    /\ UNCHANGED <<lang, list, fetched, editing, capturing, stray, requests, file, broken,
                   edits, histVars>>

\* Nobody listens to a key that is released.
ModifierUp(m) ==
    /\ m \in held
    /\ held' = held \ {m}
    /\ stray' = (stray \/ capturing)
    /\ UNCHANGED <<lang, list, fetched, formVars, capturing, captureMods, requests, file, broken,
                   edits, histVars>>

\* Any other key ends the capture.  (captureMods is not looked at again.)
KeyDown(k) ==
    /\ capturing
    /\ capturing' = FALSE
    /\ kbKey' = [mods |-> captureMods, main |-> Text(k)]
    /\ captureMods' = {}
    /\ stray' = FALSE
    /\ UNCHANGED <<lang, list, fetched, editing, held, requests, file, broken, edits,
                   histVars>>

\* The preview tab is opened: the form goes, and with it the capture.
LeaveTab ==
    /\ ~broken
    /\ ResetForm
    /\ capturing' = FALSE
    /\ captureMods' = {}
    /\ stray' = FALSE
    /\ UNCHANGED <<lang, list, fetched, held, requests, file, broken, edits, hitch>>

\* The button beside the title, whatever the form is at; a prompt in it stays as it is.
ToggleLang ==
    /\ ~broken
    /\ lang' \in Languages \ {lang}
    /\ UNCHANGED <<list, fetched, formVars, keyVars, requests, file, broken, edits, histVars>>

----------------------------------------------------------------------------
(* The requests. *)

\* Request i is no longer under way.
Answered(i) ==
    /\ i \in DOMAIN requests
    /\ requests' = RemoveAt(requests, i)
    /\ hitch' = (hitch \/ i > 1)

\* GET /api/keybindings is answered and the list replaced.
ListArrives(i) ==
    /\ Answered(i)
    /\ requests[i] = Get
    /\ list' = file
    /\ fetched' = TRUE
    /\ shifted' = (editing # 0)
    /\ Redraw
    /\ UNCHANGED <<lang, formVars, keyVars, file, edits, original>>

\* It fails, or finds gapa.json truncated by a save: the list is empty.
ListFails(i) ==
    /\ i \in DOMAIN requests
    /\ requests[i] = Get
    /\ requests' = RemoveAt(requests, i)
    /\ list' = <<>>
    /\ fetched' = TRUE
    /\ shifted' = (editing # 0)
    /\ hitch' = TRUE
    /\ Redraw
    /\ UNCHANGED <<lang, formVars, keyVars, file, edits, original>>

\* POST /api/keybindings writes the file.
Saved(i) ==
    /\ Answered(i)
    /\ requests[i].kind = "post"
    /\ file' = requests[i].body
    /\ UNCHANGED <<lang, list, fetched, formVars, keyVars, broken, edits, original, shifted>>

\* It fails; persistKeybindings says so on the console only.
SaveFails(i) ==
    /\ i \in DOMAIN requests
    /\ requests[i].kind = "post"
    /\ requests' = RemoveAt(requests, i)
    /\ hitch' = TRUE
    /\ UNCHANGED <<lang, list, fetched, formVars, keyVars, file, broken, edits, original,
                   shifted>>

\* The page is opened anew; what it had saved may still be handled, and the list it
\* had asked for, if it had not come, is no longer awaited.
Reload ==
    /\ lang' = InitialLang
    /\ list' = <<>>
    /\ fetched' = FALSE
    /\ ResetForm
    /\ capturing' = FALSE
    /\ captureMods' = {}
    /\ stray' = FALSE
    /\ requests' = Append(RemoveFirst(requests, Get), Get)
    /\ broken' = FALSE
    /\ hitch' = (hitch /\ Len(requests') > 1)
    /\ UNCHANGED <<held, file, edits>>

Next ==
    \/ SubmitKeybinding
    \/ \E i \in DOMAIN list : StartEdit(i) \/ DeleteKeybinding(i)
    \/ Cancel
    \/ StartCapture
    \/ \E m \in Modifiers : ModifierDown(m) \/ ModifierUp(m)
    \/ \E k \in Keys : KeyDown(k)
    \/ LeaveTab
    \/ ToggleLang
    \/ \E i \in DOMAIN requests :
            ListArrives(i) \/ ListFails(i) \/ Saved(i) \/ SaveFails(i)
    \/ Reload

Spec == Init /\ [][Next]_vars

----------------------------------------------------------------------------
(* What apply_shortkeys makes of a combination in the file. *)

\* MUTANT of Registered: Shift is not among the modifiers known.
RegisteredUnshifted(b) ==
    IF b.main \notin Texts \/ b.main.key \in Wordy THEN None
    ELSE [mods |-> b.mods \ {Shift}, main |-> b.main]

\* The modifiers and the virtual key that are registered: a name of one character
\* stands for the key with the code of the character, f1 to f24 for the function
\* keys; other words, "..." and the prompts among them, for none, and then the binding
\* is left out.
Registered(b) ==
    IF b.main \notin Texts \/ b.main.key \in Wordy THEN None
    ELSE [mods |-> b.mods, main |-> b.main]

----------------------------------------------------------------------------
(* Properties. *)

\* When every request has been answered in order and none has failed, and nothing
\* was changed before the list had arrived, gapa.json holds what the page shows.
SavedAsShown == requests = <<>> /\ ~hitch => file = list

\* What Save will replace is what Edit has shown; but for a binding in front of it
\* deleted meanwhile, or a list that arrived meanwhile.
EditsWhatItShowed == editing # 0 /\ ~shifted => list[editing] = original

\* A captured letter, digit or function key is registered as it was pressed, with
\* the modifiers held; but for one that Shift makes another character, and for a
\* modifier pressed and released during the capture, which is counted as held.
KeyAsPressed ==
    [][\A k \in Keys \ Wordy :
        KeyDown(k) /\ ~stray /\ ~(k \in Shifting /\ Shift \in held)
            /\ held \subseteq captureMods =>
                Registered(kbKey') = [mods |-> held, main |-> [key |-> k, other |-> FALSE]]]_vars
=============================================================================
