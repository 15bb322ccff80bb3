------------------------- MODULE PresetsPageProofs -------------------------
(***************************************************************************)
(* Proofs about PresetsPage, for any names, curves, files, displays and    *)
(* number of clicks: its types; that "Update" replaces the preset loaded;  *)
(* that a timer takes away its own message only; that a preset said to be  *)
(* saved is listed; and that the displays come to show what was asked for. *)
(***************************************************************************)
EXTENDS PresetsPage, TLAPS

----------------------------------------------------------------------------
(* The invariant. *)

Gamma(r) == r.kind \in {"apply", "reset"}

\* The presets that are there; no file is ever removed.
Existing == {n \in Names : n.gmd /\ stored[n] # NoFile}

\* What a request says and has got, by its kind, when the presets E are there: only
\* presets that exist are loaded or listed, and a list asked for after a save has it.
Fits(r, E) ==
    /\ r.kind = "list" =>
        /\ r.files \subseteq E
        /\ r.name # Blank => r.name \in E /\ (r.handled => r.name \in r.files)
    /\ r.kind = "load" => r.name \in E /\ (r.handled => r.curve \in Curves)
    /\ r.kind = "save" =>
        /\ r.name \in Names /\ r.name.gmd /\ r.curve \in Curves
        /\ r.handled /\ r.ok => r.name \in E
    /\ Gamma(r) => r.curve \in Curves

RequestInv ==
    /\ presets \subseteq Existing
    /\ \A r \in requests : Fits(r, Existing)

\* The preset marked in the list is the one whose points were loaded last.
MarkInv == selectedPresetFile # Blank => lineage = selectedPresetFile

\* The clicks that set ramps have one request each.
GammaRequests == {r \in requests : Gamma(r)}
ClickInv ==
    \A q \in GammaRequests :
        /\ q.id <= clicks
        /\ \A r \in GammaRequests : q.id = r.id => q = r

\* The requests that are still to set display d.
Due(d) == {r \in GammaRequests : ~r.handled /\ Means(r.display, d)}

\* While nothing has failed or overtaken another, the last request due has the curve
\* asked for; none being due, the display shows it.
DueInv ==
    ~hitch => \A d \in 1 .. Displays :
        /\ Due(d) = {} => shown[d] = asked[d]
        /\ \A r \in Due(d) : (\A q \in Due(d) : q.id <= r.id) => r.curve = asked[d]

IndInv ==
    /\ TypeOK
    /\ RequestInv
    /\ MarkInv
    /\ OnlyItsOwnTimer
    /\ ClickInv
    /\ DueInv

----------------------------------------------------------------------------
(* The steps. *)

\* The empty name is not the name of a preset.
LEMMA BlankIsNoName == Blank \notin Names
BY StemsAssumption DEF Blank, Names

\* A request as it is sent has its type.
LEMMA SentTyped ==
    ASSUME NEW i \in Ids, NEW k \in {"list", "load", "save", "apply", "reset"},
           NEW n \in Names \union {Blank}, NEW d \in 0 .. Displays,
           NEW c \in Curves \union {NoFile}
    PROVE  Sent(i, k, n, d, c) \in Requests
BY DEF Sent, Requests

\* A message that is set has its type, and so have the timers.
LEMMA StatusTyped ==
    ASSUME TypeOK, NEW i \in Ids, NEW e \in BOOLEAN,
           NEW m \in {"ready", "enter", "applied", "reset", "saved", "loaded", "failed"},
           SetStatus(i, m, e)
    PROVE  status' \in Messages /\ timers' \subseteq Ids
BY DEF SetStatus, Messages, TypeOK, Running

\* No step leaves the declared sets: what is loaded is a curve, what is saved a preset.
LEMMA TypeStep ==
    ASSUME TypeOK, RequestInv, [Next]_vars
    PROVE  TypeOK'
<1> USE BoundAssumption, DisplaysAssumption, CurvesAssumption
    DEF TypeOK, Ids, statVars, formVars, histVars
<1>1. ASSUME NEW i \in Ids, TimerFires(i) PROVE TypeOK'
  BY <1>1 DEF TimerFires, Ready, Messages
<1>2. CASE UserStep
  <2>1. ASSUME NEW n \in Names \union {Blank}, TypeName(n) PROVE TypeOK'
    BY <2>1 DEF TypeName
  <2>2. ASSUME NEW c \in Curves, Edit(c) PROVE TypeOK'
    BY <2>2 DEF Edit
  <2>3. ASSUME NEW d \in 0 .. Displays, PickDisplay(d) PROVE TypeOK'
    BY <2>3 DEF PickDisplay
  <2>4. ASSUME NEW k \in {"apply", "reset"}, NEW c \in Curves, Ask(k, c) PROVE TypeOK'
    <3>1. clicks' \in Ids
      BY <2>4 DEF Ask, Click
    <3>2. Sent(clicks', k, Blank, selectedDisplay, c) \in Requests
      BY <3>1, SentTyped
    <3>3. requests' \subseteq Requests
      BY <2>4, <3>2 DEF Ask
    <3>4. asked' \in [1 .. Displays -> Curves]
      BY <2>4 DEF Ask
    <3> QED
      BY <2>4, <3>1, <3>3, <3>4 DEF Ask
  <2>5. CASE HandleSavePreset
    <3>1. clicks' \in Ids
      BY <2>5 DEF HandleSavePreset, Click
    <3>2. CASE presetName = Blank
      <4>1. status' \in Messages /\ timers' \subseteq Ids
        BY <2>5, <3>1, <3>2, StatusTyped DEF HandleSavePreset
      <4> QED
        BY <2>5, <3>1, <3>2, <4>1 DEF HandleSavePreset
    <3>3. CASE presetName # Blank
      <4>1. FileName(presetName) \in Names
        BY <3>3 DEF FileName, Names
      <4>2. Sent(clicks', "save", FileName(presetName), 0, curPoints) \in Requests
        BY <3>1, <4>1, SentTyped
      <4>3. requests' \subseteq Requests
        BY <2>5, <3>3, <4>2 DEF HandleSavePreset
      <4> QED
        BY <2>5, <3>1, <3>3, <4>3 DEF HandleSavePreset
    <3> QED
      BY <3>2, <3>3
  <2>6. ASSUME NEW n \in presets, HandleLoadPreset(n) PROVE TypeOK'
    <3>1. clicks' \in Ids
      BY <2>6 DEF HandleLoadPreset, Click
    <3>2. Sent(clicks', "load", n, 0, NoFile) \in Requests
      BY <3>1, SentTyped
    <3>3. requests' \subseteq Requests
      BY <2>6, <3>2 DEF HandleLoadPreset
    <3> QED
      BY <2>6, <3>1, <3>3 DEF HandleLoadPreset, OnClick
  <2> QED
    BY <1>2, <2>1, <2>2, <2>3, <2>4, <2>5, <2>6 DEF UserStep, HandleApply, HandleReset
<1>3. ASSUME NEW r \in requests, ServerStep(r) PROVE TypeOK'
  <2>0. r \in Requests
    OBVIOUS
  <2>1. CASE ListFiles(r)
    <3>1. [r EXCEPT !.handled = TRUE, !.files = {n \in Names : n.gmd /\ stored[n] # NoFile}]
            \in Requests
      BY <2>0 DEF Requests
    <3>2. requests' \subseteq Requests
      BY <2>1, <3>1 DEF ListFiles, Handled
    <3> QED
      BY <2>1, <3>2 DEF ListFiles
  <2>2. CASE GetPreset(r)
    <3>1. Reads(r.name) \in Curves \union {NoFile}
      BY <2>2, RereadAssumption DEF GetPreset, Reads, RequestInv, Fits, Existing
    <3>2. [r EXCEPT !.handled = TRUE, !.curve = Reads(r.name)] \in Requests
      BY <2>0, <3>1 DEF Requests
    <3>3. requests' \subseteq Requests
      BY <2>2, <3>2 DEF GetPreset, Handled
    <3> QED
      BY <2>2, <3>3 DEF GetPreset
  <2>3. CASE SavePreset(r)
    <3>1. /\ [r EXCEPT !.handled = TRUE] \in Requests
          /\ [r EXCEPT !.handled = TRUE, !.ok = FALSE] \in Requests
      BY <2>0 DEF Requests
    <3>2. requests' \subseteq Requests
      BY <2>3, <3>1 DEF SavePreset, Handled
    <3>3. r.name \in Names /\ r.name.gmd /\ r.curve \in Curves
      BY <2>3 DEF SavePreset, RequestInv, Fits
    <3>4. /\ stored' \in [Names -> Curves \union {NoFile}]
          /\ \A n \in Names : stored'[n] # NoFile => n.gmd
      BY <2>3, <3>3 DEF SavePreset
    <3> QED
      BY <2>3, <3>2, <3>4 DEF SavePreset
  <2>4. CASE SetGamma(r)
    <3>1. PICK bad \in SUBSET {d \in 1 .. Displays : Means(r.display, d)} :
            /\ shown' = [d \in 1 .. Displays |->
                            IF Means(r.display, d) /\ d \notin bad THEN r.curve ELSE shown[d]]
            /\ Handled(r, [r EXCEPT !.handled = TRUE, !.ok = (bad = {})])
            /\ hitch' = (hitch \/ bad # {} \/ \E q \in requests :
                            q.kind \in {"apply", "reset"} /\ ~q.handled /\ q.id < r.id)
      BY <2>4 DEF SetGamma
    <3>2. [r EXCEPT !.handled = TRUE, !.ok = (bad = {})] \in Requests
      BY <2>0 DEF Requests
    <3>3. requests' \subseteq Requests
      BY <3>1, <3>2 DEF Handled
    <3>4. r.curve \in Curves
      BY <2>4 DEF SetGamma, RequestInv, Fits, Gamma
    <3>5. shown' \in [1 .. Displays -> Curves]
      BY <3>1, <3>4
    <3>6. hitch' \in BOOLEAN
      BY <3>1
    <3> QED
      BY <2>4, <3>3, <3>5, <3>6 DEF SetGamma
  <2> QED
    BY <1>3, <2>1, <2>2, <2>3, <2>4 DEF ServerStep
<1>4. ASSUME NEW r \in requests, NEW ok \in BOOLEAN,
             ListArrives(r, ok) \/ PresetArrives(r, ok) \/ SaveArrives(r, ok) \/ GammaArrives(r, ok)
      PROVE  TypeOK'
  <2>0. r \in Requests /\ r.id \in Ids
    BY DEF Requests
  <2>1. CASE ListArrives(r, ok)
    <3>1. status' \in Messages /\ timers' \subseteq Ids
      BY <2>0, <2>1, StatusTyped DEF ListArrives
    <3>2. r.files \subseteq Names
      BY <2>0 DEF Requests
    <3> QED
      BY <2>1, <3>1, <3>2 DEF ListArrives
  <2>2. CASE PresetArrives(r, ok)
    <3>1. status' \in Messages /\ timers' \subseteq Ids
      BY <2>0, <2>2, StatusTyped DEF PresetArrives
    <3>2. ok => r.curve \in Curves /\ r.name \in Names
      BY <2>2 DEF PresetArrives, Arrives, RequestInv, Fits, Existing
    <3> QED
      BY <2>2, <3>1, <3>2 DEF PresetArrives
  <2>3. CASE SaveArrives(r, ok)
    <3>1. status' \in Messages /\ timers' \subseteq Ids
      BY <2>0, <2>3, StatusTyped DEF SaveArrives
    <3>2. List(r.id, r.name) \in Requests
      <4>1. r.name \in Names \union {Blank} /\ 0 \in 0 .. Displays
        BY <2>0 DEF Requests
      <4> QED
        BY <2>0, <4>1, SentTyped DEF List
    <3>3. requests' \subseteq Requests
      BY <2>3, <3>2 DEF SaveArrives
    <3> QED
      BY <2>3, <3>1, <3>3 DEF SaveArrives
  <2>4. CASE GammaArrives(r, ok)
    <3>1. status' \in Messages /\ timers' \subseteq Ids
      BY <2>0, <2>4, StatusTyped DEF GammaArrives
    <3> QED
      BY <2>4, <3>1 DEF GammaArrives
  <2> QED
    BY <1>4, <2>1, <2>2, <2>3, <2>4
<1>5. CASE UNCHANGED vars
  BY <1>5 DEF vars
<1> QED
  <2> HIDE DEF TypeOK
  <2> QED
    BY <1>1, <1>2, <1>3, <1>4, <1>5 DEF Next, Answer

\* Presets never vanish, so what fitted still fits.
LEMMA StillFits ==
    ASSUME TypeOK, RequestInv, [Next]_vars
    PROVE  /\ Existing \subseteq Existing'
           /\ \A r \in requests : Fits(r, Existing')
<1>1. Existing \subseteq Existing'
  <2>1. CASE \E r \in requests : SavePreset(r)
    <3>1. PICK r \in requests : SavePreset(r)
      BY <2>1
    <3>2. stored' = stored \/ stored' = [stored EXCEPT ![r.name] = r.curve]
      BY <3>1 DEF SavePreset
    <3>3. r.curve # NoFile
      BY <3>1, CurvesAssumption DEF SavePreset, RequestInv, Fits
    <3> QED
      BY <3>2, <3>3 DEF Existing, TypeOK
  <2>2. CASE ~ \E r \in requests : SavePreset(r)
    <3>1. stored' = stored
      <4>1. CASE \E i \in Ids : TimerFires(i)
        BY <4>1 DEF TimerFires
      <4>2. CASE UserStep
        BY <4>2 DEF UserStep, TypeName, Edit, PickDisplay, HandleApply, HandleReset, Ask,
                    HandleSavePreset, HandleLoadPreset
      <4>3. CASE \E r \in requests : ServerStep(r)
        BY <2>2, <4>3 DEF ServerStep, ListFiles, GetPreset, SetGamma
      <4>4. CASE \E r \in requests : Answer(r)
        BY <4>4 DEF Answer, ListArrives, PresetArrives, SaveArrives, GammaArrives
      <4>5. CASE UNCHANGED vars
        BY <4>5 DEF vars
      <4> QED
        BY <4>1, <4>2, <4>3, <4>4, <4>5 DEF Next
    <3> QED
      BY <3>1 DEF Existing
  <2> QED
    BY <2>1, <2>2
<1>2. ASSUME NEW r \in requests PROVE Fits(r, Existing')
  <2>1. Fits(r, Existing)
    BY DEF RequestInv
  <2> QED
    BY <1>1, <2>1 DEF Fits, Gamma
<1> QED
  BY <1>1, <1>2

\* What is sent, handled and answered fits its kind.
LEMMA RequestStep ==
    ASSUME TypeOK, TypeOK', RequestInv, [Next]_vars
    PROVE  RequestInv'
<1>0. Existing \subseteq Existing' /\ presets \subseteq Existing' /\ \A r \in requests : Fits(r, Existing')
  BY StillFits DEF RequestInv
<1>1. SUFFICES ASSUME ~(UNCHANGED <<presets, requests>>) PROVE RequestInv'
  BY <1>0 DEF RequestInv
<1>2. CASE UserStep
  <2>0. /\ presets' = presets
        /\ \E s : requests' = requests \union {s} /\ Fits(s, Existing')
    <3>1. ASSUME NEW k \in {"apply", "reset"}, NEW c \in Curves, Ask(k, c)
          PROVE  presets' = presets /\ \E s : requests' = requests \union {s} /\ Fits(s, Existing')
      <4> DEFINE s == Sent(clicks', k, Blank, selectedDisplay, c)
      <4>1. requests' = requests \union {s} /\ presets' = presets
        BY <3>1 DEF Ask, formVars
      <4>2. Fits(s, Existing')
        BY DEF Fits, Sent, Gamma
      <4> QED
        BY <4>1, <4>2
    <3>2. CASE HandleSavePreset
      <4> DEFINE s == Sent(clicks', "save", FileName(presetName), 0, curPoints)
      <4>1. presetName # Blank /\ requests' = requests \union {s} /\ presets' = presets
        BY <1>1, <3>2 DEF HandleSavePreset, formVars
      <4>2. FileName(presetName) \in Names /\ FileName(presetName).gmd
        BY <4>1 DEF TypeOK, FileName, Names
      <4>3. Fits(s, Existing')
        BY <4>2 DEF Fits, Sent, Gamma, TypeOK
      <4> QED
        BY <4>1, <4>3
    <3>3. ASSUME NEW n \in presets, HandleLoadPreset(n)
          PROVE  presets' = presets /\ \E s : requests' = requests \union {s} /\ Fits(s, Existing')
      <4> DEFINE s == Sent(clicks', "load", n, 0, NoFile)
      <4>1. requests' = requests \union {s} /\ presets' = presets
        BY <3>3 DEF HandleLoadPreset
      <4>2. Fits(s, Existing')
        BY <1>0 DEF Fits, Sent, Gamma
      <4> QED
        BY <4>1, <4>2
    <3> QED
      BY <1>1, <1>2, <3>1, <3>2, <3>3, CurvesAssumption
      DEF UserStep, TypeName, Edit, PickDisplay, HandleApply, HandleReset, TypeOK
  <2> QED
    BY <1>0, <2>0 DEF RequestInv
<1>3. ASSUME NEW r \in requests, ServerStep(r) PROVE RequestInv'
  <2>0. r \in Requests /\ Fits(r, Existing)
    BY DEF TypeOK, RequestInv
  <2>1. ASSUME NEW s, Handled(r, s), Fits(s, Existing'), presets' = presets PROVE RequestInv'
    BY <1>0, <2>1 DEF Handled, RequestInv
  <2>2. CASE ListFiles(r)
    <3> DEFINE s == [r EXCEPT !.handled = TRUE,
                              !.files = {n \in Names : n.gmd /\ stored[n] # NoFile}]
    <3>1. Handled(r, s) /\ presets' = presets /\ r.kind = "list" /\ stored' = stored
      BY <2>2 DEF ListFiles, formVars
    <3>2. s.kind = "list" /\ s.files = Existing /\ s.name = r.name
      BY <2>0, <3>1 DEF Existing, Requests
    <3>3. Fits(s, Existing')
      BY <1>0, <2>0, <3>1, <3>2 DEF Fits, Gamma
    <3> QED
      BY <2>1, <3>1, <3>3
  <2>3. CASE GetPreset(r)
    <3> DEFINE s == [r EXCEPT !.handled = TRUE, !.curve = Reads(r.name)]
    <3>1. Handled(r, s) /\ presets' = presets /\ r.kind = "load"
      BY <2>3 DEF GetPreset, formVars
    <3>2. s.kind = "load" /\ s.name = r.name /\ s.curve = Reads(r.name)
      BY <2>0, <3>1 DEF Requests
    <3>3. r.name \in Existing /\ Reads(r.name) \in Curves
      BY <2>0, <3>1, RereadAssumption, CurvesAssumption DEF Fits, Existing, Reads, TypeOK
    <3>4. Fits(s, Existing')
      BY <1>0, <3>2, <3>3 DEF Fits, Gamma
    <3> QED
      BY <2>1, <3>1, <3>4
  <2>4. CASE SavePreset(r)
    <3>1. r.kind = "save" /\ presets' = presets /\ r.name \in Names /\ r.name.gmd /\ r.curve \in Curves
      BY <2>0, <2>4 DEF SavePreset, formVars, Fits
    <3>2. CASE Handled(r, [r EXCEPT !.handled = TRUE]) /\ stored' = [stored EXCEPT ![r.name] = r.curve]
      <4> DEFINE s == [r EXCEPT !.handled = TRUE]
      <4>1. s.kind = "save" /\ s.name = r.name /\ s.curve = r.curve
        BY <2>0, <3>1 DEF Requests
      <4>2. r.name \in Existing'
        BY <3>1, <3>2, CurvesAssumption DEF Existing, TypeOK
      <4>3. Fits(s, Existing')
        BY <3>1, <4>1, <4>2 DEF Fits, Gamma
      <4> QED
        BY <2>1, <3>1, <3>2, <4>3
    <3>3. CASE Handled(r, [r EXCEPT !.handled = TRUE, !.ok = FALSE])
      <4> DEFINE s == [r EXCEPT !.handled = TRUE, !.ok = FALSE]
      <4>1. s.kind = "save" /\ s.name = r.name /\ s.curve = r.curve /\ ~s.ok
        BY <2>0, <3>1 DEF Requests
      <4>2. Fits(s, Existing')
        BY <3>1, <4>1 DEF Fits, Gamma
      <4> QED
        BY <2>1, <3>1, <3>3, <4>2
    <3> QED
      BY <2>4, <3>2, <3>3 DEF SavePreset
  <2>5. CASE SetGamma(r)
    <3>1. PICK b \in BOOLEAN : Handled(r, [r EXCEPT !.handled = TRUE, !.ok = b])
      BY <2>5 DEF SetGamma
    <3> DEFINE s == [r EXCEPT !.handled = TRUE, !.ok = b]
    <3>2. r.kind \in {"apply", "reset"} /\ presets' = presets
      BY <2>5 DEF SetGamma, formVars
    <3>3. s.kind = r.kind /\ s.curve = r.curve
      BY <2>0, <3>2 DEF Requests
    <3>4. Fits(s, Existing')
      BY <2>0, <3>2, <3>3 DEF Fits, Gamma
    <3> QED
      BY <2>1, <3>1, <3>2, <3>4
  <2> QED
    BY <1>3, <2>2, <2>3, <2>4, <2>5 DEF ServerStep
<1>4. ASSUME NEW r \in requests, NEW ok \in BOOLEAN, ListArrives(r, ok) PROVE RequestInv'
  <2>1. requests' \subseteq requests /\ presets' \in {r.files, {}} /\ r.kind = "list" /\ Fits(r, Existing')
    BY <1>0, <1>4 DEF ListArrives
  <2> QED
    BY <1>0, <2>1 DEF RequestInv, Fits
<1>5. ASSUME NEW r \in requests, NEW ok \in BOOLEAN, PresetArrives(r, ok) \/ GammaArrives(r, ok)
      PROVE  RequestInv'
  <2>1. requests' \subseteq requests /\ presets' = presets
    BY <1>5 DEF PresetArrives, GammaArrives, formVars
  <2> QED
    BY <1>0, <2>1 DEF RequestInv
<1>6. ASSUME NEW r \in requests, NEW ok \in BOOLEAN, SaveArrives(r, ok) PROVE RequestInv'
  <2> DEFINE s == List(r.id, r.name)
  <2>1. presets' = presets /\ r.kind = "save" /\ Fits(r, Existing')
    BY <1>0, <1>6 DEF SaveArrives
  <2>2. CASE ok
    <3>1. requests' = (requests \ {r}) \union {s} /\ r.handled /\ r.ok
      BY <1>6, <2>2 DEF SaveArrives, Arrives
    <3>2. Fits(s, Existing')
      BY <2>1, <3>1 DEF Fits, List, Sent, Gamma
    <3> QED
      BY <1>0, <2>1, <3>1, <3>2 DEF RequestInv
  <2>3. CASE ~ok
    BY <1>0, <1>6, <2>1, <2>3 DEF SaveArrives, RequestInv
  <2> QED
    BY <2>2, <2>3
<1> QED
  BY <1>1, <1>2, <1>3, <1>4, <1>5, <1>6
  DEF Next, Answer, TimerFires, formVars, vars

\* A preset is marked when its points are there, at once with them.
LEMMA MarkStep == MarkInv /\ [Next]_vars => MarkInv'
<1> SUFFICES ASSUME MarkInv, [Next]_vars PROVE MarkInv'
  OBVIOUS
<1>1. ASSUME NEW r \in requests, NEW ok \in BOOLEAN, PresetArrives(r, ok) PROVE MarkInv'
  BY <1>1 DEF PresetArrives, MarkInv
<1>2. CASE ~ \E r \in requests, ok \in BOOLEAN : PresetArrives(r, ok)
  <2>1. UNCHANGED <<selectedPresetFile, lineage>>
    <3> USE DEF formVars, histVars
    <3>1. CASE \E i \in Ids : TimerFires(i)
      BY <3>1 DEF TimerFires
    <3>2. CASE UserStep
      BY <3>2 DEF UserStep, TypeName, Edit, PickDisplay, HandleApply, HandleReset, Ask,
                  HandleSavePreset, HandleLoadPreset, OnClick
    <3>3. CASE \E r \in requests : ServerStep(r)
      BY <3>3 DEF ServerStep, ListFiles, GetPreset, SavePreset, SetGamma
    <3>4. CASE \E r \in requests : Answer(r)
      BY <1>2, <3>4 DEF Answer, ListArrives, SaveArrives, GammaArrives
    <3>5. CASE UNCHANGED vars
      BY <3>5 DEF vars
    <3> QED
      BY <3>1, <3>2, <3>3, <3>4, <3>5 DEF Next
  <2> QED
    BY <2>1 DEF MarkInv
<1> QED
  BY <1>1, <1>2

\* Setting a message cancels the timers of those before it.
LEMMA TimerStep == OnlyItsOwnTimer /\ [Next]_vars => OnlyItsOwnTimer'
<1> SUFFICES ASSUME OnlyItsOwnTimer, [Next]_vars PROVE OnlyItsOwnTimer'
  OBVIOUS
<1> USE DEF OnlyItsOwnTimer, statVars
<1>1. ASSUME NEW i \in Ids, NEW m, NEW e, SetStatus(i, m, e) PROVE OnlyItsOwnTimer'
  BY <1>1 DEF SetStatus, Running
<1>2. CASE \E i \in Ids : TimerFires(i)
  BY <1>2 DEF TimerFires
<1>3. ASSUME UNCHANGED statVars PROVE OnlyItsOwnTimer'
  BY <1>3
<1>4. CASE UserStep
  <2>1. CASE HandleSavePreset
    BY <2>1, <1>3 DEF HandleSavePreset, SetStatus, Running
  <2> QED
    BY <1>3, <1>4, <2>1 DEF UserStep, TypeName, Edit, PickDisplay, HandleApply, HandleReset,
                            Ask, HandleLoadPreset
<1>5. CASE \E r \in requests : ServerStep(r)
  BY <1>3, <1>5 DEF ServerStep, ListFiles, GetPreset, SavePreset, SetGamma
<1>6. ASSUME NEW r \in requests, Answer(r) PROVE OnlyItsOwnTimer'
  BY <1>3, <1>6 DEF Answer, ListArrives, PresetArrives, SaveArrives, GammaArrives, SetStatus,
                    Running
<1>7. CASE UNCHANGED vars
  BY <1>7 DEF vars
<1> QED
  BY <1>2, <1>4, <1>5, <1>6, <1>7 DEF Next

\* Which steps are about requests that set ramps.
LEMMA GammaSteps ==
    ASSUME TypeOK, [Next]_vars
    PROVE  \/ UNCHANGED <<shown, asked, hitch, GammaRequests>> /\ clicks <= clicks'
           \/ \E k \in {"apply", "reset"}, c \in Curves : Ask(k, c)
           \/ \E r \in requests : SetGamma(r)
           \/ \E r \in requests, ok \in BOOLEAN : GammaArrives(r, ok)
<1> DEFINE Aside == UNCHANGED <<shown, asked, hitch, GammaRequests>> /\ clicks <= clicks'
<1> USE DEF formVars, statVars, histVars
<1>0. clicks \in Nat /\ clicks <= clicks
  BY BoundAssumption DEF TypeOK, Ids
<1>1. CASE \E i \in Ids : TimerFires(i)
  BY <1>0, <1>1 DEF TimerFires, GammaRequests
<1>2. ASSUME NEW s, ~Gamma(s), requests' = requests \union {s}
      PROVE  UNCHANGED GammaRequests
  BY <1>2 DEF GammaRequests, Gamma
<1>3. ASSUME NEW r \in requests, NEW s, ~Gamma(r), ~Gamma(s), Handled(r, s)
      PROVE  UNCHANGED GammaRequests
  BY <1>3 DEF Handled, GammaRequests, Gamma
<1>4. ASSUME UserStep, ~ \E k \in {"apply", "reset"}, c \in Curves : Ask(k, c)
      PROVE  Aside
  <2>1. CASE HandleSavePreset
    <3>1. UNCHANGED GammaRequests
      <4>1. ~Gamma(Sent(clicks', "save", FileName(presetName), 0, curPoints))
        BY DEF Gamma, Sent
      <4> QED
        BY <1>2, <2>1, <4>1 DEF HandleSavePreset, GammaRequests
    <3> QED
      BY <1>0, <2>1, <3>1 DEF HandleSavePreset, Click
  <2>2. ASSUME NEW n \in presets, HandleLoadPreset(n) PROVE Aside
    <3>1. UNCHANGED GammaRequests
      <4>1. ~Gamma(Sent(clicks', "load", n, 0, NoFile))
        BY DEF Gamma, Sent
      <4> QED
        BY <1>2, <2>2, <4>1 DEF HandleLoadPreset
    <3> QED
      BY <1>0, <2>2, <3>1 DEF HandleLoadPreset, Click
  <2>3. CASE (\E n \in Names \union {Blank} : TypeName(n)) \/ (\E c \in Curves : Edit(c))
               \/ (\E d \in 0 .. Displays : PickDisplay(d))
    BY <1>0, <2>3 DEF TypeName, Edit, PickDisplay, GammaRequests
  <2>4. ~HandleApply /\ ~HandleReset
    BY <1>4, CurvesAssumption DEF HandleApply, HandleReset, TypeOK
  <2> QED
    BY <1>4, <2>1, <2>2, <2>3, <2>4 DEF UserStep
<1>5. ASSUME NEW r \in requests, ServerStep(r), ~SetGamma(r)
      PROVE  Aside
  <2>1. r \in Requests
    BY DEF TypeOK
  <2>2. \A f : ~Gamma(r) => ~Gamma([r EXCEPT !.handled = TRUE, !.files = f])
                         /\ ~Gamma([r EXCEPT !.handled = TRUE, !.curve = f])
                         /\ ~Gamma([r EXCEPT !.handled = TRUE, !.ok = f])
                         /\ ~Gamma([r EXCEPT !.handled = TRUE])
    BY <2>1 DEF Gamma, Requests
  <2>3. UNCHANGED GammaRequests
    <3>1. CASE ListFiles(r)
      <4>1. ~Gamma(r)
        BY <3>1 DEF ListFiles, Gamma
      <4> QED
        BY <1>3, <2>2, <3>1, <4>1 DEF ListFiles
    <3>2. CASE GetPreset(r)
      <4>1. ~Gamma(r)
        BY <3>2 DEF GetPreset, Gamma
      <4> QED
        BY <1>3, <2>2, <3>2, <4>1 DEF GetPreset
    <3>3. CASE SavePreset(r)
      <4>1. ~Gamma(r)
        BY <3>3 DEF SavePreset, Gamma
      <4> QED
        BY <1>3, <2>2, <3>3, <4>1 DEF SavePreset
    <3> QED
      BY <1>5, <3>1, <3>2, <3>3 DEF ServerStep
  <2> QED
    BY <1>0, <1>5, <2>3 DEF ServerStep, ListFiles, GetPreset, SavePreset
<1>6. ASSUME NEW r \in requests, NEW ok \in BOOLEAN,
             ListArrives(r, ok) \/ PresetArrives(r, ok) \/ SaveArrives(r, ok)
      PROVE  Aside
  <2>1. ~Gamma(r)
    BY <1>6 DEF ListArrives, PresetArrives, SaveArrives, Gamma
  <2>2. UNCHANGED GammaRequests
    <3>1. ~Gamma(List(r.id, r.name))
      BY DEF Gamma, List, Sent
    <3>2. requests' \in {requests \ {r}, (requests \ {r}) \union {List(r.id, r.name)}}
      BY <1>6 DEF ListArrives, PresetArrives, SaveArrives
    <3> QED
      BY <2>1, <3>1, <3>2 DEF GammaRequests, Gamma
  <2> QED
    BY <1>0, <1>6, <2>2 DEF ListArrives, PresetArrives, SaveArrives
<1>7. CASE UNCHANGED vars
  BY <1>0, <1>7 DEF vars, GammaRequests
<1> QED
  BY <1>1, <1>4, <1>5, <1>6, <1>7 DEF Next, Answer

\* A request handled keeps everything it says.
LEMMA HandledGamma ==
    ASSUME TypeOK, NEW r \in requests, SetGamma(r)
    PROVE  \E s \in Requests :
              /\ s.id = r.id /\ s.kind = r.kind /\ s.display = r.display /\ s.handled
              /\ Gamma(r) /\ Gamma(s) /\ ~r.handled
              /\ GammaRequests' = (GammaRequests \ {r}) \union {s}
<1>1. PICK b \in BOOLEAN : Handled(r, [r EXCEPT !.handled = TRUE, !.ok = b])
  BY DEF SetGamma
<1> DEFINE s == [r EXCEPT !.handled = TRUE, !.ok = b]
<1>2. r \in Requests /\ r.kind \in {"apply", "reset"} /\ ~r.handled
  BY DEF SetGamma, TypeOK
<1>3. s \in Requests /\ s.id = r.id /\ s.kind = r.kind /\ s.display = r.display /\ s.handled
  BY <1>2 DEF Requests
<1> HIDE DEF s
<1>4. GammaRequests' = (GammaRequests \ {r}) \union {s}
  BY <1>1, <1>2, <1>3 DEF Handled, GammaRequests, Gamma, s
<1> QED
  BY <1>2, <1>3, <1>4 DEF Gamma

\* Each click gets a number of its own, and its request keeps it.
LEMMA ClickStep ==
    ASSUME TypeOK, TypeOK', ClickInv, [Next]_vars
    PROVE  ClickInv'
<1>0. /\ clicks \in Nat /\ clicks' \in Nat /\ \A r \in requests : r.id \in Nat
      /\ GammaRequests \subseteq requests
  BY BoundAssumption DEF TypeOK, Ids, Requests, GammaRequests
<1>1. CASE UNCHANGED <<shown, asked, hitch, GammaRequests>> /\ clicks <= clicks'
  BY <1>0, <1>1 DEF ClickInv
<1>2. ASSUME NEW k \in {"apply", "reset"}, NEW c \in Curves, Ask(k, c) PROVE ClickInv'
  <2> DEFINE s == Sent(clicks', k, Blank, selectedDisplay, c)
  <2>1. clicks' = clicks + 1 /\ requests' = requests \union {s} /\ s.id = clicks + 1
    BY <1>2 DEF Ask, Click, Sent
  <2>2. GammaRequests' \subseteq GammaRequests \union {s}
    BY <2>1 DEF GammaRequests, Gamma
  <2> HIDE DEF s
  <2>3. \A q \in GammaRequests : q.id <= clicks + 1 /\ q.id # clicks + 1
    BY <1>0 DEF ClickInv
  <2> QED
    BY <1>0, <2>1, <2>2, <2>3 DEF ClickInv
<1>3. ASSUME NEW r \in requests, SetGamma(r) PROVE ClickInv'
  <2>1. PICK s \in Requests : /\ s.id = r.id /\ Gamma(r)
                              /\ GammaRequests' = (GammaRequests \ {r}) \union {s}
    BY <1>3, HandledGamma
  <2>2. clicks' = clicks /\ r \in GammaRequests
    BY <1>3, <2>1 DEF SetGamma, GammaRequests
  <2> QED
    BY <1>0, <2>1, <2>2 DEF ClickInv
<1>4. ASSUME NEW r \in requests, NEW ok \in BOOLEAN, GammaArrives(r, ok) PROVE ClickInv'
  <2>1. clicks' = clicks /\ requests' \subseteq requests
    BY <1>4 DEF GammaArrives
  <2>2. GammaRequests' \subseteq GammaRequests
    BY <2>1 DEF GammaRequests, Gamma
  <2> QED
    BY <2>1, <2>2 DEF ClickInv
<1> QED
  BY <1>1, <1>2, <1>3, <1>4, GammaSteps

\* The last request due has what was asked for: a click becomes the last, and a request
\* handled in its turn is not, or has set the display.
LEMMA DueStep ==
    ASSUME TypeOK, TypeOK', ClickInv, DueInv, [Next]_vars
    PROVE  DueInv'
<1>0. /\ clicks \in Nat /\ \A r \in requests : r.id \in Nat
      /\ \A d : Due(d) \subseteq GammaRequests
      /\ GammaRequests \subseteq requests
  BY BoundAssumption DEF TypeOK, Ids, Requests, GammaRequests, Due
<1>1. CASE UNCHANGED <<shown, asked, hitch, GammaRequests>> /\ clicks <= clicks'
  <2>1. \A d : Due(d)' = Due(d)
    BY <1>1 DEF Due, Means
  <2> QED
    BY <1>1, <2>1 DEF DueInv
<1>2. ASSUME NEW k \in {"apply", "reset"}, NEW c \in Curves, Ask(k, c) PROVE DueInv'
  <2> SUFFICES ASSUME ~hitch', NEW d \in 1 .. Displays
               PROVE  /\ Due(d)' = {} => shown'[d] = asked'[d]
                      /\ \A r \in Due(d)' : (\A q \in Due(d)' : q.id <= r.id) => r.curve = asked'[d]
    BY DEF DueInv
  <2> DEFINE s == Sent(clicks', k, Blank, selectedDisplay, c)
  <2>1. /\ UNCHANGED <<shown, hitch>> /\ requests' = requests \union {s}
        /\ asked'[d] = IF selectedDisplay \in {0, d} THEN c ELSE asked[d]
    BY <1>2 DEF Ask
  <2>2. s.id = clicks + 1 /\ ~s.handled /\ s.display = selectedDisplay /\ s.curve = c
        /\ Gamma(s)
    BY <1>2 DEF Ask, Click, Sent, Gamma
  <2> HIDE DEF s
  <2>3. Due(d)' = Due(d) \union (IF selectedDisplay \in {0, d} THEN {s} ELSE {})
    BY <2>1, <2>2 DEF Due, GammaRequests, Gamma, Means
  <2>4. CASE selectedDisplay \in {0, d}
    <3>1. \A r \in Due(d) : ~(clicks + 1 <= r.id)
      BY <1>0 DEF ClickInv
    <3> QED
      BY <2>1, <2>2, <2>3, <2>4, <3>1
  <2>5. CASE selectedDisplay \notin {0, d}
    BY <2>1, <2>3, <2>5 DEF DueInv
  <2> QED
    BY <2>4, <2>5
<1>3. ASSUME NEW r \in requests, SetGamma(r) PROVE DueInv'
  <2> SUFFICES ASSUME ~hitch', NEW d \in 1 .. Displays
               PROVE  /\ Due(d)' = {} => shown'[d] = asked'[d]
                      /\ \A p \in Due(d)' : (\A q \in Due(d)' : q.id <= p.id) => p.curve = asked'[d]
    BY DEF DueInv
  <2>1. PICK s \in Requests :
            /\ s.id = r.id /\ s.display = r.display /\ s.handled /\ ~r.handled /\ Gamma(r)
            /\ GammaRequests' = (GammaRequests \ {r}) \union {s}
    BY <1>3, HandledGamma
  <2>2. /\ asked' = asked /\ ~hitch /\ r \in GammaRequests
        /\ shown'[d] = IF Means(r.display, d) THEN r.curve ELSE shown[d]
        /\ \A q \in GammaRequests : ~q.handled => ~(q.id < r.id)
    BY <1>3, <2>1 DEF SetGamma, GammaRequests, Gamma
  <2>3. Due(d)' = Due(d) \ {r}
    BY <2>1 DEF Due, Means
  <2>4. CASE Means(r.display, d)
    <3>1. r \in Due(d) /\ \A q \in Due(d) : r.id <= q.id /\ (q.id <= r.id => q = r)
      <4>1. r \in Due(d) /\ \A q \in Due(d) : ~(q.id < r.id) /\ (q.id = r.id => q = r)
        BY <2>1, <2>2, <2>4 DEF Due, ClickInv
      <4>2. \A q \in Due(d) : q.id \in Nat /\ r.id \in Nat
        BY <1>0
      <4> QED
        BY <4>1, <4>2
    <3>2. Due(d)' = {} => r.curve = asked[d]
      <4>1. Due(d)' = {} => \A q \in Due(d) : q.id <= r.id
        BY <1>0, <2>3, <3>1
      <4> QED
        BY <2>2, <3>1, <4>1 DEF DueInv
    <3>3. ASSUME NEW p \in Due(d)', \A q \in Due(d)' : q.id <= p.id PROVE p.curve = asked[d]
      <4>1. p \in Due(d) /\ \A q \in Due(d) : q.id <= p.id
        BY <2>3, <3>1, <3>3
      <4> QED
        BY <2>2, <4>1 DEF DueInv
    <3> QED
      BY <2>2, <2>4, <3>2, <3>3
  <2>5. CASE ~Means(r.display, d)
    <3>1. Due(d)' = Due(d)
      BY <2>3, <2>5 DEF Due
    <3> QED
      BY <2>2, <2>5, <3>1 DEF DueInv
  <2> QED
    BY <2>4, <2>5
<1>4. ASSUME NEW r \in requests, NEW ok \in BOOLEAN, GammaArrives(r, ok) PROVE DueInv'
  <2> SUFFICES ASSUME ~hitch' PROVE DueInv'
    BY DEF DueInv
  <2>1. r.handled /\ ~hitch /\ requests' = requests \ {r} /\ UNCHANGED <<shown, asked>>
    BY <1>4 DEF GammaArrives, Arrives
  <2>2. \A d : Due(d)' = Due(d)
    BY <2>1 DEF Due, GammaRequests, Gamma, Means
  <2> QED
    BY <2>1, <2>2 DEF DueInv
<1> QED
  BY <1>1, <1>2, <1>3, <1>4, GammaSteps

----------------------------------------------------------------------------
(* The theorems. *)

\* The page as it opens satisfies the invariant.
LEMMA IndInit == Init => IndInv
<1> SUFFICES ASSUME Init PROVE IndInv
  OBVIOUS
<1> USE DEF Init
<1>1. List(0, Blank) \in Requests
  BY BoundAssumption, DisplaysAssumption, SentTyped DEF List, Ids
<1>2. TypeOK
  <2>1. status \in Messages /\ clicks \in Ids /\ timers \subseteq Ids
    BY BoundAssumption DEF Ids, Ready, Messages
  <2>2. /\ stored \in [Names -> Curves \union {NoFile}]
        /\ \A n \in Names : stored[n] # NoFile => n.gmd
    BY StoredAssumption
  <2>3. shown \in [1 .. Displays -> Curves] /\ asked \in [1 .. Displays -> Curves]
    BY CurvesAssumption
  <2>4. selectedDisplay \in 0 .. Displays
    BY DisplaysAssumption
  <2> QED
    BY <1>1, <2>1, <2>2, <2>3, <2>4, CurvesAssumption DEF TypeOK
<1>3. Fits(List(0, Blank), Existing) /\ ~Gamma(List(0, Blank))
  BY DEF Fits, List, Sent, Gamma
<1>4. GammaRequests = {}
  BY <1>3 DEF GammaRequests
<1>5. RequestInv /\ MarkInv /\ OnlyItsOwnTimer
  BY <1>3 DEF RequestInv, MarkInv, OnlyItsOwnTimer
<1>6. ClickInv /\ DueInv
  BY <1>4 DEF ClickInv, DueInv, Due
<1> QED
  BY <1>2, <1>5, <1>6 DEF IndInv

\* The invariant is inductive.
LEMMA IndStep == IndInv /\ [Next]_vars => IndInv'
<1> SUFFICES ASSUME IndInv, [Next]_vars PROVE IndInv'
  OBVIOUS
<1>1. TypeOK /\ RequestInv /\ MarkInv /\ OnlyItsOwnTimer /\ ClickInv /\ DueInv
  BY DEF IndInv
<1>2. TypeOK'
  BY <1>1, TypeStep
<1>3. RequestInv' /\ MarkInv' /\ OnlyItsOwnTimer'
  BY <1>1, <1>2, RequestStep, MarkStep, TimerStep
<1>4. ClickInv' /\ DueInv'
  BY <1>1, <1>2, ClickStep, DueStep
<1> QED
  BY <1>2, <1>3, <1>4 DEF IndInv

\* The invariant holds of every behaviour.
THEOREM PageInvariant == Spec => []IndInv
BY IndInit, IndStep, PTL DEF Spec

\* The page's variables keep their types: what a preset yields is a curve, and what is
\* written has a preset's name, whatever is typed.
THEOREM PageTypes == Spec => []TypeOK
<1>1. IndInv => TypeOK
  BY DEF IndInv
<1> QED
  BY <1>1, PageInvariant, PTL

\* While the button says "Update", the points shown come from the preset it replaces.
THEOREM PageUpdates == Spec => []UpdateReplacesLoaded
<1>1. IndInv => UpdateReplacesLoaded
  BY DEF IndInv, MarkInv, UpdateReplacesLoaded
<1> QED
  BY <1>1, PageInvariant, PTL

\* A pending timer belongs to the message shown.
THEOREM PageTimers == Spec => []OnlyItsOwnTimer
<1>1. IndInv => OnlyItsOwnTimer
  BY DEF IndInv
<1> QED
  BY <1>1, PageInvariant, PTL

\* When nothing is under way the displays show what was asked for, if no request failed
\* or was handled before an earlier one.
THEOREM PageShows == Spec => []ShowsLastAsked
<1>1. IndInv => ShowsLastAsked
  <2> SUFFICES ASSUME IndInv, requests = {}, ~hitch PROVE shown = asked
    BY DEF ShowsLastAsked
  <2>1. \A d \in 1 .. Displays : shown[d] = asked[d]
    BY DEF IndInv, DueInv, Due, GammaRequests
  <2>2. shown \in [1 .. Displays -> Curves] /\ asked \in [1 .. Displays -> Curves]
    BY DEF IndInv, TypeOK
  <2>3. shown = [d \in 1 .. Displays |-> shown[d]] /\ asked = [d \in 1 .. Displays |-> asked[d]]
    BY <2>2, Zenon
  <2> QED
    BY <2>1, <2>3, Zenon
<1> QED
  BY <1>1, PageInvariant, PTL

\* A preset said to be saved is in the list that comes, whatever else is under way.
THEOREM PageLists == Spec => SaidSavedIsListed
<1>1. ASSUME IndInv, [Next]_vars
      PROVE  [\A r \in requests :
                r.kind = "list" /\ r.name # Blank /\ (\A s \in requests' : s.id # r.id) =>
                    presets' = {} \/ Full(r.name.stem) \in presets']_vars
  <2> SUFFICES ASSUME NEW r \in requests, r.kind = "list", r.name # Blank,
                      \A s \in requests' : s.id # r.id
               PROVE  presets' = {} \/ Full(r.name.stem) \in presets'
    OBVIOUS
  <2>0. r \notin requests'
    OBVIOUS
  <2>1. \E ok \in BOOLEAN : ListArrives(r, ok)
    <3>1. CASE UserStep
      BY <2>0, <3>1 DEF UserStep, TypeName, Edit, PickDisplay, HandleApply, HandleReset, Ask,
                        HandleSavePreset, HandleLoadPreset
    <3>2. ASSUME NEW q \in requests, ServerStep(q) PROVE FALSE
      <4>1. \E s : Handled(q, s) /\ s.id = q.id
        <5>1. q \in Requests
          BY <1>1 DEF IndInv, TypeOK
        <5>2. \A f : /\ [q EXCEPT !.handled = TRUE, !.files = f].id = q.id
                     /\ [q EXCEPT !.handled = TRUE, !.curve = f].id = q.id
                     /\ [q EXCEPT !.handled = TRUE, !.ok = f].id = q.id
                     /\ [q EXCEPT !.handled = TRUE].id = q.id
          BY <5>1 DEF Requests
        <5> QED
          BY <3>2, <5>2, Zenon DEF ServerStep, ListFiles, GetPreset, SavePreset, SetGamma
      <4> QED
        BY <2>0, <4>1 DEF Handled
    <3>3. ASSUME NEW q \in requests, Answer(q) PROVE \E ok \in BOOLEAN : ListArrives(r, ok)
      BY <2>0, <3>3 DEF Answer, ListArrives, PresetArrives, SaveArrives, GammaArrives
    <3>4. ~ \E i \in Ids : TimerFires(i)
      BY <2>0 DEF TimerFires
    <3>5. ~UNCHANGED vars
      BY <2>0 DEF vars
    <3> QED
      BY <1>1, <3>1, <3>2, <3>3, <3>4, <3>5 DEF Next
  <2>2. PICK ok \in BOOLEAN : ListArrives(r, ok)
    BY <2>1
  <2>3. CASE ok
    <3>1. presets' = r.files /\ r.handled
      BY <2>2, <2>3 DEF ListArrives, Arrives
    <3>2. r.name \in Existing /\ r.name \in r.files
      BY <1>1, <3>1 DEF IndInv, RequestInv, Fits
    <3>3. Full(r.name.stem) = r.name
      BY <3>2 DEF Existing, Names, Full
    <3> QED
      BY <3>1, <3>2, <3>3
  <2>4. CASE ~ok
    BY <2>2, <2>4 DEF ListArrives
  <2> QED
    BY <2>3, <2>4
<1> QED
  BY <1>1, PageInvariant, PTL DEF Spec, SaidSavedIsListed

=============================================================================
