----------------------- MODULE KeybindingsPanelProofs -----------------------
(***************************************************************************)
(* Proofs about KeybindingsPanel, for any keys, modifiers, files and       *)
(* number of changes: its types; that gapa.json comes to hold what the     *)
(* page shows; that Save replaces what Edit has shown; and that a key is   *)
(* registered as it was pressed.                                           *)
(***************************************************************************)
EXTENDS KeybindingsPanel, SequenceLemmas

----------------------------------------------------------------------------
(* The invariant. *)

\* The tab is broken while the list has a hole.
DrawnInv == broken <=> Hole \in Range(list)

\* The list is asked for once, until it has arrived.
OneGet ==
    /\ \A i, k \in 1 .. Len(requests) : requests[i] = Get /\ requests[k] = Get => i = k
    /\ fetched => \A i \in 1 .. Len(requests) : requests[i] # Get

\* While nothing has gone wrong the last request under way sends the list as it is, or
\* asks for it; none being under way, the file holds it.
SyncInv ==
    ~hitch =>
        /\ fetched /\ requests = <<>> => file = list
        /\ fetched /\ requests # <<>> => requests[Len(requests)] = Post(list)
        /\ ~fetched => requests # <<>> /\ requests[Len(requests)] = Get

\* Without a modifier released, the modifiers captured are still held.
HeldInv == capturing /\ ~stray => captureMods \subseteq held

IndInv ==
    /\ TypeOK
    /\ DrawnInv
    /\ OneGet
    /\ SyncInv
    /\ HeldInv
    /\ EditsWhatItShowed

----------------------------------------------------------------------------
(* The steps. *)

\* Asking for the list and sending it are different requests.
LEMMA RequestKinds ==
    /\ Get \in Requests
    /\ \A b \in Seq(Bindings) : Post(b) \in Requests /\ Post(b) # Get /\ Post(b).body = b
    /\ \A r \in Requests : r.kind = "post" => r # Get /\ r.body \in Seq(Bindings)
<1>1. Get \in Requests
  BY DEF Get, Requests
<1>2. ASSUME NEW b \in Seq(Bindings) PROVE Post(b) \in Requests /\ Post(b) # Get /\ Post(b).body = b
  BY DEF Get, Post, Requests
<1>3. ASSUME NEW r \in Requests, r.kind = "post" PROVE r # Get /\ r.body \in Seq(Bindings)
  BY <1>3 DEF Get, Requests
<1> QED
  BY <1>1, <1>2, <1>3

\* A list assigned to, at whatever place, is a list of bindings and holes.
LEMMA AssignTyped ==
    ASSUME TypeOK, NEW i \in Nat, NEW e \in Bindings
    PROVE  Assign(i, e) \in Seq(Bindings)
<1>1. Len(list) \in Nat /\ \A j \in 1 .. Len(list) : list[j] \in Bindings
  BY ElementOfSeq DEF TypeOK
<1> DEFINE n == IF i > Len(list) THEN i ELSE Len(list)
<1>2. n \in Nat /\ Hole \in Bindings
  BY <1>1 DEF Bindings
<1>3. ASSUME NEW j \in 1 .. n
      PROVE  (IF j = i THEN e ELSE IF j <= Len(list) THEN list[j] ELSE Hole) \in Bindings
  BY <1>1, <1>2
<1> QED
  BY <1>2, <1>3 DEF Assign

\* No step leaves the declared sets: what the form holds is a combination, never a hole.
LEMMA TypeStep ==
    ASSUME TypeOK, DrawnInv, [Next]_vars
    PROVE  TypeOK'
<1> USE BoundAssumption, LangAssumption DEF TypeOK, formVars, keyVars, histVars
<1>0. /\ <<>> \in Seq(Bindings) /\ DOMAIN list = 1 .. Len(list)
      /\ DOMAIN requests = 1 .. Len(requests)
      /\ None \in Combos \union Prompts \union {None}
  OBVIOUS
<1>1. ASSUME list' \in Seq(Bindings), Persist
      PROVE  /\ requests' \in Seq(Requests) /\ edits' \in 0 .. MaxEdits
             /\ broken' \in BOOLEAN /\ hitch' \in BOOLEAN
  <2>1. Post(list') \in Requests
    BY <1>1, RequestKinds
  <2>2. Append(requests, Post(list')) \in Seq(Requests)
    BY <2>1, AppendProperties
  <2> QED
    BY <1>1, <2>2 DEF Persist, Body, Redraw
<1>2. CASE SubmitKeybinding
  <2>1. kbKey \in Bindings
    BY <1>2 DEF SubmitKeybinding, Unfinished, Bindings
  <2>2. Append(list, kbKey) \in Seq(Bindings) /\ Assign(editing, kbKey) \in Seq(Bindings)
    BY <2>1, AssignTyped, AppendProperties
  <2>3. list' \in Seq(Bindings)
    BY <1>2, <2>2 DEF SubmitKeybinding
  <2> QED
    BY <1>0, <1>1, <1>2, <2>3 DEF SubmitKeybinding, ResetForm
<1>3. ASSUME NEW i \in DOMAIN list, StartEdit(i) PROVE TypeOK'
  <2>1. list[i] \in Bindings /\ list[i] \in Range(list) /\ i \in Nat
    BY <1>0, ElementOfSeq, RangeOf
  <2>2. list[i] \in Combos \union Prompts
    BY <1>3, <2>1 DEF StartEdit, DrawnInv, Bindings
  <2> QED
    BY <1>3, <2>1, <2>2 DEF StartEdit
<1>4. ASSUME NEW i \in DOMAIN list, DeleteKeybinding(i) PROVE TypeOK'
  <2>1. list' \in Seq(Bindings)
    BY <1>0, <1>4, RemoveAtProperties DEF DeleteKeybinding
  <2>2. /\ editing' \in Nat /\ kbKey' \in Combos \union Prompts \union {None}
        /\ original' \in Bindings \union {None} /\ shifted' \in BOOLEAN
    <3>1. CASE Edits(i)
      <4>1. ResetForm
        BY <1>4, <3>1 DEF DeleteKeybinding
      <4> QED
        BY <4>1, <1>0 DEF ResetForm
    <3>2. CASE ~Edits(i)
      <4>1. shifted' = (shifted \/ i < editing) /\ UNCHANGED <<formVars, original>>
        BY <1>4, <3>2 DEF DeleteKeybinding
      <4> QED
        BY <4>1
    <3> QED
      BY <3>1, <3>2
  <2> QED
    BY <1>1, <1>4, <2>1, <2>2 DEF DeleteKeybinding
<1>5. CASE Cancel
  BY <1>5 DEF Cancel, ResetForm
<1>6. CASE StartCapture \/ ToggleLang
  BY <1>6 DEF StartCapture, ToggleLang, Prompts
<1>7. ASSUME NEW m \in Modifiers, ModifierDown(m) PROVE TypeOK'
  <2>1. captureMods' \subseteq Modifiers /\ held' \subseteq Modifiers
    BY <1>7 DEF ModifierDown
  <2>2. kbKey' \in Combos \union Prompts \union {None}
    BY <1>7, <2>1 DEF ModifierDown, Combos
  <2> QED
    BY <1>7, <2>1, <2>2 DEF ModifierDown
<1>8. ASSUME NEW m \in Modifiers, ModifierUp(m) PROVE TypeOK'
  BY <1>8 DEF ModifierUp
<1>9. ASSUME NEW k \in Keys, KeyDown(k) PROVE TypeOK'
  <2>1. kbKey' \in Combos
    BY <1>9 DEF KeyDown, Combos, Text, Texts
  <2> QED
    BY <1>9, <2>1 DEF KeyDown
<1>10. CASE LeaveTab
  BY <1>10 DEF LeaveTab, ResetForm
<1>11. ASSUME NEW i \in DOMAIN requests,
              ListArrives(i) \/ ListFails(i) \/ Saved(i) \/ SaveFails(i)
       PROVE  TypeOK'
  <2>1. requests' \in Seq(Requests)
    BY <1>0, <1>11, RemoveAtProperties DEF ListArrives, ListFails, Saved, SaveFails, Answered
  <2>2. requests[i] \in Requests
    BY <1>0, ElementOfSeq
  <2>3. CASE ListArrives(i)
    BY <2>1, <2>3 DEF ListArrives, Answered, Redraw
  <2>4. CASE ListFails(i)
    BY <1>0, <2>1, <2>4 DEF ListFails, Redraw
  <2>5. CASE Saved(i)
    BY <2>1, <2>2, <2>5, RequestKinds DEF Saved, Answered
  <2>6. CASE SaveFails(i)
    BY <2>1, <2>6 DEF SaveFails
  <2> QED
    BY <1>11, <2>3, <2>4, <2>5, <2>6
<1>12. CASE Reload
  <2>1. RemoveFirst(requests, Get) \in Seq(Requests)
    BY RemoveFirstIsRemoveAt, RemoveAtProperties
  <2>2. requests' \in Seq(Requests)
    BY <1>12, <2>1, RequestKinds, AppendProperties DEF Reload
  <2>3. hitch' \in BOOLEAN
    BY <1>12 DEF Reload
  <2> QED
    BY <1>0, <1>12, <2>2, <2>3 DEF Reload, ResetForm
<1>13. CASE UNCHANGED vars
  BY <1>13 DEF vars
<1> QED
  <2> HIDE DEF TypeOK
  <2> QED
    BY <1>2, <1>3, <1>4, <1>5, <1>6, <1>7, <1>8, <1>9, <1>10, <1>11, <1>12, <1>13 DEF Next

\* The tab is drawn anew whenever the list changes.
LEMMA DrawnStep == DrawnInv /\ [Next]_vars => DrawnInv'
<1> SUFFICES ASSUME DrawnInv, [Next]_vars PROVE DrawnInv'
  OBVIOUS
<1> USE DEF DrawnInv, formVars, keyVars, histVars
<1>1. CASE SubmitKeybinding \/ \E i \in DOMAIN list : DeleteKeybinding(i)
  BY <1>1 DEF SubmitKeybinding, DeleteKeybinding, Persist, Redraw
<1>2. CASE \E i \in DOMAIN requests : ListArrives(i) \/ ListFails(i)
  BY <1>2 DEF ListArrives, ListFails, Redraw
<1>3. CASE Reload
  BY <1>3, RangeShort DEF Reload
<1>4. ASSUME UNCHANGED <<list, broken>> PROVE DrawnInv'
  BY <1>4
<1>5. CASE (\E i \in DOMAIN list : StartEdit(i)) \/ Cancel \/ StartCapture \/ LeaveTab \/ ToggleLang
  BY <1>4, <1>5 DEF StartEdit, Cancel, StartCapture, LeaveTab, ToggleLang
<1>6. CASE \E m \in Modifiers : ModifierDown(m) \/ ModifierUp(m)
  BY <1>4, <1>6 DEF ModifierDown, ModifierUp
<1>7. CASE \E k \in Keys : KeyDown(k)
  BY <1>4, <1>7 DEF KeyDown
<1>8. CASE \E i \in DOMAIN requests : Saved(i) \/ SaveFails(i)
  BY <1>4, <1>8 DEF Saved, SaveFails
<1>9. CASE UNCHANGED vars
  BY <1>4, <1>9 DEF vars
<1> QED
  BY <1>1, <1>2, <1>3, <1>5, <1>6, <1>7, <1>8, <1>9 DEF Next

\* Which steps are about the requests, the list and the file.
LEMMA RequestSteps ==
    ASSUME TypeOK, [Next]_vars
    PROVE  \/ UNCHANGED <<requests, list, file, fetched, hitch>>
           \/ /\ list' \in Seq(Bindings) /\ UNCHANGED <<file, fetched>>
              /\ requests' = Append(requests, Post(list')) /\ hitch' = (hitch \/ ~fetched)
           \/ \E i \in DOMAIN requests :
                /\ requests' = RemoveAt(requests, i)
                /\ i > 1 => hitch'
                /\ hitch => hitch'
                /\ \/ requests[i] = Get /\ fetched' /\ (hitch' \/ list' = file) /\ file' = file
                   \/ /\ requests[i].kind = "post" /\ fetched' = fetched /\ list' = list
                      /\ hitch' \/ file' = requests[i].body
           \/ Reload
<1> USE DEF formVars, keyVars, histVars
<1>1. ASSUME UNCHANGED <<fetched, file>>, Persist, list' \in Seq(Bindings)
      PROVE  /\ list' \in Seq(Bindings) /\ UNCHANGED <<file, fetched>>
             /\ requests' = Append(requests, Post(list')) /\ hitch' = (hitch \/ ~fetched)
  BY <1>1 DEF Persist, Body
<1>2. CASE SubmitKeybinding
  <2>1. kbKey \in Bindings
    BY <1>2 DEF SubmitKeybinding, Unfinished, Bindings, TypeOK
  <2>2. Append(list, kbKey) \in Seq(Bindings) /\ Assign(editing, kbKey) \in Seq(Bindings)
    BY <2>1, AssignTyped, AppendProperties DEF TypeOK
  <2> QED
    BY <1>1, <1>2, <2>2 DEF SubmitKeybinding
<1>3. ASSUME NEW i \in DOMAIN list, DeleteKeybinding(i)
      PROVE  /\ list' \in Seq(Bindings) /\ UNCHANGED <<file, fetched>>
             /\ requests' = Append(requests, Post(list')) /\ hitch' = (hitch \/ ~fetched)
  <2>1. list' \in Seq(Bindings)
    BY <1>3, RemoveAtProperties DEF DeleteKeybinding, TypeOK
  <2> QED
    BY <1>1, <1>3, <2>1 DEF DeleteKeybinding
<1>4. CASE (\E i \in DOMAIN list : StartEdit(i)) \/ Cancel \/ StartCapture \/ LeaveTab \/ ToggleLang
  BY <1>4 DEF StartEdit, Cancel, StartCapture, LeaveTab, ToggleLang
<1>5. CASE \E m \in Modifiers : ModifierDown(m) \/ ModifierUp(m)
  BY <1>5 DEF ModifierDown, ModifierUp
<1>6. CASE \E k \in Keys : KeyDown(k)
  BY <1>6 DEF KeyDown
<1>7. ASSUME NEW i \in DOMAIN requests,
             ListArrives(i) \/ ListFails(i) \/ Saved(i) \/ SaveFails(i)
      PROVE  /\ requests' = RemoveAt(requests, i)
             /\ i > 1 => hitch'
             /\ hitch => hitch'
             /\ \/ requests[i] = Get /\ fetched' /\ (hitch' \/ list' = file) /\ file' = file
                \/ /\ requests[i].kind = "post" /\ fetched' = fetched /\ list' = list
                   /\ hitch' \/ file' = requests[i].body
  <2>1. CASE ListArrives(i)
    BY <2>1 DEF ListArrives, Answered
  <2>2. CASE ListFails(i)
    BY <2>2 DEF ListFails
  <2>3. CASE Saved(i)
    BY <2>3 DEF Saved, Answered
  <2>4. CASE SaveFails(i)
    BY <2>4 DEF SaveFails
  <2> QED
    BY <1>7, <2>1, <2>2, <2>3, <2>4
<1>8. CASE UNCHANGED vars
  BY <1>8 DEF vars
<1> QED
  BY <1>2, <1>3, <1>4, <1>5, <1>6, <1>7, <1>8 DEF Next

\* The list is asked for once, and comes last, while nothing goes wrong.
LEMMA SyncStep ==
    ASSUME TypeOK, TypeOK', OneGet, SyncInv, [Next]_vars
    PROVE  OneGet' /\ SyncInv'
<1>0. /\ DOMAIN requests = 1 .. Len(requests) /\ Len(requests) \in Nat
      /\ \A i \in 1 .. Len(requests) : requests[i] \in Requests
      /\ requests # <<>> <=> Len(requests) # 0
  BY ElementOfSeq, EmptySeq DEF TypeOK
<1>1. CASE UNCHANGED <<requests, list, file, fetched, hitch>>
  BY <1>1 DEF OneGet, SyncInv
<1>2. CASE /\ list' \in Seq(Bindings) /\ UNCHANGED <<file, fetched>>
           /\ requests' = Append(requests, Post(list')) /\ hitch' = (hitch \/ ~fetched)
  <2>1. Post(list') \in Requests /\ Post(list') # Get
    BY <1>2, RequestKinds
  <2>2. /\ Len(requests') = Len(requests) + 1 /\ requests' # <<>>
        /\ \A i \in 1 .. Len(requests) : requests'[i] = requests[i]
        /\ requests'[Len(requests) + 1] = Post(list')
    BY <1>2, <2>1, AppendProperties DEF TypeOK
  <2>3. \A i \in 1 .. Len(requests') : i \in 1 .. Len(requests) \/ i = Len(requests) + 1
    BY <1>0, <2>2
  <2>4. OneGet'
    BY <1>2, <2>1, <2>2, <2>3 DEF OneGet
  <2> QED
    BY <1>2, <2>2, <2>4 DEF SyncInv
<1>3. ASSUME NEW i \in DOMAIN requests,
             /\ requests' = RemoveAt(requests, i)
             /\ i > 1 => hitch'
             /\ hitch => hitch'
             /\ \/ requests[i] = Get /\ fetched' /\ (hitch' \/ list' = file) /\ file' = file
                \/ /\ requests[i].kind = "post" /\ fetched' = fetched /\ list' = list
                   /\ hitch' \/ file' = requests[i].body
      PROVE  OneGet' /\ SyncInv'
  <2>1. /\ Len(requests') = Len(requests) - 1
        /\ \A j \in 1 .. Len(requests) - 1 :
              requests'[j] = IF j < i THEN requests[j] ELSE requests[j + 1]
        /\ i \in 1 .. Len(requests) /\ requests' \in Seq(Requests)
        /\ requests' # <<>> <=> Len(requests') # 0
    BY <1>0, <1>3, RemoveAtProperties, EmptySeq DEF TypeOK
  <2> DEFINE was(j) == IF j < i THEN j ELSE j + 1
  <2>2. \A j \in 1 .. Len(requests) - 1 :
            was(j) \in 1 .. Len(requests) /\ was(j) # i /\ requests'[j] = requests[was(j)]
    BY <1>0, <2>1
  <2>3. \A j, k \in 1 .. Len(requests) - 1 : was(j) = was(k) => j = k
    BY <1>0, <2>1
  <2> HIDE DEF was
  <2>4. OneGet'
    <3>1. \A j, k \in 1 .. Len(requests') : requests'[j] = Get /\ requests'[k] = Get => j = k
      BY <2>1, <2>2, <2>3 DEF OneGet
    <3>2. fetched' => \A j \in 1 .. Len(requests') : requests'[j] # Get
      BY <1>3, <2>1, <2>2 DEF OneGet
    <3> QED
      BY <3>1, <3>2 DEF OneGet
  <2>5. ASSUME ~hitch'
        PROVE  /\ fetched' /\ requests' = <<>> => file' = list'
               /\ fetched' /\ requests' # <<>> => requests'[Len(requests')] = Post(list')
               /\ ~fetched' => requests' # <<>> /\ requests'[Len(requests')] = Get
    <3>1. i = 1 /\ ~hitch /\ requests # <<>>
      BY <1>0, <1>3, <2>1, <2>5
    <3>2. CASE requests[i] = Get
      <4>1. ~fetched /\ requests[Len(requests)] = Get
        BY <1>0, <2>1, <3>1, <3>2 DEF OneGet, SyncInv
      <4>2. Len(requests) = 1
        BY <1>0, <2>1, <3>1, <3>2, <4>1 DEF OneGet
      <4>3. requests' = <<>> /\ fetched' /\ file' = list'
        <5>1. requests[i].kind # "post"
          BY <3>2 DEF Get
        <5> QED
          BY <1>3, <2>1, <2>5, <4>2, <5>1
      <4> QED
        BY <4>3
    <3>3. CASE requests[i].kind = "post"
      <4>1. requests[i] # Get
        BY <3>3 DEF Get
      <4>2. fetched' = fetched /\ list' = list /\ file' = requests[1].body
        BY <1>3, <2>5, <3>1, <4>1
      <4>3. CASE Len(requests) = 1
        <5>1. requests' = <<>> /\ requests[Len(requests)] # Get
          BY <2>1, <3>1, <4>1, <4>3
        <5>2. requests[1] = Post(list)
          BY <1>0, <3>1, <4>3, <5>1 DEF SyncInv
        <5>3. fetched /\ file' = list
          BY <3>1, <4>2, <5>1, <5>2, RequestKinds DEF SyncInv, TypeOK
        <5> QED
          BY <4>2, <5>1, <5>3
      <4>4. CASE Len(requests) # 1
        <5>1. /\ Len(requests) - 1 \in 1 .. Len(requests) - 1 /\ ~(Len(requests) - 1 < i)
              /\ (Len(requests) - 1) + 1 = Len(requests)
          BY <1>0, <2>1, <3>1, <4>4
        <5>2. requests' # <<>> /\ requests'[Len(requests')] = requests[Len(requests)]
          BY <2>1, <5>1
        <5> QED
          BY <3>1, <4>2, <5>2 DEF SyncInv
      <4> QED
        BY <4>3, <4>4
    <3> QED
      BY <1>3, <3>2, <3>3
  <2> QED
    BY <2>4, <2>5 DEF SyncInv
<1>4. CASE Reload
  <2> DEFINE s == RemoveFirst(requests, Get)
  <2>1. ~fetched' /\ requests' = Append(s, Get)
    BY <1>4 DEF Reload
  <2>2. s \in Seq(Requests) /\ Len(s) \in Nat /\ \A j \in 1 .. Len(s) : s[j] # Get
    <3>1. CASE Get \notin Range(requests) /\ s = requests
      BY <1>0, <3>1, RangeOf DEF TypeOK
    <3>2. ASSUME NEW i \in 1 .. Len(requests), requests[i] = Get, s = RemoveAt(requests, i)
          PROVE  s \in Seq(Requests) /\ Len(s) \in Nat /\ \A j \in 1 .. Len(s) : s[j] # Get
      <4>1. /\ s \in Seq(Requests) /\ Len(s) = Len(requests) - 1
            /\ \A j \in 1 .. Len(requests) - 1 :
                  s[j] = IF j < i THEN requests[j] ELSE requests[j + 1]
        BY <3>2, RemoveAtProperties DEF TypeOK
      <4> HIDE DEF s
      <4>2. ASSUME NEW j \in 1 .. Len(s) PROVE s[j] # Get
        <5>1. CASE j < i
          BY <1>0, <3>2, <4>1, <5>1 DEF OneGet
        <5>2. CASE ~(j < i)
          <6>1. j + 1 \in 1 .. Len(requests) /\ j + 1 # i /\ s[j] = requests[j + 1]
            BY <1>0, <4>1, <5>2
          <6> QED
            BY <3>2, <6>1 DEF OneGet
        <5> QED
          BY <5>1, <5>2
      <4> QED
        BY <1>0, <4>1, <4>2
    <3> QED
      BY <3>1, <3>2, RemoveFirstIsRemoveAt DEF TypeOK
  <2> HIDE DEF s
  <2>3. /\ Len(requests') = Len(s) + 1 /\ requests' # <<>>
        /\ \A j \in 1 .. Len(s) : requests'[j] = s[j]
        /\ requests'[Len(s) + 1] = Get
    BY <2>1, <2>2, RequestKinds, AppendProperties
  <2>4. \A j \in 1 .. Len(requests') : j \in 1 .. Len(s) \/ j = Len(s) + 1
    BY <2>2, <2>3
  <2>5. OneGet'
    BY <2>1, <2>2, <2>3, <2>4 DEF OneGet
  <2> QED
    BY <2>1, <2>3, <2>5 DEF SyncInv
<1> QED
  BY <1>1, <1>2, <1>3, <1>4, RequestSteps

\* A modifier released during a capture is noted.
LEMMA HeldStep == TypeOK /\ HeldInv /\ [Next]_vars => HeldInv'
<1> SUFFICES ASSUME TypeOK, HeldInv, [Next]_vars PROVE HeldInv'
  OBVIOUS
<1> USE DEF HeldInv, formVars, keyVars, histVars
<1>1. ASSUME NEW m \in Modifiers, ModifierDown(m) \/ ModifierUp(m) PROVE HeldInv'
  BY <1>1 DEF ModifierDown, ModifierUp, TypeOK
<1>2. CASE StartCapture \/ LeaveTab \/ ToggleLang \/ Reload
  BY <1>2 DEF StartCapture, LeaveTab, ToggleLang, Reload
<1>3. CASE \E k \in Keys : KeyDown(k)
  BY <1>3 DEF KeyDown
<1>4. CASE SubmitKeybinding \/ Cancel \/ \E i \in DOMAIN list : StartEdit(i) \/ DeleteKeybinding(i)
  BY <1>4 DEF SubmitKeybinding, Cancel, StartEdit, DeleteKeybinding
<1>5. ASSUME NEW i \in DOMAIN requests, ListArrives(i) \/ ListFails(i) \/ Saved(i) \/ SaveFails(i)
      PROVE  HeldInv'
  <2>1. UNCHANGED keyVars
    BY <1>5 DEF ListArrives, ListFails, Saved, SaveFails
  <2> QED
    BY <2>1
<1>6. CASE UNCHANGED vars
  BY <1>6 DEF vars
<1> QED
  BY <1>1, <1>2, <1>3, <1>4, <1>5, <1>6 DEF Next

\* A deletion behind the binding edited leaves it at its index.
LEMMA EditsStep ==
    ASSUME TypeOK, EditsWhatItShowed, [Next]_vars
    PROVE  EditsWhatItShowed'
<1> USE DEF EditsWhatItShowed, formVars, keyVars, histVars
<1>1. CASE SubmitKeybinding \/ Cancel \/ LeaveTab \/ Reload
  BY <1>1 DEF SubmitKeybinding, Cancel, LeaveTab, Reload, ResetForm
<1>2. ASSUME NEW i \in DOMAIN list, StartEdit(i) PROVE EditsWhatItShowed'
  BY <1>2 DEF StartEdit
<1>3. ASSUME NEW i \in DOMAIN list, DeleteKeybinding(i) PROVE EditsWhatItShowed'
  <2>1. CASE Edits(i)
    BY <1>3, <2>1 DEF DeleteKeybinding, ResetForm
  <2>2. CASE ~Edits(i)
    <3>1. shifted' = (shifted \/ i < editing) /\ UNCHANGED <<editing, original>> /\ editing # i
      BY <1>3, <2>2 DEF DeleteKeybinding, Edits
    <3>2. /\ Len(list) \in Nat /\ i \in 1 .. Len(list) /\ editing \in Nat
          /\ \A j \in 1 .. Len(list) - 1 : list'[j] = IF j < i THEN list[j] ELSE list[j + 1]
      BY <1>3, RemoveAtProperties DEF DeleteKeybinding, TypeOK
    <3>3. ASSUME editing # 0, ~shifted' PROVE list'[editing] = list[editing]
      <4>1. ~(i < editing) /\ editing # i /\ editing # 0
        BY <3>1, <3>3
      <4>2. editing < i
        BY <3>2, <4>1
      <4>3. editing \in 1 .. Len(list) - 1
        BY <3>2, <4>1, <4>2
      <4> QED
        BY <3>2, <4>2, <4>3
    <3> QED
      BY <3>1, <3>3
  <2> QED
    BY <2>1, <2>2
<1>4. CASE \E i \in DOMAIN requests : ListArrives(i) \/ ListFails(i)
  BY <1>4 DEF ListArrives, ListFails
<1>5. CASE \E i \in DOMAIN requests : Saved(i) \/ SaveFails(i)
  BY <1>5 DEF Saved, SaveFails
<1>6. CASE StartCapture \/ ToggleLang \/ \E k \in Keys : KeyDown(k)
  BY <1>6 DEF StartCapture, ToggleLang, KeyDown
<1>7. CASE \E m \in Modifiers : ModifierDown(m) \/ ModifierUp(m)
  BY <1>7 DEF ModifierDown, ModifierUp
<1>8. CASE UNCHANGED vars
  BY <1>8 DEF vars
<1> QED
  BY <1>1, <1>2, <1>3, <1>4, <1>5, <1>6, <1>7, <1>8 DEF Next

----------------------------------------------------------------------------
(* The theorems. *)

\* The tab as it opens satisfies the invariant.
LEMMA IndInit == Init => IndInv
<1> SUFFICES ASSUME Init PROVE IndInv
  OBVIOUS
<1> USE DEF Init
<1>1. requests \in Seq(Requests) /\ Len(requests) = 1 /\ requests[1] = Get /\ requests # <<>>
  BY RequestKinds
<1>2. TypeOK
  <2>1. list \in Seq(Bindings) /\ file \in Seq(Bindings)
    BY FilesAssumption
  <2>2. edits \in 0 .. MaxEdits /\ editing \in Nat
    BY BoundAssumption
  <2>3. lang \in Languages /\ kbKey \in Combos \union Prompts \union {None} /\ original \in Bindings \union {None}
    BY LangAssumption
  <2>4. {fetched, capturing, broken, shifted, stray, hitch} \subseteq BOOLEAN
    OBVIOUS
  <2>5. captureMods \subseteq Modifiers /\ held \subseteq Modifiers
    OBVIOUS
  <2> QED
    BY <1>1, <2>1, <2>2, <2>3, <2>4, <2>5 DEF TypeOK
<1>3. DrawnInv /\ HeldInv /\ EditsWhatItShowed
  BY RangeShort DEF DrawnInv, HeldInv, EditsWhatItShowed
<1>4. OneGet /\ SyncInv
  BY <1>1 DEF OneGet, SyncInv
<1> QED
  BY <1>2, <1>3, <1>4 DEF IndInv

\* The invariant is inductive.
LEMMA IndStep == IndInv /\ [Next]_vars => IndInv'
<1> SUFFICES ASSUME IndInv, [Next]_vars PROVE IndInv'
  OBVIOUS
<1>1. TypeOK /\ DrawnInv /\ OneGet /\ SyncInv /\ HeldInv /\ EditsWhatItShowed
  BY DEF IndInv
<1>2. TypeOK' /\ DrawnInv'
  BY <1>1, TypeStep, DrawnStep
<1>3. OneGet' /\ SyncInv'
  BY <1>1, <1>2, SyncStep
<1>4. HeldInv' /\ EditsWhatItShowed'
  BY <1>1, HeldStep, EditsStep
<1> QED
  BY <1>2, <1>3, <1>4 DEF IndInv

\* The invariant holds of every behaviour.
THEOREM FormInvariant == Spec => []IndInv
BY IndInit, IndStep, PTL DEF Spec

\* The tab's variables keep their types, whenever the language is switched: no hole of the
\* list gets into the form, and the empty form into no binding; a prompt may.
THEOREM FormTypes == Spec => []TypeOK
<1>1. IndInv => TypeOK
  BY DEF IndInv
<1> QED
  BY <1>1, FormInvariant, PTL

\* Every request answered in order and none failed, gapa.json holds what is shown.
THEOREM FormSaved == Spec => []SavedAsShown
<1>1. IndInv => SavedAsShown
  BY DEF IndInv, SyncInv, SavedAsShown
<1> QED
  BY <1>1, FormInvariant, PTL

\* Save replaces the binding that Edit has shown.
THEOREM FormEdits == Spec => []EditsWhatItShowed
<1>1. IndInv => EditsWhatItShowed
  BY DEF IndInv
<1> QED
  BY <1>1, FormInvariant, PTL

\* A key captured is registered as it was pressed.
THEOREM FormKeys == Spec => KeyAsPressed
<1>1. ASSUME IndInv, [Next]_vars
      PROVE  [\A k \in Keys \ Wordy :
                KeyDown(k) /\ ~stray /\ ~(k \in Shifting /\ Shift \in held)
                    /\ held \subseteq captureMods =>
                        Registered(kbKey') =
                            [mods |-> held, main |-> [key |-> k, other |-> FALSE]]]_vars
  <2> SUFFICES ASSUME NEW k \in Keys \ Wordy, KeyDown(k), ~stray,
                      ~(k \in Shifting /\ Shift \in held), held \subseteq captureMods
               PROVE  Registered(kbKey') =
                            [mods |-> held, main |-> [key |-> k, other |-> FALSE]]
    OBVIOUS
  <2>1. captureMods = held
    BY <1>1 DEF IndInv, HeldInv, KeyDown
  <2>2. Text(k) = [key |-> k, other |-> FALSE] /\ Text(k) \in Texts /\ Text(k).key \notin Wordy
    BY DEF Text, Texts
  <2>3. kbKey' = [mods |-> held, main |-> Text(k)]
    BY <2>1 DEF KeyDown
  <2> QED
    BY <2>2, <2>3 DEF Registered
<1> QED
  BY <1>1, FormInvariant, PTL DEF Spec, KeyAsPressed

=============================================================================
