-------------------------- MODULE GammaPanelProofs --------------------------
(***************************************************************************)
(* Proofs about GammaPanel, for any threads, number of adapters, ramps,    *)
(* hotkeys and circumstances: its types; that a listed display is missing  *)
(* from the shared table only while another enumeration is under way; and  *)
(* for requests one at a time that each sets what it means and that        *)
(* release() leaves every display linear.                                  *)
(***************************************************************************)
EXTENDS GammaPanel, SequenceLemmas, FiniteSetTheorems

----------------------------------------------------------------------------
(* Which displays a request is applied to. *)

\* The displays a hotkey's entries stand for, given the displays listed.
LEMMA EntriesMembers ==
    ASSUME NEW sel \in Seq(0 .. Adapters), NEW l \in Seq(Devices)
    PROVE  /\ Entries(sel, l) \in Seq(Devices)
           /\ \A x : x \in Range(Entries(sel, l)) <=>
                \E i \in 1 .. Len(sel) : IF sel[i] = 0 THEN x \in Range(l) ELSE x = sel[i] - 1
<1> DEFINE piece(i) == IF sel[i] = 0 THEN l ELSE <<Adapter(sel[i])>>
           ss == [i \in DOMAIN sel |-> piece(i)]
<1>1. DOMAIN sel = 1 .. Len(sel) /\ Len(sel) \in Nat
  OBVIOUS
<1>2. ASSUME NEW i \in 1 .. Len(sel) PROVE piece(i) \in Seq(Devices)
  <2>1. sel[i] \in 0 .. Adapters
    BY ElementOfSeq
  <2>2. sel[i] # 0 => sel[i] - 1 \in Devices
    BY <2>1, AdaptersAssumption DEF Devices
  <2> QED
    BY <2>1, <2>2 DEF Adapter
<1>3. ss \in Seq(Seq(Devices)) /\ Len(ss) = Len(sel)
  BY <1>1, <1>2
<1>4. \A x : \A i \in 1 .. Len(sel) :
        x \in Range(ss[i]) <=> IF sel[i] = 0 THEN x \in Range(l) ELSE x = sel[i] - 1
  BY <1>1, RangeShort DEF Adapter
<1>5. Entries(sel, l) = FlattenSeq(ss)
  BY DEF Entries
<1> HIDE DEF ss
<1> QED
  BY <1>3, <1>4, <1>5, FlattenMembers, Zenon

\* A web handler takes, of the displays listed, those its number means.
LEMMA MatchingMembers ==
    ASSUME NEW n \in Nat, NEW l \in Seq(Devices)
    PROVE  /\ Matching(n, l) \in Seq(Devices)
           /\ \A x : x \in Range(Matching(n, l)) <=> x \in Range(l) /\ (n = 0 \/ x + 1 = n)
<1> DEFINE piece(i) == IF WebMeans(n, l[i]) THEN <<l[i]>> ELSE <<>>
           ss == [i \in DOMAIN l |-> piece(i)]
<1>1. DOMAIN l = 1 .. Len(l) /\ Len(l) \in Nat
  OBVIOUS
<1>2. ASSUME NEW i \in 1 .. Len(l) PROVE piece(i) \in Seq(Devices)
  OBVIOUS
<1>3. ss \in Seq(Seq(Devices)) /\ Len(ss) = Len(l)
  BY <1>1, <1>2
<1>4. \A x : \A i \in 1 .. Len(l) :
        x \in Range(ss[i]) <=> l[i] = x /\ (n = 0 \/ x + 1 = n)
  <2>1. \A i \in 1 .. Len(l) : ss[i] = IF n = 0 \/ l[i] + 1 = n THEN <<l[i]>> ELSE <<>>
    BY <1>1 DEF WebMeans
  <2> HIDE DEF ss
  <2> QED
    BY <2>1, RangeShort
<1>5. Matching(n, l) = FlattenSeq(ss)
  BY DEF Matching
<1> HIDE DEF ss
<1>6. \A x : x \in Range(Matching(n, l)) <=>
        \E i \in 1 .. Len(l) : l[i] = x /\ (n = 0 \/ x + 1 = n)
  BY <1>3, <1>4, <1>5, FlattenMembers, Zenon
<1>7. \A x : x \in Range(l) <=> \E i \in 1 .. Len(l) : l[i] = x
  BY RangeOf
<1>8. Matching(n, l) \in Seq(Devices)
  BY <1>3, <1>5, FlattenMembers
<1> QED
  BY <1>6, <1>7, <1>8, Zenon

----------------------------------------------------------------------------
(* The invariant. *)

Busy(c) == ~(pc[c] \in {"idle", "thrown"})

\* The displays listed fit in the numbers of the menu.
BoundInv ==
    /\ Len(cached) <= Adapters
    /\ \A c \in Clients : pc[c] \in {"clear", "enum"} =>
        Len(list[c]) <= cursor[c] /\ cursor[c] <= Adapters

\* A request under way has the shape its client gave it, and what it has got so far.
JobInv ==
    \A c \in Clients : Busy(c) =>
        /\ job[c].kind \in {"web", "repl"} => Len(job[c].sel) = 1
        /\ job[c].kind = "tray" /\ job[c].sel # <<>> =>
            /\ Len(job[c].sel) = 1 /\ job[c].sel[1] # 0
            /\ pc[c] = "apply" /\ list[c] = <<>>
        /\ pc[c] \in {"clear", "enum"} => targets[c] = <<>>
        /\ pc[c] = "clear" => list[c] = <<>> /\ cursor[c] = 0

\* Requests one at a time: nobody else is at work.
OneBusy == ~setting.overlap => \A c, e \in Clients : Busy(c) /\ Busy(e) => c = e

\* Who resets the displays, and when.
ReleaseInv ==
    /\ \A c \in Clients :
        /\ pc[c] \in {"resetting", "joining"} => job[c].kind = "release"
        /\ Busy(c) /\ job[c].kind = "release" => c = Main /\ phase # "running"
    /\ phase \in {"releasing", "exited"} =>
        job[Main].kind = "release" /\ pc[Main] \in {"clear", "enum", "resetting", "joining"}
    /\ phase = "exited" => pc[Main] = "joining"

\* The displays whose presence nobody can be wrong about.
Steady == attached \ moved

\* Since everything was quiet, nobody has emptied the table yet; or somebody is
\* filling it and has put in every steady display it has come past; or all are in.
Untouched ==
    \A c \in Clients : pc[c] \in {"idle", "thrown", "clear"} \/ (pc[c] = "apply" /\ list[c] = <<>>)
Refilling ==
    \E e \in Clients : pc[e] = "enum" /\ \A d \in Steady : d < cursor[e] => d \in table
CoverInv == Untouched \/ Refilling \/ Steady \subseteq table

\* What was listed was attached; requests one at a time still find it.
ListInv ==
    \A c \in Clients : pc[c] \in {"enum", "apply"} =>
        /\ Range(list[c]) \subseteq attached \union moved
        /\ ~setting.overlap => Range(list[c]) \subseteq table

\* A request that names no display on its own sets displays it has listed.
TargetInv ==
    \A c \in Clients : pc[c] = "apply" /\ list[c] # <<>> /\ Names(job[c]) = {} =>
        Range(targets[c]) \subseteq Range(list[c])

\* release() leaves behind it only linear displays, those that failed, and those its
\* loop will still come to.
LeavesLinear ==
    /\ pc[Main] = "enum" =>
        \A d \in attached : d < cursor[Main] => d \in table \/ lut[d] = Linear
    /\ pc[Main] = "resetting" =>
        \A d \in attached \ failed[Main] :
            lut[d] = Linear \/ (d \in table /\ cursor[Main] <= d)
    /\ pc[Main] = "joining" => \A d \in attached \ failed[Main] : lut[d] = Linear

\* It does when requests come one at a time.
ResetInv == ~setting.overlap /\ phase \in {"releasing", "exited"} => LeavesLinear

\* l lists the members of S in ascending order.
Lists(l, S) ==
    /\ Range(l) = S
    /\ \A i, k \in 1 .. Len(l) : i < k => l[i] < l[k]

\* How far the request of client c has come: it has listed the displays it has come
\* past; it has set those it means, or they failed, or it will come to them.
Asks(c) ==
    /\ pc[c] \in {"clear", "enum"} => lut = before
    /\ pc[c] = "enum" => Lists(list[c], {d \in attached : d < cursor[c]})
    /\ pc[c] = "apply" =>
        /\ Range(targets[c]) \subseteq Meant(job[c])
        /\ \A d \in attached :
            IF d \in Meant(job[c])
            THEN d \in Range(targets[c]) \union failed[c] \/ lut[d] = RampOf(job[c])
            ELSE lut[d] = before[d]

\* Requests one at a time, displays staying as they are.
AskInv ==
    ~setting.overlap /\ moved = {} =>
        \A c \in Clients : Busy(c) /\ Sets(job[c]) => Asks(c)

IndInv ==
    /\ TypeOK
    /\ BoundInv
    /\ JobInv
    /\ OneBusy
    /\ ReleaseInv
    /\ CoverInv
    /\ ListInv
    /\ TargetInv
    /\ ResetInv
    /\ AskInv

----------------------------------------------------------------------------
(* What a request selects. *)

\* In an ascending list the n-th display is the n-th of the displays listed.
LEMMA NthOfList ==
    ASSUME NEW S \in SUBSET Nat, NEW l \in Seq(Nat), Lists(l, S)
    PROVE  /\ Cardinality(S) = Len(l)
           /\ \A n \in 1 .. Len(l) : Nth(n, S) = l[n]
<1>1. /\ Len(l) \in Nat
      /\ \A i \in 1 .. Len(l) : l[i] \in Nat /\ l[i] \in S
      /\ \A x \in S : \E i \in 1 .. Len(l) : l[i] = x
      /\ \A i, k \in 1 .. Len(l) : i < k => l[i] < l[k]
  <2>1. Len(l) \in Nat /\ \A i \in 1 .. Len(l) : l[i] \in Nat
    BY ElementOfSeq
  <2> QED
    BY <2>1, RangeOf, Zenon DEF Lists
<1>2. ASSUME NEW n \in 0 .. Len(l), NEW U \in SUBSET S,
             \A x \in S : x \in U <=> \E i \in 1 .. n : l[i] = x
      PROVE  Cardinality(U) = n
  <2> DEFINE f == [i \in 1 .. n |-> l[i]]
  <2>1. \A i \in 1 .. n : i \in 1 .. Len(l) /\ l[i] \in U
    BY <1>1, <1>2
  <2>2. f \in [1 .. n -> U]
    BY <2>1
  <2>3. \A i, k \in 1 .. n : l[i] = l[k] => i = k
    BY <1>1, <2>1
  <2>4. \A x \in U : \E i \in 1 .. n : l[i] = x
    BY <1>2
  <2>5. f \in Bijection(1 .. n, U)
    <3>1. \A i, k \in DOMAIN f : f[i] = f[k] => i = k
      BY <2>3
    <3>2. \A x \in U : \E i \in 1 .. n : f[i] = x
      BY <2>4
    <3> HIDE DEF f
    <3> QED
      BY <2>2, <3>1, <3>2, Zenon DEF Bijection, Injection, Surjection, IsInjective
  <2>6. ExistsBijection(1 .. n, U)
    BY <2>5, Zenon DEF ExistsBijection
  <2> QED
    BY <2>6, FS_CountingElements
<1>3. ASSUME NEW n \in 1 .. Len(l)
      PROVE  Cardinality({e \in S : e <= l[n]}) = n
  <2> DEFINE U == {e \in S : e <= l[n]}
  <2>1. \A x \in S : x \in U <=> \E i \in 1 .. n : l[i] = x
    <3>1. ASSUME NEW x \in S, x <= l[n] PROVE \E i \in 1 .. n : l[i] = x
      <4>1. PICK i \in 1 .. Len(l) : l[i] = x
        BY <1>1
      <4>2. ~(n < i)
        BY <1>1, <3>1, <4>1
      <4> QED
        BY <1>1, <4>1, <4>2
    <3>2. \A i \in 1 .. n : l[i] <= l[n]
      BY <1>1
    <3> QED
      BY <3>1, <3>2
  <2>2. n \in 0 .. Len(l) /\ U \in SUBSET S
    BY <1>1
  <2> HIDE DEF U
  <2>3. Cardinality(U) = n
    BY <1>2, <2>1, <2>2, Zenon
  <2> QED
    BY <2>3 DEF U
<1>4. ASSUME NEW n \in 1 .. Len(l)
      PROVE  Nth(n, S) = l[n]
  <2> DEFINE at(d) == Cardinality({e \in S : e <= d}) = n
  <2>1. l[n] \in S /\ at(l[n])
    BY <1>1, <1>3
  <2>2. ASSUME NEW d \in S, at(d) PROVE d = l[n]
    <3>1. PICK i \in 1 .. Len(l) : l[i] = d
      BY <1>1
    <3>2. Cardinality({e \in S : e <= l[i]}) = i
      BY <1>3
    <3> QED
      BY <2>2, <3>1, <3>2
  <2>3. Nth(n, S) = CHOOSE d \in S : at(d)
    BY DEF Nth
  <2> HIDE DEF at
  <2> QED
    BY <2>1, <2>2, <2>3, Zenon
<1>5. Cardinality(S) = Len(l)
  <2>1. Len(l) \in 0 .. Len(l) /\ S \in SUBSET S
    BY <1>1
  <2>2. \A x \in S : x \in S <=> \E i \in 1 .. Len(l) : l[i] = x
    BY <1>1
  <2> QED
    BY <1>2, <2>1, <2>2, Zenon
<1> QED
  BY <1>4, <1>5

\* A number in a request stands for all the displays or for one.
LEMMA SelTyped ==
    ASSUME NEW j \in Jobs
    PROVE  /\ j.sel \in Seq(0 .. Adapters)
           /\ Len(j.sel) \in Nat
           /\ DOMAIN j.sel = 1 .. Len(j.sel)
           /\ \A i \in 1 .. Len(j.sel) : j.sel[i] \in 0 .. Adapters /\ j.sel[i] \in Nat
<1>1. j.sel \in Seq(0 .. Adapters)
  BY DEF Jobs
<1>2. Len(j.sel) \in Nat /\ DOMAIN j.sel = 1 .. Len(j.sel)
  BY <1>1
<1>3. \A i \in 1 .. Len(j.sel) : j.sel[i] \in 0 .. Adapters
  BY <1>1, ElementOfSeq
<1>4. 0 .. Adapters \subseteq Nat
  BY AdaptersAssumption
<1> QED
  BY <1>1, <1>2, <1>3, <1>4

\* What is selected are displays; for a request that names none on its own,
\* displays that are listed.
LEMMA SelectedListed ==
    ASSUME NEW j \in Jobs, NEW l \in Seq(Devices),
           j.kind \in {"web", "repl"} => Len(j.sel) = 1
    PROVE  /\ Selected(j, l) \in Seq(Devices)
           /\ Names(j) = {} => Range(Selected(j, l)) \subseteq Range(l)
<1>1. CASE j.kind = "web"
  <2>1. Selected(j, l) = Matching(j.sel[1], l) /\ j.sel[1] \in Nat
    BY <1>1, SelTyped DEF Selected
  <2> QED
    BY <2>1, MatchingMembers
<1>2. CASE j.kind = "repl"
  <2>1. j.sel[1] \in Nat
    BY <1>2, SelTyped
  <2>2. CASE j.sel[1] = 0
    BY <1>2, <2>2 DEF Selected
  <2>3. CASE j.sel[1] # 0 /\ j.sel[1] <= Len(l)
    <3>1. Selected(j, l) = <<l[j.sel[1]]>> /\ j.sel[1] \in 1 .. Len(l)
      BY <1>2, <2>1, <2>3 DEF Selected
    <3>2. l[j.sel[1]] \in Devices /\ l[j.sel[1]] \in Range(l)
      BY <3>1, ElementOfSeq, RangeOf
    <3> QED
      BY <3>1, <3>2, RangeShort
  <2>4. CASE j.sel[1] # 0 /\ ~(j.sel[1] <= Len(l))
    BY <1>2, <2>4, RangeShort DEF Selected
  <2> QED
    BY <2>2, <2>3, <2>4
<1>3. CASE j.kind = "hotkey"
  <2>1. CASE j.sel = <<>>
    BY <1>3, <2>1 DEF Selected
  <2>2. CASE j.sel # <<>>
    <3>1. Selected(j, l) = Entries(j.sel, l)
      BY <1>3, <2>2 DEF Selected
    <3>2. Names(j) = {} => \A i \in 1 .. Len(j.sel) : j.sel[i] = 0
      BY <1>3, SelTyped DEF Names
    <3> QED
      BY <3>1, <3>2, EntriesMembers, SelTyped
  <2> QED
    BY <2>1, <2>2
<1>4. CASE j.kind = "current"
  <2>1. CASE l = <<>>
    BY <1>4, <2>1 DEF Selected
  <2>2. CASE l # <<>>
    <3>1. 1 \in 1 .. Len(l)
      BY <2>2, EmptySeq
    <3>2. l[1] \in Devices /\ l[1] \in Range(l)
      BY <3>1, ElementOfSeq, RangeOf
    <3> QED
      BY <1>4, <2>2, <3>2, RangeShort DEF Selected
  <2> QED
    BY <2>1, <2>2
<1>5. CASE j.kind \in {"tray", "status"}
  BY <1>5 DEF Selected
<1>6. CASE j.kind \notin {"web", "repl", "hotkey", "current", "tray", "status"}
  BY <1>6, RangeShort DEF Selected
<1> QED
  BY <1>1, <1>2, <1>3, <1>4, <1>5, <1>6

\* From a list of the attached displays a request selects what it means, and of
\* what it means everything that is attached.
LEMMA SelectedMeant ==
    ASSUME NEW j \in Jobs, NEW l \in Seq(Devices), attached \subseteq Devices,
           Lists(l, attached), Sets(j),
           j.kind \in {"web", "repl"} => Len(j.sel) = 1,
           j.kind = "tray" => j.sel = <<>>
    PROVE  /\ Range(Selected(j, l)) \subseteq Meant(j)
           /\ Meant(j) \intersect attached \subseteq Range(Selected(j, l))
<1>0. Range(l) = attached /\ Devices \subseteq Nat
  BY DEF Lists, Devices
<1>1. CASE j.kind = "web"
  <2>1. /\ Selected(j, l) = Matching(j.sel[1], l)
        /\ Meant(j) = IF j.sel[1] = 0 THEN attached ELSE {j.sel[1] - 1}
        /\ j.sel[1] \in Nat
    BY <1>1, SelTyped DEF Selected, Meant
  <2>2. \A x : x \in Range(Selected(j, l)) <=>
          x \in attached /\ (j.sel[1] = 0 \/ x + 1 = j.sel[1])
    BY <1>0, <2>1, MatchingMembers
  <2>3. \A x \in attached : x + 1 = j.sel[1] <=> x = j.sel[1] - 1
    BY <1>0, <2>1
  <2> QED
    BY <2>1, <2>2, <2>3
<1>2. CASE j.kind = "repl"
  <2>1. /\ Selected(j, l) = IF j.sel[1] = 0 THEN l
                            ELSE IF j.sel[1] <= Len(l) THEN <<l[j.sel[1]]>> ELSE <<>>
        /\ Meant(j) = IF j.sel[1] = 0 THEN attached
                      ELSE IF j.sel[1] <= Cardinality(attached)
                           THEN {Nth(j.sel[1], attached)} ELSE {}
        /\ j.sel[1] \in Nat
    BY <1>2, SelTyped DEF Selected, Meant
  <2>2. l \in Seq(Nat) /\ attached \in SUBSET Nat
    <3>1. \A i \in 1 .. Len(l) : l[i] \in Nat
      BY <1>0, ElementOfSeq
    <3> QED
      BY <1>0, <3>1
  <2>3. Cardinality(attached) = Len(l) /\ \A n \in 1 .. Len(l) : Nth(n, attached) = l[n]
    BY <2>2, NthOfList
  <2>4. CASE j.sel[1] # 0 /\ j.sel[1] <= Len(l)
    <3>1. Nth(j.sel[1], attached) = l[j.sel[1]]
      BY <2>1, <2>3, <2>4
    <3> QED
      BY <2>1, <2>3, <2>4, <3>1, RangeShort
  <2> QED
    BY <1>0, <2>1, <2>3, <2>4, RangeShort
<1>3. CASE j.kind = "hotkey"
  <2>1. CASE j.sel = <<>>
    BY <1>0, <1>3, <2>1 DEF Selected, Meant
  <2>2. CASE j.sel # <<>>
    <3>1. /\ Selected(j, l) = Entries(j.sel, l)
          /\ Meant(j) = UNION {IF j.sel[i] = 0 THEN attached ELSE {j.sel[i] - 1} :
                               i \in 1 .. Len(j.sel)}
      BY <1>3, <2>2 DEF Selected, Meant
    <3>2. \A x : x \in Range(Selected(j, l)) <=>
            \E i \in 1 .. Len(j.sel) : IF j.sel[i] = 0 THEN x \in attached ELSE x = j.sel[i] - 1
      <4>1. j.sel \in Seq(0 .. Adapters)
        BY SelTyped
      <4>2. \A x : x \in Range(Entries(j.sel, l)) <=>
              \E i \in 1 .. Len(j.sel) : IF j.sel[i] = 0 THEN x \in Range(l) ELSE x = j.sel[i] - 1
        BY <4>1, EntriesMembers
      <4> QED
        BY <1>0, <3>1, <4>2, Zenon
    <3>3. \A x : x \in Meant(j) <=>
            \E i \in 1 .. Len(j.sel) : IF j.sel[i] = 0 THEN x \in attached ELSE x = j.sel[i] - 1
      BY <3>1
    <3> QED
      BY <3>2, <3>3, Zenon
  <2> QED
    BY <2>1, <2>2
<1>4. CASE j.kind = "tray"
  BY <1>0, <1>4 DEF Selected, Meant
<1> QED
  BY <1>1, <1>2, <1>3, <1>4 DEF Sets

----------------------------------------------------------------------------
(* The steps of a client that begins a request, whoever it is. *)

\* Client c begins request j, of a shape and in a phase that fits.
Began(c, j) ==
    /\ Begin(c, j)
    /\ j.kind \in {"web", "repl"} => Len(j.sel) = 1
    /\ j.kind = "tray" /\ j.sel # <<>> => Len(j.sel) = 1 /\ j.sel[1] \in 1 .. Len(cached)
    /\ IF j.kind = "release"
       THEN c = Main /\ phase = "running" /\ phase' = "releasing"
       ELSE phase' = phase /\ (phase = "running" \/ (phase = "releasing" /\ c # Main))
    /\ menuOpen' \in BOOLEAN

\* Every request is begun in one of these ways, or is the menu being dismissed.
LEMMA Requested ==
    ASSUME TypeOK, BoundInv, Request
    PROVE  MenuDismissed \/ \E c \in Clients, j \in Jobs : Began(c, j)
<1>0. setting.ramps \subseteq Ramps /\ setting.bindings \subseteq Bindings /\ Linear \in Ramps
  BY SettingsAssumption, RampsAssumption DEF TypeOK
<1>1. ASSUME NEW k \in Kinds, NEW s \in Seq(0 .. Adapters), NEW r \in Ramps
      PROVE  [kind |-> k, sel |-> s, ramp |-> r] \in Jobs
  BY DEF Jobs
<1>2. /\ <<>> \in Seq(0 .. Adapters) /\ Len(<<>>) = 0
      /\ \A n \in 0 .. Adapters : <<n>> \in Seq(0 .. Adapters) /\ Len(<<n>>) = 1 /\ <<n>>[1] = n
  OBVIOUS
<1>3. ASSUME NEW w \in Workers, WebRequest(w)
      PROVE  \E c \in Clients, j \in Jobs : Began(c, j)
  <2>0. phase = "running" /\ phase' = phase /\ menuOpen' \in BOOLEAN /\ w \in Clients
    BY <1>3 DEF WebRequest, TypeOK, Clients
  <2>1. ASSUME NEW n \in 0 .. Adapters, NEW r \in setting.ramps,
               Begin(w, [kind |-> "web", sel |-> <<n>>, ramp |-> r])
        PROVE  \E c \in Clients, j \in Jobs : Began(c, j)
    <3> DEFINE j == [kind |-> "web", sel |-> <<n>>, ramp |-> r]
    <3>1. j \in Jobs
      BY <1>0, <1>1, <1>2 DEF Kinds
    <3>2. Began(w, j)
      BY <1>2, <2>0, <2>1 DEF Began
    <3> QED
      BY <2>0, <3>1, <3>2
  <2>2. ASSUME NEW k \in {"current", "list"},
               Begin(w, [kind |-> k, sel |-> <<>>, ramp |-> Linear])
        PROVE  \E c \in Clients, j \in Jobs : Began(c, j)
    <3> DEFINE j == [kind |-> k, sel |-> <<>>, ramp |-> Linear]
    <3>1. j \in Jobs
      BY <1>0, <1>1, <1>2 DEF Kinds
    <3>2. Began(w, j)
      BY <1>2, <2>0, <2>2 DEF Began
    <3> QED
      BY <2>0, <3>1, <3>2
  <2> QED
    BY <1>3, <2>1, <2>2 DEF WebRequest
<1>4. ASSUME ReplCommand
      PROVE  \E c \in Clients, j \in Jobs : Began(c, j)
  <2>0. phase = "running" /\ phase' = phase /\ menuOpen' \in BOOLEAN /\ Main \in Clients
    BY <1>4 DEF ReplCommand, TypeOK, Clients
  <2>1. ASSUME NEW n \in 0 .. Adapters, NEW r \in setting.ramps,
               Begin(Main, [kind |-> "repl", sel |-> <<n>>, ramp |-> r])
        PROVE  \E c \in Clients, j \in Jobs : Began(c, j)
    <3> DEFINE j == [kind |-> "repl", sel |-> <<n>>, ramp |-> r]
    <3>1. j \in Jobs
      BY <1>0, <1>1, <1>2 DEF Kinds
    <3>2. Began(Main, j)
      BY <1>2, <2>0, <2>1 DEF Began
    <3> QED
      BY <2>0, <3>1, <3>2
  <2>2. ASSUME NEW k \in {"status", "list"},
               Begin(Main, [kind |-> k, sel |-> <<>>, ramp |-> Linear])
        PROVE  \E c \in Clients, j \in Jobs : Began(c, j)
    <3> DEFINE j == [kind |-> k, sel |-> <<>>, ramp |-> Linear]
    <3>1. j \in Jobs
      BY <1>0, <1>1, <1>2 DEF Kinds
    <3>2. Began(Main, j)
      BY <1>2, <2>0, <2>2 DEF Began
    <3> QED
      BY <2>0, <3>1, <3>2
  <2> QED
    BY <1>4, <2>1, <2>2 DEF ReplCommand
<1>5. ASSUME NEW k \in HotkeyThreads, HotkeyPressed(k)
      PROVE  \E c \in Clients, j \in Jobs : Began(c, j)
  <2>0. Alive /\ phase' = phase /\ menuOpen' \in BOOLEAN /\ k \in Clients /\ k # Main
    BY <1>5, ClientsAssumption DEF HotkeyPressed, TypeOK, Clients
  <2>1. PICK b \in setting.bindings, r \in setting.ramps :
            Begin(k, [kind |-> "hotkey", sel |-> b, ramp |-> r])
    BY <1>5 DEF HotkeyPressed
  <2> DEFINE j == [kind |-> "hotkey", sel |-> b, ramp |-> r]
  <2>2. j \in Jobs
    BY <1>0, <1>1, BindingsAssumption DEF Kinds
  <2>3. Began(k, j)
    BY <2>0, <2>1 DEF Began, Alive
  <2> QED
    BY <2>0, <2>2, <2>3
<1>6. ASSUME NEW t \in Trays, MenuRequested(t)
      PROVE  \E c \in Clients, j \in Jobs : Began(c, j)
  <2> DEFINE j == [kind |-> "menu", sel |-> <<>>, ramp |-> Linear]
  <2>1. j \in Jobs
    BY <1>0, <1>1, <1>2 DEF Kinds
  <2>2. Began(t, j)
    BY <1>6 DEF MenuRequested, TypeOK, Began
  <2> QED
    BY <2>1, <2>2 DEF Clients
<1>7. ASSUME NEW t \in Trays, MenuPicked(t)
      PROVE  \E c \in Clients, j \in Jobs : Began(c, j)
  <2>1. PICK s \in {<<>>} \union {<<i>> : i \in 1 .. Len(cached)}, r \in setting.ramps :
            Begin(t, [kind |-> "tray", sel |-> s, ramp |-> r])
    BY <1>7 DEF MenuPicked
  <2> DEFINE j == [kind |-> "tray", sel |-> s, ramp |-> r]
  <2>2. s = <<>> \/ \E i \in 1 .. Len(cached) : s = <<i>> /\ i \in 0 .. Adapters
    BY AdaptersAssumption DEF TypeOK, BoundInv
  <2>3. s \in Seq(0 .. Adapters) /\ (s # <<>> => Len(s) = 1 /\ s[1] \in 1 .. Len(cached))
    BY <1>2, <2>2
  <2>4. j \in Jobs
    BY <1>0, <1>1, <2>3 DEF Kinds
  <2>5. Began(t, j)
    BY <1>7, <2>1, <2>3 DEF MenuPicked, Began
  <2> QED
    BY <2>4, <2>5 DEF Clients
<1>8. ASSUME BeginRelease
      PROVE  \E c \in Clients, j \in Jobs : Began(c, j)
  <2> DEFINE j == [kind |-> "release", sel |-> <<>>, ramp |-> Linear]
  <2>1. j \in Jobs
    BY <1>0, <1>1, <1>2 DEF Kinds
  <2>2. Began(Main, j)
    BY <1>8 DEF BeginRelease, Began
  <2> QED
    BY <2>1, <2>2 DEF Clients
<1> QED
  BY <1>3, <1>4, <1>5, <1>6, <1>7, <1>8 DEF Request

----------------------------------------------------------------------------
(* The types, and the parts of the invariant about requests. *)

\* What a client that sets a ramp changes: one display, or what it reports.
LEMMA SetRampTyped ==
    ASSUME TypeOK, NEW c \in Clients, NEW d \in Devices, NEW r \in Ramps, SetRamp(c, d, r)
    PROVE  lut' \in [Devices -> Ramps] /\ failed' \in [Clients -> SUBSET Devices]
BY DEF SetRamp, TypeOK

\* No request, step of a client or display that moves leaves the declared sets.
LEMMA TypeStep ==
    ASSUME TypeOK, BoundInv, JobInv, [Next]_vars
    PROVE  TypeOK'
<1> USE DEF TypeOK, ClientAt, ClientTo, jobVars, trayVars, histVars, Alive, Phases, PCs
<1>0. Linear \in Ramps /\ Devices \subseteq Nat /\ <<>> \in Seq(Devices)
  BY RampsAssumption DEF Devices
<1>1. CASE MenuDismissed
  BY <1>1 DEF MenuDismissed
<1>2. ASSUME NEW c \in Clients, NEW j \in Jobs, Began(c, j) PROVE TypeOK'
  <2> USE <1>0, <1>2 DEF Began, Begin
  <2>1. phase' \in Phases /\ moved' \in SUBSET Devices
    OBVIOUS
  <2>2. targets' \in [Clients -> Seq(Devices)]
    <3>1. CASE j.kind = "tray" /\ j.sel # <<>>
      <4>1. <<cached[j.sel[1]]>> \in Seq(Devices)
        BY <3>1, ElementOfSeq
      <4> QED
        BY <3>1, <4>1
    <3>2. CASE ~(j.kind = "tray" /\ j.sel # <<>>)
      BY <3>2
    <3> QED
      BY <3>1, <3>2
  <2>3. pc' \in [Clients -> PCs] /\ list' \in [Clients -> Seq(Devices)]
    OBVIOUS
  <2>4. job' \in [Clients -> Jobs] /\ cursor' \in [Clients -> Nat]
        /\ failed' \in [Clients -> SUBSET Devices] /\ before' \in [Devices -> Ramps]
    OBVIOUS
  <2> QED
    BY <2>1, <2>2, <2>3, <2>4
<1>3. ASSUME NEW c \in Clients, Clear(c) PROVE TypeOK'
  BY <1>3 DEF Clear
<1>4. ASSUME NEW c \in Clients, Probe(c) PROVE TypeOK'
  <2>1. list' \in [Clients -> Seq(Devices)] /\ table' \in SUBSET Devices
    <3>1. CASE cursor[c] \in attached
      <4>1. Append(list[c], cursor[c]) \in Seq(Devices)
        BY <3>1, AppendProperties
      <4> QED
        BY <1>4, <3>1, <4>1 DEF Probe, Key
    <3>2. CASE cursor[c] \notin attached
      BY <1>4, <3>2 DEF Probe
    <3> QED
      BY <3>1, <3>2
  <2>2. cursor' \in [Clients -> Nat]
    BY <1>4 DEF Probe
  <2> QED
    BY <1>4, <2>1, <2>2 DEF Probe
<1>5. ASSUME NEW c \in Clients, Listed(c) PROVE TypeOK'
  <2>1. Selected(job[c], list[c]) \in Seq(Devices)
    <3>1. job[c].kind \in {"web", "repl"} => Len(job[c].sel) = 1
      BY <1>5 DEF Listed, JobInv, Busy
    <3> QED
      BY <3>1, SelectedListed
  <2>2. CASE job[c].kind = "release"
    <3>1. pc' = [pc EXCEPT ![c] = "resetting"] /\ cursor' = [cursor EXCEPT ![c] = 0]
      BY <1>5, <2>2 DEF Listed
    <3>2. UNCHANGED <<targets, trayVars>>
      BY <1>5, <2>2 DEF Listed
    <3> QED
      BY <1>5, <3>1, <3>2 DEF Listed
  <2>3. CASE job[c].kind = "menu"
    <3>1. pc' = [pc EXCEPT ![c] = "apply"] /\ cached' = list[c] /\ menuOpen' = TRUE
      BY <1>5, <2>3 DEF Listed
    <3>2. UNCHANGED <<targets, cursor>>
      BY <1>5, <2>3 DEF Listed
    <3> QED
      BY <1>5, <3>1, <3>2 DEF Listed
  <2>4. CASE job[c].kind \notin {"release", "menu"}
    BY <1>5, <2>1, <2>4 DEF Listed
  <2> QED
    BY <2>2, <2>3, <2>4
<1>6. ASSUME NEW c \in Clients, Apply(c) PROVE TypeOK'
  <2>1. Head(targets[c]) \in Devices /\ Tail(targets[c]) \in Seq(Devices)
    BY <1>6, HeadTailProperties DEF Apply
  <2>2. RampOf(job[c]) \in Ramps
    BY <1>0 DEF RampOf, Jobs
  <2>3. lut' \in [Devices -> Ramps] /\ failed' \in [Clients -> SUBSET Devices]
    BY <1>6, <2>1, <2>2, SetRampTyped DEF Apply
  <2>4. targets' \in [Clients -> Seq(Devices)]
    BY <1>6, <2>1 DEF Apply
  <2> QED
    BY <1>6, <2>3, <2>4 DEF Apply
<1>7. ASSUME NEW c \in Clients, LookupThrows(c) PROVE TypeOK'
  BY <1>7 DEF LookupThrows
<1>8. ASSUME NEW c \in Clients, Finish(c) PROVE TypeOK'
  <2>1. NoJob \in Jobs
    BY <1>0 DEF NoJob, Jobs, Kinds
  <2> QED
    BY <1>0, <1>8, <2>1 DEF Finish
<1>9. ASSUME NEW c \in Clients, ResetNext(c) PROVE TypeOK'
  <2>1. PICK d \in Ahead(c) : SetRamp(c, d, Linear) /\ cursor' = [cursor EXCEPT ![c] = d + 1]
    BY <1>9 DEF ResetNext
  <2>2. d \in Devices /\ d + 1 \in Nat
    BY <1>0 DEF Ahead
  <2>3. lut' \in [Devices -> Ramps] /\ failed' \in [Clients -> SUBSET Devices]
    BY <1>0, <2>1, <2>2, SetRampTyped
  <2> QED
    BY <1>9, <2>1, <2>2, <2>3 DEF ResetNext
<1>10. ASSUME NEW c \in Clients, ResetDone(c) PROVE TypeOK'
  BY <1>10 DEF ResetDone
<1>11. CASE Joined
  BY <1>11 DEF Joined
<1>12. ASSUME NEW d \in Devices, Plug(d) \/ Unplug(d) PROVE TypeOK'
  BY <1>0, <1>12 DEF Plug, Unplug
<1>13. CASE UNCHANGED vars
  BY <1>13 DEF vars
<1> QED
  <2> HIDE DEF TypeOK
  <2> QED
    BY <1>1, <1>2, <1>3, <1>4, <1>5, <1>6, <1>7, <1>8, <1>9, <1>10, <1>11, <1>12, <1>13, Requested
    DEF Next, PanelStep, Gone

\* displays() returns to release(), to the menu, or to a request that goes on.
LEMMA ListedCases ==
    ASSUME TypeOK, NEW c \in Clients, Listed(c)
    PROVE  /\ UNCHANGED <<setting, phase, attached, lut, table, job, list, failed, before, moved>>
           /\ pc[c] = "enum" /\ cursor[c] = Adapters
           /\ pc'[c] = IF job[c].kind = "release" THEN "resetting" ELSE "apply"
           /\ \A e \in Clients : e # c =>
                pc'[e] = pc[e] /\ targets'[e] = targets[e] /\ cursor'[e] = cursor[e]
           /\ \/ /\ job[c].kind = "release"
                 /\ pc' = [pc EXCEPT ![c] = "resetting"]
                 /\ cursor' = [cursor EXCEPT ![c] = 0]
                 /\ UNCHANGED <<targets, cached, menuOpen>>
              \/ /\ job[c].kind = "menu"
                 /\ pc' = [pc EXCEPT ![c] = "apply"]
                 /\ cached' = list[c]
                 /\ UNCHANGED <<targets, cursor>>
              \/ /\ job[c].kind \notin {"release", "menu"}
                 /\ pc' = [pc EXCEPT ![c] = "apply"]
                 /\ targets' = [targets EXCEPT ![c] = Selected(job[c], list[c])]
                 /\ UNCHANGED <<cursor, cached, menuOpen>>
<1> USE DEF TypeOK, Listed, ClientAt, ClientTo, trayVars, histVars
<1>1. CASE job[c].kind = "release"
  BY <1>1
<1>2. CASE job[c].kind = "menu"
  BY <1>2
<1>3. CASE job[c].kind \notin {"release", "menu"}
  BY <1>3
<1> QED
  BY <1>1, <1>2, <1>3

\* An enumeration lists no more displays than it has come past.
LEMMA BoundStep ==
    ASSUME TypeOK, TypeOK', BoundInv, JobInv, [Next]_vars
    PROVE  BoundInv'
<1> USE DEF TypeOK, BoundInv, ClientAt, ClientTo, jobVars, trayVars, histVars, Alive
<1>0. Len(<<>>) = 0 /\ Adapters \in Nat /\ \A c \in Clients : Len(list[c]) \in Nat
  BY AdaptersAssumption
<1>1. CASE MenuDismissed
  BY <1>1 DEF MenuDismissed
<1>2. ASSUME NEW c \in Clients, NEW j \in Jobs, Began(c, j) PROVE BoundInv'
  BY <1>0, <1>2 DEF Began, Begin
<1>3. ASSUME NEW c \in Clients, Clear(c) PROVE BoundInv'
  BY <1>3 DEF Clear
<1>4. ASSUME NEW c \in Clients, Probe(c) PROVE BoundInv'
  <2>1. UNCHANGED <<cached, pc>>
    BY <1>4 DEF Probe
  <2>2. cursor' = [cursor EXCEPT ![c] = @ + 1] /\ cursor[c] < Adapters /\ pc[c] = "enum"
    BY <1>4 DEF Probe
  <2>3. Len(list'[c]) \in {Len(list[c]), Len(list[c]) + 1}
    <3>1. CASE cursor[c] \in attached
      <4>1. Len(Append(list[c], cursor[c])) = Len(list[c]) + 1
        BY <3>1, AppendProperties
      <4> QED
        BY <1>4, <3>1, <4>1 DEF Probe
    <3>2. CASE cursor[c] \notin attached
      BY <1>4, <3>2 DEF Probe
    <3> QED
      BY <3>1, <3>2
  <2>4. \A e \in Clients : e # c => list'[e] = list[e]
    BY <1>4 DEF Probe
  <2> QED
    BY <1>0, <2>1, <2>2, <2>3, <2>4
<1>5. ASSUME NEW c \in Clients, Listed(c) PROVE BoundInv'
  <2>1. Len(list[c]) <= Adapters
    BY <1>5, ListedCases
  <2>2. Len(cached') <= Adapters
    BY <1>5, <2>1, ListedCases
  <2>3. \A e \in Clients : pc'[e] \in {"clear", "enum"} =>
           pc'[e] = pc[e] /\ list'[e] = list[e] /\ cursor'[e] = cursor[e]
    BY <1>5, ListedCases
  <2> QED
    BY <2>2, <2>3
<1>6. ASSUME NEW c \in Clients, Apply(c) PROVE BoundInv'
  BY <1>6 DEF Apply
<1>7. ASSUME NEW c \in Clients, LookupThrows(c) PROVE BoundInv'
  BY <1>7 DEF LookupThrows
<1>8. ASSUME NEW c \in Clients, Finish(c) PROVE BoundInv'
  BY <1>8 DEF Finish
<1>9. ASSUME NEW c \in Clients, ResetNext(c) PROVE BoundInv'
  BY <1>9 DEF ResetNext
<1>10. ASSUME NEW c \in Clients, ResetDone(c) PROVE BoundInv'
  BY <1>10 DEF ResetDone
<1>11. CASE Joined
  BY <1>11 DEF Joined
<1>12. ASSUME NEW d \in Devices, Plug(d) \/ Unplug(d) PROVE BoundInv'
  BY <1>12 DEF Plug, Unplug
<1>13. CASE UNCHANGED vars
  BY <1>13 DEF vars
<1> QED
  <2> HIDE DEF TypeOK, BoundInv
  <2> QED
    BY <1>1, <1>2, <1>3, <1>4, <1>5, <1>6, <1>7, <1>8, <1>9, <1>10, <1>11, <1>12, <1>13, Requested
    DEF Next, PanelStep, Gone

\* A request keeps the shape its client gave it until it is over.
LEMMA JobStep ==
    ASSUME TypeOK, TypeOK', BoundInv, JobInv, [Next]_vars
    PROVE  JobInv'
<1> USE DEF TypeOK, JobInv, Busy, ClientAt, ClientTo, jobVars, trayVars, histVars, Alive
<1>1. CASE MenuDismissed
  BY <1>1 DEF MenuDismissed
<1>2. ASSUME NEW c \in Clients, NEW j \in Jobs, Began(c, j) PROVE JobInv'
  <2>1. \A e \in Clients : e # c =>
            /\ pc'[e] = pc[e] /\ job'[e] = job[e] /\ list'[e] = list[e]
            /\ targets'[e] = targets[e] /\ cursor'[e] = cursor[e]
    BY <1>2 DEF Began, Begin
  <2>2. /\ job'[c] = j /\ list'[c] = <<>> /\ cursor'[c] = 0
        /\ j.kind \in {"web", "repl"} => Len(j.sel) = 1
    BY <1>2 DEF Began, Begin
  <2>3. CASE j.kind = "tray" /\ j.sel # <<>>
    BY <1>2, <2>1, <2>2, <2>3 DEF Began, Begin
  <2>4. CASE ~(j.kind = "tray" /\ j.sel # <<>>)
    BY <1>2, <2>1, <2>2, <2>4 DEF Began, Begin
  <2> QED
    BY <2>3, <2>4
<1>3. ASSUME NEW c \in Clients, Clear(c) PROVE JobInv'
  BY <1>3 DEF Clear
<1>4. ASSUME NEW c \in Clients, Probe(c) PROVE JobInv'
  <2>1. UNCHANGED <<pc, job, targets>> /\ pc[c] = "enum"
    BY <1>4 DEF Probe
  <2>2. \A e \in Clients : e # c => list'[e] = list[e] /\ cursor'[e] = cursor[e]
    BY <1>4 DEF Probe
  <2> QED
    BY <2>1, <2>2
<1>5. ASSUME NEW c \in Clients, Listed(c) PROVE JobInv'
  <2>1. /\ UNCHANGED <<job, list>> /\ pc[c] = "enum" /\ pc'[c] \in {"apply", "resetting"}
        /\ \A e \in Clients : e # c =>
              pc'[e] = pc[e] /\ targets'[e] = targets[e] /\ cursor'[e] = cursor[e]
    <3> HIDE DEF TypeOK, JobInv
    <3> QED
      BY <1>5, ListedCases, Zenon
  <2> QED
    BY <2>1
<1>6. ASSUME NEW c \in Clients, Apply(c) PROVE JobInv'
  BY <1>6 DEF Apply
<1>7. ASSUME NEW c \in Clients, LookupThrows(c) PROVE JobInv'
  BY <1>7 DEF LookupThrows
<1>8. ASSUME NEW c \in Clients, Finish(c) PROVE JobInv'
  BY <1>8 DEF Finish
<1>9. ASSUME NEW c \in Clients, ResetNext(c) PROVE JobInv'
  BY <1>9 DEF ResetNext
<1>10. ASSUME NEW c \in Clients, ResetDone(c) PROVE JobInv'
  BY <1>10 DEF ResetDone
<1>11. CASE Joined
  BY <1>11 DEF Joined
<1>12. ASSUME NEW d \in Devices, Plug(d) \/ Unplug(d) PROVE JobInv'
  BY <1>12 DEF Plug, Unplug
<1>13. CASE UNCHANGED vars
  BY <1>13 DEF vars
<1> QED
  <2> HIDE DEF TypeOK, JobInv
  <2> QED
    BY <1>1, <1>2, <1>3, <1>4, <1>5, <1>6, <1>7, <1>8, <1>9, <1>10, <1>11, <1>12, <1>13, Requested
    DEF Next, PanelStep, Gone

\* Where requests come one at a time, a client begins one only when nobody is at work.
LEMMA OneBusyStep ==
    ASSUME TypeOK, TypeOK', BoundInv, OneBusy, [Next]_vars
    PROVE  OneBusy'
<1> USE DEF TypeOK, OneBusy, Busy, ClientAt, ClientTo, jobVars, trayVars, histVars, Alive
<1>1. CASE MenuDismissed
  BY <1>1 DEF MenuDismissed
<1>2. ASSUME NEW c \in Clients, NEW j \in Jobs, Began(c, j) PROVE OneBusy'
  BY <1>2 DEF Began, Begin, Quiet
<1>3. ASSUME NEW c \in Clients, PanelStep(c) PROVE OneBusy'
  <2>1. setting' = setting /\ Busy(c) /\ \A e \in Clients : e # c => pc'[e] = pc[e]
    <3>1. CASE Listed(c)
      <4>1. setting' = setting /\ pc[c] = "enum" /\ \A e \in Clients : e # c => pc'[e] = pc[e]
        <5> HIDE DEF TypeOK, OneBusy
        <5> QED
          BY <3>1, ListedCases, Zenon
      <4> QED
        BY <4>1
    <3>2. CASE Clear(c) \/ Probe(c) \/ Apply(c) \/ LookupThrows(c)
      BY <3>2 DEF Clear, Probe, Apply, LookupThrows
    <3>3. CASE Finish(c) \/ ResetNext(c) \/ ResetDone(c)
      BY <3>3 DEF Finish, ResetNext, ResetDone
    <3> QED
      BY <1>3, <3>1, <3>2, <3>3 DEF PanelStep
  <2> QED
    BY <2>1
<1>4. CASE Joined
  BY <1>4 DEF Joined
<1>5. ASSUME NEW d \in Devices, Plug(d) \/ Unplug(d) PROVE OneBusy'
  BY <1>5 DEF Plug, Unplug
<1>6. CASE UNCHANGED vars
  BY <1>6 DEF vars
<1> QED
  <2> HIDE DEF TypeOK, OneBusy
  <2> QED
    BY <1>1, <1>2, <1>3, <1>4, <1>5, <1>6, Requested DEF Next, Gone

\* Only the main thread releases, once, and does nothing else from then on.
LEMMA ReleaseStep ==
    ASSUME TypeOK, TypeOK', BoundInv, ReleaseInv, [Next]_vars
    PROVE  ReleaseInv'
<1> USE DEF TypeOK, ReleaseInv, Busy, ClientAt, ClientTo, jobVars, trayVars, histVars, Alive
<1>0. Main \in Clients
  BY DEF Clients
<1>1. CASE MenuDismissed
  BY <1>1 DEF MenuDismissed
<1>2. ASSUME NEW c \in Clients, NEW j \in Jobs, Began(c, j) PROVE ReleaseInv'
  <2>1. /\ \A e \in Clients : e # c => pc'[e] = pc[e] /\ job'[e] = job[e]
        /\ job'[c] = j /\ pc'[c] \in {"apply", "clear"}
        /\ j.kind = "release" => pc'[c] = "clear"
    BY <1>2 DEF Began, Begin
  <2>2. IF j.kind = "release"
        THEN c = Main /\ phase = "running" /\ phase' = "releasing"
        ELSE phase' = phase /\ (phase = "running" \/ (phase = "releasing" /\ c # Main))
    BY <1>2 DEF Began
  <2> QED
    BY <1>0, <2>1, <2>2
<1>3. ASSUME NEW c \in Clients, Clear(c) PROVE ReleaseInv'
  BY <1>3 DEF Clear
<1>4. ASSUME NEW c \in Clients, Probe(c) PROVE ReleaseInv'
  BY <1>4 DEF Probe
<1>5. ASSUME NEW c \in Clients, Listed(c) PROVE ReleaseInv'
  BY <1>0, <1>5, ListedCases
<1>6. ASSUME NEW c \in Clients, Apply(c) PROVE ReleaseInv'
  BY <1>6 DEF Apply
<1>7. ASSUME NEW c \in Clients, LookupThrows(c) PROVE ReleaseInv'
  BY <1>0, <1>7 DEF LookupThrows
<1>8. ASSUME NEW c \in Clients, Finish(c) PROVE ReleaseInv'
  BY <1>0, <1>8 DEF Finish
<1>9. ASSUME NEW c \in Clients, ResetNext(c) PROVE ReleaseInv'
  BY <1>9 DEF ResetNext
<1>10. ASSUME NEW c \in Clients, ResetDone(c) PROVE ReleaseInv'
  BY <1>0, <1>10 DEF ResetDone
<1>11. CASE Joined
  BY <1>0, <1>11 DEF Joined
<1>12. ASSUME NEW d \in Devices, Plug(d) \/ Unplug(d) PROVE ReleaseInv'
  BY <1>12 DEF Plug, Unplug
<1>13. CASE UNCHANGED vars
  BY <1>13 DEF vars
<1> QED
  <2> HIDE DEF TypeOK, ReleaseInv
  <2> QED
    BY <1>1, <1>2, <1>3, <1>4, <1>5, <1>6, <1>7, <1>8, <1>9, <1>10, <1>11, <1>12, <1>13, Requested
    DEF Next, PanelStep, Gone

----------------------------------------------------------------------------
(* The parts of the invariant about the table. *)

\* While nobody empties the table every steady display is in it, or on its way.
LEMMA CoverStep ==
    ASSUME TypeOK, TypeOK', BoundInv, JobInv, CoverInv, [Next]_vars
    PROVE  CoverInv'
<1> USE DEF CoverInv, Untouched, Refilling, Steady, ClientAt, ClientTo, jobVars, trayVars,
        histVars, Alive
<1>1. CASE MenuDismissed
  BY <1>1 DEF MenuDismissed
<1>2. ASSUME NEW c \in Clients, NEW j \in Jobs, Began(c, j) PROVE CoverInv'
  <2>1. /\ UNCHANGED <<attached, table>>
        /\ \A e \in Clients : e # c =>
             pc'[e] = pc[e] /\ list'[e] = list[e] /\ cursor'[e] = cursor[e]
        /\ pc[c] \in {"idle", "thrown"}
        /\ pc'[c] = "clear" \/ (pc'[c] = "apply" /\ list'[c] = <<>>)
        /\ moved' = moved \/ Quiet
    BY <1>2 DEF Began, Begin, TypeOK
  <2>2. CASE moved' = moved
    BY <2>1, <2>2
  <2>3. CASE Quiet
    BY <2>1, <2>3 DEF Quiet
  <2> QED
    BY <2>1, <2>2, <2>3
<1>3. ASSUME NEW c \in Clients, Clear(c) PROVE CoverInv'
  <2>1. /\ UNCHANGED <<attached, moved, cursor>> /\ pc'[c] = "enum" /\ cursor[c] = 0
    BY <1>3 DEF Clear, TypeOK, JobInv, Busy
  <2>2. \A d \in Steady' : ~(d < 0)
    BY <2>1 DEF TypeOK, Devices
  <2> QED
    BY <2>1, <2>2
<1>4. ASSUME NEW c \in Clients, Probe(c) PROVE CoverInv'
  <2>1. /\ UNCHANGED <<attached, moved, pc>> /\ pc[c] = "enum"
        /\ table' = IF cursor[c] \in attached THEN table \union {cursor[c]} ELSE table
        /\ cursor'[c] = cursor[c] + 1
        /\ \A e \in Clients : e # c => cursor'[e] = cursor[e]
    BY <1>4 DEF Probe, Key, TypeOK
  <2>2. CASE Refilling
    <3>1. PICK e \in Clients : pc[e] = "enum" /\ \A d \in Steady : d < cursor[e] => d \in table
      BY <2>2
    <3>2. \A d \in Steady : d < cursor'[e] => d \in table'
      <4>1. CASE e = c
        <5>1. \A d \in Steady : d < cursor[c] + 1 => d < cursor[c] \/ d = cursor[c]
          BY DEF TypeOK, Devices
        <5> QED
          BY <2>1, <3>1, <4>1, <5>1
      <4>2. CASE e # c
        BY <2>1, <3>1, <4>2
      <4> QED
        BY <4>1, <4>2
    <3> QED
      BY <2>1, <3>1, <3>2
  <2>3. CASE Steady \subseteq table
    BY <2>1, <2>3
  <2> QED
    BY <2>1, <2>2, <2>3
<1>5. ASSUME NEW c \in Clients, Listed(c) PROVE CoverInv'
  <2>1. /\ UNCHANGED <<attached, table, moved>> /\ pc[c] = "enum" /\ cursor[c] = Adapters
        /\ \A e \in Clients : e # c => pc'[e] = pc[e] /\ cursor'[e] = cursor[e]
    BY <1>5, ListedCases, Zenon
  <2>2. \A d \in Steady : d < Adapters
    BY AdaptersAssumption DEF TypeOK, Devices
  <2> QED
    BY <2>1, <2>2
<1>6. ASSUME NEW c \in Clients, Apply(c) PROVE CoverInv'
  BY <1>6 DEF Apply
<1>7. ASSUME NEW c \in Clients, LookupThrows(c) PROVE CoverInv'
  BY <1>7 DEF LookupThrows, TypeOK
<1>8. ASSUME NEW c \in Clients, Finish(c) PROVE CoverInv'
  BY <1>8 DEF Finish, TypeOK
<1>9. ASSUME NEW c \in Clients, ResetNext(c) PROVE CoverInv'
  BY <1>9 DEF ResetNext
<1>10. ASSUME NEW c \in Clients, ResetDone(c) PROVE CoverInv'
  BY <1>10 DEF ResetDone, TypeOK
<1>11. CASE Joined
  BY <1>11 DEF Joined
<1>12. ASSUME NEW d \in Devices, Plug(d) \/ Unplug(d) PROVE CoverInv'
  BY <1>12 DEF Plug, Unplug
<1>13. CASE UNCHANGED vars
  BY <1>13 DEF vars
<1> QED
  <2> HIDE DEF CoverInv
  <2> QED
    BY <1>1, <1>2, <1>3, <1>4, <1>5, <1>6, <1>7, <1>8, <1>9, <1>10, <1>11, <1>12, <1>13, Requested
    DEF Next, PanelStep, Gone

\* A display listed is attached or has moved, and stays in the table while nobody
\* else enumerates.
LEMMA ListStep ==
    ASSUME TypeOK, TypeOK', BoundInv, JobInv, OneBusy, ListInv, [Next]_vars
    PROVE  ListInv'
<1> USE DEF ListInv, ClientAt, ClientTo, jobVars, trayVars, histVars, Alive
<1>1. CASE MenuDismissed
  BY <1>1 DEF MenuDismissed
<1>2. ASSUME NEW c \in Clients, NEW j \in Jobs, Began(c, j) PROVE ListInv'
  <2>1. /\ UNCHANGED <<attached, table, setting>>
        /\ \A e \in Clients : e # c => pc'[e] = pc[e] /\ list'[e] = list[e]
        /\ list'[c] = <<>>
        /\ moved' = moved \/ Quiet
    BY <1>2 DEF Began, Begin, TypeOK
  <2>2. ASSUME NEW e \in Clients, pc'[e] \in {"enum", "apply"}
        PROVE  /\ Range(list'[e]) \subseteq attached' \union moved'
               /\ ~setting.overlap => Range(list'[e]) \subseteq table'
    <3>1. CASE e = c
      BY <2>1, <3>1, RangeShort
    <3>2. CASE e # c
      <4>1. moved' = moved
        BY <2>1, <2>2, <3>2 DEF Quiet
      <4> QED
        BY <2>1, <2>2, <3>2, <4>1
    <3> QED
      BY <3>1, <3>2
  <2> QED
    BY <2>1, <2>2
<1>3. ASSUME NEW c \in Clients, Clear(c) PROVE ListInv'
  <2>1. /\ UNCHANGED <<attached, moved, list, setting>> /\ pc[c] = "clear" /\ list[c] = <<>>
        /\ \A e \in Clients : e # c => pc'[e] = pc[e]
    BY <1>3 DEF Clear, TypeOK, JobInv, Busy
  <2>2. \A e \in Clients : e # c /\ ~setting.overlap => pc[e] \in {"idle", "thrown"}
    BY <2>1 DEF OneBusy, Busy
  <2> QED
    BY <2>1, <2>2, RangeShort
<1>4. ASSUME NEW c \in Clients, Probe(c) PROVE ListInv'
  <2>1. /\ UNCHANGED <<attached, moved, pc, setting>> /\ pc[c] = "enum"
        /\ table' = IF cursor[c] \in attached THEN table \union {cursor[c]} ELSE table
        /\ list'[c] = IF cursor[c] \in attached THEN Append(list[c], cursor[c]) ELSE list[c]
        /\ \A e \in Clients : e # c => list'[e] = list[e]
    BY <1>4 DEF Probe, Key, TypeOK
  <2>2. cursor[c] \in attached => Range(list'[c]) = Range(list[c]) \union {cursor[c]}
    BY <2>1, RangeAppend DEF TypeOK
  <2> QED
    BY <2>1, <2>2
<1>5. ASSUME NEW c \in Clients, Listed(c) PROVE ListInv'
  <2>1. /\ UNCHANGED <<attached, table, moved, list, setting>> /\ pc[c] = "enum"
        /\ \A e \in Clients : e # c => pc'[e] = pc[e]
    BY <1>5, ListedCases, Zenon
  <2> QED
    BY <2>1
<1>6. ASSUME NEW c \in Clients, Apply(c) PROVE ListInv'
  BY <1>6 DEF Apply
<1>7. ASSUME NEW c \in Clients, LookupThrows(c) PROVE ListInv'
  BY <1>7 DEF LookupThrows, TypeOK
<1>8. ASSUME NEW c \in Clients, Finish(c) PROVE ListInv'
  BY <1>8 DEF Finish, TypeOK
<1>9. ASSUME NEW c \in Clients, ResetNext(c) PROVE ListInv'
  BY <1>9 DEF ResetNext
<1>10. ASSUME NEW c \in Clients, ResetDone(c) PROVE ListInv'
  BY <1>10 DEF ResetDone, TypeOK
<1>11. CASE Joined
  BY <1>11 DEF Joined
<1>12. ASSUME NEW d \in Devices, Plug(d) \/ Unplug(d) PROVE ListInv'
  BY <1>12 DEF Plug, Unplug
<1>13. CASE UNCHANGED vars
  BY <1>13 DEF vars
<1> QED
  <2> HIDE DEF ListInv
  <2> QED
    BY <1>1, <1>2, <1>3, <1>4, <1>5, <1>6, <1>7, <1>8, <1>9, <1>10, <1>11, <1>12, <1>13, Requested
    DEF Next, PanelStep, Gone

\* What is still to be set was listed.
LEMMA TargetStep ==
    ASSUME TypeOK, TypeOK', BoundInv, JobInv, TargetInv, [Next]_vars
    PROVE  TargetInv'
<1> USE DEF TargetInv, ClientAt, ClientTo, jobVars, trayVars, histVars, Alive
<1>1. CASE MenuDismissed
  BY <1>1 DEF MenuDismissed
<1>2. ASSUME NEW c \in Clients, NEW j \in Jobs, Began(c, j) PROVE TargetInv'
  <2>1. /\ \A e \in Clients : e # c =>
             pc'[e] = pc[e] /\ job'[e] = job[e] /\ list'[e] = list[e] /\ targets'[e] = targets[e]
        /\ list'[c] = <<>>
    BY <1>2 DEF Began, Begin, TypeOK
  <2>2. \A e \in Clients : e # c => Names(job[e])' = Names(job[e])
    BY <2>1 DEF Names
  <2> QED
    BY <2>1, <2>2 DEF Names
<1>3. ASSUME NEW c \in Clients, Clear(c) PROVE TargetInv'
  <2>1. UNCHANGED <<job, list, targets>> /\ \A e \in Clients : pc'[e] = "apply" => pc[e] = "apply"
    BY <1>3 DEF Clear, TypeOK
  <2> QED
    BY <2>1 DEF Names
<1>4. ASSUME NEW c \in Clients, Probe(c) PROVE TargetInv'
  <2>1. UNCHANGED <<pc, job, targets>> /\ pc[c] = "enum"
        /\ \A e \in Clients : e # c => list'[e] = list[e]
    BY <1>4 DEF Probe, TypeOK
  <2> QED
    BY <2>1 DEF Names
<1>5. ASSUME NEW c \in Clients, Listed(c) PROVE TargetInv'
  <2>1. /\ UNCHANGED <<job, list>> /\ pc[c] = "enum"
        /\ \A e \in Clients : e # c => pc'[e] = pc[e] /\ targets'[e] = targets[e]
    BY <1>5, ListedCases, Zenon
  <2>2. ASSUME pc'[c] = "apply", Names(job[c]) = {}
        PROVE  Range(targets'[c]) \subseteq Range(list[c])
    <3>1. targets[c] = <<>> /\ (job[c].kind \in {"web", "repl"} => Len(job[c].sel) = 1)
      BY <2>1 DEF JobInv, Busy
    <3>2. targets'[c] \in {targets[c], Selected(job[c], list[c])}
      BY <1>5, <2>2, ListedCases DEF TypeOK
    <3>3. job[c] \in Jobs /\ list[c] \in Seq(Devices)
      BY DEF TypeOK
    <3>4. Range(Selected(job[c], list[c])) \subseteq Range(list[c])
      BY <2>2, <3>1, <3>3, SelectedListed
    <3> QED
      BY <3>1, <3>2, <3>4, RangeShort
  <2> QED
    BY <2>1, <2>2 DEF Names
<1>6. ASSUME NEW c \in Clients, Apply(c) PROVE TargetInv'
  <2>1. /\ UNCHANGED <<pc, job, list>> /\ targets[c] # <<>> /\ targets'[c] = Tail(targets[c])
        /\ \A e \in Clients : e # c => targets'[e] = targets[e]
    BY <1>6 DEF Apply, TypeOK
  <2>2. Range(targets'[c]) \subseteq Range(targets[c])
    BY <2>1, RangeHeadTail DEF TypeOK
  <2> QED
    BY <2>1, <2>2 DEF Names
<1>7. ASSUME NEW c \in Clients, LookupThrows(c) PROVE TargetInv'
  <2>1. UNCHANGED <<job, list, targets>> /\ \A e \in Clients : pc'[e] = "apply" => pc[e] = "apply"
    BY <1>7 DEF LookupThrows, TypeOK
  <2> QED
    BY <2>1 DEF Names
<1>8. ASSUME NEW c \in Clients, Finish(c) PROVE TargetInv'
  <2>1. /\ pc'[c] = "idle" /\ targets' = targets
        /\ \A e \in Clients : e # c => pc'[e] = pc[e] /\ job'[e] = job[e] /\ list'[e] = list[e]
    BY <1>8 DEF Finish, TypeOK
  <2> QED
    BY <2>1 DEF Names
<1>9. ASSUME NEW c \in Clients, ResetNext(c) PROVE TargetInv'
  BY <1>9 DEF ResetNext, Names
<1>10. ASSUME NEW c \in Clients, ResetDone(c) PROVE TargetInv'
  <2>1. UNCHANGED <<job, list, targets>> /\ \A e \in Clients : pc'[e] = "apply" => pc[e] = "apply"
    BY <1>10 DEF ResetDone, TypeOK
  <2> QED
    BY <2>1 DEF Names
<1>11. CASE Joined
  BY <1>11 DEF Joined, Names
<1>12. ASSUME NEW d \in Devices, Plug(d) \/ Unplug(d) PROVE TargetInv'
  BY <1>12 DEF Plug, Unplug, Names
<1>13. CASE UNCHANGED vars
  BY <1>13 DEF vars, Names
<1> QED
  <2> HIDE DEF TargetInv
  <2> QED
    BY <1>1, <1>2, <1>3, <1>4, <1>5, <1>6, <1>7, <1>8, <1>9, <1>10, <1>11, <1>12, <1>13, Requested
    DEF Next, PanelStep, Gone

----------------------------------------------------------------------------
(* The parts of the invariant about ramps, for requests one at a time. *)

\* While nobody but main() is at work, every step of release() leaves it at that.
LEMMA ResetLoop ==
    ASSUME TypeOK, JobInv, ReleaseInv, phase \in {"releasing", "exited"}, LeavesLinear,
           PanelStep(Main)
    PROVE  LeavesLinear'
<1> USE DEF ClientAt, ClientTo, jobVars, trayVars, histVars, Alive, LeavesLinear
<1>0. /\ Main \in Clients /\ Devices \subseteq Nat
      /\ cursor \in [Clients -> Nat] /\ attached \subseteq Devices /\ table \subseteq Devices
      /\ lut \in [Devices -> Ramps] /\ pc \in [Clients -> PCs]
      /\ failed \in [Clients -> SUBSET Devices]
  BY DEF Clients, Devices, TypeOK
<1>1. pc[Main] \in {"clear", "enum", "resetting", "joining"} /\ job[Main].kind = "release"
  BY DEF ReleaseInv
<1>2. CASE Clear(Main)
  <2>1. pc'[Main] = "enum" /\ cursor'[Main] = 0 /\ UNCHANGED attached
    BY <1>0, <1>2 DEF Clear, JobInv, Busy
  <2>2. \A d \in attached : ~(d < 0)
    BY <1>0
  <2> QED
    BY <2>1, <2>2
<1>3. CASE Probe(Main)
  <2>1. /\ pc[Main] = "enum" /\ UNCHANGED <<pc, attached, lut>>
        /\ cursor'[Main] = cursor[Main] + 1
        /\ table' = IF cursor[Main] \in attached THEN table \union {cursor[Main]} ELSE table
    BY <1>0, <1>3 DEF Probe, Key
  <2>2. \A d \in attached : d < cursor[Main] + 1 => d < cursor[Main] \/ d = cursor[Main]
    BY <1>0
  <2>3. \A d \in attached : d < cursor[Main] => d \in table \/ lut[d] = Linear
    BY <2>1
  <2> QED
    BY <2>1, <2>2, <2>3
<1>4. CASE Listed(Main)
  <2>1. pc[Main] = "enum" /\ cursor[Main] = Adapters
    BY <1>4 DEF Listed
  <2>2. /\ pc' = [pc EXCEPT ![Main] = "resetting"] /\ cursor' = [cursor EXCEPT ![Main] = 0]
        /\ UNCHANGED <<attached, lut, table>>
    BY <1>1, <1>4 DEF Listed
  <2>3. \A d \in attached : d \in table \/ lut[d] = Linear
    <3>1. \A d \in attached : d < Adapters
      BY <1>0, AdaptersAssumption DEF Devices
    <3> QED
      BY <2>1, <3>1
  <2>4. \A d \in attached : 0 <= d
    BY <1>0
  <2>5. pc'[Main] = "resetting" /\ cursor'[Main] = 0
    BY <1>0, <2>2
  <2> QED
    BY <2>2, <2>3, <2>4, <2>5
<1>5. CASE Apply(Main) \/ LookupThrows(Main) \/ Finish(Main)
  BY <1>1, <1>5 DEF Apply, LookupThrows, Finish
<1>6. CASE ResetNext(Main)
  <2>1. pc[Main] = "resetting" /\ UNCHANGED <<pc, attached, table>>
    BY <1>6 DEF ResetNext
  <2>2. PICK d \in Ahead(Main) :
          /\ \A e \in Ahead(Main) : d <= e
          /\ SetRamp(Main, d, Linear)
          /\ cursor' = [cursor EXCEPT ![Main] = d + 1]
    BY <1>6 DEF ResetNext
  <2>3. d \in Devices /\ d \in Nat /\ cursor'[Main] = d + 1
    BY <1>0, <2>2 DEF Ahead
  <2>4. d \in failed'[Main] \/ lut'[d] = Linear
    BY <1>0, <2>2, <2>3 DEF SetRamp
  <2>5. failed[Main] \subseteq failed'[Main] /\ \A e \in Devices : e # d => lut'[e] = lut[e]
    BY <1>0, <2>2, <2>3 DEF SetRamp
  <2>6. \A e \in table : e # d /\ cursor[Main] <= e => d + 1 <= e
    BY <1>0, <2>2, <2>3 DEF Ahead
  <2>7. \A e \in attached \ failed[Main] :
           lut[e] = Linear \/ (e \in table /\ cursor[Main] <= e)
    BY <2>1
  <2>8. \A e \in attached \ failed'[Main] :
           lut'[e] = Linear \/ (e \in table /\ d + 1 <= e)
    BY <1>0, <2>4, <2>5, <2>6, <2>7
  <2> QED
    BY <2>1, <2>3, <2>8
<1>7. CASE ResetDone(Main)
  <2>1. /\ pc[Main] = "resetting" /\ pc'[Main] = "joining"
        /\ Ahead(Main) = {} /\ UNCHANGED <<attached, failed, lut>>
    BY <1>0, <1>7 DEF ResetDone
  <2>2. \A e \in table : ~(cursor[Main] <= e)
    BY <1>0, <2>1 DEF Ahead
  <2> QED
    BY <2>1, <2>2
<1> QED
  BY <1>2, <1>3, <1>4, <1>5, <1>6, <1>7 DEF PanelStep

\* release() passes over no display that is lit: it lists it, and its loop comes to it.
LEMMA ResetStep ==
    ASSUME TypeOK, TypeOK', BoundInv, JobInv, OneBusy, ReleaseInv, ResetInv, [Next]_vars
    PROVE  ResetInv'
<1> DEFINE Releases == phase' \in {"releasing", "exited"}
<1> USE DEF ClientAt, ClientTo, jobVars, trayVars, histVars, Alive
<1>0. /\ Main \in Clients /\ Devices \subseteq Nat
      /\ cursor \in [Clients -> Nat] /\ attached \subseteq Devices /\ table \subseteq Devices
      /\ lut \in [Devices -> Ramps] /\ pc \in [Clients -> PCs]
      /\ failed \in [Clients -> SUBSET Devices]
  BY DEF Clients, Devices, TypeOK
<1>a. ASSUME phase \in {"releasing", "exited"}, ~setting.overlap, NEW c \in Clients, Busy(c)
      PROVE  c = Main /\ pc[Main] \in {"clear", "enum", "resetting", "joining"}
  BY <1>0, <1>a DEF OneBusy, ReleaseInv, Busy
<1>1. CASE MenuDismissed
  BY <1>1 DEF MenuDismissed, ResetInv, LeavesLinear
<1>2. ASSUME NEW c \in Clients, NEW j \in Jobs, Began(c, j) PROVE ResetInv'
  <2> SUFFICES ASSUME ~setting'.overlap, Releases PROVE pc'[Main] = "clear"
    BY DEF ResetInv, LeavesLinear
  <2>1. setting' = setting /\ Quiet
    BY <1>2 DEF Began, Begin
  <2>2. phase \notin {"releasing", "exited"}
    BY <1>0, <2>1 DEF Quiet, ReleaseInv
  <2>3. j.kind = "release" /\ c = Main
    BY <1>2, <2>2 DEF Began
  <2> QED
    BY <1>0, <1>2, <2>3 DEF Began, Begin
<1>3. ASSUME NEW c \in Clients, PanelStep(c) PROVE ResetInv'
  <2> SUFFICES ASSUME ~setting'.overlap, Releases PROVE LeavesLinear'
    BY DEF ResetInv
  <2>0. setting' = setting /\ phase \in {"releasing", "exited"} /\ Busy(c)
    <3>1. CASE Listed(c)
      BY <3>1 DEF Listed, Busy
    <3>2. CASE Clear(c) \/ Probe(c) \/ Apply(c) \/ LookupThrows(c)
      BY <3>2 DEF Clear, Probe, Apply, LookupThrows, Busy
    <3>3. CASE Finish(c) \/ ResetNext(c) \/ ResetDone(c)
      BY <3>3 DEF Finish, ResetNext, ResetDone, Busy
    <3> QED
      BY <1>3, <3>1, <3>2, <3>3 DEF PanelStep
  <2>1. c = Main /\ LeavesLinear
    BY <1>a, <2>0 DEF ResetInv
  <2> QED
    BY <1>3, <2>0, <2>1, ResetLoop
<1>4. CASE Joined
  <2>1. pc[Main] = "joining" /\ phase = "releasing" /\ phase' = "exited"
    BY <1>0, <1>4 DEF Joined, ReleaseInv, Busy
  <2> QED
    BY <1>4, <2>1 DEF Joined, ResetInv, LeavesLinear
<1>5. ASSUME NEW d \in Devices, Plug(d) PROVE ResetInv'
  <2>1. /\ attached' = attached \union {d} /\ lut' = [lut EXCEPT ![d] = Linear]
        /\ UNCHANGED <<setting, phase, table, pc, cursor, failed>>
    BY <1>5 DEF Plug
  <2>2. \A e \in attached' : lut'[e] = Linear \/ (e \in attached /\ lut'[e] = lut[e])
    BY <1>0, <2>1
  <2> QED
    BY <2>1, <2>2 DEF ResetInv, LeavesLinear
<1>6. ASSUME NEW d \in Devices, Unplug(d) PROVE ResetInv'
  BY <1>6 DEF Unplug, ResetInv, LeavesLinear
<1>7. CASE UNCHANGED vars
  BY <1>7 DEF vars, ResetInv, LeavesLinear
<1> QED
  BY <1>1, <1>2, <1>3, <1>4, <1>5, <1>6, <1>7, Requested DEF Next, Gone

\* A list of displays is a list of numbers.
LEMMA DevicesAreNumbers ==
    ASSUME NEW l \in Seq(Devices)
    PROVE  l \in Seq(Nat)
<1>1. \A i \in 1 .. Len(l) : l[i] \in Nat
  <2>1. \A i \in 1 .. Len(l) : l[i] \in Devices
    BY ElementOfSeq
  <2> QED
    BY <2>1 DEF Devices
<1> QED
  BY <1>1

\* The list of the attached displays grows in ascending order.
LEMMA ListsProbe ==
    ASSUME NEW A \in SUBSET Nat, NEW n \in Nat, NEW l \in Seq(Nat),
           Lists(l, {d \in A : d < n})
    PROVE  Lists(IF n \in A THEN Append(l, n) ELSE l, {d \in A : d < n + 1})
<1>1. CASE n \in A
  <2> DEFINE m == Append(l, n)
  <2>1. /\ m \in Seq(Nat) /\ Len(l) \in Nat /\ Len(m) = Len(l) + 1
        /\ \A i \in 1 .. Len(l) : m[i] = l[i]
        /\ m[Len(l) + 1] = n
    BY AppendProperties
  <2>2. Range(m) = Range(l) \union {n}
    BY RangeAppend
  <2>3. {d \in A : d < n + 1} = {d \in A : d < n} \union {n}
    <3>1. \A d \in A : d < n + 1 <=> d < n \/ d = n
      OBVIOUS
    <3> QED
      BY <1>1, <3>1, Zenon
  <2>4. \A i \in 1 .. Len(l) : l[i] < n
    BY RangeOf DEF Lists
  <2> HIDE DEF m
  <2>5. \A i, k \in 1 .. Len(m) : i < k => m[i] < m[k]
    <3> SUFFICES ASSUME NEW i \in 1 .. Len(m), NEW k \in 1 .. Len(m), i < k PROVE m[i] < m[k]
      OBVIOUS
    <3>1. i \in 1 .. Len(l) /\ (k \in 1 .. Len(l) \/ k = Len(l) + 1)
      BY <2>1
    <3> QED
      BY <2>1, <2>4, <3>1 DEF Lists
  <2>6. Range(m) = {d \in A : d < n + 1}
    BY <2>2, <2>3 DEF Lists
  <2> QED
    BY <1>1, <2>5, <2>6 DEF m, Lists
<1>2. CASE n \notin A
  <2>1. {d \in A : d < n + 1} = {d \in A : d < n}
    <3>1. \A d \in A : d < n + 1 <=> d < n
      BY <1>2
    <3> QED
      BY <3>1, Zenon
  <2> QED
    BY <1>2, <2>1
<1> QED
  BY <1>1, <1>2

\* A request sets what it means, whoever makes it and however displays are numbered.
LEMMA AskStep ==
    ASSUME TypeOK, TypeOK', BoundInv, JobInv, OneBusy, OneBusy', ReleaseInv, AskInv, [Next]_vars
    PROVE  AskInv'
<1> USE DEF ClientAt, ClientTo, jobVars, trayVars, histVars, Alive
<1>0. /\ Devices \subseteq Nat /\ pc \in [Clients -> PCs] /\ job \in [Clients -> Jobs]
      /\ cursor \in [Clients -> Nat] /\ attached \subseteq Devices /\ table \subseteq Devices
      /\ lut \in [Devices -> Ramps] /\ targets \in [Clients -> Seq(Devices)]
      /\ list \in [Clients -> Seq(Devices)] /\ failed \in [Clients -> SUBSET Devices]
  BY DEF Devices, TypeOK
<1>a. ASSUME UNCHANGED <<setting, attached, lut, jobVars, cached, histVars>> PROVE AskInv'
  <2>1. \A c \in Clients : Meant(job[c])' = Meant(job[c])
    BY <1>a DEF Meant
  <2>2. \A c \in Clients : Asks(c)' <=> Asks(c)
    BY <1>a, <2>1 DEF Asks, RampOf
  <2> QED
    BY <1>a, <2>2 DEF AskInv, Busy
<1>1. CASE MenuDismissed
  BY <1>1, <1>a DEF MenuDismissed
<1>2. ASSUME NEW c \in Clients, NEW j \in Jobs, Began(c, j) PROVE AskInv'
  <2> SUFFICES ASSUME ~setting'.overlap, moved' = {}, NEW e \in Clients, Busy(e)', Sets(job'[e])
               PROVE  Asks(e)'
    BY DEF AskInv
  <2>1. /\ UNCHANGED <<setting, attached, lut, cached>> /\ before' = lut /\ Quiet
        /\ job'[c] = j /\ list'[c] = <<>> /\ \A d \in Clients : d # c => pc'[d] = pc[d]
    BY <1>0, <1>2 DEF Began, Begin
  <2>2. e = c
    BY <2>1 DEF Quiet, Busy
  <2>3. CASE j.kind = "tray" /\ j.sel # <<>>
    <3>1. pc'[c] = "apply" /\ targets'[c] = <<cached[j.sel[1]]>>
      BY <1>0, <1>2, <2>3 DEF Began, Begin
    <3>2. Meant(job[e])' = {cached[j.sel[1]]}
      BY <2>1, <2>2, <2>3 DEF Meant
    <3>3. Range(targets'[c]) = {cached[j.sel[1]]}
      BY <3>1, RangeShort
    <3> QED
      BY <2>1, <2>2, <3>1, <3>2, <3>3 DEF Asks
  <2>4. CASE ~(j.kind = "tray" /\ j.sel # <<>>)
    <3>1. pc'[c] = "clear"
      BY <1>0, <1>2, <2>4 DEF Began, Begin
    <3> QED
      BY <2>1, <2>2, <3>1 DEF Asks
  <2> QED
    BY <2>3, <2>4
<1>3. ASSUME NEW c \in Clients, PanelStep(c) PROVE AskInv'
  <2> SUFFICES ASSUME ~setting'.overlap, moved' = {}, NEW e \in Clients, Busy(e)', Sets(job'[e])
               PROVE  Asks(e)'
    BY DEF AskInv
  <2>0. /\ UNCHANGED <<setting, moved, attached>> /\ Busy(c)
        /\ \A d \in Clients : d # c => pc'[d] = pc[d]
    <3>1. CASE Listed(c)
      <4>1. /\ UNCHANGED <<setting, moved, attached>> /\ pc[c] = "enum"
            /\ \A d \in Clients : d # c => pc'[d] = pc[d]
        BY <3>1, ListedCases, Zenon
      <4> QED
        BY <4>1 DEF Busy
    <3>2. CASE Clear(c) \/ Probe(c) \/ Apply(c) \/ LookupThrows(c)
      BY <1>0, <3>2 DEF Clear, Probe, Apply, LookupThrows, Busy
    <3>3. CASE Finish(c) \/ ResetNext(c) \/ ResetDone(c)
      BY <1>0, <3>3 DEF Finish, ResetNext, ResetDone, Busy
    <3> QED
      BY <1>3, <3>1, <3>2, <3>3 DEF PanelStep
  <2>1. e = c
    BY <2>0 DEF OneBusy, Busy
  <2>2. Sets(job[c]) => Asks(c)
    BY <2>0 DEF AskInv
  <2>3. CASE Clear(c)
    <3>1. /\ pc[c] = "clear" /\ list[c] = <<>> /\ cursor[c] = 0
          /\ pc'[c] = "enum" /\ UNCHANGED <<list, cursor, lut, before, job>>
      BY <1>0, <2>3 DEF Clear, JobInv, Busy
    <3>2. \A d \in attached : ~(d < 0)
      BY <1>0
    <3>3. {d \in attached : d < 0} = {} /\ Len(<<>>) = 0 /\ 1 .. 0 = {}
      BY <3>2
    <3>4. Lists(<<>>, {d \in attached : d < 0})
      BY <3>3, RangeShort DEF Lists
    <3> QED
      BY <2>0, <2>1, <2>2, <3>1, <3>4 DEF Asks
  <2>4. CASE Probe(c)
    <3>1. /\ pc[c] = "enum" /\ UNCHANGED <<pc, job, lut, before>>
          /\ cursor'[c] = cursor[c] + 1
          /\ list'[c] = IF cursor[c] \in attached THEN Append(list[c], cursor[c]) ELSE list[c]
      BY <1>0, <2>4 DEF Probe
    <3>2. Lists(list[c], {d \in attached : d < cursor[c]}) /\ lut = before
      BY <2>1, <2>2, <3>1 DEF Asks
    <3>3. list[c] \in Seq(Nat) /\ attached \in SUBSET Nat /\ cursor[c] \in Nat
      <4>1. list[c] \in Seq(Devices)
        BY <1>0
      <4> QED
        BY <1>0, <4>1, DevicesAreNumbers
    <3>4. Lists(list'[c], {d \in attached : d < cursor'[c]})
      <4>1. Lists(IF cursor[c] \in attached THEN Append(list[c], cursor[c]) ELSE list[c],
                  {d \in attached : d < cursor[c] + 1})
        BY <3>2, <3>3, ListsProbe
      <4> QED
        BY <3>1, <4>1
    <3> QED
      BY <2>0, <2>1, <3>1, <3>2, <3>4 DEF Asks
  <2>5. CASE Listed(c)
    <3>1. /\ UNCHANGED <<job, list, lut, before, failed>>
          /\ pc[c] = "enum" /\ cursor[c] = Adapters
      BY <2>5, ListedCases, Zenon
    <3>2. Sets(job[c]) /\ job[c].kind \notin {"release", "menu"}
      BY <2>1, <3>1 DEF Sets
    <3>3. /\ pc' = [pc EXCEPT ![c] = "apply"]
          /\ targets' = [targets EXCEPT ![c] = Selected(job[c], list[c])]
          /\ UNCHANGED cached
      BY <2>5, <3>2, ListedCases
    <3>4. Lists(list[c], attached) /\ lut = before
      <4>1. \A d \in attached : d < Adapters
        BY <1>0, AdaptersAssumption DEF Devices
      <4>2. {d \in attached : d < cursor[c]} = attached
        BY <3>1, <4>1
      <4> QED
        BY <2>2, <3>1, <3>2, <4>2 DEF Asks
    <3>5. /\ job[c].kind \in {"web", "repl"} => Len(job[c].sel) = 1
          /\ job[c].kind = "tray" => job[c].sel = <<>>
      BY <3>1 DEF JobInv, Busy
    <3>6. /\ Range(Selected(job[c], list[c])) \subseteq Meant(job[c])
          /\ Meant(job[c]) \intersect attached \subseteq Range(Selected(job[c], list[c]))
      <4>1. job[c] \in Jobs /\ list[c] \in Seq(Devices) /\ attached \subseteq Devices
        BY <1>0
      <4> QED
        BY <3>2, <3>4, <3>5, <4>1, SelectedMeant
    <3>7. Meant(job[c])' = Meant(job[c])
      BY <2>0, <3>1, <3>3 DEF Meant
    <3>8. pc'[c] = "apply" /\ targets'[c] = Selected(job[c], list[c])
      BY <1>0, <3>3
    <3> QED
      BY <2>0, <2>1, <3>1, <3>4, <3>6, <3>7, <3>8 DEF Asks
  <2>6. CASE Apply(c)
    <3> DEFINE h == Head(targets[c])
    <3>1. /\ pc[c] = "apply" /\ UNCHANGED <<pc, job, before, cached>> /\ targets[c] # <<>>
          /\ targets' = [targets EXCEPT ![c] = Tail(targets[c])]
      BY <2>6 DEF Apply
    <3>2. Sets(job[c]) /\ SetRamp(c, h, RampOf(job[c]))
      BY <2>1, <2>6, <3>1 DEF Apply
    <3>3. /\ h \in Devices /\ targets'[c] = Tail(targets[c])
          /\ Range(targets[c]) = {h} \union Range(Tail(targets[c]))
      BY <1>0, <3>1, RangeHeadTail
    <3>4. /\ Range(targets[c]) \subseteq Meant(job[c])
          /\ \A d \in attached :
                IF d \in Meant(job[c])
                THEN d \in Range(targets[c]) \union failed[c] \/ lut[d] = RampOf(job[c])
                ELSE lut[d] = before[d]
      BY <2>2, <3>1, <3>2 DEF Asks
    <3>5. Meant(job[c])' = Meant(job[c]) /\ RampOf(job[c])' = RampOf(job[c])
      BY <2>0, <3>1 DEF Meant, RampOf
    <3> HIDE DEF h
    <3>6. /\ h \in failed'[c] \/ lut'[h] = RampOf(job[c])
          /\ failed[c] \subseteq failed'[c]
          /\ \A d \in Devices : d # h => lut'[d] = lut[d]
      BY <1>0, <3>2, <3>3 DEF SetRamp
    <3>7. ASSUME NEW d \in attached
          PROVE  IF d \in Meant(job[c])
                 THEN d \in Range(targets'[c]) \union failed'[c] \/ lut'[d] = RampOf(job[c])
                 ELSE lut'[d] = before[d]
      BY <1>0, <3>3, <3>4, <3>6
    <3> QED
      BY <2>0, <2>1, <3>1, <3>3, <3>4, <3>5, <3>7 DEF Asks
  <2>7. CASE LookupThrows(c) \/ Finish(c)
    BY <1>0, <2>1, <2>7 DEF LookupThrows, Finish, Busy
  <2>8. CASE ResetNext(c) \/ ResetDone(c)
    <3>1. job' = job /\ pc[c] = "resetting"
      BY <2>8 DEF ResetNext, ResetDone
    <3> QED
      BY <2>1, <3>1 DEF ReleaseInv, Sets
  <2> QED
    BY <1>3, <2>3, <2>4, <2>5, <2>6, <2>7, <2>8 DEF PanelStep
<1>4. CASE Joined
  BY <1>4, <1>a DEF Joined
<1>5. ASSUME NEW d \in Devices, Plug(d) \/ Unplug(d) PROVE AskInv'
  BY <1>5 DEF Plug, Unplug, AskInv
<1>6. CASE UNCHANGED vars
  BY <1>6, <1>a DEF vars
<1> QED
  BY <1>1, <1>2, <1>3, <1>4, <1>5, <1>6, Requested DEF Next, Gone

----------------------------------------------------------------------------
(* The theorems. *)

\* The initial states satisfy the invariant.
LEMMA IndInit == Init => IndInv
<1> SUFFICES ASSUME Init PROVE IndInv
  OBVIOUS
<1> USE DEF Init
<1>1. TypeOK
  <2>1. Linear \in Ramps /\ NoJob \in Jobs
    BY RampsAssumption DEF NoJob, Jobs, Kinds
  <2>2. /\ pc \in [Clients -> PCs] /\ lut \in [Devices -> Ramps] /\ job \in [Clients -> Jobs]
        /\ cursor \in [Clients -> Nat] /\ failed \in [Clients -> SUBSET Devices]
    BY <2>1 DEF PCs
  <2>3. list \in [Clients -> Seq(Devices)] /\ targets \in [Clients -> Seq(Devices)]
    OBVIOUS
  <2>4. before \in [Devices -> Ramps] /\ cached \in Seq(Devices)
    BY <2>2
  <2> QED
    BY <2>2, <2>3, <2>4 DEF TypeOK, Phases
<1>2. \A c \in Clients : pc[c] = "idle"
  OBVIOUS
<1>3. BoundInv /\ JobInv /\ OneBusy
  BY <1>2, AdaptersAssumption DEF BoundInv, JobInv, OneBusy, Busy
<1>4. ReleaseInv /\ CoverInv /\ ListInv /\ TargetInv
  BY <1>2 DEF ReleaseInv, CoverInv, Untouched, ListInv, TargetInv, Busy
<1>5. ResetInv /\ AskInv
  BY <1>2 DEF ResetInv, AskInv, Busy
<1> QED
  BY <1>1, <1>3, <1>4, <1>5 DEF IndInv

\* The invariant is inductive.
LEMMA IndStep == IndInv /\ [Next]_vars => IndInv'
<1> SUFFICES ASSUME IndInv, [Next]_vars PROVE IndInv'
  OBVIOUS
<1>1. TypeOK /\ BoundInv /\ JobInv /\ OneBusy /\ ReleaseInv /\ CoverInv /\ ListInv /\ TargetInv
      /\ ResetInv /\ AskInv
  BY DEF IndInv
<1>2. TypeOK'
  BY <1>1, TypeStep
<1>3. BoundInv' /\ JobInv' /\ OneBusy' /\ ReleaseInv'
  BY <1>1, <1>2, BoundStep, JobStep, OneBusyStep, ReleaseStep
<1>4. CoverInv' /\ ListInv' /\ TargetInv'
  BY <1>1, <1>2, CoverStep, ListStep, TargetStep
<1>5. ResetInv' /\ AskInv'
  BY <1>1, <1>2, <1>3, ResetStep, AskStep
<1> QED
  BY <1>2, <1>3, <1>4, <1>5 DEF IndInv

\* The invariant holds of every behaviour.
THEOREM PanelInvariant == Spec => []IndInv
BY IndInit, IndStep, PTL DEF Spec

\* Every variable of the panel keeps its type, however the clients interleave: a
\* request never selects what is not an adapter.
THEOREM PanelTypes == Spec => []TypeOK
<1>1. IndInv => TypeOK
  BY DEF IndInv
<1> QED
  BY <1>1, PanelInvariant, PTL

\* displays_.at throws for a display that was listed only while another call of
\* displays() is under way, or because a display moved where requests overlap.
THEOREM ListedIsFound == Spec => []MissingOnlyMidway
<1>1. IndInv => MissingOnlyMidway
  <2> SUFFICES ASSUME IndInv, NEW c \in Clients, ClientAt(c, "apply"), targets[c] # <<>>,
                      list[c] # <<>>, Names(job[c]) = {}, ~ \E e \in Clients : pc[e] = "enum"
               PROVE  Head(targets[c]) \in table \union (IF setting.overlap THEN moved ELSE {})
    BY DEF MissingOnlyMidway
  <2>1. Head(targets[c]) \in Range(list[c])
    <3>1. Head(targets[c]) \in Range(targets[c])
      BY RangeHeadTail DEF IndInv, TypeOK
    <3> QED
      BY <3>1 DEF IndInv, TargetInv, ClientAt
  <2>2. CASE setting.overlap
    <3>1. Head(targets[c]) \in attached \union moved
      BY <2>1 DEF IndInv, ListInv, ClientAt
    <3>2. Steady \subseteq table
      <4>1. ~Untouched
        BY DEF Untouched, ClientAt
      <4>2. ~Refilling
        BY DEF Refilling
      <4> QED
        BY <4>1, <4>2 DEF IndInv, CoverInv
    <3> QED
      BY <2>2, <3>1, <3>2 DEF Steady
  <2>3. CASE ~setting.overlap
    BY <2>1, <2>3 DEF IndInv, ListInv, ClientAt
  <2> QED
    BY <2>2, <2>3
<1> QED
  BY <1>1, PanelInvariant, PTL

\* release() leaves every display linear that it did not report as failed, where no
\* hotkey is at work meanwhile.
THEOREM ReleaseLeavesLinear == Spec => []SafeExitAlone
<1>1. IndInv => SafeExitAlone
  BY DEF IndInv, ResetInv, LeavesLinear, ReleaseInv, SafeExitAlone, SafeExit
<1> QED
  BY <1>1, PanelInvariant, PTL

\* Requests one at a time do what they are asked: of the web page, of a hotkey with
\* any list of numbers, of the menu and of the REPL, but for the ramp of its apply.
THEOREM PanelAsAsked == Spec => []AsAsked
<1>1. IndInv => AsAsked
  <2> SUFFICES ASSUME IndInv, ~setting.overlap, NEW c \in Clients, Succeeds(c),
                      NEW d \in attached
               PROVE  IF d \in Meant(job[c]) THEN lut[d] = job[c].ramp \/ LosesPreset(job[c])
                      ELSE lut[d] = before[d]
    BY DEF AsAsked
  <2>1. pc[c] = "apply" /\ targets[c] = <<>> /\ Sets(job[c]) /\ failed[c] = {} /\ moved = {}
    BY DEF Succeeds, ClientAt
  <2>2. Asks(c)
    BY <2>1 DEF IndInv, AskInv, Busy
  <2>3. lut[d] = IF d \in Meant(job[c]) THEN RampOf(job[c]) ELSE before[d]
    BY <2>1, <2>2, RangeShort DEF Asks
  <2> QED
    BY <2>3 DEF RampOf, LosesPreset
<1> QED
  BY <1>1, PanelInvariant, PTL

=============================================================================
