--------------------------- MODULE ProgramProofs ----------------------------
(***************************************************************************)
(* Proofs about Program, for both builds and any presets and displays: its *)
(* types, that release() runs alone, and what becomes of the items of the  *)
(* tray menu.                                                              *)
(***************************************************************************)
EXTENDS Program, Sequences, FiniteSetTheorems, TLAPS

\* Between RunTrayMenu and StopTrayMenu s_running is set.
RunningInv ==
    mpc \in {"startweb", "serve", "openhandle", "prompt", "command", "endrepl", "stopweb",
             "joinweb", "stoptray"} => running

\* Past the server there is no worker, past StopTrayMenu no tray thread; a tray
\* thread that has ended has left no menu and no command behind.
EndInv ==
    /\ RunningInv
    /\ mpc \in {"stoptray", "jointray", "release", "exited"} => web = "done"
    /\ mpc \in {"release", "exited"} => tray = "done"
    /\ tray = "done" => Menu!Idle

\* The tray thread is made by RunTrayMenu.
BeginInv == mpc \in {"mutex", "shortkeys", "turnedaway", "runtray"} => tray = "unborn"

\* Lifecycle's variables keep their types, and s_hwnd is set exactly while the
\* window is there: no step of main(), the tray thread or the server forgets it.
LEMMA TypesStep == TypeOK /\ BeginInv /\ [Next]_all => TypeOK' /\ BeginInv'
<1> SUFFICES ASSUME TypeOK, BeginInv, [Next]_all PROVE TypeOK' /\ BeginInv'
  OBVIOUS
<1> USE DEF TypeOK, BeginInv, MainPCs, WebStates, TrayPCs
<1>1. CASE MainStep
  <2> USE DEF MainFromTo
  <2>1. CASE TestMutex \/ ApplyShortkeys \/ Served \/ CommandDone \/ EndREPL \/ Release
    BY <2>1 DEF TestMutex, ApplyShortkeys, Served, CommandDone, EndREPL, Release
  <2>2. CASE RunTrayMenu
    BY <2>2 DEF RunTrayMenu
  <2>6. CASE OpenHandle
    BY <2>6 DEF OpenHandle
  <2>3. CASE StartWeb \/ StopWebServer
    BY <2>3 DEF StartWeb, StopWebServer, Stopped
  <2>4. CASE JoinWeb \/ JoinTray
    BY <2>4 DEF JoinWeb, JoinTray
  <2>5. CASE StopTrayMenu
    BY <2>5 DEF StopTrayMenu
  <2> QED
    BY <1>1, <2>1, <2>2, <2>3, <2>4, <2>5, <2>6 DEF MainStep
<1>2. CASE TrayStep
  <2> USE DEF TrayFromTo
  <2>1. CASE CreateTrayWindow \/ TrayEnds
    BY <2>1 DEF CreateTrayWindow, TrayEnds
  <2>2. CASE RequestQuit
    BY <2>2 DEF RequestQuit, Stopped
  <2>3. CASE QuitPicked
    BY <2>3 DEF QuitPicked
  <2>4. CASE UNCHANGED vars
    BY <2>4 DEF vars
  <2> QED
    BY <1>2, <2>1, <2>2, <2>3, <2>4 DEF TrayStep, Command, MenuCloses
<1>3. CASE WebStep
  BY <1>3 DEF WebStep, WebFromTo, ServerUp, ServerReturns
<1>4. CASE User
  <2>1. CASE \E line \in {"exit", "eof", "other"} : GetLine(line)
    BY <2>1 DEF GetLine
  <2>2. CASE CtrlC
    BY <2>2 DEF CtrlC, WebFromTo
  <2>3. CASE TrayDestroyed
    BY <2>3 DEF TrayDestroyed, TrayFromTo
  <2> QED
    BY <1>4, <2>1, <2>2, <2>3 DEF User
<1>5. CASE UseMenu \/ Change \/ UNCHANGED all
  BY <1>5 DEF UseMenu, Change, all, vars
<1> QED
  BY <1>1, <1>2, <1>3, <1>4, <1>5 DEF Next, Gone

\* Each step that reaches the end of a thread, or passes it, respects EndInv.
LEMMA EndStep == EndInv /\ [Next]_all => EndInv'
<1> SUFFICES ASSUME EndInv, [Next]_all PROVE EndInv'
  OBVIOUS
<1> USE DEF EndInv, RunningInv
<1>1. CASE MainStep
  <2>1. Menu!Idle' <=> Menu!Idle
    BY <1>1 DEF MainStep, menuVars, Menu!Idle, Menu!NoItem
  <2> QED
    BY <1>1, <2>1 DEF MainStep, MainFromTo, Stopped, TestMutex, ApplyShortkeys, RunTrayMenu,
                  StartWeb, Served, OpenHandle, CommandDone, EndREPL, StopWebServer, JoinWeb,
                  StopTrayMenu, JoinTray, Release
<1>2. CASE TrayStep
  <2>1. CASE (CreateTrayWindow \/ RequestQuit) /\ UNCHANGED menuVars
    BY <2>1 DEF CreateTrayWindow, RequestQuit, TrayFromTo, Stopped
  <2>2. CASE Menu!Idle /\ TrayEnds /\ UNCHANGED menuVars
    BY <2>2 DEF TrayEnds, TrayFromTo, menuVars, Menu!Idle
  <2>3. CASE Command \/ MenuCloses
    BY <2>3 DEF Command, MenuCloses, Looping, Gone, QuitPicked, TrayFromTo, vars
  <2> QED
    BY <1>2, <2>1, <2>2, <2>3 DEF TrayStep
<1>3. CASE WebStep
  BY <1>3 DEF WebStep, ServerUp, ServerReturns, WebFromTo, menuVars, Menu!Idle
<1>4. CASE User
  BY <1>4 DEF User, GetLine, CtrlC, WebFromTo, TrayDestroyed, TrayFromTo, menuVars, Menu!Idle
<1>5. CASE UseMenu
  BY <1>5 DEF UseMenu, Looping, vars
<1>6. CASE Change
  BY <1>6 DEF Change, vars, Menu!PresetsChange, Menu!DisplaysChange, Menu!Idle
<1>7. CASE UNCHANGED all
  BY <1>7 DEF all, vars, menuVars, Menu!Idle
<1> QED
  BY <1>1, <1>2, <1>3, <1>4, <1>5, <1>6, <1>7 DEF Next

\* Lifecycle's variables have their types in every behaviour of the program.
THEOREM LifecycleTypes == Spec => []TypeOK
<1>1. ProgramInit => TypeOK /\ BeginInv
  BY BuildsAssumption
  DEF ProgramInit, Init, TypeOK, BeginInv, MainPCs, WebStates, TrayPCs
<1> QED
  BY <1>1, TypesStep, PTL DEF Spec

\* When main() calls release() the server's workers and the tray thread have ended
\* and no command of the menu is left, however the program has been told to end.
THEOREM ReleasesAlone == Spec => []ReleaseAlone
<1>1. ProgramInit => EndInv
  BY DEF ProgramInit, Init, EndInv, RunningInv, Menu!Init, Menu!Idle
<1>2. EndInv => ReleaseAlone
  BY DEF EndInv, ReleaseAlone
<1> QED
  BY <1>1, <1>2, EndStep, PTL DEF Spec

----------------------------------------------------------------------------
(* The menu, as long as the numbers of its items stay apart: with more than a *)
(* hundred presets those of one preset run into those of another or past the  *)
(* last number looked at, with more than a hundred displays those of one      *)
(* display into those of the next preset.                                     *)

Few == \A S \in Dirs \union Desktops : IsFiniteSet(S) /\ Cardinality(S) <= 100

\* The list a menu is made from has a place for every preset, or display.
LEMMA Places ==
    ASSUME Few, NEW S \in Dirs \union Desktops \union {{}}
    PROVE  /\ Len(Menu!InOrder(S)) \in Nat /\ Len(Menu!InOrder(S)) <= 100
           /\ DOMAIN Menu!InOrder(S) = 1 .. Len(Menu!InOrder(S))
<1>1. IsFiniteSet({}) /\ Cardinality({}) = 0
  BY FS_EmptySet
<1>2. Cardinality(S) \in Nat /\ Cardinality(S) <= 100
  BY <1>1, FS_CardinalityType DEF Few
<1>3. Menu!Cardinality(S) = Cardinality(S)
  BY DEF Cardinality, Menu!Cardinality
<1>4. DOMAIN Menu!InOrder(S) = 1 .. Cardinality(S)
  BY <1>3 DEF Menu!InOrder
<1>5. Len(Menu!InOrder(S)) = Cardinality(S)
  BY <1>2, <1>4
<1> QED
  BY <1>2, <1>4, <1>5

\* TrayWndProc on the three commands with a number of their own.
LEMMA DispatchedFixed ==
    ASSUME NEW q, NEW l
    PROVE  /\ Menu!Dispatched(5002, q, l) = Menu!Quit
           /\ Menu!Dispatched(5001, q, l) = Menu!Open
           /\ Menu!Dispatched(1001, q, l) = Menu!Reset(<<>>)
  BY DEF Menu!Dispatched, Menu!IDM_RESET_ALL, Menu!IDM_RESET_DISP, Menu!IDM_PRESET_ALL,
         Menu!IDM_PRESET_DISP, Menu!IDM_OPEN_WEBUI, Menu!IDM_QUIT

\* The three ranges TrayWndProc looks at, by their bounds.
LEMMA Ranges ==
    ASSUME NEW c \in Nat
    PROVE  /\ c \in 2000 .. 2000 + 999 <=> 2000 <= c /\ c <= 2999
           /\ c \in 3000 .. 3000 + 999 <=> 3000 <= c /\ c <= 3999
           /\ c \in 4000 .. 4000 + 9999 <=> 4000 <= c /\ c <= 13999
  OBVIOUS

\* The numbers 2000 .. 2999 reset one display.
LEMMA DispatchedReset ==
    ASSUME NEW c \in Nat, NEW q, NEW l, 2000 <= c, c <= 2999
    PROVE  Menu!Dispatched(c, q, l)
             = IF c - 2000 < Len(l) THEN Menu!Reset(<<l[c - 2000 + 1]>>) ELSE Menu!Nothing
<1>1. c \in 2000 .. 2000 + 999
  BY Ranges
<1>2. c # 1001 /\ c # 5001 /\ c # 5002
  OBVIOUS
<1>3. c \notin 3000 .. 3000 + 999
  BY Ranges
<1>4. c \notin 4000 .. 4000 + 9999
  <2> SUFFICES ASSUME c \in 4000 .. 4000 + 9999 PROVE FALSE
    OBVIOUS
  <2> QED
    BY Ranges
<1> QED
  BY <1>1, <1>2, <1>3, <1>4 DEF Menu!Dispatched, Menu!IDM_RESET_ALL, Menu!IDM_RESET_DISP, Menu!IDM_PRESET_ALL,
         Menu!IDM_PRESET_DISP, Menu!IDM_OPEN_WEBUI, Menu!IDM_QUIT

\* The numbers 3000 .. 3999 apply a preset to every display.
LEMMA DispatchedAll ==
    ASSUME NEW c \in Nat, NEW q, NEW l, 3000 <= c, c <= 3999
    PROVE  Menu!Dispatched(c, q, l)
             = IF c - 3000 < Len(q) THEN Menu!Apply(q[c - 3000 + 1], <<>>) ELSE Menu!Nothing
<1>1. c \in 3000 .. 3000 + 999
  BY Ranges
<1>2. c # 1001 /\ c # 5001 /\ c # 5002
  OBVIOUS
<1>3. c \notin 2000 .. 2000 + 999
  BY Ranges
<1>4. c \notin 4000 .. 4000 + 9999
  <2> SUFFICES ASSUME c \in 4000 .. 4000 + 9999 PROVE FALSE
    OBVIOUS
  <2> QED
    BY Ranges
<1> QED
  BY <1>1, <1>2, <1>3, <1>4 DEF Menu!Dispatched, Menu!IDM_RESET_ALL, Menu!IDM_RESET_DISP, Menu!IDM_PRESET_ALL,
         Menu!IDM_PRESET_DISP, Menu!IDM_OPEN_WEBUI, Menu!IDM_QUIT

\* The numbers 4000 .. 13999, but for the two taken, apply a preset to one display.
LEMMA DispatchedOne ==
    ASSUME NEW c \in Nat, NEW q, NEW l, 4000 <= c, c <= 13999, c # 5001, c # 5002
    PROVE  Menu!Dispatched(c, q, l) = Menu!ForOneDisplay(c - 4000, q, l)
<1>1. c \in 4000 .. 4000 + 9999
  BY Ranges
<1>2. c # 1001
  OBVIOUS
<1>3. c \notin 2000 .. 2000 + 999
  <2> SUFFICES ASSUME c \in 2000 .. 2000 + 999 PROVE FALSE
    OBVIOUS
  <2> QED
    BY Ranges
<1>4. c \notin 3000 .. 3000 + 999
  <2> SUFFICES ASSUME c \in 3000 .. 3000 + 999 PROVE FALSE
    OBVIOUS
  <2> QED
    BY Ranges
<1> QED
  BY <1>1, <1>2, <1>3, <1>4 DEF Menu!Dispatched, Menu!IDM_RESET_ALL, Menu!IDM_RESET_DISP, Menu!IDM_PRESET_ALL,
         Menu!IDM_PRESET_DISP, Menu!IDM_OPEN_WEBUI, Menu!IDM_QUIT

\* The items of a menu: three fixed ones, one for each display, one for each preset and
\* one for each pair of them.
IsItemOf(item, p, l) ==
    \/ item \in {Menu!Item(Menu!IDM_RESET_ALL, Menu!Reset(<<>>)),
                 Menu!Item(Menu!IDM_OPEN_WEBUI, Menu!Open),
                 Menu!Item(Menu!IDM_QUIT, Menu!Quit)}
    \/ \E j \in DOMAIN l :
          item = Menu!Item(Menu!IDM_RESET_DISP + (j - 1), Menu!Reset(<<l[j]>>))
    \/ \E i \in DOMAIN p :
          item = Menu!Item(Menu!IDM_PRESET_ALL + (i - 1), Menu!Apply(p[i], <<>>))
    \/ \E i \in DOMAIN p, j \in DOMAIN l :
          item = Menu!Item(Menu!IDM_PRESET_DISP + (i - 1) * 100 + (j - 1),
                           Menu!Apply(p[i], <<l[j]>>))

\* ShowContextMenu makes no other item.
LEMMA ItemCases ==
    ASSUME NEW p, NEW l, NEW item \in Menu!Items(p, l)
    PROVE  IsItemOf(item, p, l)
<1> DEFINE A == {Menu!Item(Menu!IDM_RESET_ALL, Menu!Reset(<<>>)),
                 Menu!Item(Menu!IDM_OPEN_WEBUI, Menu!Open),
                 Menu!Item(Menu!IDM_QUIT, Menu!Quit)}
           B == {Menu!Item(Menu!IDM_RESET_DISP + (j - 1), Menu!Reset(<<l[j]>>)) : j \in DOMAIN l}
           C == {Menu!Item(Menu!IDM_PRESET_ALL + (i - 1), Menu!Apply(p[i], <<>>)) : i \in DOMAIN p}
           D == {Menu!Item(Menu!IDM_PRESET_DISP + (i - 1) * 100 + (j - 1),
                           Menu!Apply(p[i], <<l[j]>>)) : i \in DOMAIN p, j \in DOMAIN l}
<1>1. Menu!Items(p, l) = A \union B \union C \union IF Len(l) <= 1 THEN {} ELSE D
  BY DEF Menu!Items
<1>2. item \in B =>
        \E j \in DOMAIN l : item = Menu!Item(Menu!IDM_RESET_DISP + (j - 1), Menu!Reset(<<l[j]>>))
  BY SMT
<1>3. item \in C =>
        \E i \in DOMAIN p : item = Menu!Item(Menu!IDM_PRESET_ALL + (i - 1), Menu!Apply(p[i], <<>>))
  BY SMT
<1>4. item \in D =>
        \E i \in DOMAIN p, j \in DOMAIN l :
            item = Menu!Item(Menu!IDM_PRESET_DISP + (i - 1) * 100 + (j - 1),
                             Menu!Apply(p[i], <<l[j]>>))
  BY SMT
<1> HIDE DEF A, B, C, D
<1>5. item \in A \/ item \in B \/ item \in C \/ item \in D
  BY <1>1
<1>6. CASE item \in A
  BY <1>6, Zenon DEF A, IsItemOf
<1> QED
  BY <1>2, <1>3, <1>4, <1>5, <1>6 DEF IsItemOf

\* What becomes of the command of an item of a menu made from presets p and displays l,
\* when it is dispatched with presets q.
LEMMA DispatchItem ==
    ASSUME NEW p, NEW m \in Nat, m <= 100, DOMAIN p = 1 .. m, Len(p) = m,
           NEW l, NEW k \in Nat, k <= 100, DOMAIN l = 1 .. k, Len(l) = k,
           NEW q, Len(q) \in Nat,
           NEW item \in Menu!Items(p, l)
    PROVE  /\ item.id \in Nat /\ 0 < item.id /\ item.id < 65536
           /\ Menu!Collides(item) =>
                Menu!Dispatched(item.id, q, l)
                    = IF item.id = Menu!IDM_QUIT THEN Menu!Quit ELSE Menu!Open
           /\ ~Menu!Collides(item) =>
                /\ q = p => Menu!Dispatched(item.id, q, l) = item.does
                /\ \/ Menu!Dispatched(item.id, q, l) = Menu!Nothing
                   \/ /\ Menu!Dispatched(item.id, q, l).what = item.does.what
                      /\ Menu!Dispatched(item.id, q, l).on = item.does.on
<1>0. IsItemOf(item, p, l)
  BY ItemCases
<1> DEFINE d == Menu!Dispatched(item.id, q, l)
           Goal == /\ item.id \in Nat /\ 0 < item.id /\ item.id < 65536
                   /\ Menu!Collides(item) => d = IF item.id = 5002 THEN Menu!Quit ELSE Menu!Open
                   /\ ~Menu!Collides(item) =>
                        /\ q = p => d = item.does
                        /\ d = Menu!Nothing \/ (d.what = item.does.what /\ d.on = item.does.on)
<1> USE DEF Menu!IDM_RESET_ALL, Menu!IDM_RESET_DISP, Menu!IDM_PRESET_ALL,
        Menu!IDM_PRESET_DISP, Menu!IDM_OPEN_WEBUI, Menu!IDM_QUIT
<1>1. ASSUME item \in {Menu!Item(1001, Menu!Reset(<<>>)), Menu!Item(5001, Menu!Open),
                       Menu!Item(5002, Menu!Quit)}
      PROVE  Goal
  <2>1. item.does.what # "apply"
    BY <1>1 DEF Menu!Item, Menu!Reset, Menu!Open, Menu!Quit, Menu!Do
  <2>2. item.id \in {1001, 5001, 5002} /\ item.id \in Nat
    BY <1>1 DEF Menu!Item
  <2>3. d = IF item.id = 1001 THEN Menu!Reset(<<>>)
            ELSE IF item.id = 5001 THEN Menu!Open ELSE Menu!Quit
    <3>1. /\ Menu!Dispatched(1001, q, l) = Menu!Reset(<<>>)
          /\ Menu!Dispatched(5001, q, l) = Menu!Open
          /\ Menu!Dispatched(5002, q, l) = Menu!Quit
      BY DispatchedFixed
    <3> QED
      BY <2>2, <3>1
  <2>4. d = item.does
    BY <1>1, <2>3 DEF Menu!Item
  <2> HIDE DEF d
  <2> QED
    BY <2>1, <2>2, <2>4 DEF Menu!Collides
<1>2. ASSUME NEW j \in 1 .. k, item = Menu!Item(2000 + (j - 1), Menu!Reset(<<l[j]>>))
      PROVE  /\ item.id \in Nat /\ 0 < item.id /\ item.id < 65536
             /\ ~Menu!Collides(item) /\ d = item.does
  <2>1. item.id = 2000 + (j - 1) /\ item.does = Menu!Reset(<<l[j]>>)
    BY <1>2 DEF Menu!Item
  <2>2. item.id \in Nat /\ 2000 <= item.id /\ item.id <= 2099
    BY <2>1
  <2>3. item.id - 2000 < Len(l) /\ item.id - 2000 + 1 = j
    BY <2>1
  <2>4. d = Menu!Reset(<<l[j]>>)
    <3>1. Menu!Dispatched(2000 + (j - 1), q, l) = Menu!Reset(<<l[j]>>)
      BY DispatchedReset
    <3> QED
      BY <2>1, <3>1
  <2>5. item.does.what # "apply"
    BY <2>1 DEF Menu!Reset, Menu!Do
  <2> QED
    BY <2>1, <2>2, <2>4, <2>5 DEF Menu!Collides
<1>3. ASSUME NEW i \in 1 .. m, item = Menu!Item(3000 + (i - 1), Menu!Apply(p[i], <<>>))
      PROVE  /\ item.id \in Nat /\ 0 < item.id /\ item.id < 65536
             /\ ~Menu!Collides(item) /\ item.does = Menu!Apply(p[i], <<>>)
             /\ d = IF i <= Len(q) THEN Menu!Apply(q[i], <<>>) ELSE Menu!Nothing
  <2>1. item.id = 3000 + (i - 1) /\ item.does = Menu!Apply(p[i], <<>>)
    BY <1>3 DEF Menu!Item
  <2>2. item.id \in Nat /\ 3000 <= item.id /\ item.id <= 3099
    BY <2>1
  <2>3. (item.id - 3000 < Len(q) <=> i <= Len(q)) /\ item.id - 3000 + 1 = i
    BY <2>1
  <2>4. d = IF item.id - 3000 < Len(q)
            THEN Menu!Apply(q[item.id - 3000 + 1], <<>>) ELSE Menu!Nothing
    <3> DEFINE c == 3000 + (i - 1)
    <3>1. c \in Nat /\ 3000 <= c /\ c <= 3999
      OBVIOUS
    <3> HIDE DEF c
    <3>2. Menu!Dispatched(c, q, l)
             = IF c - 3000 < Len(q) THEN Menu!Apply(q[c - 3000 + 1], <<>>) ELSE Menu!Nothing
      BY <3>1, DispatchedAll
    <3> QED
      BY <2>1, <3>2 DEF c
  <2> QED
    BY <2>1, <2>2, <2>3, <2>4 DEF Menu!Collides
<1>4. ASSUME NEW i \in 1 .. m, NEW j \in 1 .. k,
             item = Menu!Item(4000 + (i - 1) * 100 + (j - 1), Menu!Apply(p[i], <<l[j]>>))
      PROVE  /\ item.id \in Nat /\ 0 < item.id /\ item.id < 65536
             /\ Menu!Collides(item) => d = IF item.id = 5002 THEN Menu!Quit ELSE Menu!Open
             /\ item.does = Menu!Apply(p[i], <<l[j]>>)
             /\ ~Menu!Collides(item) =>
                    d = IF i <= Len(q) THEN Menu!Apply(q[i], <<l[j]>>) ELSE Menu!Nothing
  <2> DEFINE n == (i - 1) * 100 + (j - 1)
  <2>1. item.id = 4000 + n /\ item.does = Menu!Apply(p[i], <<l[j]>>)
    BY <1>4 DEF Menu!Item
  <2>2. n \in Nat /\ n <= 9999 /\ n \div 100 = i - 1 /\ n % 100 = j - 1
    OBVIOUS
  <2> HIDE DEF n
  <2>3. item.id - 4000 = n /\ item.id \in Nat /\ 4000 <= item.id /\ item.id <= 13999
    BY <2>1, <2>2
  <2>4. j - 1 < Len(l) /\ (i - 1 < Len(q) <=> i <= Len(q)) /\ (i - 1) + 1 = i /\ (j - 1) + 1 = j
    OBVIOUS
  <2>5. item.does.what = "apply"
    BY <2>1 DEF Menu!Apply, Menu!Do
  <2>6. CASE item.id \in {5001, 5002}
    <3>1. d = IF item.id = 5002 THEN Menu!Quit ELSE Menu!Open
      <4>1. /\ Menu!Dispatched(5001, q, l) = Menu!Open
            /\ Menu!Dispatched(5002, q, l) = Menu!Quit
        BY DispatchedFixed
      <4> QED
        BY <2>6, <4>1
    <3> QED
      BY <2>1, <2>3, <2>5, <2>6, <3>1 DEF Menu!Collides
  <2>7. CASE item.id \notin {5001, 5002}
    <3>1. d = Menu!ForOneDisplay(n, q, l)
      <4> DEFINE c == 4000 + n
      <4>1. c \in Nat /\ 4000 <= c /\ c <= 13999 /\ c # 5001 /\ c # 5002 /\ c - 4000 = n
        BY <2>1, <2>2, <2>7
      <4>2. c = item.id
        BY <2>1
      <4> HIDE DEF c
      <4>3. Menu!Dispatched(c, q, l) = Menu!ForOneDisplay(c - 4000, q, l)
        BY <4>1, DispatchedOne
      <4> QED
        BY <4>1, <4>2, <4>3
    <3>2. Menu!ForOneDisplay(n, q, l)
             = IF i <= Len(q) THEN Menu!Apply(q[i], <<l[j]>>) ELSE Menu!Nothing
      BY <2>2, <2>4 DEF Menu!ForOneDisplay
    <3> QED
      BY <2>1, <2>3, <2>7, <3>1, <3>2 DEF Menu!Collides
  <2> QED
    BY <2>6, <2>7
<1>6. ASSUME NEW j \in 1 .. k, item = Menu!Item(2000 + (j - 1), Menu!Reset(<<l[j]>>))
      PROVE  Goal
  <2>1. /\ item.id \in Nat /\ 0 < item.id /\ item.id < 65536
        /\ ~Menu!Collides(item) /\ d = item.does
    BY <1>2, <1>6
  <2> HIDE DEF d
  <2> QED
    BY <2>1
<1>7. ASSUME NEW i \in 1 .. m, item = Menu!Item(3000 + (i - 1), Menu!Apply(p[i], <<>>))
      PROVE  Goal
  <2>1. /\ item.id \in Nat /\ 0 < item.id /\ item.id < 65536
        /\ ~Menu!Collides(item) /\ item.does = Menu!Apply(p[i], <<>>)
        /\ d = IF i <= Len(q) THEN Menu!Apply(q[i], <<>>) ELSE Menu!Nothing
    BY <1>3, <1>7
  <2> HIDE DEF d
  <2>2. /\ item.does.what = "apply" /\ item.does.on = <<>>
        /\ i <= Len(q) => d.what = "apply" /\ d.on = <<>>
    BY <2>1 DEF Menu!Apply, Menu!Do
  <2>3. q = p => i <= Len(q)
    OBVIOUS
  <2> QED
    BY <2>1, <2>2, <2>3
<1>8. ASSUME NEW i \in 1 .. m, NEW j \in 1 .. k,
             item = Menu!Item(4000 + (i - 1) * 100 + (j - 1), Menu!Apply(p[i], <<l[j]>>))
      PROVE  Goal
  <2>1. /\ item.id \in Nat /\ 0 < item.id /\ item.id < 65536
        /\ Menu!Collides(item) => d = IF item.id = 5002 THEN Menu!Quit ELSE Menu!Open
        /\ item.does = Menu!Apply(p[i], <<l[j]>>)
        /\ ~Menu!Collides(item) =>
               d = IF i <= Len(q) THEN Menu!Apply(q[i], <<l[j]>>) ELSE Menu!Nothing
    BY <1>4, <1>8
  <2> HIDE DEF d
  <2>2. /\ item.does.what = "apply" /\ item.does.on = <<l[j]>>
        /\ ~Menu!Collides(item) /\ i <= Len(q) => d.what = "apply" /\ d.on = <<l[j]>>
    BY <2>1 DEF Menu!Apply, Menu!Do
  <2>3. q = p => i <= Len(q)
    OBVIOUS
  <2> QED
    BY <2>1, <2>2, <2>3
<1> SUFFICES Goal
  OBVIOUS
<1> HIDE DEF Goal
<1>9. CASE item \in {Menu!Item(1001, Menu!Reset(<<>>)), Menu!Item(5001, Menu!Open),
                     Menu!Item(5002, Menu!Quit)}
  BY <1>1, <1>9
<1>10. CASE \E j \in DOMAIN l : item = Menu!Item(2000 + (j - 1), Menu!Reset(<<l[j]>>))
  <2> PICK j \in DOMAIN l : item = Menu!Item(2000 + (j - 1), Menu!Reset(<<l[j]>>))
    BY <1>10
  <2> QED
    BY <1>6
<1>11. CASE \E i \in DOMAIN p : item = Menu!Item(3000 + (i - 1), Menu!Apply(p[i], <<>>))
  <2> PICK i \in DOMAIN p : item = Menu!Item(3000 + (i - 1), Menu!Apply(p[i], <<>>))
    BY <1>11
  <2> QED
    BY <1>7
<1>12. CASE \E i \in DOMAIN p, j \in DOMAIN l :
            item = Menu!Item(4000 + (i - 1) * 100 + (j - 1), Menu!Apply(p[i], <<l[j]>>))
  <2> PICK i \in DOMAIN p, j \in DOMAIN l :
            item = Menu!Item(4000 + (i - 1) * 100 + (j - 1), Menu!Apply(p[i], <<l[j]>>))
    BY <1>12
  <2> QED
    BY <1>8
<1> QED
  BY <1>0, <1>9, <1>10, <1>11, <1>12 DEF IsItemOf

\* A menu, and the item picked from it, were made from the presets of then and the
\* displays still cached.
MenuInv ==
    /\ dir \in Dirs
    /\ shownDir \in Dirs
    /\ attached \in Desktops
    /\ \E A \in Desktops \union {{}} : cached = Menu!InOrder(A)
    /\ menu \subseteq Menu!Items(Menu!InOrder(shownDir), cached)
    /\ chosen # Menu!NoItem => chosen \in Menu!Items(Menu!InOrder(shownDir), cached)

\* An item of the menu, by MenuInv, when its command is dispatched.
LEMMA ItemMade ==
    ASSUME Few, MenuInv, NEW item \in Menu!Items(Menu!InOrder(shownDir), cached)
    PROVE  /\ item.id \in Nat /\ 0 < item.id /\ item.id < 65536
           /\ Menu!Collides(item) =>
                Menu!Dispatched(item.id, Menu!InOrder(dir), cached)
                    = IF item.id = Menu!IDM_QUIT THEN Menu!Quit ELSE Menu!Open
           /\ ~Menu!Collides(item) =>
                /\ dir = shownDir =>
                     Menu!Dispatched(item.id, Menu!InOrder(dir), cached) = item.does
                /\ \/ Menu!Dispatched(item.id, Menu!InOrder(dir), cached) = Menu!Nothing
                   \/ /\ Menu!Dispatched(item.id, Menu!InOrder(dir), cached).what = item.does.what
                      /\ Menu!Dispatched(item.id, Menu!InOrder(dir), cached).on = item.does.on
<1> DEFINE p == Menu!InOrder(shownDir)
           q == Menu!InOrder(dir)
<1>1. PICK A \in Desktops \union {{}} : cached = Menu!InOrder(A)
  BY DEF MenuInv
<1>2. /\ Len(p) \in Nat /\ Len(p) <= 100 /\ DOMAIN p = 1 .. Len(p)
      /\ Len(q) \in Nat
  BY Places DEF MenuInv
<1>3. Len(cached) \in Nat /\ Len(cached) <= 100 /\ DOMAIN cached = 1 .. Len(cached)
  BY <1>1, Places
<1>4. dir = shownDir => q = p
  OBVIOUS
<1>5. item \in Menu!Items(p, cached)
  OBVIOUS
<1> HIDE DEF p, q
<1>6. /\ item.id \in Nat /\ 0 < item.id /\ item.id < 65536
      /\ Menu!Collides(item) =>
           Menu!Dispatched(item.id, q, cached)
               = IF item.id = Menu!IDM_QUIT THEN Menu!Quit ELSE Menu!Open
      /\ ~Menu!Collides(item) =>
           /\ q = p => Menu!Dispatched(item.id, q, cached) = item.does
           /\ \/ Menu!Dispatched(item.id, q, cached) = Menu!Nothing
              \/ /\ Menu!Dispatched(item.id, q, cached).what = item.does.what
                 /\ Menu!Dispatched(item.id, q, cached).on = item.does.on
  BY <1>2, <1>3, <1>5, DispatchItem
<1> QED
  BY <1>4, <1>6 DEF p, q

\* The steps of the program that leave the menu alone, and those that do not.
LEMMA MenuSteps ==
    ASSUME [Next]_all
    PROVE  \/ UNCHANGED menuVars
           \/ Menu!ShowContextMenu \/ Menu!Pick \/ Menu!Dismiss
           \/ Menu!WmCommand
           \/ Menu!PresetsChange \/ Menu!DisplaysChange
<1>1. CASE Next
  BY <1>1 DEF Next, MainStep, TrayStep, WebStep, UseMenu, Change, User, Command, MenuCloses, all
<1>2. CASE UNCHANGED all
  BY <1>2 DEF all
<1> QED
  BY <1>1, <1>2

\* Every step keeps MenuInv.
LEMMA MenuKept == ASSUME MenuInv, [Next]_all PROVE MenuInv'
<1>1. CASE UNCHANGED menuVars
  BY <1>1 DEF MenuInv, menuVars
<1>2. CASE Menu!ShowContextMenu
  BY <1>2 DEF MenuInv, Menu!ShowContextMenu, Menu!Recached, Menu!Idle
<1>3. CASE Menu!Pick
  BY <1>3 DEF MenuInv, Menu!Pick
<1>4. CASE Menu!Dismiss
  BY <1>4 DEF MenuInv, Menu!Dismiss
<1>5. CASE Menu!WmCommand
  BY <1>5 DEF MenuInv, Menu!WmCommand
<1>6. CASE Menu!PresetsChange
  BY <1>6 DEF MenuInv, Menu!PresetsChange
<1>7. CASE Menu!DisplaysChange
  BY <1>7 DEF MenuInv, Menu!DisplaysChange
<1> QED
  BY <1>1, <1>2, <1>3, <1>4, <1>5, <1>6, <1>7, MenuSteps

\* A command leaves the queue only by being dispatched.
LEMMA Dispatching ==
    ASSUME Few, MenuInv, [Next]_all, Menu!Dispatches
    PROVE  /\ chosen \in Menu!Items(Menu!InOrder(shownDir), cached)
           /\ effect' = Menu!Dispatched(chosen.id, Menu!InOrder(dir), cached)
<1>1. chosen \in Menu!Items(Menu!InOrder(shownDir), cached)
  BY DEF MenuInv, Menu!Dispatches
<1>2. ~Menu!Pick
  <2> SUFFICES ASSUME Menu!Pick PROVE FALSE
    OBVIOUS
  <2>1. Menu!NoItem \in Menu!Items(Menu!InOrder(shownDir), cached)
    BY DEF Menu!Pick, Menu!Dispatches, MenuInv
  <2>2. Menu!NoItem.id = 0
    BY DEF Menu!NoItem, Menu!Item
  <2> QED
    BY <2>1, <2>2, ItemMade
<1>3. Menu!WmCommand
  BY <1>2, MenuSteps
  DEF Menu!Dispatches, menuVars, Menu!ShowContextMenu, Menu!Dismiss, Menu!PresetsChange,
      Menu!DisplaysChange
<1>4. chosen.id % 65536 = chosen.id
  <2>1. chosen.id \in Nat /\ chosen.id < 65536
    BY <1>1, ItemMade
  <2> QED
    BY <2>1
<1> QED
  BY <1>1, <1>3, <1>4 DEF Menu!WmCommand, Menu!Looked

\* The first menu has yet to be made.
LEMMA MenuBegins == ProgramInit => MenuInv
<1>1. Menu!Cardinality({}) = 0
  BY FS_EmptySet DEF Cardinality, Menu!Cardinality
<1>2. Menu!InOrder({}) = <<>>
  BY <1>1 DEF Menu!InOrder
<1>3. ProgramInit => \E A \in Desktops \union {{}} : cached = Menu!InOrder(A)
  BY <1>2 DEF ProgramInit, Menu!Init
<1> QED
  BY <1>3 DEF ProgramInit, Menu!Init, MenuInv

\* An item never turns into one of another kind or for another display, whatever
\* the page and the desktop have done since the menu was made.
THEOREM ItemsStay == Few => (Spec => ItemStaysItself)
<1> SUFFICES ASSUME Few PROVE Spec => ItemStaysItself
  OBVIOUS
<1>1. MenuInv /\ [Next]_all => MenuInv'
  BY MenuKept
<1>2. MenuInv /\ [Next]_all =>
        [Menu!Dispatches /\ ~Menu!Collides(chosen) =>
            \/ effect' = Menu!Nothing
            \/ /\ effect'.what = chosen.does.what
               /\ effect'.on = chosen.does.on]_Menu!vars
  BY Dispatching, ItemMade
<1> QED
  BY <1>1, <1>2, MenuBegins, PTL DEF Spec, ItemStaysItself, Menu!ItemStaysItself

\* With the presets of the time the menu was made, the item does what it says, but
\* for the two whose numbers are those of Open Web UI and Quit.
THEOREM ItemsAct == Few => (Spec => ItemDoesWhatItSays)
<1> SUFFICES ASSUME Few PROVE Spec => ItemDoesWhatItSays
  OBVIOUS
<1>1. MenuInv /\ [Next]_all => MenuInv'
  BY MenuKept
<1>2. MenuInv /\ [Next]_all =>
        [Menu!Dispatches /\ dir = shownDir =>
            effect' = IF ~Menu!Collides(chosen) THEN chosen.does
                      ELSE IF chosen.id = Menu!IDM_QUIT THEN Menu!Quit
                      ELSE Menu!Open]_Menu!vars
  BY Dispatching, ItemMade
<1> QED
  BY <1>1, <1>2, MenuBegins, PTL DEF Spec, ItemDoesWhatItSays, Menu!ItemDoesWhatItSays

\* The program's variables keep their types; the number of an item fits the 16 bits
\* WM_COMMAND has for it.
THEOREM ProgramTypes == Few => (Spec => []Types)
<1> SUFFICES ASSUME Few PROVE Spec => []Types
  OBVIOUS
<1>1. MenuInv /\ [Next]_all => MenuInv'
  BY MenuKept
<1>2. MenuInv => Menu!TypeOK
  <2> SUFFICES ASSUME MenuInv PROVE Menu!TypeOK
    OBVIOUS
  <2> DEFINE most == 65535
  <2>1. ASSUME NEW i \in menu \union {chosen} PROVE i.id \in 0 .. most
    <3>1. i.id \in Nat /\ i.id <= most
      <4>1. CASE i = Menu!NoItem
        BY <4>1 DEF Menu!NoItem, Menu!Item
      <4>2. CASE i # Menu!NoItem
        <5>1. i \in Menu!Items(Menu!InOrder(shownDir), cached)
          BY <4>2 DEF MenuInv
        <5> QED
          BY <5>1, ItemMade
      <4> QED
        BY <4>1, <4>2
    <3>2. most \in Nat
      OBVIOUS
    <3> HIDE DEF most
    <3> QED
      BY <3>1, <3>2
  <2>2. \A i \in menu \union {chosen} : i.id \in 0 .. most
    <3> HIDE DEF most
    <3> QED
      BY <2>1
  <2>3. /\ dir \in Dirs /\ shownDir \in Dirs /\ attached \in Desktops
        /\ \E A \in Desktops \union {{}} : cached = Menu!InOrder(A)
    BY DEF MenuInv
  <2>4. Menu!TypeOK <=> /\ dir \in Dirs /\ shownDir \in Dirs /\ attached \in Desktops
                        /\ \E A \in Desktops \union {{}} : cached = Menu!InOrder(A)
                        /\ \A i \in menu \union {chosen} : i.id \in 0 .. most
    BY SMT DEF Menu!TypeOK
  <2> HIDE DEF most
  <2> QED
    BY <2>2, <2>3, <2>4
<1> QED
  BY <1>1, <1>2, MenuBegins, LifecycleTypes, PTL DEF Spec, Types
=============================================================================
