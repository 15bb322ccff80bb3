---------------------------- MODULE HotkeyProofs ----------------------------
(***************************************************************************)
(* Proofs about HotkeyService, for every set of workers, threads, key      *)
(* combinations and configurations, and about HotkeyPanel, the service and *)
(* the displays as one program.  Type correctness and the thread part of   *)
(* the service's invariant need no further assumption; the rest is proved  *)
(* for SerialWorkers, handlers that run one at a time.  Behaviours of the  *)
(* program are behaviours of the service, so what is proved of that holds  *)
(* of them; the last part is about what the handlers of hotkeys do to the  *)
(* displays, between saves and while the program goes.                     *)
(*                                                                         *)
(* The facts about the service rest on the assumptions of HotkeyService    *)
(* only; those of HotkeyPanel are cited where the displays come in.        *)
(***************************************************************************)
EXTENDS HotkeyPanel, TLAPS

\* The initial states are well typed.
LEMMA TypeInit == Init => TypeOK
<1> SUFFICES ASSUME Init PROVE TypeOK
  OBVIOUS
<1> USE ConfigsAssumption DEF Init
<1>1. cpc \in [Callers -> CallerPCs]
  BY DEF CallerPCs
<1>2. /\ config \in [Callers -> FileContent]
      /\ target \in [Callers -> Threads \union {NoThread}]
  BY DEF FileContent
<1>3. /\ tpc \in [Threads -> ThreadPCs]
      /\ actions \in [Threads -> Configs]
  BY DEF ThreadPCs
<1>4. /\ idx \in [Threads -> Nat]
      /\ inbox \in [Threads -> SUBSET Nat]
  OBVIOUS
<1> QED
  BY <1>1, <1>2, <1>3, <1>4 DEF TypeOK, Phases, FileContent

\* No step of a caller, a hotkey thread, main() or the environment leaves the
\* declared sets: only non-empty configurations are armed, and a loop index is
\* in range when a binding is registered.
LEMMA TypeStep == TypeOK /\ ThreadInv /\ [Next]_vars => TypeOK'
<1> SUFFICES ASSUME TypeOK, ThreadInv, [Next]_vars PROVE TypeOK'
  OBVIOUS
<1> USE ConfigsAssumption DEF TypeOK, Callers, FileContent, Phases, CallerPCs,
        ThreadPCs, CallerAt, CallerTo, ThreadAt, ThreadTo, mainVars, sharedVars,
        callerVars, threadVars, osVars
<1>1. ASSUME NEW w \in Workers, PostOpens(w) PROVE TypeOK'
  BY <1>1 DEF PostOpens
<1>2. ASSUME NEW w \in Workers, PostWrites(w) PROVE TypeOK'
  BY <1>2 DEF PostWrites
<1>3. ASSUME NEW c \in Callers, CallerStep(c) PROVE TypeOK'
  <2>1. CASE StopCheck(c)
    BY <2>1, <1>3 DEF StopCheck, AfterStop
  <2>2. CASE ClearFlag(c)
    BY <2>2, <1>3 DEF ClearFlag
  <2>3. CASE PostQuit(c)
    BY <2>3, <1>3 DEF PostQuit, AfterStop
  <2>4. CASE Join(c)
    BY <2>4, <1>3 DEF Join, AfterStop
  <2>5. CASE JoinRaced(c)
    BY <2>5, <1>3 DEF JoinRaced, AfterStop, Throw
  <2>6. CASE Load(c)
    BY <2>6, <1>3 DEF Load, Throw
  <2>7. CASE SetFlag(c)
    BY <2>7, <1>3 DEF SetFlag
  <2>8. CASE Spawn(c)
    BY <2>8, <1>3 DEF Spawn, ThreadInv, ArmedInv
  <2>9. CASE SpawnFails(c)
    BY <2>9, <1>3 DEF SpawnFails, Throw
  <2> QED
    BY <1>3, <2>1, <2>2, <2>3, <2>4, <2>5, <2>6, <2>7, <2>8, <2>9 DEF CallerStep
<1>4. ASSUME NEW t \in Threads, ThreadStep(t) PROVE TypeOK'
  <2>1. CASE CreateQueue(t)
    BY <2>1, <1>4 DEF CreateQueue
  <2>2. CASE Register(t)
    <3> DEFINE h == [combo |-> actions[t][idx[t]], thread |-> t, id |-> idx[t]]
    <3>1. actions[t] \in Seq(Combos) /\ idx[t] \in 1 .. Len(actions[t])
      BY <2>2 DEF Register, ThreadInv, LoopInv
    <3>2. h \in Hotkeys
      BY <3>1 DEF Hotkeys
    <3>3. hotkeys' \in SUBSET Hotkeys
      BY <3>2, <2>2 DEF Register
    <3> QED
      BY <3>3, <2>2 DEF Register
  <2>3. CASE CheckFlag(t)
    BY <2>3, <1>4 DEF CheckFlag
  <2>4. CASE GetHotkey(t)
    BY <2>4, <1>4 DEF GetHotkey
  <2>5. CASE GetQuit(t)
    BY <2>5, <1>4 DEF GetQuit
  <2>6. CASE HandlerReturns(t)
    BY <2>6, <1>4 DEF HandlerReturns
  <2>7. CASE Unregister(t)
    BY <2>7, <1>4 DEF Unregister
  <2>8. CASE ThreadEnds(t)
    BY <2>8, <1>4 DEF ThreadEnds
  <2> QED
    BY <1>4, <2>1, <2>2, <2>3, <2>4, <2>5, <2>6, <2>7, <2>8 DEF ThreadStep
<1>5. CASE MainStep
  BY <1>5 DEF MainStep, BeginServing, BeginRelease, ExitProcess
<1>6. CASE Environment
  <2>1. ASSUME NEW h \in hotkeys, Press(h) PROVE TypeOK'
    BY <2>1 DEF Press, Hotkeys
  <2>2. ASSUME NEW k \in Others, OtherRegisters(k) \/ OtherUnregisters(k) PROVE TypeOK'
    BY <2>2 DEF OtherRegisters, OtherUnregisters
  <2> QED
    BY <1>6, <2>1, <2>2 DEF Environment
<1>7. CASE UNCHANGED vars
  BY <1>7 DEF vars
<1> QED
  BY <1>1, <1>2, <1>3, <1>4, <1>5, <1>6, <1>7 DEF Next, Gone

\* The thread part of the invariant is inductive, whatever the callers do.
LEMMA ThreadInvStep ==
    ASSUME TypeOK, TypeOK', ThreadInv, [Next]_vars
    PROVE  ThreadInv'
<1>0. QuitInv'
  <2> USE DEF QuitInv, HasQueue, ThreadInv, TypeOK, Live, CallerAt, CallerTo, ThreadAt,
          ThreadTo, mainVars, sharedVars, callerVars, threadVars, osVars
  <2>1. ASSUME NEW w \in Workers, PostOpens(w) \/ PostWrites(w) PROVE QuitInv'
    BY <2>1 DEF PostOpens, PostWrites
  <2>2. ASSUME NEW c \in Callers, CallerStep(c) PROVE QuitInv'
    BY <2>2, ThreadsAssumption
    DEF CallerStep, StopCheck, ClearFlag, PostQuit, Join, JoinRaced, Load, SetFlag,
        Spawn, SpawnFails
  <2>3. ASSUME NEW t \in Threads, ThreadStep(t) PROVE QuitInv'
    BY <2>3 DEF ThreadStep, CreateQueue, Register, CheckFlag, GetHotkey, GetQuit,
                HandlerReturns, Unregister, ThreadEnds
  <2>4. CASE MainStep \/ Environment \/ UNCHANGED vars
    BY <2>4 DEF MainStep, BeginServing, BeginRelease, ExitProcess, Environment, Press,
                OtherRegisters, OtherUnregisters, vars
  <2> QED
    BY <2>1, <2>2, <2>3, <2>4 DEF Next, Gone
<1> USE <1>0, ConfigsAssumption DEF TypeOK, ThreadInv, Live,
        CallerAt, CallerTo, ThreadAt, ThreadTo, mainVars, sharedVars,
        callerVars, threadVars, osVars
<1>1. ASSUME NEW w \in Workers, PostOpens(w) \/ PostWrites(w) PROVE ThreadInv'
  <2>1. UNCHANGED <<threadVars, hotkeys>>
    BY <1>1 DEF PostOpens, PostWrites
  <2>2. ArmedInv'
    BY <1>1 DEF PostOpens, PostWrites, ArmedInv, Callers
  <2> QED
    BY <2>1, <2>2 DEF LoopInv, RegInv, InTurn, UniqueInv
<1>2. ASSUME NEW c \in Callers, CallerStep(c) PROVE ThreadInv'
  <2>1. CASE StopCheck(c) \/ ClearFlag(c) \/ PostQuit(c) \/ JoinRaced(c)
              \/ Load(c) \/ SetFlag(c) \/ SpawnFails(c)
    <3>1. UNCHANGED <<threadVars, hotkeys>>
      BY <2>1 DEF StopCheck, ClearFlag, PostQuit, JoinRaced, Load, SetFlag, SpawnFails
    <3>2. ArmedInv'
      <4>1. CASE Load(c)
        BY <4>1 DEF Load, Throw, ArmedInv, FileContent
      <4>2. CASE SetFlag(c)
        BY <4>2 DEF SetFlag, ArmedInv
      <4>3. CASE StopCheck(c) \/ ClearFlag(c) \/ PostQuit(c) \/ JoinRaced(c) \/ SpawnFails(c)
        BY <4>3 DEF StopCheck, ClearFlag, PostQuit, JoinRaced, SpawnFails, Throw,
                    AfterStop, ArmedInv
      <4> QED
        BY <2>1, <4>1, <4>2, <4>3
    <3> QED
      BY <3>1, <3>2 DEF LoopInv, RegInv, InTurn, UniqueInv
  <2>2. CASE Join(c)
    <3>1. ArmedInv'
      BY <2>2 DEF Join, AfterStop, ArmedInv
    <3>2. target[c] \in Threads
      BY <2>2, ThreadsAssumption DEF Join
    <3>3. LoopInv'
      BY <2>2, <3>2 DEF Join, LoopInv
    <3>4. RegInv'
      BY <2>2, <3>2 DEF Join, RegInv, InTurn, Hotkeys
    <3> QED
      BY <2>2, <3>1, <3>3, <3>4 DEF Join, UniqueInv
  <2>3. CASE Spawn(c)
    <3>1. ArmedInv'
      BY <2>3 DEF Spawn, ArmedInv
    <3>2. LoopInv'
      BY <2>3 DEF Spawn, LoopInv, ArmedInv
    <3>3. RegInv'
      BY <2>3 DEF Spawn, RegInv, InTurn, Hotkeys
    <3> QED
      BY <2>3, <3>1, <3>2, <3>3 DEF Spawn, UniqueInv
  <2> QED
    BY <1>2, <2>1, <2>2, <2>3 DEF CallerStep
<1>3. ASSUME NEW t \in Threads, ThreadStep(t) PROVE ThreadInv'
  <2>0. UNCHANGED callerVars /\ ArmedInv'
    BY <1>3 DEF ThreadStep, CreateQueue, Register, CheckFlag, GetHotkey, GetQuit,
                HandlerReturns, Unregister, ThreadEnds, ArmedInv
  <2>1. CASE CreateQueue(t)
    <3>1. LoopInv'
      BY <2>1 DEF CreateQueue, LoopInv
    <3>2. RegInv'
      BY <2>1 DEF CreateQueue, RegInv, InTurn, Hotkeys
    <3> QED
      BY <2>0, <2>1, <3>1, <3>2 DEF CreateQueue, UniqueInv
  <2>2. CASE Register(t)
    <3> DEFINE h == [combo |-> actions[t][idx[t]], thread |-> t, id |-> idx[t]]
    <3>1. LoopInv'
      BY <2>2 DEF Register, LoopInv
    <3>2. \/ hotkeys' = hotkeys
          \/ Free(actions[t][idx[t]]) /\ hotkeys' = hotkeys \union {h}
      BY <2>2 DEF Register
    <3>3. RegInv'
      BY <2>2, <3>2 DEF Register, RegInv, InTurn, LoopInv, Hotkeys
    <3>4. UniqueInv'
      BY <3>2 DEF UniqueInv, Free
    <3> QED
      BY <2>0, <3>1, <3>3, <3>4
  <2>3. CASE CheckFlag(t) \/ GetHotkey(t) \/ GetQuit(t) \/ HandlerReturns(t)
    <3>1. LoopInv'
      BY <2>3 DEF CheckFlag, GetHotkey, GetQuit, HandlerReturns, LoopInv
    <3>2. /\ hotkeys' = hotkeys /\ actions' = actions
          /\ \A u \in Threads \ {t} : tpc'[u] = tpc[u] /\ idx'[u] = idx[u]
          /\ tpc[t] \in {"checking", "waiting", "handling"}
          /\ tpc'[t] \in {"checking", "waiting", "handling", "unregistering"}
          /\ tpc'[t] = "unregistering" => idx'[t] = 1
      BY <2>3 DEF CheckFlag, GetHotkey, GetQuit, HandlerReturns
    <3>3. RegInv'
      <4> SUFFICES ASSUME NEW h \in hotkeys' PROVE InTurn(h)'
        BY <3>2 DEF RegInv
      <4>1. h \in hotkeys /\ h.thread \in Threads /\ h.id \in Nat
        BY <3>2 DEF Hotkeys
      <4>2. actions[h.thread] \in Seq(Combos)
        BY <4>1
      <4>3. InTurn(h) /\ h.id >= 1
        BY <4>1, <4>2 DEF RegInv, InTurn
      <4>4. CASE h.thread = t
        BY <3>2, <4>1, <4>3, <4>4 DEF InTurn
      <4>5. CASE h.thread # t
        BY <3>2, <4>1, <4>3, <4>5 DEF InTurn
      <4> QED
        BY <4>4, <4>5
    <3> QED
      BY <2>0, <3>1, <3>2, <3>3 DEF UniqueInv
  <2>4. CASE Unregister(t)
    <3>1. LoopInv'
      BY <2>4 DEF Unregister, LoopInv
    <3>2. RegInv'
      BY <2>4 DEF Unregister, RegInv, InTurn, LoopInv, Hotkeys
    <3> QED
      BY <2>0, <2>4, <3>1, <3>2 DEF Unregister, UniqueInv
  <2>5. CASE ThreadEnds(t)
    <3>1. LoopInv'
      BY <2>5 DEF ThreadEnds, LoopInv
    <3>2. RegInv'
      BY <2>5 DEF ThreadEnds, RegInv, InTurn, Hotkeys
    <3> QED
      BY <2>0, <2>5, <3>1, <3>2 DEF ThreadEnds, UniqueInv
  <2> QED
    BY <1>3, <2>1, <2>2, <2>3, <2>4, <2>5 DEF ThreadStep
<1>4. CASE MainStep
  BY <1>4 DEF MainStep, BeginServing, BeginRelease, ExitProcess,
              ArmedInv, LoopInv, RegInv, InTurn, UniqueInv
<1>5. CASE Environment
  BY <1>5 DEF Environment, Press, OtherRegisters, OtherUnregisters,
              ArmedInv, LoopInv, RegInv, InTurn, UniqueInv
<1>6. CASE UNCHANGED vars
  BY <1>6 DEF vars, ArmedInv, LoopInv, RegInv, InTurn, UniqueInv
<1> QED
  BY <1>1, <1>2, <1>3, <1>4, <1>5, <1>6 DEF Next, Gone

\* Type correctness: no step of a caller, a hotkey thread, main() or the
\* environment leaves the declared sets, however the callers interleave.
THEOREM TypeCorrect == Spec => []TypeOK
<1>1. Init => TypeOK /\ ThreadInv
  BY TypeInit, CallersAssumption
  DEF Init, ThreadInv, ArmedInv, LoopInv, RegInv, InTurn, UniqueInv, QuitInv, Live, Callers
<1>2. TypeOK /\ ThreadInv /\ [Next]_vars => TypeOK' /\ ThreadInv'
  BY TypeStep, ThreadInvStep
<1> QED
  BY <1>1, <1>2, PTL DEF Spec

\* However the handlers race, a registered hotkey has a live thread that will
\* unregister it, and no combination is registered twice.
THEOREM HotkeysOwned == Spec => []KeysHaveAThread
<1>1. Init => TypeOK /\ ThreadInv
  BY TypeInit, CallersAssumption
  DEF Init, ThreadInv, ArmedInv, LoopInv, RegInv, InTurn, UniqueInv, QuitInv, Live, Callers
<1>2. TypeOK /\ ThreadInv /\ [Next]_vars => TypeOK' /\ ThreadInv'
  BY TypeStep, ThreadInvStep
<1>3. ThreadInv => KeysHaveAThread
  BY DEF ThreadInv, RegInv, InTurn, UniqueInv, KeysHaveAThread, Live
<1> QED
  BY <1>1, <1>2, <1>3, PTL DEF Spec

----------------------------------------------------------------------------
(* From here on handlers run one at a time. *)

\* Then at most one caller is inside a call: the server's worker while main()
\* is in the server, main() before and after.
LEMMA OneBusy ==
    ASSUME SerialWorkers, TypeOK, BusyInv,
           NEW c \in Callers, NEW d \in Callers, cpc[c] # "idle", cpc[d] # "idle"
    PROVE  c = d
  BY DEF SerialWorkers, BusyInv, Callers

\* Who may be busy in which phase; a std::thread is only assigned or destroyed
\* when it is not joinable.
LEMMA BusyStep ==
    ASSUME TypeOK, IndInv, [Next]_vars
    PROVE  BusyInv'
<1> USE CallersAssumption DEF IndInv, BusyInv, TypeOK, Callers, Alive,
        CallerAt, CallerTo, mainVars, sharedVars, callerVars, threadVars, osVars
<1>1. ASSUME NEW w \in Workers, PostOpens(w) \/ PostWrites(w) PROVE BusyInv'
  BY <1>1 DEF PostOpens, PostWrites
<1>2. ASSUME NEW c \in Callers, CallerStep(c) PROVE BusyInv'
  <2>1. CASE StopCheck(c) \/ ClearFlag(c) \/ PostQuit(c)
    BY <2>1 DEF StopCheck, ClearFlag, PostQuit, AfterStop
  <2>2. CASE Join(c)
    BY <2>2 DEF Join, AfterStop
  <2>3. CASE JoinRaced(c)
    BY <2>3 DEF JoinRaced, CallInv
  <2>4. CASE Load(c)
    BY <2>4 DEF Load, Throw
  <2>5. CASE SetFlag(c)
    BY <2>5 DEF SetFlag
  <2>6. CASE Spawn(c)
    <3>1. hotkeyThread = NoThread
      BY <2>6 DEF Spawn, CallInv
    <3> QED
      BY <2>6, <3>1 DEF Spawn
  <2>7. CASE SpawnFails(c)
    BY <2>7 DEF SpawnFails, Throw
  <2> QED
    BY <1>2, <2>1, <2>2, <2>3, <2>4, <2>5, <2>6, <2>7 DEF CallerStep
<1>3. ASSUME NEW t \in Threads, ThreadStep(t) PROVE BusyInv'
  BY <1>3 DEF ThreadStep, CreateQueue, Register, CheckFlag, GetHotkey, GetQuit,
              HandlerReturns, Unregister, ThreadEnds
<1>4. CASE MainStep
  BY <1>4 DEF MainStep, BeginServing, BeginRelease, ExitProcess, HandleInv
<1>5. CASE Environment
  BY <1>5 DEF Environment, Press, OtherRegisters, OtherUnregisters
<1>6. CASE UNCHANGED vars
  BY <1>6 DEF vars
<1> QED
  BY <1>1, <1>2, <1>3, <1>4, <1>5, <1>6 DEF Next, Gone

\* What each step of a call relies on: in particular that the thread it joins,
\* if blocked in GetMessage, has the WM_QUIT.
LEMMA CallStep ==
    ASSUME SerialWorkers, TypeOK, IndInv, [Next]_vars
    PROVE  CallInv'
<1> USE DEF IndInv, TypeOK, CallerAt, CallerTo, ThreadAt, ThreadTo,
        mainVars, sharedVars, callerVars, threadVars, osVars
<1>1. ASSUME NEW w \in Workers, PostOpens(w) \/ PostWrites(w) PROVE CallInv'
  <2>1. w \in Callers /\ cpc[w] \in {"idle", "writing"}
        /\ cpc' = [cpc EXCEPT ![w] = cpc'[w]] /\ cpc'[w] \in {"writing", "stopcheck"}
        /\ UNCHANGED <<sharedVars, target, threadVars, osVars>>
        /\ \A d \in Callers \ {w} : config'[d] = config[d]
    BY <1>1 DEF PostOpens, PostWrites, Callers
  <2>2. \A d \in Callers \ {w} : cpc[d] \notin {"arming", "spawning"}
    BY <1>1, OneBusy DEF PostOpens, PostWrites, BusyInv, Callers, SerialWorkers
  <2> QED
    BY <2>1, <2>2 DEF CallInv
<1>2. ASSUME NEW c \in Callers, CallerStep(c) PROVE CallInv'
  <2>1. \A d \in Callers \ {c} : cpc[d] = "idle"
    BY <1>2, OneBusy DEF CallerStep, StopCheck, ClearFlag, PostQuit, Join, JoinRaced,
                         Load, SetFlag, Spawn, SpawnFails
  <2>2. \A d \in Callers \ {c} : cpc'[d] = "idle"
    BY <1>2, <2>1 DEF CallerStep, StopCheck, ClearFlag, PostQuit, Join, JoinRaced,
                      Load, SetFlag, Spawn, SpawnFails, Throw
  <2>3. CASE StopCheck(c)
    <3>1. ~hotkeysRunning => hotkeyThread = NoThread
      BY <2>1, <2>3 DEF StopCheck, HandleInv
    <3> QED
      BY <2>2, <2>3, <3>1 DEF StopCheck, AfterStop, CallInv
  <2>4. CASE ClearFlag(c)
    BY <2>2, <2>4 DEF ClearFlag, CallInv
  <2>5. CASE PostQuit(c)
    <3>1. hotkeyThread # NoThread /\ tpc[hotkeyThread] = "waiting" => HasQueue(hotkeyThread)
      BY DEF HasQueue, Live
    <3> QED
      BY <2>2, <2>5, <3>1 DEF PostQuit, AfterStop, CallInv
  <2>6. CASE Join(c)
    BY <2>2, <2>6 DEF Join, AfterStop, CallInv
  <2>7. CASE JoinRaced(c)
    BY <2>7 DEF JoinRaced, CallInv
  <2>8. CASE Load(c)
    BY <2>2, <2>8 DEF Load, Throw, CallInv
  <2>9. CASE SetFlag(c)
    BY <2>2, <2>9 DEF SetFlag, CallInv
  <2>10. CASE Spawn(c) \/ SpawnFails(c)
    BY <2>2, <2>10 DEF Spawn, SpawnFails, Throw, CallInv
  <2> QED
    BY <1>2, <2>3, <2>4, <2>5, <2>6, <2>7, <2>8, <2>9, <2>10 DEF CallerStep
<1>3. ASSUME NEW t \in Threads, ThreadStep(t) PROVE CallInv'
  <2>0. UNCHANGED <<mainVars, sharedVars, callerVars>>
    BY <1>3 DEF ThreadStep, CreateQueue, Register, CheckFlag, GetHotkey, GetQuit,
                HandlerReturns, Unregister, ThreadEnds
  <2>1. \A u \in Threads : tpc'[u] = "waiting" =>
            \/ tpc[u] = "waiting" /\ (u \in quit => u \in quit')
            \/ hotkeysRunning
    <3>1. CASE GetQuit(t) \/ ThreadEnds(t)
      BY <3>1 DEF GetQuit, ThreadEnds
    <3>2. CASE CreateQueue(t) \/ Register(t) \/ CheckFlag(t) \/ GetHotkey(t)
                \/ HandlerReturns(t) \/ Unregister(t)
      BY <3>2 DEF CreateQueue, Register, CheckFlag, GetHotkey, HandlerReturns, Unregister
    <3> QED
      BY <1>3, <3>1, <3>2 DEF ThreadStep
  <2> QED
    BY <2>0, <2>1 DEF CallInv
<1>4. CASE MainStep
  BY <1>4 DEF MainStep, BeginServing, BeginRelease, ExitProcess, CallInv, Callers
<1>5. CASE Environment
  BY <1>5 DEF Environment, Press, OtherRegisters, OtherUnregisters, CallInv
<1>6. CASE UNCHANGED vars
  BY <1>6 DEF vars, CallInv
<1> QED
  BY <1>1, <1>2, <1>3, <1>4, <1>5, <1>6 DEF Next, Gone

\* The one live thread is the one s_hotkeyThread names, and it is in working
\* order unless a call has begun to stop it.
LEMMA HandleStep ==
    ASSUME SerialWorkers, TypeOK, IndInv, [Next]_vars
    PROVE  HandleInv'
<1> USE DEF IndInv, TypeOK, NoOrphan, Live, CallerAt, CallerTo, ThreadAt, ThreadTo,
        mainVars, sharedVars, callerVars, threadVars, osVars
<1> DEFINE Early(c) == cpc[c] \in {"idle", "writing", "stopcheck", "clearing"}
<1>1. ASSUME NEW w \in Workers, PostOpens(w) \/ PostWrites(w) PROVE HandleInv'
  <2>1. /\ phase = "serving" /\ phase' = phase
        /\ \A c \in Callers : Early(c)' => Early(c)
        /\ UNCHANGED <<sharedVars, threadVars, osVars>>
    BY <1>1 DEF PostOpens, PostWrites, BusyInv, Alive
  <2> QED
    BY <2>1 DEF HandleInv
<1>2. ASSUME NEW c \in Callers, CallerStep(c) PROVE HandleInv'
  <2>1. /\ \A d \in Callers \ {c} : cpc[d] = "idle"
        /\ cpc[c] # "idle"
    BY <1>2, OneBusy DEF CallerStep, StopCheck, ClearFlag, PostQuit, Join, JoinRaced,
                         Load, SetFlag, Spawn, SpawnFails
  <2>2. \/ c = Main
        \/ cpc[Main] = "idle" /\ phase = "serving"
    BY <2>1, <1>2 DEF Callers, BusyInv
  <2>3. CASE StopCheck(c)
    <3>1. ~hotkeysRunning => hotkeyThread = NoThread
      BY <2>1, <2>3 DEF StopCheck, HandleInv
    <3> QED
      BY <2>1, <2>2, <2>3, <3>1 DEF StopCheck, AfterStop, HandleInv, Alive
  <2>4. CASE ClearFlag(c)
    BY <2>1, <2>2, <2>4 DEF ClearFlag, HandleInv, Alive
  <2>5. CASE PostQuit(c)
    BY <2>1, <2>2, <2>5 DEF PostQuit, AfterStop, HandleInv, Alive
  <2>6. CASE Join(c)
    <3>1. hotkeyThread' = NoThread /\ phase' = phase
      BY <2>6 DEF Join
    <3>2. \A t \in Threads : tpc'[t] \in {"unborn", "done"}
      BY <2>6, ThreadsAssumption DEF Join, HandleInv
    <3> QED
      BY <3>1, <3>2 DEF HandleInv
  <2>7. CASE JoinRaced(c)
    BY <2>7 DEF JoinRaced, CallInv
  <2>8. CASE Load(c)
    <3>1. hotkeyThread = NoThread
      BY <2>8 DEF Load, CallInv
    <3> QED
      BY <2>8, <3>1 DEF Load, Throw, HandleInv, Alive
  <2>9. CASE SetFlag(c)
    <3>1. hotkeyThread = NoThread
      BY <2>9 DEF SetFlag, CallInv
    <3> QED
      BY <2>9, <3>1 DEF SetFlag, HandleInv, Alive
  <2>10. CASE SpawnFails(c)
    <3>1. hotkeyThread = NoThread
      BY <2>10 DEF SpawnFails, CallInv
    <3> QED
      BY <2>10, <3>1 DEF SpawnFails, Throw, HandleInv, Alive
  <2>11. CASE Spawn(c)
    <3>1. hotkeyThread = NoThread /\ hotkeysRunning
      BY <2>11 DEF Spawn, CallInv
    <3>2. PICK t \in Threads :
              /\ tpc[t] = "unborn"
              /\ tpc' = [tpc EXCEPT ![t] = "starting"]
              /\ hotkeyThread' = t
              /\ UNCHANGED <<phase, hotkeysRunning, quit>>
      BY <2>11, <3>1 DEF Spawn
    <3>3. t \notin quit
      BY <3>2 DEF ThreadInv, QuitInv, HasQueue
    <3>4. \A u \in Threads : ~Live(u)
      BY <3>1, ThreadsAssumption DEF HandleInv
    <3>5. NoOrphan'
      BY <3>2, <3>4
    <3>6. phase # "releasing" \/ cpc'[Main] # "idle"
      BY <2>2, <2>11 DEF Spawn, BusyInv
    <3>7. /\ tpc'[hotkeyThread'] = "starting"
          /\ hotkeyThread' # NoThread
          /\ hotkeyThread' \notin quit'
          /\ hotkeysRunning' /\ phase' = phase /\ phase # "exited"
      BY <2>11, <3>1, <3>2, <3>3, ThreadsAssumption DEF Spawn, Alive
    <3> QED
      BY <3>5, <3>6, <3>7 DEF HandleInv
  <2> QED
    BY <1>2, <2>3, <2>4, <2>5, <2>6, <2>7, <2>8, <2>9, <2>10, <2>11 DEF CallerStep
<1>3. ASSUME NEW t \in Threads, ThreadStep(t) PROVE HandleInv'
  <2>0. UNCHANGED <<mainVars, sharedVars, callerVars>>
    BY <1>3 DEF ThreadStep, CreateQueue, Register, CheckFlag, GetHotkey, GetQuit,
                HandlerReturns, Unregister, ThreadEnds
  <2>1. /\ quit' \subseteq quit
        /\ \A u \in Threads : tpc[u] \in {"unborn", "done"} => tpc'[u] = tpc[u]
        /\ \A u \in Threads : tpc[u] # "unborn" => tpc'[u] # "unborn"
        /\ \A u \in Threads :
              tpc'[u] \in {"unregistering", "exiting", "done"} =>
                \/ tpc[u] \in {"unregistering", "exiting", "done"}
                \/ ~hotkeysRunning
                \/ u \in quit
    BY <1>3 DEF ThreadStep, CreateQueue, Register, CheckFlag, GetHotkey, GetQuit,
                HandlerReturns, Unregister, ThreadEnds
  <2> QED
    BY <2>0, <2>1 DEF HandleInv
<1>4. CASE MainStep
  BY <1>4 DEF MainStep, BeginServing, BeginRelease, ExitProcess, HandleInv, Callers, BusyInv
<1>5. CASE Environment
  BY <1>5 DEF Environment, Press, OtherRegisters, OtherUnregisters, HandleInv
<1>6. CASE UNCHANGED vars
  BY <1>6 DEF vars, HandleInv
<1> QED
  BY <1>1, <1>2, <1>3, <1>4, <1>5, <1>6 DEF Next, Gone

\* When no call is under way the bindings in force are those of the file: the
\* call that ends last has read what it, alone, had written.
LEMMA FileStep ==
    ASSUME SerialWorkers, TypeOK, IndInv, [Next]_vars
    PROVE  FileInv'
<1> SUFFICES ASSUME phase' \in {"startup", "serving"}, AllIdle'
             PROVE  IF hotkeyThread' # NoThread
                    THEN actions'[hotkeyThread'] = file'
                    ELSE hotkeysRunning' \/ file' \in {<<>>, Malformed}
  BY DEF FileInv
<1> USE DEF IndInv, TypeOK, CallerAt, CallerTo, mainVars, sharedVars, callerVars,
            threadVars, osVars
<1>1. ASSUME NEW w \in Workers, PostOpens(w) \/ PostWrites(w) PROVE FALSE
  BY <1>1 DEF PostOpens, PostWrites, AllIdle, Callers
<1>2. ASSUME NEW c \in Callers, CallerStep(c)
      PROVE  IF hotkeyThread' # NoThread
             THEN actions'[hotkeyThread'] = file'
             ELSE hotkeysRunning' \/ file' \in {<<>>, Malformed}
  <2>0. cpc'[c] = "idle"
    BY DEF AllIdle
  <2>1. c = Main => phase \in {"startup", "releasing"}
    BY <1>2 DEF CallerStep, StopCheck, ClearFlag, PostQuit, Join, JoinRaced, Load,
                SetFlag, Spawn, SpawnFails, BusyInv, Alive
  <2>2. CASE StopCheck(c) \/ ClearFlag(c) \/ PostQuit(c) \/ Join(c) \/ SetFlag(c)
    BY <2>0, <2>2 DEF StopCheck, ClearFlag, PostQuit, Join, SetFlag, AfterStop
  <2>3. CASE JoinRaced(c)
    BY <2>3 DEF JoinRaced, CallInv
  <2>4. CASE Load(c)
    BY <2>0, <2>4 DEF Load, Throw, CallInv
  <2>5. CASE Spawn(c)
    <3>1. hotkeyThread = NoThread /\ config[c] = file
      BY <2>5 DEF Spawn, CallInv
    <3> QED
      BY <2>5, <3>1, ThreadsAssumption DEF Spawn
  <2>6. CASE SpawnFails(c)
    BY <2>6 DEF SpawnFails, CallInv
  <2> QED
    BY <1>2, <2>2, <2>3, <2>4, <2>5, <2>6 DEF CallerStep
<1>3. ASSUME NEW t \in Threads, ThreadStep(t)
      PROVE  UNCHANGED <<mainVars, sharedVars, callerVars, actions>>
  BY <1>3 DEF ThreadStep, CreateQueue, Register, CheckFlag, GetHotkey, GetQuit,
              HandlerReturns, Unregister, ThreadEnds
<1>4. CASE MainStep
  BY <1>4 DEF MainStep, BeginServing, BeginRelease, ExitProcess, FileInv, AllIdle
<1>5. CASE Environment \/ UNCHANGED vars
  BY <1>5 DEF Environment, Press, OtherRegisters, OtherUnregisters, vars, FileInv, AllIdle
<1> QED
  BY <1>1, <1>2, <1>3, <1>4, <1>5 DEF Next, Gone, FileInv, AllIdle

\* A thread keeps what it registered until it unregisters, and fails to register
\* only what another program has or what it has itself: its predecessor is gone.
LEMMA HoldStep ==
    ASSUME TypeOK, IndInv, [Next]_vars
    PROVE  HoldInv'
<1> USE DEF IndInv, TypeOK, CallerAt, CallerTo, ThreadAt, ThreadTo,
        mainVars, sharedVars, callerVars, threadVars, osVars
<1>1. ASSUME NEW w \in Workers, PostOpens(w) \/ PostWrites(w) PROVE HoldInv'
  BY <1>1 DEF PostOpens, PostWrites, HoldInv, Held
<1>2. ASSUME NEW c \in Callers, CallerStep(c) PROVE HoldInv'
  <2>1. CASE Spawn(c)
    BY <2>1 DEF Spawn, HoldInv, Held
  <2>2. CASE Join(c)
    BY <2>2 DEF Join, HoldInv, Held
  <2>3. CASE StopCheck(c) \/ ClearFlag(c) \/ PostQuit(c) \/ JoinRaced(c)
              \/ Load(c) \/ SetFlag(c) \/ SpawnFails(c)
    <3>1. UNCHANGED <<threadVars, hotkeys>>
      BY <2>3 DEF StopCheck, ClearFlag, PostQuit, JoinRaced, Load, SetFlag, SpawnFails
    <3> QED
      BY <3>1 DEF HoldInv, Held
  <2> QED
    BY <1>2, <2>1, <2>2, <2>3 DEF CallerStep
<1>3. ASSUME NEW t \in Threads, ThreadStep(t) PROVE HoldInv'
  <2>1. CASE Register(t)
    <3> DEFINE k == actions[t][idx[t]]
               r == [combo |-> k, thread |-> t, id |-> idx[t]]
    <3>1. idx[t] \in 1 .. Len(actions[t])
      BY <2>1 DEF Register, ThreadInv, LoopInv
    <3>2. \A u \in Threads : Held(u) \subseteq Held(u)'
      BY <2>1 DEF Register, Held
    <3>3. k \in Others \union Held(t)'
      <4>1. CASE Free(k)
        <5>1. r \in hotkeys'
          BY <2>1, <4>1 DEF Register
        <5> QED
          BY <5>1 DEF Held
      <4>2. CASE ~Free(k)
        <5>1. CASE k \in foreign
          BY <5>1
        <5>2. ASSUME NEW h \in hotkeys, h.combo = k PROVE k \in Held(t)
          <6>1. h.thread \in Threads /\ Live(h.thread) /\ Live(t)
            BY <2>1 DEF Hotkeys, ThreadInv, RegInv, InTurn, Live, Register
          <6>2. h.thread = t
            BY <2>1, <6>1 DEF HandleInv, NoOrphan
          <6> QED
            BY <5>2, <6>2 DEF Held
        <5> QED
          BY <4>2, <5>1, <5>2, <3>2 DEF Free
      <4> QED
        BY <4>1, <4>2
    <3>4. \A i \in 1 .. idx[t] : actions[t][i] \in Others \union Held(t)'
      <4>1. \A i \in 1 .. idx[t] - 1 : actions[t][i] \in Others \union Held(t)
        BY <2>1 DEF Register, HoldInv
      <4>2. \A i \in 1 .. idx[t] : i = idx[t] \/ i \in 1 .. idx[t] - 1
        OBVIOUS
      <4> QED
        BY <4>1, <4>2, <3>2, <3>3
    <3>5. /\ actions' = actions
          /\ \A u \in Threads \ {t} : tpc'[u] = tpc[u] /\ idx'[u] = idx[u]
          /\ idx'[t] = idx[t] + 1
          /\ tpc'[t] \in {"registering", "checking"}
          /\ tpc'[t] = "checking" => idx[t] = Len(actions[t])
      BY <2>1 DEF Register
    <3> HIDE DEF k, r
    <3>6. ASSUME NEW u \in Threads PROVE
            /\ tpc'[u] = "registering" =>
                \A i \in 1 .. idx'[u] - 1 : actions'[u][i] \in Others \union Held(u)'
            /\ tpc'[u] \in {"checking", "waiting", "handling"} =>
                \A i \in 1 .. Len(actions'[u]) : actions'[u][i] \in Others \union Held(u)'
      <4>1. CASE u = t
        <5>1. idx'[u] - 1 = idx[t]
          <6>1. idx[t] \in Nat /\ idx'[u] = idx[t] + 1
            BY <3>5, <4>1
          <6> QED
            BY <6>1
        <5> QED
          BY <3>4, <3>5, <4>1, <5>1
      <4>2. CASE u # t
        BY <3>2, <3>5, <4>2 DEF HoldInv
      <4> QED
        BY <4>1, <4>2
    <3> QED
      BY <3>6 DEF HoldInv
  <2>2. CASE CreateQueue(t)
    BY <2>2 DEF CreateQueue, HoldInv, Held, ThreadInv, LoopInv
  <2>3. CASE CheckFlag(t) \/ GetHotkey(t) \/ GetQuit(t) \/ HandlerReturns(t) \/ ThreadEnds(t)
    BY <2>3 DEF CheckFlag, GetHotkey, GetQuit, HandlerReturns, ThreadEnds, HoldInv, Held
  <2>4. CASE Unregister(t)
    <3>1. \A u \in Threads \ {t} : Held(u)' = Held(u)
      BY <2>4 DEF Unregister, Held
    <3> QED
      BY <2>4, <3>1 DEF Unregister, HoldInv
  <2> QED
    BY <1>3, <2>1, <2>2, <2>3, <2>4 DEF ThreadStep
<1>4. CASE MainStep
  BY <1>4 DEF MainStep, BeginServing, BeginRelease, ExitProcess, HoldInv, Held
<1>5. CASE Environment
  BY <1>5 DEF Environment, Press, OtherRegisters, OtherUnregisters, HoldInv, Held
<1>6. CASE UNCHANGED vars
  BY <1>6 DEF vars, HoldInv, Held
<1> QED
  BY <1>1, <1>2, <1>3, <1>4, <1>5, <1>6 DEF Next, Gone

\* The invariant holds when main() calls apply_shortkeys for the first time.
LEMMA IndInit == Init => IndInv
  BY CallersAssumption, ThreadsAssumption, TypeInit
  DEF Init, IndInv, ThreadInv, ArmedInv, LoopInv, RegInv, InTurn, UniqueInv, QuitInv,
      BusyInv, CallInv, HandleInv, NoOrphan, FileInv, AllIdle, HoldInv, Live, Callers

\* The parts are inductive together.
LEMMA IndStep ==
    ASSUME SerialWorkers, TypeOK, IndInv, [Next]_vars
    PROVE  TypeOK' /\ IndInv'
<1>1. TypeOK' /\ ThreadInv'
  BY TypeStep, ThreadInvStep DEF IndInv
<1> QED
  BY <1>1, BusyStep, CallStep, HandleStep, FileStep, HoldStep DEF IndInv

\* The inductive invariant holds in every reachable state.
THEOREM Inductive == SerialWorkers => (Spec => [](TypeOK /\ IndInv))
<1> SUFFICES ASSUME SerialWorkers PROVE Spec => [](TypeOK /\ IndInv)
  OBVIOUS
<1>1. Init => TypeOK /\ IndInv
  BY TypeInit, IndInit
<1>2. TypeOK /\ IndInv /\ [Next]_vars => (TypeOK /\ IndInv)'
  BY IndStep
<1> QED
  BY <1>1, <1>2, PTL DEF Spec

\* Saves that do not overlap stop the old thread before they read the file.
THEOREM StopFirst == SerialWorkers => (Spec => []StopsExisting)
<1>1. TypeOK /\ IndInv => StopsExisting
  BY ThreadsAssumption DEF IndInv, CallInv, HandleInv, NoOrphan, StopsExisting, TypeOK
<1> QED
  BY <1>1, Inductive, PTL

\* No hotkey thread is ever left running without the handle that stops it.
THEOREM NeverOrphaned == SerialWorkers => (Spec => []NoOrphan)
<1>1. IndInv => NoOrphan
  BY DEF IndInv, HandleInv
<1> QED
  BY <1>1, Inductive, PTL

\* The WM_QUIT of a stop cannot be missed, although it can be lost: the flag is
\* cleared before it is posted, and the thread makes its queue before it reads
\* the flag.
THEOREM NoLostWakeup == SerialWorkers => (Spec => []JoinNotStuck)
<1>1. IndInv => JoinNotStuck
  BY DEF IndInv, CallInv, JoinNotStuck
<1> QED
  BY <1>1, Inductive, PTL

\* The process never dies of a joinable std::thread.
THEOREM NoTerminate == SerialWorkers => (Spec => []NeverTerminates)
<1>1. IndInv => NeverTerminates
  BY DEF IndInv, BusyInv, NeverTerminates
<1> QED
  BY <1>1, Inductive, PTL

\* Between calls, the bindings in force are those of gapa.json.
THEOREM FileRules == SerialWorkers => (Spec => []FileInForce)
<1>1. IndInv => FileInForce
  BY DEF IndInv, FileInv, FileInForce, Settled
<1> QED
  BY <1>1, Inductive, PTL

\* A thread that has finished registering holds every key only this process uses.
THEOREM KeysHeld == SerialWorkers => (Spec => []HoldsItsKeys)
<1>1. IndInv => HoldsItsKeys
  BY DEF IndInv, HoldInv, HoldsItsKeys, Keys
<1> QED
  BY <1>1, Inductive, PTL

\* The process that returns from main leaves no hotkey and no thread behind.
THEOREM LeavesNothing == SerialWorkers => (Spec => []CleanExit)
<1>1. TypeOK /\ IndInv => CleanExit
  <2> SUFFICES ASSUME TypeOK, IndInv, phase = "exited"
               PROVE  hotkeys = {} /\ \A t \in Threads : ~Live(t)
    BY DEF CleanExit
  <2>1. \A t \in Threads : ~Live(t)
    BY ThreadsAssumption DEF IndInv, HandleInv, NoOrphan
  <2>2. \A h \in hotkeys : h.thread \in Threads /\ Live(h.thread)
    BY DEF TypeOK, Hotkeys, IndInv, ThreadInv, RegInv, InTurn, Live
  <2> QED
    BY <2>1, <2>2
<1> QED
  BY <1>1, Inductive, PTL

----------------------------------------------------------------------------
(* The service implements KeybindingSet. *)

\* Every step of the service is a step of the promise or changes nothing of it.
LEMMA PromiseStep ==
    ASSUME SerialWorkers, TypeOK, TypeOK', IndInv, IndInv', [Next]_vars
    PROVE  [Promise!Next]_(Promise!vars)
<1> USE ThreadsAssumption DEF TypeOK, CallerAt, CallerTo, ThreadAt, ThreadTo,
        mainVars, sharedVars, callerVars, threadVars, osVars
<1> DEFINE reg == {h.combo : h \in hotkeys}
<1>1. \A h \in hotkeys : h.thread \in Threads /\ Live(h.thread) /\ h.thread = hotkeyThread
  BY DEF Hotkeys, IndInv, ThreadInv, RegInv, InTurn, Live, HandleInv, NoOrphan
<1>2. UNCHANGED <<hotkeyThread, tpc, actions, hotkeys>> => UNCHANGED Promise!vars
  BY DEF Promise!vars, InForce, Retiring, Live
<1>3. ASSUME NEW w \in Workers, PostOpens(w) \/ PostWrites(w)
      PROVE  [Promise!Next]_(Promise!vars)
  BY <1>2, <1>3 DEF PostOpens, PostWrites
<1>4. ASSUME NEW c \in Callers, CallerStep(c)
      PROVE  [Promise!Next]_(Promise!vars)
  <2>1. CASE StopCheck(c) \/ ClearFlag(c) \/ PostQuit(c) \/ Load(c) \/ SetFlag(c) \/ SpawnFails(c)
    BY <1>2, <2>1 DEF StopCheck, ClearFlag, PostQuit, Load, SetFlag, SpawnFails
  <2>2. CASE JoinRaced(c)
    BY <2>2 DEF JoinRaced, IndInv, CallInv
  <2>3. CASE Join(c)
    <3>1. /\ InForce = NoThread /\ ~Retiring
          /\ InForce' = NoThread /\ ~Retiring'
          /\ hotkeys' = hotkeys
      BY <2>3 DEF Join, InForce, Retiring, Live
    <3> QED
      BY <3>1 DEF Promise!vars, Retiring
  <2>4. CASE Spawn(c)
    <3>1. hotkeyThread = NoThread
      BY <2>4 DEF Spawn, IndInv, CallInv
    <3>2. hotkeys = {}
      BY <1>1, <3>1
    <3>3. config[c] \in Configs
      BY <2>4 DEF Spawn, IndInv, ThreadInv, ArmedInv
    <3>4. /\ InForce = NoThread /\ InForce' = config[c]
          /\ ~Retiring /\ ~Retiring' /\ hotkeys' = hotkeys
      BY <2>4, <3>1 DEF Spawn, InForce, Retiring, Live
    <3>5. Promise!Adopt(config[c])
      BY <3>2, <3>4 DEF Promise!Adopt, Retiring
    <3> QED
      BY <3>3, <3>5 DEF Promise!Next
  <2> QED
    BY <1>4, <2>1, <2>2, <2>3, <2>4 DEF CallerStep
<1>5. ASSUME NEW t \in Threads, ThreadStep(t)
      PROVE  [Promise!Next]_(Promise!vars)
  <2>1. Live(t) /\ hotkeyThread = t /\ hotkeyThread' = t /\ actions' = actions
    BY <1>5 DEF ThreadStep, CreateQueue, Register, CheckFlag, GetHotkey, GetQuit,
                HandlerReturns, Unregister, ThreadEnds, Live, IndInv, HandleInv, NoOrphan
  <2>2. InForce = actions[t] /\ actions[t] \in Configs /\ InForce # NoThread
    BY <2>1, ConfigsAssumption DEF InForce
  <2>3. Retiring <=> tpc[t] \in {"unregistering", "exiting"}
    BY <2>1 DEF Retiring
  <2>4. Retiring' <=> tpc'[t] \in {"unregistering", "exiting"}
    BY <2>1 DEF Retiring
  <2>5. tpc'[t] \notin {"unborn", "done"} => InForce' = InForce
    BY <2>1, <2>2 DEF InForce, Live
  <2>6. CASE CreateQueue(t) \/ GetHotkey(t) \/ HandlerReturns(t)
    <3>1. /\ tpc[t] \in {"starting", "waiting", "handling"}
          /\ tpc'[t] \in {"registering", "handling", "checking"}
          /\ hotkeys' = hotkeys
      BY <2>6 DEF CreateQueue, GetHotkey, HandlerReturns
    <3>2. InForce' = InForce /\ (Retiring' <=> Retiring)
      BY <2>3, <2>4, <2>5, <3>1
    <3> QED
      BY <3>1, <3>2 DEF Promise!vars, Retiring
  <2>7. CASE CheckFlag(t) \/ GetQuit(t)
    <3>1. /\ tpc[t] \in {"checking", "waiting"}
          /\ tpc'[t] \in {"waiting", "unregistering"}
          /\ hotkeys' = hotkeys
      BY <2>7 DEF CheckFlag, GetQuit
    <3>2. InForce' = InForce
      BY <2>5, <3>1
    <3>3. CASE tpc'[t] = "waiting"
      BY <2>3, <2>4, <3>1, <3>2, <3>3 DEF Promise!vars, Retiring
    <3>4. CASE tpc'[t] = "unregistering"
      <4>1. Promise!Retire
        BY <2>2, <2>4, <3>1, <3>2, <3>4 DEF Promise!Retire, Retiring
      <4> QED
        BY <4>1 DEF Promise!Next
    <3> QED
      BY <3>1, <3>3, <3>4
  <2>8. CASE Register(t)
    <3> DEFINE k == actions[t][idx[t]]
               r == [combo |-> k, thread |-> t, id |-> idx[t]]
    <3>1. /\ InForce' = InForce
          /\ ~Retiring /\ ~Retiring'
      BY <2>3, <2>4, <2>5, <2>8 DEF Register
    <3>2. k \in Promise!Keys(InForce)
      BY <2>2, <2>8 DEF Promise!Keys, Register, IndInv, ThreadInv, LoopInv
    <3>3. CASE Free(k)
      <4>1. hotkeys' = hotkeys \union {r}
        BY <2>8, <3>3 DEF Register
      <4>2. {h.combo : h \in hotkeys'} = reg \union {k}
        <5>1. r.combo = k
          OBVIOUS
        <5> HIDE DEF r, k
        <5> QED
          BY <4>1, <5>1
      <4>3. \E key \in Promise!Keys(InForce) : Promise!Take(key)
        BY <2>2, <3>1, <3>2, <4>2 DEF Promise!Take, Retiring
      <4> QED
        BY <2>2, <4>3 DEF Promise!Next
    <3>4. CASE ~Free(k)
      <4>1. hotkeys' = hotkeys
        BY <2>8, <3>4 DEF Register
      <4> QED
        BY <3>1, <4>1 DEF Promise!vars, Retiring
    <3> QED
      BY <3>3, <3>4
  <2>9. CASE Unregister(t)
    <3>1. /\ InForce' = InForce
          /\ Retiring /\ Retiring'
          /\ hotkeys' = {h \in hotkeys : ~(h.thread = t /\ h.id = idx[t])}
      BY <2>3, <2>4, <2>5, <2>9 DEF Unregister
    <3>2. CASE \E g \in hotkeys : g.id = idx[t]
      <4>1. PICK g \in hotkeys : g.id = idx[t]
        BY <3>2
      <4>2. \A h \in hotkeys : h.id = idx[t] => h = g
        <5>1. \A h \in hotkeys : h.combo = actions[t][h.id]
          BY <1>1, <2>1 DEF IndInv, ThreadInv, RegInv, InTurn
        <5> QED
          BY <4>1, <5>1 DEF IndInv, ThreadInv, UniqueInv
      <4>3. hotkeys' = hotkeys \ {g}
        BY <1>1, <2>1, <3>1, <4>1, <4>2
      <4>4. \A h \in hotkeys : h.combo = g.combo => h = g
        BY DEF IndInv, ThreadInv, UniqueInv
      <4>5. {h.combo : h \in hotkeys'} = reg \ {g.combo}
        BY <4>3, <4>4
      <4>6. Promise!GiveBack(g.combo)
        BY <3>1, <4>5 DEF Promise!GiveBack, Retiring
      <4> QED
        BY <4>1, <4>6 DEF Promise!Next
    <3>3. CASE \A g \in hotkeys : g.id # idx[t]
      <4>1. hotkeys' = hotkeys
        BY <3>1, <3>3
      <4> QED
        BY <3>1, <4>1 DEF Promise!vars, Retiring
    <3> QED
      BY <3>2, <3>3
  <2>10. CASE ThreadEnds(t)
    <3>1. Retiring /\ ~Retiring' /\ InForce' = NoThread /\ hotkeys' = hotkeys
      BY <2>1, <2>3, <2>4, <2>10 DEF ThreadEnds, InForce, Live
    <3>2. hotkeys = {}
      BY <1>1, <2>1, <2>10 DEF ThreadEnds, IndInv, ThreadInv, RegInv, InTurn
    <3>3. Promise!Withdraw
      BY <3>1, <3>2 DEF Promise!Withdraw, Retiring
    <3> QED
      BY <3>3 DEF Promise!Next
  <2> QED
    BY <1>5, <2>6, <2>7, <2>8, <2>9, <2>10 DEF ThreadStep
<1>6. CASE MainStep \/ Environment \/ UNCHANGED vars
  BY <1>2, <1>6 DEF MainStep, BeginServing, BeginRelease, ExitProcess, Environment, Press,
                    OtherRegisters, OtherUnregisters, vars
<1> QED
  BY <1>3, <1>4, <1>5, <1>6 DEF Next, Gone

\* With handlers that run one at a time the service implements KeybindingSet:
\* keys of two configurations are never held together, and every key is given
\* back before the next configuration comes into force.
THEOREM ImplementsPromise == SerialWorkers => (Spec => KeepsPromise)
<1> SUFFICES ASSUME SerialWorkers PROVE Spec => KeepsPromise
  OBVIOUS
<1>1. Init => Promise!Init
  BY DEF Init, Promise!Init, InForce, Retiring
<1>2. TypeOK /\ IndInv /\ (TypeOK /\ IndInv)' /\ [Next]_vars
          => [Promise!Next]_(Promise!vars)
  BY PromiseStep
<1>3. Spec => [](TypeOK /\ IndInv)
  BY Inductive
<1> QED
  BY <1>1, <1>2, <1>3, PTL DEF Spec, KeepsPromise, Promise!Spec
----------------------------------------------------------------------------
(* The service and the displays as one program. *)

\* The lemmas about the panel, for the displays of the composed program.
PanelProofs == INSTANCE GammaPanelProofs WITH
    phase <- panelPhase, HotkeyThreads <- Threads, Trays <- {}, Settings <- {Circumstances}

----------------------------------------------------------------------------
(* The invariant. *)

\* The panel's part: who does what to the displays.
DisplaysInv ==
    PanelProofs!TypeOK /\ PanelProofs!BoundInv /\ PanelProofs!JobInv /\ PanelProofs!ReleaseInv

\* The hotkeys in a thread's queue are those of its bindings.
InboxInv ==
    \A t \in Threads :
        /\ inbox[t] \subseteq 1 .. Len(actions[t])
        /\ tpc[t] \in {"unborn", "starting", "done"} => inbox[t] = {}
        /\ tpc[t] = "handling" => idx[t] \in 1 .. Len(actions[t])

\* A thread is at work on the displays exactly while it handles a hotkey, and does
\* what the binding says.
HandlerInv ==
    \A t \in Threads :
        /\ tpc[t] = "handling" <=> pc[t] # "idle"
        /\ tpc[t] = "handling" => job[t] = JobOf(actions[t][idx[t]])

\* In release(), unless a hotkey's handler is at work, main() is alone with the displays.
AloneInv ==
    panelPhase \in {"releasing", "exited"} /\ ~pressed =>
        /\ \A c \in Workers \union Threads : ~PanelProofs!Busy(c)
        /\ PanelProofs!LeavesLinear

----------------------------------------------------------------------------
(* Steps of the panel. *)

\* The assumptions of GammaPanel hold of the composed program.
LEMMA PanelAssumptions ==
    /\ Main \notin Workers \union {} \union Threads
    /\ Workers \intersect ({} \union Threads) = {}
    /\ {} \intersect Threads = {}
    /\ Adapters \in Nat
    /\ Linear \in Ramps
    /\ Bindings \subseteq Seq(0 .. Adapters)
    /\ \A s \in {Circumstances} :
        /\ s.clients \subseteq PanelProofs!Clients
        /\ s.ramps \subseteq Ramps
        /\ s.bindings \subseteq Bindings
        /\ s.hotplug \in BOOLEAN
        /\ s.overlap \in BOOLEAN
BY CallersAssumption, PartiesAssumption, DisplaysAssumption, DoesAssumption
DEF Ramps, Bindings, Circumstances, PanelProofs!Clients

\* The steps the program is composed of, whichever module one reads them in.
LEMMA SameStep ==
    ASSUME NEW c
    PROVE  /\ Panel!Clear(c) <=> PanelProofs!Clear(c)
           /\ Panel!Probe(c) <=> PanelProofs!Probe(c)
           /\ Panel!Listed(c) <=> PanelProofs!Listed(c)
           /\ Panel!Apply(c) <=> PanelProofs!Apply(c)
           /\ Panel!LookupThrows(c) <=> PanelProofs!LookupThrows(c)
           /\ Panel!Finish(c) <=> PanelProofs!Finish(c)
           /\ Panel!ResetNext(c) <=> PanelProofs!ResetNext(c)
           /\ Panel!ResetDone(c) <=> PanelProofs!ResetDone(c)
<1> USE DEF Panel!ClientAt, PanelProofs!ClientAt, Panel!ClientTo, PanelProofs!ClientTo,
        Panel!Alive, PanelProofs!Alive, Panel!jobVars, PanelProofs!jobVars,
        Panel!trayVars, PanelProofs!trayVars, Panel!histVars, PanelProofs!histVars,
        Panel!SetRamp, PanelProofs!SetRamp, Panel!Ahead, PanelProofs!Ahead
<1>1. Panel!Clear(c) <=> PanelProofs!Clear(c)
  BY DEF Panel!Clear, PanelProofs!Clear
<1>2. Panel!Probe(c) <=> PanelProofs!Probe(c)
  BY DEF Panel!Probe, PanelProofs!Probe, Panel!Key, PanelProofs!Key
<1>3. Panel!Listed(c) <=> PanelProofs!Listed(c)
  <2>1. \A n, l : Panel!Matching(n, l) = PanelProofs!Matching(n, l)
    BY Zenon DEF Panel!Matching, PanelProofs!Matching, Panel!WebMeans, PanelProofs!WebMeans,
                 Panel!FlattenSeq, PanelProofs!FlattenSeq
  <2>2. \A s, l : Panel!Entries(s, l) = PanelProofs!Entries(s, l)
    BY Zenon DEF Panel!Entries, PanelProofs!Entries, Panel!Adapter, PanelProofs!Adapter,
                 Panel!FlattenSeq, PanelProofs!FlattenSeq
  <2>3. \A j, l : Panel!Selected(j, l) = PanelProofs!Selected(j, l)
    BY <2>1, <2>2, Zenon DEF Panel!Selected, PanelProofs!Selected
  <2> QED
    BY <2>3, Zenon DEF Panel!Listed, PanelProofs!Listed
<1>4. Panel!Apply(c) <=> PanelProofs!Apply(c)
  BY DEF Panel!Apply, PanelProofs!Apply, Panel!Sets, PanelProofs!Sets,
         Panel!RampOf, PanelProofs!RampOf
<1>5. Panel!LookupThrows(c) <=> PanelProofs!LookupThrows(c)
  BY DEF Panel!LookupThrows, PanelProofs!LookupThrows
<1>6. Panel!Finish(c) <=> PanelProofs!Finish(c)
  BY DEF Panel!Finish, PanelProofs!Finish, Panel!NoJob, PanelProofs!NoJob,
         Panel!Devices, PanelProofs!Devices
<1>7. Panel!ResetNext(c) <=> PanelProofs!ResetNext(c)
  BY DEF Panel!ResetNext, PanelProofs!ResetNext
<1>8. Panel!ResetDone(c) <=> PanelProofs!ResetDone(c)
  BY DEF Panel!ResetDone, PanelProofs!ResetDone
<1> QED
  BY <1>1, <1>2, <1>3, <1>4, <1>5, <1>6, <1>7, <1>8

\* So are the calls into the panel and the end of release().
LEMMA SameCall ==
    /\ Panel!Init <=> PanelProofs!Init
    /\ \A c : Panel!WebRequest(c) <=> PanelProofs!WebRequest(c)
    /\ \A c : Panel!HotkeyPressed(c) <=> PanelProofs!HotkeyPressed(c)
    /\ Panel!BeginRelease <=> PanelProofs!BeginRelease
    /\ Panel!Joined <=> PanelProofs!Joined
<1> USE DEF Panel!ClientAt, PanelProofs!ClientAt, Panel!Alive, PanelProofs!Alive,
        Panel!jobVars, PanelProofs!jobVars, Panel!trayVars, PanelProofs!trayVars,
        Panel!NoJob, PanelProofs!NoJob, Panel!Devices, PanelProofs!Devices,
        Panel!Clients, PanelProofs!Clients, Panel!Quiet, PanelProofs!Quiet
<1>1. Panel!Init <=> PanelProofs!Init
  BY DEF Panel!Init, PanelProofs!Init
<1>2. \A c, j : Panel!Begin(c, j) <=> PanelProofs!Begin(c, j)
  BY DEF Panel!Begin, PanelProofs!Begin
<1>3. \A c : Panel!WebRequest(c) <=> PanelProofs!WebRequest(c)
  BY <1>2 DEF Panel!WebRequest, PanelProofs!WebRequest
<1>4. \A c : Panel!HotkeyPressed(c) <=> PanelProofs!HotkeyPressed(c)
  BY <1>2 DEF Panel!HotkeyPressed, PanelProofs!HotkeyPressed
<1>5. Panel!BeginRelease <=> PanelProofs!BeginRelease
  BY <1>2 DEF Panel!BeginRelease, PanelProofs!BeginRelease
<1>6. Panel!Joined <=> PanelProofs!Joined
  BY DEF Panel!Joined, PanelProofs!Joined, Panel!histVars, PanelProofs!histVars
<1> QED
  BY <1>1, <1>3, <1>4, <1>5, <1>6

\* Every step of the program is one of the panel, or leaves the displays alone, but
\* for the end of the process by an exception outside it.
LEMMA DisplaysStep ==
    ASSUME [PanelNext]_allVars
    PROVE  \/ [PanelProofs!Next]_(PanelProofs!vars)
           \/ panelPhase' = "dead" /\ UNCHANGED devVars
<1> USE DEF PanelProofs!Next, PanelProofs!Request, PanelProofs!PanelStep
<1>0. UNCHANGED panelVars => UNCHANGED PanelProofs!vars
  BY DEF panelVars, devVars, PanelProofs!vars, PanelProofs!jobVars, PanelProofs!trayVars,
         PanelProofs!histVars
<1>1. \A c \in Workers \union Threads \union {Main} : c \in PanelProofs!Clients
  BY DEF PanelProofs!Clients
<1>2. ASSUME NEW c \in Workers \union Threads \union {Main}, OnPanel(c)
      PROVE  PanelProofs!Next
  BY <1>1, <1>2, SameStep DEF OnPanel
<1>3. ASSUME NEW c, CallerAlone(c)
      PROVE  UNCHANGED panelVars \/ (panelPhase' = "dead" /\ UNCHANGED devVars)
  BY <1>3 DEF CallerAlone, panelVars
<1>4. ASSUME NEW t \in Threads, HotkeyStep(t)
      PROVE  [PanelProofs!Next]_(PanelProofs!vars)
  <2>1. CASE ThreadAlone(t)
    BY <1>0, <2>1 DEF ThreadAlone
  <2>2. CASE Handle(t)
    BY <2>2, SameCall DEF Handle
  <2>3. CASE OnPanel(t)
    BY <1>2, <2>3
  <2>4. CASE Handled(t)
    BY <1>1, <2>4, SameStep DEF Handled
  <2> QED
    BY <1>4, <2>1, <2>2, <2>3, <2>4 DEF HotkeyStep
<1>5. ASSUME NEW w \in Workers, SaveRequested(w) \/ PanelRequested(w)
      PROVE  [PanelProofs!Next]_(PanelProofs!vars)
  BY <1>0, <1>5, SameCall DEF SaveRequested, PanelRequested
<1>6. ASSUME NEW w \in Workers, WorkerStep(w)
      PROVE  \/ [PanelProofs!Next]_(PanelProofs!vars)
             \/ panelPhase' = "dead" /\ UNCHANGED devVars
  <2>1. CASE CallerAlone(w)
    BY <1>0, <1>3, <2>1
  <2>2. CASE OnPanel(w)
    BY <1>2, <2>2
  <2>3. CASE Panel!Finish(w)
    BY <1>1, <2>3, SameStep
  <2> QED
    BY <1>0, <1>6, <2>1, <2>2, <2>3 DEF WorkerStep
<1>7. CASE ReleaseCalled
  BY <1>7, SameCall DEF ReleaseCalled
<1>8. CASE MainGoesOn
  <2>1. CASE CallerAlone(Main)
    BY <1>0, <1>3, <2>1
  <2>2. CASE OnPanel(Main)
    BY <1>2, <2>2
  <2>3. CASE ReleaseStops
    BY <1>1, <2>3, SameStep DEF ReleaseStops
  <2>4. CASE Returns
    BY <2>4, SameCall DEF Returns
  <2> QED
    BY <1>0, <1>8, <2>1, <2>2, <2>3, <2>4 DEF MainGoesOn
<1>9. CASE UNCHANGED panelVars
  BY <1>0, <1>9
<1>10. Over \/ UNCHANGED allVars \/ (PanelAlive /\ Environment /\ UNCHANGED <<panelVars, pressed>>)
          => UNCHANGED panelVars
  BY DEF Over, allVars
<1> QED
  BY <1>4, <1>5, <1>6, <1>7, <1>8, <1>9, <1>10 DEF PanelNext

\* Every step of the program is one of the service, or leaves it alone.
LEMMA ServiceStep ==
    ASSUME [PanelNext]_allVars
    PROVE  [Next]_vars
<1> USE DEF Next
<1>1. ASSUME NEW t \in Threads, HotkeyStep(t) PROVE [Next]_vars
  BY <1>1 DEF HotkeyStep, ThreadAlone, Handle, OnPanel, Handled, ThreadStep
<1>2. ASSUME NEW w \in Workers, SaveRequested(w) \/ PanelRequested(w) PROVE [Next]_vars
  BY <1>2 DEF SaveRequested, PanelRequested
<1>3. ASSUME NEW w \in Workers, WorkerStep(w) PROVE [Next]_vars
  BY <1>3 DEF WorkerStep, CallerAlone, OnPanel, Callers
<1>4. CASE ReleaseCalled \/ MainGoesOn
  BY <1>4 DEF ReleaseCalled, MainGoesOn, CallerAlone, OnPanel, ReleaseStops, Returns,
              MainStep, Callers
<1>5. CASE (PanelAlive /\ Environment) \/ Over \/ UNCHANGED allVars
  BY <1>5 DEF Over, allVars
<1> QED
  BY <1>1, <1>2, <1>3, <1>4, <1>5 DEF PanelNext

----------------------------------------------------------------------------
(* The invariant is kept. *)

\* The displays' part is inductive.
LEMMA DisplaysKept ==
    ASSUME DisplaysInv, [PanelNext]_allVars
    PROVE  DisplaysInv'
<1>1. CASE [PanelProofs!Next]_(PanelProofs!vars)
  <2>1. PanelProofs!TypeOK'
    BY <1>1, PanelAssumptions, PanelProofs!TypeStep DEF DisplaysInv
  <2>2. PanelProofs!BoundInv'
    BY <1>1, <2>1, PanelAssumptions, PanelProofs!BoundStep DEF DisplaysInv
  <2>3. PanelProofs!JobInv'
    BY <1>1, <2>1, PanelAssumptions, PanelProofs!JobStep DEF DisplaysInv
  <2>4. PanelProofs!ReleaseInv'
    BY <1>1, <2>1, PanelAssumptions, PanelProofs!ReleaseStep DEF DisplaysInv
  <2> QED
    BY <2>1, <2>2, <2>3, <2>4 DEF DisplaysInv
<1>2. CASE panelPhase' = "dead" /\ UNCHANGED devVars
  BY <1>2 DEF devVars, DisplaysInv, PanelProofs!TypeOK, PanelProofs!BoundInv,
              PanelProofs!JobInv, PanelProofs!ReleaseInv, PanelProofs!Busy,
              PanelProofs!Phases
<1> QED
  BY <1>1, <1>2, DisplaysStep

\* A hotkey in the queue of a thread has a binding there.
LEMMA InboxStep ==
    ASSUME TypeOK, ThreadInv, InboxInv, [Next]_vars
    PROVE  InboxInv'
<1> USE DEF TypeOK, InboxInv, CallerAt, CallerTo, ThreadAt, ThreadTo, mainVars, sharedVars,
        callerVars, threadVars, osVars
<1>1. ASSUME NEW w \in Workers, PostOpens(w) \/ PostWrites(w) PROVE InboxInv'
  BY <1>1 DEF PostOpens, PostWrites
<1>2. ASSUME NEW c \in Callers, CallerStep(c) PROVE InboxInv'
  <2>1. CASE Join(c)
    BY <2>1 DEF Join
  <2>2. CASE Spawn(c)
    BY <2>2 DEF Spawn
  <2>3. CASE StopCheck(c) \/ ClearFlag(c) \/ PostQuit(c) \/ JoinRaced(c)
              \/ Load(c) \/ SetFlag(c) \/ SpawnFails(c)
    <3>1. UNCHANGED <<threadVars, inbox>>
      BY <2>3 DEF StopCheck, ClearFlag, PostQuit, JoinRaced, Load, SetFlag, SpawnFails
    <3> QED
      BY <3>1
  <2> QED
    BY <1>2, <2>1, <2>2, <2>3 DEF CallerStep
<1>3. ASSUME NEW t \in Threads, ThreadStep(t) PROVE InboxInv'
  <2>1. CASE GetHotkey(t)
    BY <2>1 DEF GetHotkey
  <2>2. CASE CreateQueue(t) \/ Register(t) \/ CheckFlag(t) \/ GetQuit(t) \/ HandlerReturns(t)
              \/ Unregister(t)
    <3>1. /\ UNCHANGED <<actions, inbox>>
          /\ \E pc1 \in ThreadPCs \ {"unborn", "starting", "handling", "done"} :
                tpc' = [tpc EXCEPT ![t] = pc1]
          /\ \A u \in Threads \ {t} : idx'[u] = idx[u]
      BY <2>2 DEF CreateQueue, Register, CheckFlag, GetQuit, HandlerReturns, Unregister,
                  ThreadPCs
    <3> QED
      BY <3>1
  <2>3. CASE ThreadEnds(t)
    BY <2>3 DEF ThreadEnds
  <2> QED
    BY <1>3, <2>1, <2>2, <2>3 DEF ThreadStep
<1>4. CASE MainStep
  BY <1>4 DEF MainStep, BeginServing, BeginRelease, ExitProcess
<1>5. CASE Environment
  <2>1. ASSUME NEW h \in hotkeys, Press(h) PROVE InboxInv'
    BY <2>1 DEF Press, ThreadInv, RegInv, InTurn, Hotkeys
  <2>2. ASSUME NEW k \in Others, OtherRegisters(k) \/ OtherUnregisters(k) PROVE InboxInv'
    BY <2>2 DEF OtherRegisters, OtherUnregisters
  <2> QED
    BY <1>5, <2>1, <2>2 DEF Environment
<1>6. CASE UNCHANGED vars
  BY <1>6 DEF vars
<1> QED
  BY <1>1, <1>2, <1>3, <1>4, <1>5, <1>6 DEF Next, Gone

\* A step of one client of the panel is nobody else's; its calls begin work, its other
\* steps but the last go on with it.
LEMMA OneClient ==
    ASSUME DisplaysInv, NEW c \in Workers \union Threads \union {Main}
    PROVE  /\ \/ Panel!WebRequest(c) \/ Panel!HotkeyPressed(c) \/ OnPanel(c) \/ Panel!Finish(c)
              \/ c = Main /\ (Panel!BeginRelease \/ Panel!ResetDone(c))
              => \A u \in (Workers \union Threads \union {Main}) \ {c} :
                    pc'[u] = pc[u] /\ job'[u] = job[u]
           /\ Panel!WebRequest(c) \/ Panel!HotkeyPressed(c) => pc[c] \in {"idle", "thrown"}
           /\ Panel!HotkeyPressed(c) \/ (c = Main /\ Panel!BeginRelease) => pc'[c] = "clear"
           /\ OnPanel(c) => PanelProofs!Busy(c) /\ pc'[c] # "idle" /\ job' = job
           /\ Panel!Finish(c) => PanelProofs!Busy(c) /\ pc'[c] = "idle"
<1> DEFINE All == Workers \union Threads \union {Main}
<1>0. /\ PanelProofs!Clients = All
      /\ pc \in [All -> PanelProofs!PCs] /\ DOMAIN job = All
  BY DEF DisplaysInv, PanelProofs!TypeOK, PanelProofs!Clients
<1> HIDE DEF All
<1> USE <1>0 DEF Panel!ClientAt, Panel!ClientTo, Panel!jobVars
<1>1. ASSUME Panel!WebRequest(c) \/ Panel!HotkeyPressed(c) \/ (c = Main /\ Panel!BeginRelease)
      PROVE  /\ \A u \in All \ {c} : pc'[u] = pc[u] /\ job'[u] = job[u]
             /\ pc[c] \in {"idle", "thrown"}
  <2>1. PICK j : Panel!Begin(c, j)
    BY <1>1 DEF Panel!WebRequest, Panel!HotkeyPressed, Panel!BeginRelease
  <2> QED
    BY <2>1 DEF Panel!Begin
<1>2. ASSUME Panel!HotkeyPressed(c) \/ (c = Main /\ Panel!BeginRelease)
      PROVE  pc'[c] = "clear"
  <2>1. PICK j : Panel!Begin(c, j) /\ j.kind # "tray"
    <3>1. CASE Panel!HotkeyPressed(c)
      <4>1. PICK b, r : Panel!Begin(c, [kind |-> "hotkey", sel |-> b, ramp |-> r])
        BY <3>1 DEF Panel!HotkeyPressed
      <4> QED
        BY <4>1
    <3>2. CASE c = Main /\ Panel!BeginRelease
      <4>1. Panel!Begin(c, [kind |-> "release", sel |-> <<>>, ramp |-> Linear])
        BY <3>2 DEF Panel!BeginRelease
      <4> QED
        BY <4>1
    <3> QED
      BY <1>2, <3>1, <3>2
  <2>2. pc' = [pc EXCEPT ![c] = "clear"]
    BY <2>1 DEF Panel!Begin
  <2> QED
    BY <2>2 DEF All
<1>3. ASSUME OnPanel(c)
      PROVE  /\ \A u \in All \ {c} : pc'[u] = pc[u] /\ job'[u] = job[u]
             /\ PanelProofs!Busy(c) /\ pc'[c] # "idle" /\ job' = job
  <2> USE <1>3 DEF PanelProofs!Busy, All
  <2>1. CASE Panel!Clear(c) \/ Panel!Probe(c) \/ Panel!ResetNext(c)
    BY <2>1 DEF Panel!Clear, Panel!Probe, Panel!ResetNext
  <2>2. CASE Panel!Listed(c)
    BY <2>2 DEF Panel!Listed
  <2>3. CASE Panel!Apply(c) \/ Panel!LookupThrows(c)
    BY <2>3 DEF Panel!Apply, Panel!LookupThrows
  <2> QED
    BY <2>1, <2>2, <2>3 DEF OnPanel
<1>4. ASSUME Panel!Finish(c)
      PROVE  /\ \A u \in All \ {c} : pc'[u] = pc[u] /\ job'[u] = job[u]
             /\ PanelProofs!Busy(c) /\ pc'[c] = "idle"
  BY <1>4 DEF Panel!Finish, PanelProofs!Busy, All
<1>5. ASSUME Panel!ResetDone(c)
      PROVE  \A u \in All \ {c} : pc'[u] = pc[u] /\ job'[u] = job[u]
  BY <1>5 DEF Panel!ResetDone
<1> QED
  BY <1>1, <1>2, <1>3, <1>4, <1>5 DEF All

\* A thread begins or ends the handling of a hotkey by GetHotkey and HandlerReturns alone,
\* and meanwhile keeps its binding.
LEMMA OneHandling ==
    ASSUME TypeOK,
           \/ \E c \in Callers : CallerStep(c)
           \/ \E t \in Threads : ThreadAlone(t)
           \/ \E w \in Workers : PostOpens(w) \/ PostWrites(w)
           \/ MainStep \/ Environment \/ UNCHANGED vars
    PROVE  \A t \in Threads :
              /\ tpc'[t] = "handling" <=> tpc[t] = "handling"
              /\ tpc[t] = "handling" => actions'[t] = actions[t] /\ idx'[t] = idx[t]
<1> USE DEF TypeOK, CallerAt, CallerTo, ThreadAt, ThreadTo, mainVars, sharedVars,
        callerVars, threadVars, osVars
<1>1. CASE \E c \in Callers : CallerStep(c)
  BY <1>1 DEF CallerStep, StopCheck, ClearFlag, PostQuit, Join, JoinRaced, Load, SetFlag,
              Spawn, SpawnFails
<1>2. CASE \E t \in Threads : ThreadAlone(t)
  BY <1>2 DEF ThreadAlone, CreateQueue, Register, CheckFlag, GetQuit, Unregister, ThreadEnds
<1>3. CASE \E w \in Workers : PostOpens(w) \/ PostWrites(w)
  BY <1>3 DEF PostOpens, PostWrites
<1>4. CASE MainStep \/ Environment \/ UNCHANGED vars
  BY <1>4 DEF MainStep, BeginServing, BeginRelease, ExitProcess, Environment, Press,
              OtherRegisters, OtherUnregisters, vars
<1> QED
  BY <1>1, <1>2, <1>3, <1>4

\* The binding a thread carries out stays the one its hotkey stands for.
LEMMA HandlerKept ==
    ASSUME TypeOK, DisplaysInv, HandlerInv, [PanelNext]_allVars
    PROVE  HandlerInv'
<1> DEFINE All == Workers \union Threads \union {Main}
           Same == \A t \in Threads :
              /\ tpc'[t] = "handling" <=> tpc[t] = "handling"
              /\ tpc[t] = "handling" => actions'[t] = actions[t] /\ idx'[t] = idx[t]
           Goes(t) ==
              /\ tpc'[t] = "handling" <=> pc'[t] # "idle"
              /\ tpc'[t] = "handling" => job'[t] = JobOf(actions'[t][idx'[t]])
<1>1. \A t \in Threads : t \notin Workers /\ t # Main
  BY PartiesAssumption
<1>2. Same /\ (\A t \in Threads : (pc'[t] # "idle" <=> pc[t] # "idle") /\ job'[t] = job[t])
        => HandlerInv'
  BY DEF HandlerInv, JobOf
<1>3. UNCHANGED vars => Same
  BY OneHandling
<1>4. ASSUME NEW t \in Threads, Goes(t),
             \A u \in All \ {t} : pc'[u] = pc[u] /\ job'[u] = job[u],
             \A u \in Threads \ {t} :
                tpc'[u] = tpc[u] /\ actions'[u] = actions[u] /\ idx'[u] = idx[u]
      PROVE  HandlerInv'
  BY <1>4 DEF HandlerInv, JobOf
<1>5. ASSUME NEW c \in All, OnPanel(c) PROVE HandlerInv'
  BY <1>2, <1>3, <1>5, OneClient DEF OnPanel, PanelProofs!Busy
<1>6. ASSUME NEW c \in Callers, CallerAlone(c) PROVE HandlerInv'
  BY <1>2, <1>6, OneHandling DEF CallerAlone, devVars
<1>7. ASSUME NEW t \in Threads, HotkeyStep(t) PROVE HandlerInv'
  <2>1. CASE ThreadAlone(t)
    BY <1>2, <2>1, OneHandling DEF ThreadAlone, panelVars, devVars
  <2>2. CASE Handle(t)
    <3>1. /\ \A u \in All \ {t} : pc'[u] = pc[u] /\ job'[u] = job[u]
          /\ pc'[t] = "clear" /\ job'[t] = JobOf(actions[t][idx'[t]])
      BY <2>2, OneClient DEF Handle
    <3>2. /\ tpc' = [tpc EXCEPT ![t] = "handling"] /\ actions' = actions
          /\ \A u \in Threads \ {t} : idx'[u] = idx[u]
      BY <2>2 DEF Handle, GetHotkey, TypeOK, ThreadTo, callerVars
    <3> QED
      BY <1>4, <3>1, <3>2 DEF TypeOK
  <2>3. CASE OnPanel(t)
    BY <1>5, <2>3
  <2>4. CASE Handled(t)
    <3>1. /\ \A u \in All \ {t} : pc'[u] = pc[u] /\ job'[u] = job[u]
          /\ pc'[t] = "idle"
      BY <2>4, OneClient DEF Handled
    <3>2. /\ tpc' = [tpc EXCEPT ![t] = "checking"] /\ actions' = actions /\ idx' = idx
      BY <2>4 DEF Handled, HandlerReturns, ThreadTo
    <3> QED
      BY <1>4, <3>1, <3>2 DEF TypeOK
  <2> QED
    BY <1>7, <2>1, <2>2, <2>3, <2>4 DEF HotkeyStep
<1>8. ASSUME NEW w \in Workers, SaveRequested(w) \/ PanelRequested(w) \/ WorkerStep(w)
      PROVE  HandlerInv'
  <2>1. CASE SaveRequested(w) \/ (PostWrites(w) /\ UNCHANGED <<panelVars, pressed>>)
    BY <1>2, <2>1, OneHandling DEF SaveRequested, panelVars, devVars
  <2>2. CASE PanelRequested(w) \/ (Panel!Finish(w) /\ UNCHANGED <<vars, pressed>>)
    BY <1>1, <1>2, <1>3, <2>2, OneClient DEF PanelRequested
  <2>3. CASE CallerAlone(w) \/ OnPanel(w)
    BY <1>5, <1>6, <2>3 DEF Callers
  <2> QED
    BY <1>8, <2>1, <2>2, <2>3 DEF WorkerStep
<1>9. CASE ReleaseCalled
  BY <1>1, <1>2, <1>3, <1>9, OneClient DEF ReleaseCalled
<1>10. CASE MainGoesOn
  <2>1. CASE CallerAlone(Main) \/ OnPanel(Main)
    BY <1>5, <1>6, <2>1 DEF Callers
  <2>2. CASE PanelAlive /\ BeginServing /\ UNCHANGED <<panelVars, pressed>>
    BY <1>2, <2>2, OneHandling DEF MainStep, panelVars, devVars
  <2>3. CASE ReleaseStops
    BY <1>1, <1>2, <2>3, OneHandling, OneClient DEF ReleaseStops, MainStep
  <2>4. CASE Returns
    BY <1>2, <2>4, OneHandling DEF Returns, MainStep, Panel!Joined, Panel!jobVars
  <2> QED
    BY <1>10, <2>1, <2>2, <2>3, <2>4 DEF MainGoesOn
<1>11. CASE (PanelAlive /\ Environment /\ UNCHANGED <<panelVars, pressed>>) \/ Over
            \/ UNCHANGED allVars
  BY <1>2, <1>11, OneHandling DEF Over, allVars, panelVars, devVars
<1> QED
  BY <1>7, <1>8, <1>9, <1>10, <1>11 DEF PanelNext

\* main() stays alone with the displays until the process has gone.
LEMMA AloneKept ==
    ASSUME DisplaysInv, AloneInv, [PanelNext]_allVars
    PROVE  AloneInv'
<1> DEFINE Rest == Workers \union Threads
           Ending == panelPhase \in {"releasing", "exited"}
<1> USE DEF AloneInv
<1>1. Main \notin Rest
  BY CallersAssumption, PartiesAssumption
<1>2. ASSUME UNCHANGED <<devVars, pressed>>, panelPhase' \in {panelPhase, "dead"} \/ Ending
      PROVE  AloneInv'
  BY <1>2 DEF devVars, PanelProofs!LeavesLinear, PanelProofs!Busy
<1>3. ASSUME NEW c \in Rest \union {Main}, pressed' = pressed,
             OnPanel(c) \/ Panel!Finish(c) \/ (c = Main /\ Panel!ResetDone(c))
      PROVE  AloneInv'
  <2>1. panelPhase' \in {panelPhase, "dead"}
    BY <1>3 DEF OnPanel, Panel!Clear, Panel!Probe, Panel!Listed, Panel!Apply,
                Panel!LookupThrows, Panel!ResetNext, Panel!Finish, Panel!ResetDone
  <2> SUFFICES ASSUME Ending, ~pressed PROVE AloneInv'
    BY <1>3, <2>1
  <2>2. c = Main
    BY <1>3, OneClient
  <2>3. PanelProofs!PanelStep(Main)
    BY <1>3, <2>2, SameStep DEF OnPanel, PanelProofs!PanelStep
  <2>4. PanelProofs!LeavesLinear'
    BY <2>3, PanelAssumptions, PanelProofs!ResetLoop DEF DisplaysInv
  <2>5. \A u \in Rest : pc'[u] = pc[u]
    BY <1>1, <1>3, <2>2, OneClient
  <2> QED
    BY <2>4, <2>5 DEF PanelProofs!Busy
<1>4. ASSUME NEW t \in Threads, HotkeyStep(t) PROVE AloneInv'
  <2>1. CASE ThreadAlone(t)
    BY <1>2, <2>1 DEF ThreadAlone, panelVars
  <2>2. CASE Handle(t)
    BY <2>2 DEF Handle, PanelAlive, Panel!HotkeyPressed
  <2> QED
    BY <1>3, <1>4, <2>1, <2>2 DEF HotkeyStep, OnPanel, Handled
<1>5. ASSUME NEW w \in Workers, SaveRequested(w) \/ PanelRequested(w) \/ WorkerStep(w)
      PROVE  AloneInv'
  <2>1. CASE SaveRequested(w) \/ (PostWrites(w) /\ UNCHANGED <<panelVars, pressed>>)
             \/ CallerAlone(w)
    BY <1>2, <2>1 DEF SaveRequested, CallerAlone, panelVars
  <2>2. CASE PanelRequested(w)
    BY <2>2 DEF PanelRequested, Panel!WebRequest
  <2> QED
    BY <1>3, <1>5, <2>1, <2>2 DEF WorkerStep, OnPanel
<1>6. CASE ReleaseCalled
  <2>1. /\ \A w \in Workers : pc[w] \in {"idle", "thrown"}
        /\ \A u \in Rest : pc'[u] = pc[u]
        /\ pc'[Main] = "clear"
    BY <1>1, <1>6, OneClient DEF ReleaseCalled, Panel!BeginRelease
  <2>2. ~pressed' => \A t \in Threads : pc[t] = "idle"
    BY <1>6 DEF ReleaseCalled
  <2> QED
    BY <2>1, <2>2 DEF PanelProofs!Busy, PanelProofs!LeavesLinear
<1>7. CASE MainGoesOn
  <2>1. CASE CallerAlone(Main) \/ (BeginServing /\ UNCHANGED <<panelVars, pressed>>)
    BY <1>2, <2>1 DEF CallerAlone, panelVars
  <2>2. CASE OnPanel(Main) \/ ReleaseStops
    BY <1>3, <2>2 DEF OnPanel, ReleaseStops
  <2>3. CASE Returns
    <3>1. panelPhase \in {"running", "releasing"} /\ pc[Main] = "joining"
      BY <2>3 DEF Returns, Panel!Joined, Panel!ClientAt, Panel!Alive
    <3>2. panelPhase = "releasing"
      BY <3>1 DEF DisplaysInv, PanelProofs!ReleaseInv, PanelProofs!Busy, PanelProofs!Clients
    <3> QED
      BY <1>2, <2>3, <3>2 DEF Returns, Panel!Joined, devVars, Panel!jobVars, Panel!trayVars,
                              Panel!histVars
  <2> QED
    BY <1>7, <2>1, <2>2, <2>3 DEF MainGoesOn
<1>8. CASE (PanelAlive /\ Environment /\ UNCHANGED <<panelVars, pressed>>) \/ Over
            \/ UNCHANGED allVars
  BY <1>2, <1>8 DEF Over, allVars, panelVars
<1> QED
  BY <1>4, <1>5, <1>6, <1>7, <1>8 DEF PanelNext

----------------------------------------------------------------------------
(* The theorems. *)

\* The program starts with the invariant.
LEMMA ComposedInit == PanelInit => DisplaysInv /\ InboxInv /\ HandlerInv /\ AloneInv
<1> SUFFICES ASSUME PanelInit PROVE DisplaysInv /\ InboxInv /\ HandlerInv /\ AloneInv
  OBVIOUS
<1>1. Init /\ PanelProofs!Init
  BY SameCall DEF PanelInit
<1>2. DisplaysInv
  BY <1>1, PanelAssumptions, PanelProofs!IndInit DEF PanelProofs!IndInv, DisplaysInv
<1>3. InboxInv
  BY <1>1 DEF Init, InboxInv
<1>4. HandlerInv /\ AloneInv
  BY <1>1 DEF Init, PanelProofs!Init, HandlerInv, AloneInv, PanelProofs!Clients
<1> QED
  BY <1>2, <1>3, <1>4

\* Every behaviour of the program is one of the hotkey service.
THEOREM ComposedIsService == PanelSpec => Spec
<1>1. PanelInit => Init
  BY DEF PanelInit
<1>2. [PanelNext]_allVars => [Next]_vars
  BY ServiceStep
<1> QED
  BY <1>1, <1>2, PTL DEF PanelSpec, Spec

\* The displays' part of the invariant holds in every reachable state.
THEOREM ComposedDisplays == PanelSpec => [](DisplaysInv /\ AloneInv)
<1>1. PanelInit => DisplaysInv /\ AloneInv
  BY ComposedInit
<1>2. DisplaysInv /\ AloneInv /\ [PanelNext]_allVars => (DisplaysInv /\ AloneInv)'
  BY DisplaysKept, AloneKept
<1> QED
  BY <1>1, <1>2, PTL DEF PanelSpec

\* "Safe exit": the process that leaves release() leaves every display linear that did
\* not refuse, whatever workers and hotkeys did before, unless a hotkey's handler was
\* at work after release() had begun.
THEOREM SafeUnlessPressed == PanelSpec => []SafeExitUnlessPressed
<1>1. DisplaysInv /\ AloneInv => SafeExitUnlessPressed
  BY DEF DisplaysInv, AloneInv, PanelProofs!ReleaseInv, PanelProofs!LeavesLinear,
         SafeExitUnlessPressed, Panel!SafeExit
<1> QED
  BY <1>1, ComposedDisplays, PTL

\* With handlers that run one at a time, whatever a hotkey's handler does between saves
\* is what gapa.json says of one of its keys.
THEOREM HotkeysActAsSaved == SerialWorkers => (PanelSpec => []ActsAsSaved)
<1> SUFFICES ASSUME SerialWorkers PROVE PanelSpec => []ActsAsSaved
  OBVIOUS
<1> DEFINE Inv == InboxInv /\ HandlerInv
<1>1. PanelInit => Inv
  BY ComposedInit
<1>2. ASSUME TypeOK, IndInv, DisplaysInv, Inv, [PanelNext]_allVars PROVE Inv'
  BY <1>2, ServiceStep, InboxStep, HandlerKept DEF IndInv
<1>3. ASSUME TypeOK, IndInv, Inv PROVE ActsAsSaved
  <2> SUFFICES ASSUME Settled, NEW t \in Threads, pc[t] # "idle"
               PROVE  file # Malformed /\ \E k \in Keys(file) : job[t] = JobOf(k)
    BY DEF ActsAsSaved
  <2>1. /\ tpc[t] = "handling" /\ idx[t] \in 1 .. Len(actions[t])
        /\ job[t] = JobOf(actions[t][idx[t]])
    BY <1>3 DEF InboxInv, HandlerInv
  <2>2. hotkeyThread = t
    BY <1>3, <2>1 DEF IndInv, HandleInv, NoOrphan, Live
  <2>3. actions[t] = file
    BY <1>3, <2>2, ThreadsAssumption DEF IndInv, FileInv, Settled
  <2>4. file # Malformed
    BY <1>3, <2>3, ConfigsAssumption DEF TypeOK
  <2> QED
    BY <2>1, <2>3, <2>4 DEF Keys
<1>4. PanelSpec => [](TypeOK /\ IndInv)
  BY ComposedIsService, Inductive, PTL
<1> QED
  BY <1>1, <1>2, <1>3, <1>4, ComposedDisplays, PTL DEF PanelSpec

=============================================================================
