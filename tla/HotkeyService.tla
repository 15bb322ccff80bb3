--------------------------- MODULE HotkeyService ---------------------------
(***************************************************************************)
(* The hotkey service of gamma.cpp: the file-scope pair s_hotkeysRunning / *)
(* s_hotkeyThread, gamma_panel::apply_shortkeys (stop the old hotkey       *)
(* thread, read gapa.json, start a new one), the body of that thread, the  *)
(* stop sequence of gamma_panel::release, and the one web handler that     *)
(* calls apply_shortkeys, POST /api/keybindings.                           *)
(*                                                                         *)
(* A caller is the main thread (at startup and at release) or a worker     *)
(* thread of the web server.  A step is one access to state another thread *)
(* can see.  A configuration is the sequence of key combinations of its    *)
(* usable bindings; <<>> stands for every gapa.json that yields none (no   *)
(* file, truncated, half written, not JSON, no usable binding).  What a    *)
(* binding does to the displays is GammaPanel's subject.                   *)
(***************************************************************************)
EXTENDS Naturals, Sequences

CONSTANTS
    Workers,    \* threads of the web server that run request handlers
    Main,       \* the main thread
    Threads,    \* identities of hotkey threads; reused once joined
    Combos,     \* key combinations (modifiers and virtual key)
    Others,     \* the combinations other programs may register
    Configs,    \* what a gapa.json can yield
    Malformed,  \* well-formed JSON of the wrong shape: reading it throws
    NoThread    \* the value of a std::thread that is not joinable

ASSUME CallersAssumption == Main \notin Workers
ASSUME ThreadsAssumption == NoThread \notin Threads
ASSUME CombosAssumption  == Others \subseteq Combos
ASSUME ConfigsAssumption ==
    /\ Configs \subseteq Seq(Combos)
    /\ <<>> \in Configs
    /\ Malformed \notin Configs
    /\ NoThread \notin Configs

VARIABLES
    phase,          \* how far main() is
    file,           \* the content of gapa.json
    hotkeysRunning, \* s_hotkeysRunning
    hotkeyThread,   \* s_hotkeyThread
    cpc,            \* cpc[c]: the next step of caller c
    config,         \* config[c]: the body c writes, then the bindings it read
    target,         \* target[c]: the thread c joins
    tpc,            \* tpc[t]: the next step of hotkey thread t
    actions,        \* actions[t]: the bindings captured by t
    idx,            \* idx[t]: the binding t registers, handles or unregisters
    quit,           \* the threads with WM_QUIT in their queue
    inbox,          \* inbox[t]: the ids of the WM_HOTKEY messages of t
    hotkeys,        \* the hotkeys registered with the system by this process
    foreign         \* the combinations registered by other programs

mainVars   == <<phase, file>>
sharedVars == <<hotkeysRunning, hotkeyThread>>
callerVars == <<cpc, config, target>>
threadVars == <<tpc, actions, idx>>
osVars     == <<quit, inbox, hotkeys, foreign>>
vars       == <<mainVars, sharedVars, callerVars, threadVars, osVars>>

Callers     == Workers \union {Main}
FileContent == Configs \union {Malformed}

Phases    == {"startup", "serving", "releasing", "exited", "uncaught", "terminated"}
CallerPCs == {"idle", "writing", "stopcheck", "clearing", "posting",
              "joining", "loading", "arming", "spawning"}
ThreadPCs == {"unborn", "starting", "registering", "checking", "waiting",
              "handling", "unregistering", "exiting", "done"}
Hotkeys   == [combo : Combos, thread : Threads, id : Nat]

\* The process still runs: main has neither returned nor died.
Alive == phase \in {"startup", "serving", "releasing"}

\* The threads that exist and have not ended.
Live(t) == tpc[t] \notin {"unborn", "done"}

\* The thread has called PeekMessage, so messages can be posted to it.
HasQueue(t) == Live(t) /\ tpc[t] # "starting"

TypeOK ==
    /\ phase \in Phases
    /\ file \in FileContent
    /\ hotkeysRunning \in BOOLEAN
    /\ hotkeyThread \in Threads \union {NoThread}
    /\ cpc \in [Callers -> CallerPCs]
    /\ config \in [Callers -> FileContent]
    /\ target \in [Callers -> Threads \union {NoThread}]
    /\ tpc \in [Threads -> ThreadPCs]
    /\ actions \in [Threads -> Configs]
    /\ idx \in [Threads -> Nat]
    /\ quit \in SUBSET Threads
    /\ inbox \in [Threads -> SUBSET Nat]
    /\ hotkeys \in SUBSET Hotkeys
    /\ foreign \in SUBSET Others

\* main() has passed the single-instance test and calls apply_shortkeys.
Init ==
    /\ phase = "startup"
    /\ file \in FileContent
    /\ hotkeysRunning = FALSE
    /\ hotkeyThread = NoThread
    /\ cpc = [c \in Callers |-> IF c = Main THEN "stopcheck" ELSE "idle"]
    /\ config = [c \in Callers |-> <<>>]
    /\ target = [c \in Callers |-> NoThread]
    /\ tpc = [t \in Threads |-> "unborn"]
    /\ actions = [t \in Threads |-> <<>>]
    /\ idx = [t \in Threads |-> 1]
    /\ quit = {}
    /\ inbox = [t \in Threads |-> {}]
    /\ hotkeys = {}
    /\ foreign \in SUBSET Others

----------------------------------------------------------------------------
(* Steps of a caller. *)

CallerAt(c, pc)   == Alive /\ cpc[c] = pc
CallerTo(c, pc)   == cpc' = [cpc EXCEPT ![c] = pc]

\* MUTANT of AfterStop: apply_shortkeys() only stops.
AfterStopIdle == "idle"

\* release() only stops; apply_shortkeys() goes on to read the file.
AfterStop == IF phase = "releasing" THEN "idle" ELSE "loading"

\* An exception leaves apply_shortkeys: the server answers 500, main() dies.
Throw(c) ==
    /\ CallerTo(c, "idle")
    /\ phase' = IF c = Main THEN "uncaught" ELSE phase

\* POST /api/keybindings: the handler opens gapa.json, which truncates it.
\* (A body that is not JSON, or a file that cannot be opened, changes nothing.)
PostOpens(w) ==
    /\ phase = "serving"
    /\ cpc[w] = "idle"
    /\ \E b \in FileContent : config' = [config EXCEPT ![w] = b]
    /\ file' = <<>>
    /\ CallerTo(w, "writing")
    /\ UNCHANGED <<phase, sharedVars, target, threadVars, osVars>>

\* The body is written out and the file closed.  A write that fails, or that
\* overlaps another handler's, leaves a file that yields nothing.
PostWrites(w) ==
    /\ CallerAt(w, "writing")
    /\ file' \in {config[w], <<>>}
    /\ CallerTo(w, "stopcheck")
    /\ UNCHANGED <<phase, sharedVars, config, target, threadVars, osVars>>

StopCheck(c) ==
    /\ CallerAt(c, "stopcheck")
    /\ CallerTo(c, IF hotkeysRunning THEN "clearing" ELSE AfterStop)
    /\ UNCHANGED <<mainVars, sharedVars, config, target, threadVars, osVars>>

\* MUTANT of ClearFlag: the flag stays set.
ClearFlagForgets(c) ==
    /\ CallerAt(c, "clearing")
    /\ CallerTo(c, "posting")
    /\ UNCHANGED <<mainVars, sharedVars, config, target, threadVars, osVars>>

ClearFlag(c) ==
    /\ CallerAt(c, "clearing")
    /\ hotkeysRunning' = FALSE
    /\ CallerTo(c, "posting")
    /\ UNCHANGED <<mainVars, hotkeyThread, config, target, threadVars, osVars>>

\* MUTANT of PostQuit: a message that cannot be posted is taken to mean that
\* there is nothing to join.
PostQuitGivesUp(c) ==
    /\ CallerAt(c, "posting")
    /\ IF hotkeyThread = NoThread \/ ~HasQueue(hotkeyThread)
       THEN CallerTo(c, AfterStop) /\ UNCHANGED <<target, quit>>
       ELSE /\ target' = [target EXCEPT ![c] = hotkeyThread]
            /\ quit' = quit \union {hotkeyThread}
            /\ CallerTo(c, "joining")
    /\ UNCHANGED <<mainVars, sharedVars, config, threadVars, inbox, hotkeys, foreign>>

\* PostThreadMessage fails, unnoticed, when the thread has no queue yet.
PostQuit(c) ==
    /\ CallerAt(c, "posting")
    /\ IF hotkeyThread = NoThread
       THEN CallerTo(c, AfterStop) /\ UNCHANGED <<target, quit>>
       ELSE /\ target' = [target EXCEPT ![c] = hotkeyThread]
            /\ quit' = IF HasQueue(hotkeyThread) THEN quit \union {hotkeyThread} ELSE quit
            /\ CallerTo(c, "joining")
    /\ UNCHANGED <<mainVars, sharedVars, config, threadVars, inbox, hotkeys, foreign>>

\* MUTANT of Join: the old thread is detached instead.
JoinDetaches(c) ==
    /\ CallerAt(c, "joining")
    /\ hotkeyThread = target[c]
    /\ hotkeyThread' = NoThread
    /\ CallerTo(c, AfterStop)
    /\ UNCHANGED <<mainVars, hotkeysRunning, config, target, threadVars, osVars>>

Join(c) ==
    /\ CallerAt(c, "joining")
    /\ hotkeyThread = target[c]
    /\ tpc[target[c]] = "done"
    /\ hotkeyThread' = NoThread
    /\ tpc' = [tpc EXCEPT ![target[c]] = "unborn"]
    /\ CallerTo(c, AfterStop)
    /\ UNCHANGED <<mainVars, hotkeysRunning, config, target, actions, idx, osVars>>

\* Two threads join the same std::thread object, which is undefined: the
\* loser's join throws, or returns and marks the object not joinable.
JoinRaced(c) ==
    /\ CallerAt(c, "joining")
    /\ hotkeyThread # target[c]
    /\ \/ Throw(c) /\ UNCHANGED hotkeyThread
       \/ hotkeyThread' = NoThread /\ CallerTo(c, AfterStop) /\ UNCHANGED phase
    /\ UNCHANGED <<file, hotkeysRunning, config, target, threadVars, osVars>>

\* MUTANT of Load: bindings that cannot be read are used all the same.
LoadUnchecked(c) ==
    /\ CallerAt(c, "loading")
    /\ config' = [config EXCEPT ![c] = file]
    /\ CallerTo(c, IF file = <<>> THEN "idle" ELSE "arming")
    /\ UNCHANGED <<mainVars, sharedVars, target, threadVars, osVars>>

\* gapa.json is read and parsed into a local vector of actions.
Load(c) ==
    /\ CallerAt(c, "loading")
    /\ config' = [config EXCEPT ![c] = file]
    /\ CASE file = Malformed -> Throw(c)
         [] file = <<>>      -> CallerTo(c, "idle") /\ UNCHANGED phase
         [] OTHER            -> CallerTo(c, "arming") /\ UNCHANGED phase
    /\ UNCHANGED <<file, sharedVars, target, threadVars, osVars>>

SetFlag(c) ==
    /\ CallerAt(c, "arming")
    /\ hotkeysRunning' = TRUE
    /\ CallerTo(c, "spawning")
    /\ UNCHANGED <<mainVars, hotkeyThread, config, target, threadVars, osVars>>

\* s_hotkeyThread = std::thread(...): assigning to a joinable std::thread
\* calls std::terminate.
Spawn(c) ==
    /\ CallerAt(c, "spawning")
    /\ \E t \in Threads :
        /\ tpc[t] = "unborn"
        /\ tpc' = [tpc EXCEPT ![t] = "starting"]
        /\ actions' = [actions EXCEPT ![t] = config[c]]
        /\ idx' = [idx EXCEPT ![t] = 1]
        /\ IF hotkeyThread = NoThread
           THEN hotkeyThread' = t /\ UNCHANGED phase
           ELSE phase' = "terminated" /\ UNCHANGED hotkeyThread
    /\ CallerTo(c, "idle")
    /\ UNCHANGED <<file, hotkeysRunning, config, target, osVars>>

\* The system has no resources for a thread: the constructor throws.
SpawnFails(c) ==
    /\ CallerAt(c, "spawning")
    /\ Throw(c)
    /\ UNCHANGED <<file, sharedVars, config, target, threadVars, osVars>>

----------------------------------------------------------------------------
(* The rest of main(). *)

BeginServing ==
    /\ phase = "startup"
    /\ cpc[Main] = "idle"
    /\ phase' = "serving"
    /\ UNCHANGED <<file, sharedVars, callerVars, threadVars, osVars>>

\* The server has stopped and joined its workers; main() calls release().
BeginRelease ==
    /\ phase = "serving"
    /\ \A w \in Workers : cpc[w] = "idle"
    /\ phase' = "releasing"
    /\ CallerTo(Main, "stopcheck")
    /\ UNCHANGED <<file, sharedVars, config, target, threadVars, osVars>>

\* main() returns; the destructor of a joinable std::thread terminates.
ExitProcess ==
    /\ phase = "releasing"
    /\ cpc[Main] = "idle"
    /\ phase' = IF hotkeyThread = NoThread THEN "exited" ELSE "terminated"
    /\ UNCHANGED <<file, sharedVars, callerVars, threadVars, osVars>>

----------------------------------------------------------------------------
(* Steps of a hotkey thread. *)

ThreadAt(t, pc) == Alive /\ tpc[t] = pc
ThreadTo(t, pc) == tpc' = [tpc EXCEPT ![t] = pc]

\* The combination is free system-wide.
Free(k) == k \notin foreign /\ \A h \in hotkeys : h.combo # k

\* PeekMessage creates the message queue.
CreateQueue(t) ==
    /\ ThreadAt(t, "starting")
    /\ ThreadTo(t, "registering")
    /\ UNCHANGED <<mainVars, sharedVars, callerVars, actions, idx, osVars>>

\* One turn of the RegisterHotKey loop; a failure is only logged.
Register(t) ==
    /\ ThreadAt(t, "registering")
    /\ LET k == actions[t][idx[t]]
       IN  hotkeys' = IF Free(k)
                      THEN hotkeys \union {[combo |-> k, thread |-> t, id |-> idx[t]]}
                      ELSE hotkeys
    /\ ThreadTo(t, IF idx[t] = Len(actions[t]) THEN "checking" ELSE "registering")
    /\ idx' = [idx EXCEPT ![t] = @ + 1]
    /\ UNCHANGED <<mainVars, sharedVars, callerVars, actions, quit, inbox, foreign>>

\* MUTANT of CheckFlag: a cleared flag ends the thread without the last loop.
CheckFlagExits(t) ==
    /\ ThreadAt(t, "checking")
    /\ ThreadTo(t, IF hotkeysRunning THEN "waiting" ELSE "exiting")
    /\ idx' = [idx EXCEPT ![t] = 1]
    /\ UNCHANGED <<mainVars, sharedVars, callerVars, actions, osVars>>

\* while (s_hotkeysRunning && ...
CheckFlag(t) ==
    /\ ThreadAt(t, "checking")
    /\ ThreadTo(t, IF hotkeysRunning THEN "waiting" ELSE "unregistering")
    /\ idx' = [idx EXCEPT ![t] = 1]
    /\ UNCHANGED <<mainVars, sharedVars, callerVars, actions, osVars>>

\* ... GetMessage(...)) returns TRUE with a WM_HOTKEY.
GetHotkey(t) ==
    /\ ThreadAt(t, "waiting")
    /\ \E id \in inbox[t] :
        /\ inbox' = [inbox EXCEPT ![t] = @ \ {id}]
        /\ idx' = [idx EXCEPT ![t] = id]
    /\ ThreadTo(t, "handling")
    /\ UNCHANGED <<mainVars, sharedVars, callerVars, actions, quit, hotkeys, foreign>>

\* ... GetMessage(...)) returns FALSE: WM_QUIT.
GetQuit(t) ==
    /\ ThreadAt(t, "waiting")
    /\ t \in quit
    /\ quit' = quit \ {t}
    /\ ThreadTo(t, "unregistering")
    /\ idx' = [idx EXCEPT ![t] = 1]
    /\ UNCHANGED <<mainVars, sharedVars, callerVars, actions, inbox, hotkeys, foreign>>

\* The display calls of the binding (see GammaPanel) have returned.
HandlerReturns(t) ==
    /\ ThreadAt(t, "handling")
    /\ ThreadTo(t, "checking")
    /\ UNCHANGED <<mainVars, sharedVars, callerVars, actions, idx, osVars>>

\* One turn of the UnregisterHotKey loop.
Unregister(t) ==
    /\ ThreadAt(t, "unregistering")
    /\ hotkeys' = {h \in hotkeys : ~(h.thread = t /\ h.id = idx[t])}
    /\ ThreadTo(t, IF idx[t] = Len(actions[t]) THEN "exiting" ELSE "unregistering")
    /\ idx' = [idx EXCEPT ![t] = @ + 1]
    /\ UNCHANGED <<mainVars, sharedVars, callerVars, actions, quit, inbox, foreign>>

\* The thread ends; its queue goes with it.
ThreadEnds(t) ==
    /\ ThreadAt(t, "exiting")
    /\ ThreadTo(t, "done")
    /\ quit' = quit \ {t}
    /\ inbox' = [inbox EXCEPT ![t] = {}]
    /\ UNCHANGED <<mainVars, sharedVars, callerVars, actions, idx, hotkeys, foreign>>

----------------------------------------------------------------------------
(* The environment: the user's keyboard and other programs. *)

Press(h) ==
    /\ Alive
    /\ h \in hotkeys
    /\ inbox' = [inbox EXCEPT ![h.thread] = @ \union {h.id}]
    /\ UNCHANGED <<mainVars, sharedVars, callerVars, threadVars, quit, hotkeys, foreign>>

OtherRegisters(k) ==
    /\ Alive
    /\ k \in Others
    /\ Free(k)
    /\ foreign' = foreign \union {k}
    /\ UNCHANGED <<mainVars, sharedVars, callerVars, threadVars, quit, inbox, hotkeys>>

OtherUnregisters(k) ==
    /\ Alive
    /\ k \in foreign
    /\ foreign' = foreign \ {k}
    /\ UNCHANGED <<mainVars, sharedVars, callerVars, threadVars, quit, inbox, hotkeys>>

----------------------------------------------------------------------------

\* The steps of apply_shortkeys and of release's stop sequence.
CallerStep(c) ==
    \/ StopCheck(c)
    \/ ClearFlag(c)
    \/ PostQuit(c)
    \/ Join(c)
    \/ JoinRaced(c)
    \/ Load(c)
    \/ SetFlag(c)
    \/ Spawn(c)
    \/ SpawnFails(c)

ThreadStep(t) ==
    \/ CreateQueue(t)
    \/ Register(t)
    \/ CheckFlag(t)
    \/ GetHotkey(t)
    \/ GetQuit(t)
    \/ HandlerReturns(t)
    \/ Unregister(t)
    \/ ThreadEnds(t)

MainStep == BeginServing \/ BeginRelease \/ ExitProcess

Environment ==
    \/ \E h \in hotkeys : Press(h)
    \/ \E k \in Others : OtherRegisters(k) \/ OtherUnregisters(k)

\* The process is gone.
Gone == ~Alive /\ UNCHANGED vars

Next ==
    \/ \E w \in Workers : PostOpens(w) \/ PostWrites(w)
    \/ \E c \in Callers : CallerStep(c)
    \/ \E t \in Threads : ThreadStep(t)
    \/ MainStep
    \/ Environment
    \/ Gone

Spec == Init /\ [][Next]_vars

\* Every thread the scheduler runs makes progress: a handler that has opened
\* the file finishes, a call to apply_shortkeys or release goes on, a hotkey
\* thread goes on, main() returns.  Nothing forces a request, a key press,
\* another program or the end of serving.
Fairness ==
    /\ \A w \in Workers : WF_vars(PostWrites(w))
    /\ \A c \in Callers : WF_vars(CallerStep(c))
    /\ \A t \in Threads : WF_vars(ThreadStep(t))
    /\ WF_vars(BeginServing)
    /\ WF_vars(ExitProcess)

FairSpec == Spec /\ Fairness

----------------------------------------------------------------------------
(* Properties. *)

AllIdle == \A c \in Callers : cpc[c] = "idle"
\* The server runs and no call to apply_shortkeys is under way.
Settled == phase = "serving" /\ AllIdle
Keys(c) == {c[i] : i \in 1 .. Len(c)}
Held(t) == {h.combo : h \in {x \in hotkeys : x.thread = t}}

\* Past the stop block of apply_shortkeys (gamma.cpp:213-222), while the file is read
\* and a thread is made, no hotkey thread is alive.
StopsExisting ==
    \A c \in Callers :
        cpc[c] \in {"loading", "arming", "spawning"} => \A t \in Threads : ~Live(t)

\* "// Stop existing hotkey thread" (gamma.cpp:213): a call that passes over the block
\* under that comment, because it finds the flag clear, leaves no hotkey thread alive
\* that existed when it came there.
SkipsOnlyWithoutThread ==
    [][\A c \in Callers :
        StopCheck(c) /\ cpc'[c] = "loading" => \A t \in Threads : ~Live(t)]_vars

\* The hotkey thread that lives, if any, is the one s_hotkeyThread names, so
\* the next stop reaches it; none is ever orphaned with its keys registered.
NoOrphan == \A t \in Threads : Live(t) => hotkeyThread = t

\* No lost wake-up: the WM_QUIT can be posted before the thread has a queue and
\* be lost, but then the thread reads the cleared flag before it blocks.  So a
\* joined thread blocked in GetMessage has the WM_QUIT in its queue.
JoinNotStuck ==
    \A c \in Callers : cpc[c] = "joining" =>
        (tpc[target[c]] = "waiting" => target[c] \in quit)

\* std::terminate is never called by assigning to, or destroying, a joinable
\* s_hotkeyThread.
NeverTerminates == phase # "terminated"

\* Between calls, the bindings in force are those of gapa.json; there is no
\* hotkey thread only if the file yields no bindings or the system had no
\* thread to give (the flag is then set with no thread).
FileInForce ==
    Settled =>
        IF hotkeyThread # NoThread
        THEN actions[hotkeyThread] = file
        ELSE hotkeysRunning \/ file \in {<<>>, Malformed}

\* A new thread never loses a key to its predecessor: once it has finished
\* registering, it holds every key of its bindings that only this process uses.
HoldsItsKeys ==
    \A t \in Threads :
        tpc[t] \in {"checking", "waiting", "handling"} =>
            Keys(actions[t]) \ Others \subseteq Held(t)

\* When main returns, no hotkey is registered and no hotkey thread is alive.
CleanExit ==
    phase = "exited" => hotkeys = {} /\ \A t \in Threads : ~Live(t)

\* Even with handlers that race: a registered hotkey belongs to a thread that
\* is alive to unregister it, and no combination is registered twice.
KeysHaveAThread ==
    /\ \A h \in hotkeys : Live(h.thread)
    /\ \A g, h \in hotkeys : g.combo = h.combo => g = h

\* Liveness: a key of the saved file that no other program uses gets registered,
\* unless another save or the release comes first.
SavedKeysWork ==
    \A k \in Combos \ Others :
        (Settled /\ hotkeyThread # NoThread /\ k \in Keys(actions[hotkeyThread]))
            ~> (~Settled \/ \E h \in hotkeys : h.combo = k)

\* Handlers never run at once: with it the service is correct, without it (see
\* StopsExisting) it is not.
SerialWorkers == \A v, w \in Workers : v = w

\* The inductive invariant, first part: what holds of the hotkey threads and
\* their registrations whatever the callers do.
\* A thread is made only for bindings.
ArmedInv ==
    \A c \in Callers : cpc[c] \in {"arming", "spawning"} => config[c] \in Configs \ {<<>>}

\* The index of a loop is in the loop's range.
LoopInv ==
    \A t \in Threads :
        /\ Live(t) => actions[t] # <<>>
        /\ tpc[t] = "starting" => idx[t] = 1
        /\ tpc[t] \in {"registering", "unregistering"} => idx[t] \in 1 .. Len(actions[t])

\* A registration is one of a binding its live thread has reached in the first
\* loop and has not reached in the second.
InTurn(h) ==
    /\ tpc[h.thread] \notin {"unborn", "starting", "exiting", "done"}
    /\ h.id \in 1 .. Len(actions[h.thread])
    /\ h.combo = actions[h.thread][h.id]
    /\ tpc[h.thread] = "registering" => h.id < idx[h.thread]
    /\ tpc[h.thread] = "unregistering" => h.id >= idx[h.thread]

RegInv == \A h \in hotkeys : InTurn(h)

\* WM_QUIT waits in the queue of a thread that still has one.
QuitInv == \A t \in quit : HasQueue(t)

UniqueInv == \A g, h \in hotkeys : g.combo = h.combo => g = h

ThreadInv == ArmedInv /\ LoopInv /\ RegInv /\ UniqueInv /\ QuitInv

\* Second part, for handlers that run one at a time: who may be busy in which
\* phase, and what each step of a call may rely on.
BusyInv ==
    /\ phase # "terminated"
    /\ phase # "serving" => \A w \in Workers : cpc[w] = "idle"
    /\ phase = "serving" => cpc[Main] = "idle"
    /\ cpc[Main] # "writing"
    /\ phase = "releasing" => cpc[Main] \notin {"loading", "arming", "spawning"}

CallInv ==
    \A c \in Callers :
        /\ cpc[c] \in {"clearing", "spawning"} => hotkeysRunning
        /\ cpc[c] \in {"posting", "joining", "loading", "arming"} => ~hotkeysRunning
        /\ cpc[c] = "joining" =>
            /\ hotkeyThread # NoThread
            /\ target[c] = hotkeyThread
            /\ tpc[hotkeyThread] = "waiting" => hotkeyThread \in quit
        /\ cpc[c] \in {"loading", "arming", "spawning"} => hotkeyThread = NoThread
        /\ cpc[c] \in {"arming", "spawning"} => config[c] = file

\* A call that has not cleared the flag finds a healthy thread or none.
HandleInv ==
    /\ NoOrphan
    /\ hotkeyThread # NoThread => tpc[hotkeyThread] # "unborn"
    /\ (\A c \in Callers : cpc[c] \in {"idle", "writing", "stopcheck", "clearing"}) =>
        (hotkeyThread # NoThread =>
            /\ hotkeysRunning
            /\ tpc[hotkeyThread] \notin {"unregistering", "exiting", "done"}
            /\ hotkeyThread \notin quit)
    /\ phase = "releasing" /\ cpc[Main] = "idle" => hotkeyThread = NoThread
    /\ phase = "exited" => hotkeyThread = NoThread

FileInv ==
    phase \in {"startup", "serving"} /\ AllIdle =>
        IF hotkeyThread # NoThread
        THEN actions[hotkeyThread] = file
        ELSE hotkeysRunning \/ file \in {<<>>, Malformed}

\* A thread holds, of the keys it has reached, those others cannot have.
HoldInv ==
    \A t \in Threads :
        /\ tpc[t] = "registering" =>
            \A i \in 1 .. idx[t] - 1 : actions[t][i] \in Others \union Held(t)
        /\ tpc[t] \in {"checking", "waiting", "handling"} =>
            \A i \in 1 .. Len(actions[t]) : actions[t][i] \in Others \union Held(t)

\* The inductive invariant of the service with handlers that run one at a time.
IndInv == ThreadInv /\ BusyInv /\ CallInv /\ HandleInv /\ FileInv /\ HoldInv

\* The service implements the promise of KeybindingSet: the configuration in
\* force is that of the live thread s_hotkeyThread names.
InForce  == IF hotkeyThread # NoThread /\ Live(hotkeyThread)
            THEN actions[hotkeyThread] ELSE NoThread
Retiring == hotkeyThread # NoThread /\ tpc[hotkeyThread] \in {"unregistering", "exiting"}

Promise == INSTANCE KeybindingSet WITH
    Configurations <- Configs, Nothing <- NoThread,
    inForce <- InForce, retiring <- Retiring,
    registered <- {h.combo : h \in hotkeys}

\* Keys of two configurations are never held together, and every key is given
\* back before the next configuration comes into force.
KeepsPromise == Promise!Spec
============================================================================
