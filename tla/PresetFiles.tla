----------------------------- MODULE PresetFiles -----------------------------
(***************************************************************************)
(* The preset files in gamma/: POST /api/presets/save writes one           *)
(* (gamma_desc::to_file), GET /api/presets/<name> and every apply_preset   *)
(* read one (gamma_desc::gamma_desc), GET /api/files lists them and        *)
(* GET /api/files/<name> is to download one as a ramp.  Nothing locks a    *)
(* file: saves and loads of the server's workers, the tray thread and the  *)
(* hotkey thread interleave, the disk fills up, the process is killed.     *)
(*                                                                         *)
(* A file is the sequence of the words written to it: for each channel the *)
(* number of its points, then the points.  The presets of an instance have *)
(* the same number of points.  When they fit in the buffer of the stream,  *)
(* the words are written together, as the stream closes.                   *)
(***************************************************************************)
EXTENDS Naturals, Sequences

CONSTANTS
    Clients,  \* the threads that save and load
    Names,    \* names of preset files
    Presets,  \* what can be saved
    NoPreset, \* not one of them
    Settings  \* the circumstances the instance covers

ASSUME NoPresetAssumption == NoPreset \notin Presets
ASSUME PresetsAssumption == Presets # {}
ASSUME SettingsAssumption ==
    Settings \subseteq [buffered : BOOLEAN, \* a preset fits in the buffer of a stream
                         parallel : BOOLEAN, \* several clients save at a time
                         diskFull : BOOLEAN] \* writes may fail

VARIABLES
    setting, \* the circumstances of this behaviour
    exists,  \* the files in gamma/
    content, \* content[n]: the words in file n
    pc,      \* pc[c]: what client c does
    name,    \* name[c]: the file it works on
    preset,  \* preset[c]: the preset it saves
    pos,     \* pos[c]: the words written, or the channels read
    bad,     \* bad[c]: a write has failed, the stream takes no more
    got,     \* got[c]: the channels read by the last load
    answer,  \* answer[c]: what the last save or load was answered
    stored,  \* history: the preset last stored in file n, whole and undisturbed
    clean    \* history: no save has touched file name[c] since c opened it

fileVars   == <<exists, content>>
clientVars == <<pc, name, preset, pos, bad, got, answer>>
histVars   == <<stored, clean>>
vars       == <<setting, fileVars, clientVars, histVars>>

Channels == <<"r", "g", "b">>
Word(p, ch, part) == [preset |-> p, channel |-> ch, part |-> part]
Words == [preset : Presets \union {NoPreset},
          channel : {"r", "g", "b", "-"}, part : {"count", "points", "nul"}]
Nul == Word(NoPreset, "-", "nul")

\* MUTANT of WordsOf: the channels are written in another order than read.
WordsOfSwapped(p) ==
    <<Word(p, "g", "count"), Word(p, "g", "points"),
      Word(p, "r", "count"), Word(p, "r", "points"),
      Word(p, "b", "count"), Word(p, "b", "points")>>

\* What to_file writes.
WordsOf(p) ==
    <<Word(p, "r", "count"), Word(p, "r", "points"),
      Word(p, "g", "count"), Word(p, "g", "points"),
      Word(p, "b", "count"), Word(p, "b", "points")>>

\* File f after the words of s from i + 1 to k are written in their place; a gap
\* that a truncation has left is nul.
Overlay(f, i, k, s) ==
    IF i = k THEN f
    ELSE [j \in 1 .. IF Len(f) > k THEN Len(f) ELSE k |->
            IF j \in i + 1 .. k THEN s[j] ELSE IF j <= Len(f) THEN f[j] ELSE Nul]

----------------------------------------------------------------------------
(* What a channel reads as: no points (the identity), points that are all zero *)
(* (a channel of zeros), the points of a preset, or a jumble.                   *)

None   == [kind |-> "none", preset |-> NoPreset, channel |-> "-"]
Zeros  == [kind |-> "zeros", preset |-> NoPreset, channel |-> "-"]
Jumble == [kind |-> "jumble", preset |-> NoPreset, channel |-> "-"]
Of(p, ch) == [kind |-> "points", preset |-> p, channel |-> ch]

\* read_vec for the i-th channel of f: a count that cannot be read is 0, points
\* that cannot be read are 0.
ReadVec(f, i) ==
    LET n == 2 * i - 1
    IN  CASE Len(f) < n -> None
          [] Len(f) = n /\ f[n].part = "count" -> Zeros
          [] Len(f) > n /\ f[n].part = "count" /\ f[n + 1].part = "points"
                /\ f[n].preset = f[n + 1].preset /\ f[n].channel = f[n + 1].channel
                -> Of(f[n].preset, f[n].channel)
          [] OTHER -> Jumble

Whole(p) == [i \in 1 .. 3 |-> Of(p, Channels[i])]

TypeOK ==
    /\ setting \in Settings
    /\ exists \subseteq Names
    /\ \A n \in Names : Len(content[n]) <= 6 /\ \A i \in DOMAIN content[n] : content[n][i] \in Words
    /\ pc \in [Clients -> {"idle", "saving", "loading"}]
    /\ name \in [Clients -> Names]
    /\ preset \in [Clients -> Presets \union {NoPreset}]
    /\ pos \in [Clients -> 0 .. 6]
    /\ bad \in [Clients -> BOOLEAN]
    /\ \A c \in Clients : Len(got[c]) <= 3
    /\ answer \in [Clients -> {"none", "ok", "failed", "loaded", "downloaded"}]
    /\ stored \in [Names -> Presets \union {NoPreset}]
    /\ clean \in [Clients -> BOOLEAN]

Init ==
    /\ setting \in Settings
    /\ exists = {}
    /\ content = [n \in Names |-> <<>>]
    /\ pc = [c \in Clients |-> "idle"]
    /\ name \in [Clients -> Names]
    /\ preset = [c \in Clients |-> NoPreset]
    /\ pos = [c \in Clients |-> 0]
    /\ bad = [c \in Clients |-> FALSE]
    /\ got = [c \in Clients |-> <<>>]
    /\ answer = [c \in Clients |-> "none"]
    /\ stored = [n \in Names |-> NoPreset]
    /\ clean = [c \in Clients |-> FALSE]

Saving(n) == {c \in Clients : pc[c] = "saving" /\ name[c] = n}
Finish(c) == pc' = [pc EXCEPT ![c] = "idle"] /\ pos' = [pos EXCEPT ![c] = 0]
Answer(c, a) == answer' = [answer EXCEPT ![c] = a]

----------------------------------------------------------------------------
(* POST /api/presets/save *)

\* MUTANT of Opened: the old file is written over, not truncated.
OpenedInPlace(n) == content[n]

\* What is in file n once it is open for writing.
Opened(n) == <<>>

\* The file is opened, which creates or truncates it.  (A request that cannot be
\* parsed, or a file that cannot be opened, changes nothing.)
SaveOpens(c) ==
    /\ pc[c] = "idle"
    /\ setting.parallel \/ \A d \in Clients : pc[d] # "saving"
    /\ \E n \in Names, p \in Presets :
        /\ name' = [name EXCEPT ![c] = n]
        /\ preset' = [preset EXCEPT ![c] = p]
        /\ exists' = exists \union {n}
        /\ content' = [content EXCEPT ![n] = Opened(n)]
        /\ stored' = [stored EXCEPT ![n] = NoPreset]
        /\ clean' = [d \in Clients |-> IF d = c THEN Saving(n) = {}
                                       ELSE clean[d] /\ name[d] # n]
    /\ pc' = [pc EXCEPT ![c] = "saving"]
    /\ pos' = [pos EXCEPT ![c] = 0]
    /\ bad' = [bad EXCEPT ![c] = FALSE]
    /\ got' = [got EXCEPT ![c] = <<>>]
    /\ Answer(c, "none")
    /\ UNCHANGED setting

\* MUTANT of BufferFills: every vector is flushed, however small.
BufferFillsAlways == TRUE

\* The buffer is too small for a preset.
BufferFills == ~setting.buffered

\* The buffer is full and written out; from a write that fails on the stream
\* takes no more.
SaveFlushes(c) ==
    /\ pc[c] = "saving"
    /\ BufferFills /\ ~bad[c] /\ pos[c] < 6
    /\ \/ /\ content' = [content EXCEPT ![name[c]] =
                            Overlay(@, pos[c], pos[c] + 1, WordsOf(preset[c]))]
          /\ pos' = [pos EXCEPT ![c] = @ + 1]
          /\ UNCHANGED bad
       \/ /\ setting.diskFull
          /\ bad' = [bad EXCEPT ![c] = TRUE]
          /\ UNCHANGED <<content, pos>>
    /\ UNCHANGED <<setting, exists, pc, name, preset, got, answer, histVars>>

\* to_file returns fs.good(); then the stream's destructor writes what is still in
\* the buffer, or part of it, and nobody asks.
SaveCloses(c) ==
    /\ pc[c] = "saving"
    /\ Finish(c)
    /\ Answer(c, IF bad[c] THEN "failed" ELSE "ok")
    /\ \E k \in pos[c] .. 6 :
        /\ IF bad[c] THEN k = pos[c] ELSE setting.diskFull \/ k = 6
        /\ content' = [content EXCEPT ![name[c]] = Overlay(@, pos[c], k, WordsOf(preset[c]))]
        /\ stored' = [stored EXCEPT ![name[c]] =
                        IF k = 6 /\ clean[c] THEN preset[c] ELSE NoPreset]
        /\ clean' = [d \in Clients |-> clean[d] /\ (d = c \/ name[d] # name[c])]
    /\ UNCHANGED <<setting, exists, name, preset, bad, got>>

----------------------------------------------------------------------------
(* Loads. *)

\* MUTANT of NoPoints: the points read are added to those of the last load.
NoPointsNot(c) == got[c]

\* The channels of a gamma_desc as it is made.
NoPoints(c) == <<>>

\* gamma_desc opens the file; one that is not there leaves every channel empty.
LoadOpens(c) ==
    /\ pc[c] = "idle"
    /\ \E n \in Names :
        /\ name' = [name EXCEPT ![c] = n]
        /\ clean' = [clean EXCEPT ![c] = Saving(n) = {}]
        /\ IF n \in exists
           THEN /\ pc' = [pc EXCEPT ![c] = "loading"]
                /\ got' = [got EXCEPT ![c] = NoPoints(c)]
                /\ Answer(c, "none")
           ELSE /\ got' = [got EXCEPT ![c] = <<None, None, None>>]
                /\ Answer(c, "loaded")
                /\ UNCHANGED pc
    /\ preset' = [preset EXCEPT ![c] = NoPreset]
    /\ bad' = [bad EXCEPT ![c] = FALSE]
    /\ pos' = [pos EXCEPT ![c] = 0]
    /\ UNCHANGED <<setting, fileVars, stored>>

\* read_vec for the next channel, or for all of them out of one buffer.
LoadReads(c) ==
    /\ pc[c] = "loading"
    /\ LET f == content[name[c]]
       IN  got' = [got EXCEPT ![c] =
                    IF setting.buffered THEN <<ReadVec(f, 1), ReadVec(f, 2), ReadVec(f, 3)>>
                    ELSE Append(@, ReadVec(f, Len(@) + 1))]
    /\ IF Len(got'[c]) = 3
       THEN pc' = [pc EXCEPT ![c] = "idle"] /\ Answer(c, "loaded")
       ELSE UNCHANGED <<pc, answer>>
    /\ UNCHANGED <<setting, fileVars, name, preset, pos, bad, histVars>>

\* GET /api/files/<name>: the name is appended to a path made with concat, without
\* a separator, so no file of gamma/ is opened: every channel stays empty.
Download(c) ==
    /\ pc[c] = "idle"
    /\ \E n \in exists :
        /\ name' = [name EXCEPT ![c] = n]
        /\ clean' = [clean EXCEPT ![c] = Saving(n) = {}]
    /\ got' = [got EXCEPT ![c] = <<None, None, None>>]
    /\ Answer(c, "downloaded")
    /\ preset' = [preset EXCEPT ![c] = NoPreset]
    /\ UNCHANGED <<setting, fileVars, pc, pos, bad, stored>>

----------------------------------------------------------------------------

\* The process is killed and started again; what was still buffered is lost.
Crash ==
    /\ pc' = [c \in Clients |-> "idle"]
    /\ pos' = [c \in Clients |-> 0]
    /\ preset' = [c \in Clients |-> NoPreset]
    /\ bad' = [c \in Clients |-> FALSE]
    /\ got' = [c \in Clients |-> <<>>]
    /\ answer' = [c \in Clients |-> "none"]
    /\ clean' = [c \in Clients |-> FALSE]
    /\ UNCHANGED <<setting, fileVars, name, stored>>

\* The user removes a file no client has open.
Remove(n) ==
    /\ n \in exists
    /\ \A c \in Clients : pc[c] # "idle" => name[c] # n
    /\ exists' = exists \ {n}
    /\ content' = [content EXCEPT ![n] = <<>>]
    /\ stored' = [stored EXCEPT ![n] = NoPreset]
    /\ clean' = [c \in Clients |-> clean[c] /\ name[c] # n]
    /\ UNCHANGED <<setting, clientVars>>

Next ==
    \/ \E c \in Clients :
        \/ SaveOpens(c)
        \/ SaveFlushes(c)
        \/ SaveCloses(c)
        \/ LoadOpens(c)
        \/ LoadReads(c)
        \/ Download(c)
    \/ Crash
    \/ \E n \in Names : Remove(n)

Spec == Init /\ [][Next]_vars

----------------------------------------------------------------------------
(* Properties. *)

\* A load with no save of the file in its way yields the preset last stored,
\* every channel its own points, whatever other saves, failures and restarts
\* came before.
LoadsWhatIsStored ==
    \A c \in Clients :
        answer[c] = "loaded" /\ clean[c] /\ stored[name[c]] # NoPreset =>
            got[c] = Whole(stored[name[c]])

IsPrefixOf(f, s) == Len(f) <= Len(s) /\ \A i \in DOMAIN f : f[i] = s[i]

\* Saves one at a time: a file holds the beginning of one preset, never parts of
\* two, though saves fail or the process is killed half way.
BeginningOfOne ==
    ~setting.parallel => \A n \in Names : \E p \in Presets : IsPrefixOf(content[n], WordsOf(p))

\* Presets that fit in the buffer, and a disk with room: a load that overlaps any
\* number of saves gets one preset whole, or no points at all.
WholeOrNothing ==
    setting.buffered /\ ~setting.diskFull =>
        \A c \in Clients : Len(got[c]) = 3 =>
            got[c] = <<None, None, None>> \/ \E p \in Presets : got[c] = Whole(p)
=============================================================================
