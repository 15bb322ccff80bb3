-------------------------- MODULE PresetFilesProofs -------------------------
(***************************************************************************)
(* Proofs about PresetFiles, for any clients, names, presets and settings: *)
(* what a file and a load may contain.                                     *)
(***************************************************************************)
EXTENDS PresetFiles, SequenceTheorems, TLAPS

\* What a channel may read as.
Readings == [kind : {"none", "zeros", "jumble", "points"}, preset : Presets \union {NoPreset},
             channel : {"r", "g", "b", "-"}]

\* The first k words of preset p, and the first k channels of its reading.
Begun(p, k) == [j \in 1 .. k |-> WordsOf(p)[j]]
Read(p, k)  == [j \in 1 .. k |-> Whole(p)[j]]

----------------------------------------------------------------------------
(* Lemmas about the operators. *)

\* The six words of a preset.
LEMMA WordsOfType ==
    ASSUME NEW p \in Presets \union {NoPreset}
    PROVE  /\ WordsOf(p) \in Seq(Words)
           /\ Len(WordsOf(p)) = 6
           /\ \A j \in 1 .. 6 : WordsOf(p)[j] \in Words
<1>1. Word(p, "r", "count") \in Words /\ Word(p, "r", "points") \in Words
  BY DEF Word, Words
<1>2. Word(p, "g", "count") \in Words /\ Word(p, "g", "points") \in Words
  BY DEF Word, Words
<1>3. Word(p, "b", "count") \in Words /\ Word(p, "b", "points") \in Words
  BY DEF Word, Words
<1>4. WordsOf(p) \in Seq(Words) /\ Len(WordsOf(p)) = 6
  BY <1>1, <1>2, <1>3 DEF WordsOf
<1> QED
  BY <1>4, ElementOfSeq

\* The beginnings of a preset: the whole of it has six words.
LEMMA BegunProperties ==
    ASSUME NEW p \in Presets \union {NoPreset}
    PROVE  /\ Begun(p, 0) = <<>>
           /\ Begun(p, 6) = WordsOf(p)
           /\ \A k \in 0 .. 6 : /\ Begun(p, k) \in Seq(Words)
                                /\ Len(Begun(p, k)) = k
                                /\ \A j \in 1 .. k : Begun(p, k)[j] = WordsOf(p)[j]
                                /\ IsPrefixOf(Begun(p, k), WordsOf(p))
<1>1. /\ WordsOf(p) \in Seq(Words) /\ Len(WordsOf(p)) = 6 /\ DOMAIN WordsOf(p) = 1 .. 6
      /\ \A j \in 1 .. 6 : WordsOf(p)[j] \in Words
  BY WordsOfType
<1> DEFINE w == WordsOf(p)
<1> HIDE DEF w
<1>2. ASSUME NEW k \in 0 .. 6
      PROVE  /\ Begun(p, k) \in Seq(Words)
             /\ Len(Begun(p, k)) = k
             /\ \A j \in 1 .. k : Begun(p, k)[j] = WordsOf(p)[j]
             /\ IsPrefixOf(Begun(p, k), WordsOf(p))
  <2>1. Begun(p, k) = [j \in 1 .. k |-> WordsOf(p)[j]]
    BY DEF Begun
  <2>2. \A j \in 1 .. k : WordsOf(p)[j] \in Words
    BY <1>1
  <2>3. Begun(p, k) \in Seq(Words) /\ Len(Begun(p, k)) = k /\ DOMAIN Begun(p, k) = 1 .. k
    BY <2>1, <2>2
  <2>4. \A j \in 1 .. k : Begun(p, k)[j] = WordsOf(p)[j]
    BY <2>1
  <2> QED
    BY <1>1, <2>3, <2>4 DEF IsPrefixOf
<1>3. Begun(p, 0) = <<>>
  BY <1>2, EmptySeq
<1>4. Begun(p, 6) = WordsOf(p)
  <2>1. Begun(p, 6) \in Seq(Words) /\ Len(Begun(p, 6)) = Len(WordsOf(p))
    BY <1>1, <1>2
  <2>2. Len(Begun(p, 6)) = 6 /\ \A j \in 1 .. 6 : Begun(p, 6)[j] = WordsOf(p)[j]
    BY <1>2
  <2> QED
    BY <1>1, <2>1, <2>2, SeqEqual
<1> QED
  BY <1>2, <1>3, <1>4

\* Words written over a file leave a file.
LEMMA OverlayType ==
    ASSUME NEW f \in Seq(Words), Len(f) <= 6, NEW i \in 0 .. 6, NEW k \in i .. 6,
           NEW p \in Presets \union {NoPreset}
    PROVE  /\ Overlay(f, i, k, WordsOf(p)) \in Seq(Words)
           /\ Len(Overlay(f, i, k, WordsOf(p))) <= 6
<1> DEFINE s == WordsOf(p)
<1>1. \A j \in 1 .. 6 : s[j] \in Words
  BY WordsOfType
<1>2. Nul \in Words
  BY DEF Nul, Word, Words
<1> HIDE DEF s
<1>3. CASE i = k
  BY <1>3 DEF Overlay
<1>4. CASE i # k
  <2> DEFINE m == IF Len(f) > k THEN Len(f) ELSE k
             at(j) == IF j \in i + 1 .. k THEN s[j] ELSE IF j <= Len(f) THEN f[j] ELSE Nul
  <2>1. m \in Nat /\ m <= 6
    OBVIOUS
  <2>2. \A j \in 1 .. m : at(j) \in Words
    BY <1>1, <1>2
  <2>3. Overlay(f, i, k, s) = [j \in 1 .. m |-> at(j)]
    BY <1>4 DEF Overlay
  <2> HIDE DEF m, at
  <2>4. Overlay(f, i, k, s) \in Seq(Words) /\ Len(Overlay(f, i, k, s)) = m
    BY <2>1, <2>2, <2>3
  <2> QED
    BY <2>1, <2>4 DEF s
<1> QED
  BY <1>3, <1>4

\* Words written on to the beginning of their preset make a longer beginning of it.
LEMMA OverlayBegun ==
    ASSUME NEW p \in Presets \union {NoPreset}, NEW i \in 0 .. 6, NEW k \in i .. 6
    PROVE  Overlay(Begun(p, i), i, k, WordsOf(p)) = Begun(p, k)
<1>1. Len(Begun(p, i)) = i /\ \A j \in 1 .. i : Begun(p, i)[j] = WordsOf(p)[j]
  BY BegunProperties
<1>2. CASE i = k
  BY <1>2 DEF Overlay
<1>3. CASE i # k
  <2> DEFINE f == Begun(p, i)
             s == WordsOf(p)
             at(j) == IF j \in i + 1 .. k THEN s[j] ELSE IF j <= Len(f) THEN f[j] ELSE Nul
  <2>1. Overlay(f, i, k, s) = [j \in 1 .. k |-> at(j)]
    BY <1>1, <1>3 DEF Overlay
  <2>2. \A j \in 1 .. k : at(j) = s[j]
    BY <1>1
  <2>3. Begun(p, k) = [j \in 1 .. k |-> s[j]]
    BY DEF Begun
  <2> HIDE DEF at, f, s
  <2>4. Overlay(f, i, k, s) = Begun(p, k)
    BY <2>1, <2>2, <2>3
  <2> QED
    BY <2>4 DEF f, s
<1> QED
  BY <1>2, <1>3

\* A preset written in one go replaces whatever is no longer than it.
LEMMA OverlayWhole ==
    ASSUME NEW p \in Presets \union {NoPreset}, NEW f \in Seq(Words), Len(f) <= 6
    PROVE  Overlay(f, 0, 6, WordsOf(p)) = WordsOf(p)
<1> DEFINE s == WordsOf(p)
           at(j) == IF j \in 0 + 1 .. 6 THEN s[j] ELSE IF j <= Len(f) THEN f[j] ELSE Nul
<1>1. Overlay(f, 0, 6, s) = [j \in 1 .. 6 |-> at(j)]
  BY DEF Overlay
<1>2. \A j \in 1 .. 6 : at(j) = s[j]
  OBVIOUS
<1>3. Begun(p, 6) = [j \in 1 .. 6 |-> s[j]]
  BY DEF Begun
<1> HIDE DEF at, s
<1>4. Overlay(f, 0, 6, s) = Begun(p, 6)
  BY <1>1, <1>2, <1>3
<1> QED
  BY <1>4, BegunProperties DEF s

\* The words of a preset read as its channels.
LEMMA ReadWhole ==
    ASSUME NEW p \in Presets \union {NoPreset}, NEW i \in 1 .. 3
    PROVE  ReadVec(WordsOf(p), i) = Whole(p)[i]
<1>1. CASE i = 1
  BY <1>1 DEF ReadVec, WordsOf, Word, Whole, Of, Channels
<1>2. CASE i = 2
  BY <1>2 DEF ReadVec, WordsOf, Word, Whole, Of, Channels
<1>3. CASE i = 3
  BY <1>3 DEF ReadVec, WordsOf, Word, Whole, Of, Channels
<1> QED
  BY <1>1, <1>2, <1>3

\* A file without words reads as no points.
LEMMA ReadNoWords == ASSUME NEW i \in 1 .. 3 PROVE ReadVec(<<>>, i) = None
BY DEF ReadVec

\* A channel reads as one of the Readings.
LEMMA ReadVecType ==
    ASSUME NEW f \in Seq(Words), NEW i \in 1 .. 3
    PROVE  ReadVec(f, i) \in Readings
<1> DEFINE n == 2 * i - 1
<1>1. n \in Nat /\ n >= 1
  OBVIOUS
<1>2. None \in Readings /\ Zeros \in Readings /\ Jumble \in Readings
  BY DEF None, Zeros, Jumble, Readings
<1> HIDE DEF n
<1>3. Len(f) > n => Of(f[n].preset, f[n].channel) \in Readings
  <2> SUFFICES ASSUME Len(f) > n PROVE Of(f[n].preset, f[n].channel) \in Readings
    OBVIOUS
  <2>1. f[n] \in Words
    BY <1>1, ElementOfSeq
  <2> QED
    BY <2>1 DEF Words, Of, Readings
<1>4. ReadVec(f, i) = CASE Len(f) < n -> None
                        [] Len(f) = n /\ f[n].part = "count" -> Zeros
                        [] Len(f) > n /\ f[n].part = "count" /\ f[n + 1].part = "points"
                              /\ f[n].preset = f[n + 1].preset /\ f[n].channel = f[n + 1].channel
                              -> Of(f[n].preset, f[n].channel)
                        [] OTHER -> Jumble
  BY DEF ReadVec, n
<1>5. ReadVec(f, i) \in {None, Zeros, Jumble}
      \/ (Len(f) > n /\ ReadVec(f, i) = Of(f[n].preset, f[n].channel))
  BY <1>1, <1>4
<1> QED
  BY <1>2, <1>3, <1>5

\* What has been read of a preset, channel by channel.
LEMMA ReadProperties ==
    ASSUME NEW p \in Presets \union {NoPreset}
    PROVE  /\ Read(p, 0) = <<>>
           /\ Read(p, 3) = Whole(p)
           /\ \A k \in 0 .. 3 : Len(Read(p, k)) = k
           /\ \A k \in 0 .. 2 : Append(Read(p, k), Whole(p)[k + 1]) = Read(p, k + 1)
           /\ <<Whole(p)[1], Whole(p)[2], Whole(p)[3]>> = Whole(p)
<1> DEFINE w == Whole(p)
<1>1. w = [i \in 1 .. 3 |-> Of(p, Channels[i])]
  BY DEF Whole
<1>2. \A i \in 1 .. 3 : w[i] \in Readings
  BY <1>1 DEF Of, Channels, Readings
<1> HIDE DEF w
<1>3. \A k \in 0 .. 3 : /\ Read(p, k) = [j \in 1 .. k |-> w[j]]
                        /\ Read(p, k) \in Seq(Readings) /\ Len(Read(p, k)) = k
  <2> TAKE k \in 0 .. 3
  <2>1. Read(p, k) = [j \in 1 .. k |-> w[j]]
    BY DEF Read, w
  <2> QED
    BY <1>2, <2>1
<1>4. Read(p, 3) = w
  BY <1>1, <1>3
<1>5. Read(p, 0) = <<>>
  BY <1>3, EmptySeq
<1>6. ASSUME NEW k \in 0 .. 2 PROVE Append(Read(p, k), w[k + 1]) = Read(p, k + 1)
  <2>1. k \in 0 .. 3 /\ k + 1 \in 0 .. 3 /\ k + 1 \in 1 .. 3
    OBVIOUS
  <2>2. /\ Append(Read(p, k), w[k + 1]) \in Seq(Readings)
        /\ Len(Append(Read(p, k), w[k + 1])) = k + 1
        /\ \A j \in 1 .. k + 1 : Append(Read(p, k), w[k + 1])[j] = w[j]
    <3> DEFINE t == Append(Read(p, k), w[k + 1])
    <3>1. /\ Read(p, k) \in Seq(Readings) /\ Len(Read(p, k)) = k
          /\ \A j \in 1 .. k : Read(p, k)[j] = w[j]
      BY <1>3, <2>1
    <3>2. w[k + 1] \in Readings
      BY <1>2, <2>1
    <3>3. /\ t \in Seq(Readings) /\ Len(t) = k + 1 /\ t[k + 1] = w[k + 1]
          /\ \A j \in 1 .. k : t[j] = Read(p, k)[j]
      BY <3>1, <3>2, AppendProperties
    <3>4. \A j \in 1 .. k + 1 : j \in 1 .. k \/ j = k + 1
      OBVIOUS
    <3> HIDE DEF t
    <3>5. \A j \in 1 .. k + 1 : t[j] = w[j]
      BY <3>1, <3>3, <3>4
    <3> QED
      BY <3>3, <3>5 DEF t
  <2>3. /\ Read(p, k + 1) \in Seq(Readings) /\ Len(Read(p, k + 1)) = k + 1
        /\ \A j \in 1 .. k + 1 : Read(p, k + 1)[j] = w[j]
    BY <1>3, <2>1
  <2> QED
    BY <2>2, <2>3, SeqEqual
<1>7. <<w[1], w[2], w[3]>> = w
  <2>1. <<w[1], w[2], w[3]>> \in Seq(Readings) /\ Len(<<w[1], w[2], w[3]>>) = 3
    BY <1>2
  <2>2. \A j \in 1 .. 3 : <<w[1], w[2], w[3]>>[j] = w[j]
    OBVIOUS
  <2>3. w \in Seq(Readings) /\ Len(w) = 3
    BY <1>1, <1>2
  <2> QED
    BY <2>1, <2>2, <2>3, SeqEqual
<1> QED
  BY <1>3, <1>4, <1>5, <1>6, <1>7 DEF w

----------------------------------------------------------------------------
(* The invariants. *)

\* The types, with the shape of the files and of what has been read.
Shape ==
    /\ TypeOK
    /\ content \in [Names -> Seq(Words)]
    /\ got \in [Clients -> Seq(Readings)]
    /\ \A c \in Clients : pc[c] = "saving" => preset[c] \in Presets /\ name[c] \in exists
    /\ \A c \in Clients : pc[c] = "loading" => Len(got[c]) < 3

\* Client d has file n open for writing.
Saves(d, n) == pc[d] = "saving" /\ name[d] = n

\* Saves one at a time have their file for themselves.
SerialInv ==
    ~setting.parallel =>
        /\ \A c, d \in Clients : pc[c] = "saving" /\ pc[d] = "saving" => c = d
        /\ \A c \in Clients : pc[c] = "saving" => clean[c]

\* A client that saves undisturbed is the only one, and has written the beginning of
\* its preset.
CleanSaver ==
    \A c \in Clients : pc[c] = "saving" /\ clean[c] =>
        /\ \A d \in Clients : Saves(d, name[c]) => d = c
        /\ content[name[c]] = Begun(preset[c], pos[c])

\* What is stored whole is in its file, and nobody writes to it.
StoredInv ==
    \A n \in Names : stored[n] # NoPreset =>
        /\ n \in exists
        /\ content[n] = WordsOf(stored[n])
        /\ \A d \in Clients : ~Saves(d, n)

\* The channels an undisturbed load has read are those of the preset stored.
LoadInv ==
    \A c \in Clients : clean[c] /\ stored[name[c]] # NoPreset =>
        /\ pc[c] = "loading" => got[c] = Read(stored[name[c]], Len(got[c]))
        /\ answer[c] = "loaded" => got[c] = Whole(stored[name[c]])

\* Files written in one go hold a preset or nothing, and loads find it so.
BufferedInv ==
    setting.buffered /\ ~setting.diskFull =>
        /\ \A n \in Names : content[n] = <<>> \/ \E p \in Presets : content[n] = WordsOf(p)
        /\ \A c \in Clients : pc[c] = "saving" => pos[c] = 0 /\ ~bad[c]
        /\ \A c \in Clients : pc[c] = "loading" => got[c] = <<>>
        /\ WholeOrNothing

FilesInv == SerialInv /\ CleanSaver /\ StoredInv /\ LoadInv /\ BufferedInv /\ BeginningOfOne

----------------------------------------------------------------------------
(* Types. *)

\* Each step keeps the types.
LEMMA ShapeStep == ASSUME Shape, [Next]_vars PROVE Shape'
<1> USE DEF Shape
<1>0. /\ pc \in [Clients -> {"idle", "saving", "loading"}]
      /\ got \in [Clients -> Seq(Readings)]
      /\ \A c \in Clients : Len(got[c]) \in Nat /\ Len(got[c]) <= 3
      /\ \A c \in Clients : pc[c] = "loading" => Len(got[c]) < 3
  BY LenProperties DEF TypeOK
<1>00. ASSUME got' \in [Clients -> Seq(Readings)],
             pc' \in [Clients -> {"idle", "saving", "loading"}],
             NEW c \in Clients, Len(got'[c]) <= 3, pc'[c] = "loading" => Len(got'[c]) < 3,
             \A d \in Clients : d # c => got'[d] = got[d] /\ pc'[d] = pc[d]
      PROVE  /\ \A d \in Clients : Len(got'[d]) <= 3
             /\ \A d \in Clients : pc'[d] = "loading" => Len(got'[d]) < 3
  <2> HIDE DEF Shape
  <2> QED
    BY <1>0, <1>00
<1>1. ASSUME NEW c \in Clients, SaveOpens(c) PROVE Shape'
  <2>1. PICK n \in Names, p \in Presets :
            /\ name' = [name EXCEPT ![c] = n]
            /\ preset' = [preset EXCEPT ![c] = p]
            /\ exists' = exists \union {n}
            /\ content' = [content EXCEPT ![n] = <<>>]
            /\ stored' = [stored EXCEPT ![n] = NoPreset]
            /\ clean' = [d \in Clients |-> IF d = c THEN Saving(n) = {}
                                           ELSE clean[d] /\ name[d] # n]
    BY <1>1 DEF SaveOpens, Opened
  <2>2. /\ pc' = [pc EXCEPT ![c] = "saving"]
        /\ pos' = [pos EXCEPT ![c] = 0]
        /\ bad' = [bad EXCEPT ![c] = FALSE]
        /\ got' = [got EXCEPT ![c] = <<>>]
        /\ answer' = [answer EXCEPT ![c] = "none"]
        /\ setting' = setting
    BY <1>1 DEF SaveOpens, Answer
  <2>3. <<>> \in Seq(Words) /\ Len(<<>>) = 0 /\ <<>> \in Seq(Readings) /\ DOMAIN <<>> = {}
    OBVIOUS
  <2>4. content' \in [Names -> Seq(Words)] /\ got' \in [Clients -> Seq(Readings)]
    BY <2>1, <2>2, <2>3
  <2>5. ASSUME NEW m \in Names
        PROVE  Len(content'[m]) <= 6 /\ \A i \in DOMAIN content'[m] : content'[m][i] \in Words
    BY <2>1, <2>3 DEF TypeOK
  <2>6. \A d \in Clients : Len(got'[d]) <= 3
    BY <2>2, <2>3 DEF TypeOK
  <2>7. clean' \in [Clients -> BOOLEAN]
    BY <2>1, Zenon DEF TypeOK
  <2>8. TypeOK'
    BY <2>1, <2>2, <2>5, <2>6, <2>7 DEF TypeOK
  <2> QED
    BY <2>1, <2>2, <2>4, <2>8 DEF TypeOK
<1>2. ASSUME NEW c \in Clients, SaveFlushes(c) PROVE Shape'
  <2>1. /\ pc[c] = "saving" /\ pos[c] < 6 /\ pos[c] \in 0 .. 6 /\ pos[c] + 1 \in pos[c] .. 6
        /\ preset[c] \in Presets /\ name[c] \in Names
    BY <1>2 DEF SaveFlushes, TypeOK
  <2> DEFINE after == Overlay(content[name[c]], pos[c], pos[c] + 1, WordsOf(preset[c]))
  <2>2. after \in Seq(Words) /\ Len(after) <= 6
    BY <2>1, OverlayType DEF TypeOK
  <2>3. \A i \in DOMAIN after : after[i] \in Words
    <3> HIDE DEF after
    <3> QED
      BY <2>2, ElementOfSeq
  <2>4. \/ content' = [content EXCEPT ![name[c]] = after] /\ pos' = [pos EXCEPT ![c] = @ + 1]
           /\ bad' = bad
        \/ content' = content /\ pos' = pos /\ bad' = [bad EXCEPT ![c] = TRUE]
    BY <1>2 DEF SaveFlushes
  <2>5. UNCHANGED <<setting, exists, pc, name, preset, got, answer, histVars>>
    BY <1>2 DEF SaveFlushes
  <2> HIDE DEF after
  <2>6. content' \in [Names -> Seq(Words)]
    BY <2>2, <2>4
  <2>7. \A m \in Names : Len(content'[m]) <= 6
                         /\ \A i \in DOMAIN content'[m] : content'[m][i] \in Words
    BY <2>1, <2>2, <2>3, <2>4 DEF TypeOK
  <2>8. pos' \in [Clients -> 0 .. 6] /\ bad' \in [Clients -> BOOLEAN]
    <3>1. pos[c] + 1 \in 0 .. 6 /\ pos \in [Clients -> 0 .. 6] /\ bad \in [Clients -> BOOLEAN]
      BY <2>1 DEF TypeOK
    <3>2. pos' = pos \/ pos' = [pos EXCEPT ![c] = pos[c] + 1]
      BY <2>4
    <3> QED
      BY <2>4, <3>1, <3>2
  <2>9. TypeOK'
    BY <2>5, <2>7, <2>8 DEF TypeOK, histVars
  <2> QED
    BY <2>5, <2>6, <2>9
<1>3. ASSUME NEW c \in Clients, SaveCloses(c) PROVE Shape'
  <2>1. pc[c] = "saving" /\ pos[c] \in 0 .. 6 /\ preset[c] \in Presets /\ name[c] \in Names
    BY <1>3 DEF SaveCloses, TypeOK
  <2>2. PICK k \in pos[c] .. 6 :
        /\ content' = [content EXCEPT ![name[c]] = Overlay(@, pos[c], k, WordsOf(preset[c]))]
        /\ stored' = [stored EXCEPT ![name[c]] =
                        IF k = 6 /\ clean[c] THEN preset[c] ELSE NoPreset]
        /\ clean' = [d \in Clients |-> clean[d] /\ (d = c \/ name[d] # name[c])]
    BY <1>3 DEF SaveCloses
  <2> DEFINE after == Overlay(content[name[c]], pos[c], k, WordsOf(preset[c]))
  <2>3. after \in Seq(Words) /\ Len(after) <= 6
    BY <2>1, OverlayType DEF TypeOK
  <2>4. \A i \in DOMAIN after : after[i] \in Words
    <3> HIDE DEF after
    <3> QED
      BY <2>3, ElementOfSeq
  <2>5. content' = [content EXCEPT ![name[c]] = after]
    BY <2>2
  <2> HIDE DEF after
  <2>6. content' \in [Names -> Seq(Words)]
    BY <2>3, <2>5
  <2>7. \A m \in Names : Len(content'[m]) <= 6
                         /\ \A i \in DOMAIN content'[m] : content'[m][i] \in Words
    BY <2>1, <2>3, <2>4, <2>5 DEF TypeOK
  <2>8. /\ pc' = [pc EXCEPT ![c] = "idle"]
        /\ pos' = [pos EXCEPT ![c] = 0]
        /\ answer' = [answer EXCEPT ![c] = IF bad[c] THEN "failed" ELSE "ok"]
        /\ UNCHANGED <<setting, exists, name, preset, bad, got>>
    BY <1>3 DEF SaveCloses, Finish, Answer
  <2>9. clean' \in [Clients -> BOOLEAN]
    BY <2>2, Zenon DEF TypeOK
  <2>10. stored' \in [Names -> Presets \union {NoPreset}]
    BY <2>1, <2>2 DEF TypeOK
  <2>12. /\ answer' \in [Clients -> {"none", "ok", "failed", "loaded", "downloaded"}]
         /\ pos' \in [Clients -> 0 .. 6]
         /\ pc' \in [Clients -> {"idle", "saving", "loading"}]
    BY <2>8 DEF TypeOK
  <2>11. TypeOK'
    BY <2>7, <2>8, <2>9, <2>10, <2>12 DEF TypeOK
  <2> QED
    BY <2>6, <2>8, <2>11 DEF TypeOK
<1>4. ASSUME NEW c \in Clients, LoadOpens(c) PROVE Shape'
  <2>1. PICK n \in Names :
        /\ name' = [name EXCEPT ![c] = n]
        /\ clean' = [clean EXCEPT ![c] = Saving(n) = {}]
        /\ \/ /\ pc' = [pc EXCEPT ![c] = "loading"]
              /\ got' = [got EXCEPT ![c] = <<>>]
              /\ answer' = [answer EXCEPT ![c] = "none"]
           \/ /\ got' = [got EXCEPT ![c] = <<None, None, None>>]
              /\ answer' = [answer EXCEPT ![c] = "loaded"]
              /\ pc' = pc
    BY <1>4 DEF LoadOpens, NoPoints, Answer
  <2>2. /\ pc[c] = "idle"
        /\ preset' = [preset EXCEPT ![c] = NoPreset]
        /\ bad' = [bad EXCEPT ![c] = FALSE]
        /\ pos' = [pos EXCEPT ![c] = 0]
        /\ setting' = setting /\ exists' = exists /\ content' = content /\ stored' = stored
    BY <1>4 DEF LoadOpens, fileVars
  <2>3. /\ <<>> \in Seq(Readings) /\ Len(<<>>) = 0
        /\ <<None, None, None>> \in Seq(Readings) /\ Len(<<None, None, None>>) = 3
    BY DEF None, Readings
  <2>4. got' \in [Clients -> Seq(Readings)]
    BY <2>1, <2>3
  <2>9. \A d \in Clients : d # c => got'[d] = got[d] /\ pc'[d] = pc[d]
    BY <2>1 DEF TypeOK
  <2>10. /\ Len(got'[c]) <= 3
         /\ pc'[c] = "loading" => Len(got'[c]) < 3
    <3> HIDE DEF Shape
    <3>1. /\ got'[c] = <<>> \/ got'[c] = <<None, None, None>>
          /\ pc'[c] = "loading" => got'[c] = <<>>
      BY <1>0, <2>1, <2>2
    <3> DEFINE k == Len(got'[c])
    <3>2. got'[c] = <<>> => k = 0
      OBVIOUS
    <3>3. got'[c] = <<None, None, None>> => k = 3
      OBVIOUS
    <3> HIDE DEF k
    <3>4. k <= 3 /\ (pc'[c] = "loading" => k < 3)
      BY <3>1, <3>2, <3>3
    <3> QED
      BY <3>4 DEF k
  <2>13. pc' \in [Clients -> {"idle", "saving", "loading"}]
    BY <2>1 DEF TypeOK
  <2>5. \A d \in Clients : Len(got'[d]) <= 3
    BY <1>00, <2>4, <2>9, <2>10, <2>13
  <2>6. \A d \in Clients : pc'[d] = "loading" => Len(got'[d]) < 3
    BY <1>00, <2>4, <2>9, <2>10, <2>13
  <2>7. clean' \in [Clients -> BOOLEAN]
    BY <2>1, Zenon DEF TypeOK
  <2>11. /\ answer' \in [Clients -> {"none", "ok", "failed", "loaded", "downloaded"}]
         /\ pc' \in [Clients -> {"idle", "saving", "loading"}]
    BY <2>1 DEF TypeOK
  <2>12. name' \in [Clients -> Names]
    BY <2>1 DEF TypeOK
  <2>14. /\ preset' \in [Clients -> Presets \union {NoPreset}]
         /\ bad' \in [Clients -> BOOLEAN]
         /\ pos' \in [Clients -> 0 .. 6]
    BY <2>2 DEF TypeOK
  <2>8. TypeOK'
    BY <2>2, <2>5, <2>7, <2>11, <2>12, <2>14 DEF TypeOK
  <2> QED
    BY <2>1, <2>2, <2>4, <2>6, <2>8 DEF TypeOK
<1>5. ASSUME NEW c \in Clients, LoadReads(c) PROVE Shape'
  <2> DEFINE f == content[name[c]]
             now == IF setting.buffered THEN <<ReadVec(f, 1), ReadVec(f, 2), ReadVec(f, 3)>>
                    ELSE Append(got[c], ReadVec(f, Len(got[c]) + 1))
  <2>1. /\ f \in Seq(Words) /\ pc[c] = "loading" /\ got[c] \in Seq(Readings)
        /\ Len(got[c]) \in 0 .. 2
    <3>1. name[c] \in Names /\ pc[c] = "loading" /\ got[c] \in Seq(Readings)
      BY <1>5 DEF LoadReads, TypeOK
    <3>2. Len(got[c]) \in Nat /\ Len(got[c]) < 3
      BY <1>0, <3>1
    <3>3. Len(got[c]) \in 0 .. 2
      <4> DEFINE n == Len(got[c])
      <4>1. n \in Nat /\ n < 3
        BY <3>2
      <4> HIDE DEF n, Shape
      <4>2. n \in 0 .. 2
        BY <4>1
      <4> QED
        BY <4>2 DEF n
    <3>4. f \in Seq(Words)
      BY <3>1
    <3> QED
      BY <3>1, <3>3, <3>4
  <2>2. \A i \in 1 .. 3 : ReadVec(f, i) \in Readings
    BY <2>1, ReadVecType
  <2>3. now \in Seq(Readings) /\ Len(now) \in 1 .. 3
    <3> HIDE DEF f
    <3> QED
      BY <2>1, <2>2
  <2>4. got' = [got EXCEPT ![c] = now]
    BY <1>5 DEF LoadReads
  <2>5. /\ UNCHANGED <<setting, exists, content, name, preset, pos, bad, stored, clean>>
        /\ \/ /\ Len(got'[c]) = 3 /\ pc' = [pc EXCEPT ![c] = "idle"]
              /\ answer' = [answer EXCEPT ![c] = "loaded"]
           \/ Len(got'[c]) # 3 /\ pc' = pc /\ answer' = answer
    BY <1>5 DEF LoadReads, fileVars, histVars, Answer
  <2> HIDE DEF now, f
  <2>6. got' \in [Clients -> Seq(Readings)] /\ got'[c] = now
    BY <2>3, <2>4
  <2>10. \A d \in Clients : d # c => got'[d] = got[d] /\ pc'[d] = pc[d]
    BY <2>4, <2>5 DEF TypeOK
  <2>11. /\ Len(got'[c]) <= 3
         /\ pc'[c] = "loading" => Len(got'[c]) < 3
    <3> HIDE DEF Shape
    <3> DEFINE n == Len(now)
    <3>2. n \in 1 .. 3
      BY <2>3
    <3> HIDE DEF n
    <3>3. n <= 3 /\ (n # 3 => n < 3)
      BY <3>2
    <3>1. Len(now) <= 3 /\ (Len(now) # 3 => Len(now) < 3)
      BY <3>3 DEF n
    <3> QED
      BY <1>0, <2>5, <2>6, <3>1
  <2>12. pc' \in [Clients -> {"idle", "saving", "loading"}]
    BY <2>5 DEF TypeOK
  <2>7. \A d \in Clients : Len(got'[d]) <= 3
    BY <1>00, <2>6, <2>10, <2>11, <2>12
  <2>8. \A d \in Clients : pc'[d] = "loading" => Len(got'[d]) < 3
    BY <1>00, <2>6, <2>10, <2>11, <2>12
  <2>9. TypeOK'
    BY <2>5, <2>7 DEF TypeOK
  <2> QED
    BY <2>5, <2>6, <2>8, <2>9 DEF TypeOK
<1>6. ASSUME NEW c \in Clients, Download(c) PROVE Shape'
  <2>1. PICK n \in exists :
        /\ name' = [name EXCEPT ![c] = n]
        /\ clean' = [clean EXCEPT ![c] = Saving(n) = {}]
    BY <1>6 DEF Download
  <2>2. /\ pc[c] = "idle"
        /\ got' = [got EXCEPT ![c] = <<None, None, None>>]
        /\ answer' = [answer EXCEPT ![c] = "downloaded"]
        /\ preset' = [preset EXCEPT ![c] = NoPreset]
        /\ UNCHANGED <<setting, exists, content, pc, pos, bad, stored>>
    BY <1>6 DEF Download, fileVars, Answer
  <2>3. <<None, None, None>> \in Seq(Readings) /\ Len(<<None, None, None>>) = 3
    BY DEF None, Readings
  <2>4. got' \in [Clients -> Seq(Readings)]
    BY <2>2, <2>3
  <2>5. \A d \in Clients : Len(got'[d]) <= 3
    BY <2>2, <2>3 DEF TypeOK
  <2>6. clean' \in [Clients -> BOOLEAN] /\ n \in Names
    BY <2>1, Zenon DEF TypeOK
  <2>7. TypeOK'
    BY <2>1, <2>2, <2>5, <2>6 DEF TypeOK
  <2>8. \A d \in Clients : pc'[d] = "saving" => d # c /\ pc[d] = "saving"
    BY <2>2
  <2>9. \A d \in Clients : d # c => name'[d] = name[d] /\ preset'[d] = preset[d]
    BY <2>1, <2>2 DEF TypeOK
  <2>10. \A d \in Clients : pc'[d] = "saving" => preset'[d] \in Presets /\ name'[d] \in exists'
    BY <2>2, <2>8, <2>9
  <2>11. \A d \in Clients : pc'[d] = "loading" => Len(got'[d]) < 3
    BY <2>2
  <2> QED
    BY <2>2, <2>4, <2>7, <2>10, <2>11
<1>7. ASSUME Crash PROVE Shape'
  <2>1. <<>> \in Seq(Readings) /\ Len(<<>>) = 0
    OBVIOUS
  <2>2. got' = [c \in Clients |-> <<>>] /\ pc' = [c \in Clients |-> "idle"]
        /\ UNCHANGED <<setting, exists, content, name, stored>>
    BY <1>7 DEF Crash, fileVars
  <2>3. TypeOK'
    BY <1>7, <2>1, <2>2 DEF Crash, TypeOK
  <2> QED
    BY <2>1, <2>2, <2>3
<1>8. ASSUME NEW n \in Names, Remove(n) PROVE Shape'
  <2>1. <<>> \in Seq(Words) /\ Len(<<>>) = 0 /\ DOMAIN <<>> = {}
    OBVIOUS
  <2>2. /\ exists' = exists \ {n}
        /\ content' = [content EXCEPT ![n] = <<>>]
        /\ stored' = [stored EXCEPT ![n] = NoPreset]
        /\ clean' = [c \in Clients |-> clean[c] /\ name[c] # n]
        /\ UNCHANGED <<setting, pc, name, preset, pos, bad, got, answer>>
    BY <1>8 DEF Remove, clientVars
  <2>3. \A m \in Names : Len(content'[m]) <= 6
                         /\ \A i \in DOMAIN content'[m] : content'[m][i] \in Words
    BY <2>1, <2>2 DEF TypeOK
  <2>4. clean' \in [Clients -> BOOLEAN]
    BY <2>2, Zenon DEF TypeOK
  <2>5. TypeOK'
    BY <2>2, <2>3, <2>4 DEF TypeOK
  <2>6. \A c \in Clients : pc[c] = "saving" => name[c] \in exists'
    BY <1>8, <2>2 DEF Remove
  <2>7. content' \in [Names -> Seq(Words)]
    BY <2>1, <2>2
  <2> QED
    BY <2>2, <2>5, <2>6, <2>7
<1>9. CASE UNCHANGED vars
  BY <1>9 DEF vars, fileVars, clientVars, histVars, TypeOK
<1> QED
  BY <1>1, <1>2, <1>3, <1>4, <1>5, <1>6, <1>7, <1>8, <1>9 DEF Next

----------------------------------------------------------------------------
(* The steps, client by client and file by file. *)

\* SaveOpens for client c, file n and preset p.
OpensAs(c, n, p) ==
    /\ pc[c] = "idle" /\ setting' = setting /\ exists' = exists \union {n}
    /\ setting.parallel \/ \A d \in Clients : pc[d] # "saving"
    /\ pc'[c] = "saving" /\ name'[c] = n /\ preset'[c] = p /\ pos'[c] = 0
    /\ bad'[c] = FALSE /\ got'[c] = <<>> /\ answer'[c] = "none"
    /\ clean'[c] <=> \A d \in Clients : ~Saves(d, n)
    /\ \A d \in Clients : d # c =>
            /\ pc'[d] = pc[d] /\ name'[d] = name[d] /\ preset'[d] = preset[d]
            /\ pos'[d] = pos[d] /\ bad'[d] = bad[d] /\ got'[d] = got[d]
            /\ answer'[d] = answer[d]
            /\ clean'[d] <=> clean[d] /\ name[d] # n
    /\ content'[n] = <<>> /\ stored'[n] = NoPreset
    /\ \A m \in Names : m # n => content'[m] = content[m] /\ stored'[m] = stored[m]

\* SaveOpens does this, for some file and preset.
LEMMA OpensEffect ==
    ASSUME Shape, NEW c \in Clients, SaveOpens(c)
    PROVE  \E n \in Names, p \in Presets : OpensAs(c, n, p)
<1>1. PICK n \in Names, p \in Presets :
        /\ name' = [name EXCEPT ![c] = n]
        /\ preset' = [preset EXCEPT ![c] = p]
        /\ exists' = exists \union {n}
        /\ content' = [content EXCEPT ![n] = <<>>]
        /\ stored' = [stored EXCEPT ![n] = NoPreset]
        /\ clean' = [d \in Clients |-> IF d = c THEN Saving(n) = {}
                                       ELSE clean[d] /\ name[d] # n]
  BY DEF SaveOpens, Opened
<1>2. /\ pc[c] = "idle" /\ setting' = setting
      /\ setting.parallel \/ \A d \in Clients : pc[d] # "saving"
      /\ pc' = [pc EXCEPT ![c] = "saving"]
      /\ pos' = [pos EXCEPT ![c] = 0]
      /\ bad' = [bad EXCEPT ![c] = FALSE]
      /\ got' = [got EXCEPT ![c] = <<>>]
      /\ answer' = [answer EXCEPT ![c] = "none"]
  BY DEF SaveOpens, Answer
<1>3. /\ pc'[c] = "saving" /\ name'[c] = n /\ preset'[c] = p /\ pos'[c] = 0
      /\ bad'[c] = FALSE /\ got'[c] = <<>> /\ answer'[c] = "none"
  BY <1>1, <1>2 DEF Shape, TypeOK
<1>4. \A d \in Clients : d # c =>
        /\ pc'[d] = pc[d] /\ name'[d] = name[d] /\ preset'[d] = preset[d]
        /\ pos'[d] = pos[d] /\ bad'[d] = bad[d] /\ got'[d] = got[d]
        /\ answer'[d] = answer[d]
  BY <1>1, <1>2 DEF Shape, TypeOK
<1>5. clean'[c] = (Saving(n) = {})
  BY <1>1, Zenon
<1>6. Saving(n) = {} <=> \A d \in Clients : ~Saves(d, n)
  BY DEF Saving, Saves
<1>7. \A d \in Clients : d # c => clean'[d] = (clean[d] /\ name[d] # n)
  BY <1>1, Zenon
<1>8. /\ content'[n] = <<>> /\ stored'[n] = NoPreset
      /\ \A m \in Names : m # n => content'[m] = content[m] /\ stored'[m] = stored[m]
  BY <1>1 DEF Shape, TypeOK
<1>9. /\ clean'[c] <=> \A d \in Clients : ~Saves(d, n)
      /\ \A d \in Clients : d # c => (clean'[d] <=> clean[d] /\ name[d] # n)
  BY <1>5, <1>6, <1>7, Zenon
<1> QED
  BY <1>1, <1>2, <1>3, <1>4, <1>8, <1>9, Zenon DEF OpensAs

\* SaveFlushes for client c: a word on, or a failure.
LEMMA FlushesEffect ==
    ASSUME Shape, NEW c \in Clients, SaveFlushes(c)
    PROVE  /\ pc[c] = "saving" /\ ~setting.buffered /\ pos[c] < 6
           /\ UNCHANGED <<setting, exists, pc, name, preset, got, answer, stored, clean>>
           /\ \A d \in Clients : d # c => pos'[d] = pos[d] /\ bad'[d] = bad[d]
           /\ \A m \in Names : m # name[c] => content'[m] = content[m]
           /\ \/ /\ content'[name[c]] = Overlay(content[name[c]], pos[c], pos[c] + 1,
                                                 WordsOf(preset[c]))
                 /\ pos'[c] = pos[c] + 1
              \/ content'[name[c]] = content[name[c]] /\ pos'[c] = pos[c]
<1>1. /\ pc[c] = "saving" /\ ~setting.buffered /\ pos[c] < 6
      /\ UNCHANGED <<setting, exists, pc, name, preset, got, answer, stored, clean>>
  BY DEF SaveFlushes, BufferFills, histVars
<1>2. name[c] \in Names
  BY DEF Shape, TypeOK
<1>3. \/ /\ content' = [content EXCEPT ![name[c]] =
                            Overlay(content[name[c]], pos[c], pos[c] + 1, WordsOf(preset[c]))]
         /\ pos' = [pos EXCEPT ![c] = pos[c] + 1]
         /\ bad' = bad
      \/ content' = content /\ pos' = pos /\ bad' = [bad EXCEPT ![c] = TRUE]
  BY DEF SaveFlushes
<1> DEFINE after == Overlay(content[name[c]], pos[c], pos[c] + 1, WordsOf(preset[c]))
<1> HIDE DEF after
<1>4. /\ \A d \in Clients : d # c => pos'[d] = pos[d] /\ bad'[d] = bad[d]
      /\ \A m \in Names : m # name[c] => content'[m] = content[m]
      /\ \/ content'[name[c]] = after /\ pos'[c] = pos[c] + 1
         \/ content'[name[c]] = content[name[c]] /\ pos'[c] = pos[c]
  <2>1. \/ /\ content' = [content EXCEPT ![name[c]] = after]
           /\ pos' = [pos EXCEPT ![c] = pos[c] + 1]
           /\ bad' = bad
        \/ content' = content /\ pos' = pos /\ bad' = [bad EXCEPT ![c] = TRUE]
    BY <1>3 DEF after
  <2> QED
    BY <1>2, <2>1 DEF Shape, TypeOK
<1> QED
  BY <1>1, <1>4 DEF after

\* SaveCloses for client c, when the words up to the k-th get into the file.
LEMMA ClosesEffect ==
    ASSUME Shape, NEW c \in Clients, SaveCloses(c)
    PROVE  /\ pc[c] = "saving" /\ UNCHANGED <<setting, exists, name, preset, bad, got>>
           /\ pc'[c] = "idle" /\ pos'[c] = 0 /\ answer'[c] \in {"ok", "failed"}
           /\ clean'[c] <=> clean[c]
           /\ \A d \in Clients : d # c =>
                    /\ pc'[d] = pc[d] /\ pos'[d] = pos[d] /\ answer'[d] = answer[d]
                    /\ clean'[d] <=> clean[d] /\ name[d] # name[c]
           /\ \A m \in Names : m # name[c] => content'[m] = content[m] /\ stored'[m] = stored[m]
           /\ \E k \in pos[c] .. 6 :
                    /\ ~bad[c] /\ ~setting.diskFull => k = 6
                    /\ content'[name[c]] = Overlay(content[name[c]], pos[c], k, WordsOf(preset[c]))
                    /\ stored'[name[c]] = IF k = 6 /\ clean[c] THEN preset[c] ELSE NoPreset
<1>1. /\ pc[c] = "saving" /\ UNCHANGED <<setting, exists, name, preset, bad, got>>
      /\ pc' = [pc EXCEPT ![c] = "idle"]
      /\ pos' = [pos EXCEPT ![c] = 0]
      /\ answer' = [answer EXCEPT ![c] = IF bad[c] THEN "failed" ELSE "ok"]
  BY DEF SaveCloses, Finish, Answer
<1>2. PICK k \in pos[c] .. 6 :
        /\ IF bad[c] THEN k = pos[c] ELSE setting.diskFull \/ k = 6
        /\ content' = [content EXCEPT ![name[c]] = Overlay(@, pos[c], k, WordsOf(preset[c]))]
        /\ stored' = [stored EXCEPT ![name[c]] =
                        IF k = 6 /\ clean[c] THEN preset[c] ELSE NoPreset]
        /\ clean' = [d \in Clients |-> clean[d] /\ (d = c \/ name[d] # name[c])]
  BY DEF SaveCloses
<1>3. name[c] \in Names
  BY DEF Shape, TypeOK
<1>4. /\ pc'[c] = "idle" /\ pos'[c] = 0 /\ answer'[c] \in {"ok", "failed"}
      /\ \A d \in Clients : d # c =>
            pc'[d] = pc[d] /\ pos'[d] = pos[d] /\ answer'[d] = answer[d]
  BY <1>1 DEF Shape, TypeOK
<1>5. \A d \in Clients : clean'[d] = (clean[d] /\ (d = c \/ name[d] # name[c]))
  BY <1>2, Zenon
<1>6. /\ clean'[c] <=> clean[c]
      /\ \A d \in Clients : d # c => (clean'[d] <=> clean[d] /\ name[d] # name[c])
  BY <1>5
<1>7. ~bad[c] /\ ~setting.diskFull => k = 6
  BY <1>2
<1> DEFINE after == Overlay(content[name[c]], pos[c], k, WordsOf(preset[c]))
           kept == IF k = 6 /\ clean[c] THEN preset[c] ELSE NoPreset
<1>8. content' = [content EXCEPT ![name[c]] = after] /\ stored' = [stored EXCEPT ![name[c]] = kept]
  BY <1>2
<1> HIDE DEF after, kept
<1>9. /\ content'[name[c]] = after /\ stored'[name[c]] = kept
      /\ \A m \in Names : m # name[c] => content'[m] = content[m] /\ stored'[m] = stored[m]
  BY <1>3, <1>8 DEF Shape, TypeOK
<1> QED
  BY <1>1, <1>4, <1>6, <1>7, <1>9 DEF after, kept

\* LoadOpens for client c and file n, there or not.
LoadOpensAs(c, n) ==
    /\ pc[c] = "idle" /\ UNCHANGED <<setting, exists, content, stored>>
    /\ name'[c] = n /\ bad'[c] = FALSE
    /\ clean'[c] => \A d \in Clients : ~Saves(d, n)
    /\ \/ /\ n \in exists /\ pc'[c] = "loading" /\ got'[c] = <<>>
          /\ answer'[c] = "none"
       \/ /\ n \notin exists /\ pc'[c] = "idle" /\ got'[c] = <<None, None, None>>
          /\ answer'[c] = "loaded"
    /\ \A d \in Clients : d # c =>
            /\ pc'[d] = pc[d] /\ name'[d] = name[d] /\ preset'[d] = preset[d]
            /\ pos'[d] = pos[d] /\ bad'[d] = bad[d] /\ got'[d] = got[d]
            /\ answer'[d] = answer[d] /\ (clean'[d] <=> clean[d])

\* LoadOpens does this, for some file.
LEMMA LoadOpensEffect ==
    ASSUME Shape, NEW c \in Clients, LoadOpens(c)
    PROVE  \E n \in Names : LoadOpensAs(c, n)
<1>1. PICK n \in Names :
        /\ name' = [name EXCEPT ![c] = n]
        /\ clean' = [clean EXCEPT ![c] = Saving(n) = {}]
        /\ \/ /\ n \in exists
              /\ pc' = [pc EXCEPT ![c] = "loading"]
              /\ got' = [got EXCEPT ![c] = <<>>]
              /\ answer' = [answer EXCEPT ![c] = "none"]
           \/ /\ n \notin exists
              /\ got' = [got EXCEPT ![c] = <<None, None, None>>]
              /\ answer' = [answer EXCEPT ![c] = "loaded"]
              /\ pc' = pc
  BY DEF LoadOpens, NoPoints, Answer
<1>2. /\ pc[c] = "idle"
      /\ preset' = [preset EXCEPT ![c] = NoPreset]
      /\ bad' = [bad EXCEPT ![c] = FALSE]
      /\ pos' = [pos EXCEPT ![c] = 0]
      /\ UNCHANGED <<setting, exists, content, stored>>
  BY DEF LoadOpens, fileVars
<1>3. /\ name'[c] = n /\ bad'[c] = FALSE
      /\ \/ /\ n \in exists /\ pc'[c] = "loading" /\ got'[c] = <<>>
            /\ answer'[c] = "none"
         \/ /\ n \notin exists /\ pc'[c] = "idle" /\ got'[c] = <<None, None, None>>
            /\ answer'[c] = "loaded"
  BY <1>1, <1>2 DEF Shape, TypeOK
<1>4. \A d \in Clients : d # c =>
        /\ pc'[d] = pc[d] /\ name'[d] = name[d] /\ preset'[d] = preset[d]
        /\ pos'[d] = pos[d] /\ bad'[d] = bad[d] /\ got'[d] = got[d]
        /\ answer'[d] = answer[d]
  BY <1>1, <1>2 DEF Shape, TypeOK
<1>5. /\ clean'[c] = (Saving(n) = {})
      /\ \A d \in Clients : d # c => clean'[d] = clean[d]
  BY <1>1, Zenon DEF Shape, TypeOK
<1>6. clean'[c] => \A d \in Clients : ~Saves(d, n)
  BY <1>5 DEF Saving, Saves
<1> QED
  BY <1>2, <1>3, <1>4, <1>5, <1>6, Zenon DEF LoadOpensAs

\* LoadReads for client c.
LEMMA ReadsEffect ==
    ASSUME Shape, NEW c \in Clients, LoadReads(c)
    PROVE  /\ pc[c] = "loading"
           /\ UNCHANGED <<setting, exists, content, name, preset, pos, bad, stored, clean>>
           /\ got'[c] = IF setting.buffered
                        THEN <<ReadVec(content[name[c]], 1), ReadVec(content[name[c]], 2),
                               ReadVec(content[name[c]], 3)>>
                        ELSE Append(got[c], ReadVec(content[name[c]], Len(got[c]) + 1))
           /\ \/ Len(got'[c]) = 3 /\ pc'[c] = "idle" /\ answer'[c] = "loaded"
              \/ Len(got'[c]) # 3 /\ pc'[c] = "loading" /\ answer'[c] = answer[c]
           /\ \A d \in Clients : d # c =>
                    pc'[d] = pc[d] /\ got'[d] = got[d] /\ answer'[d] = answer[d]
<1> DEFINE now == IF setting.buffered
                  THEN <<ReadVec(content[name[c]], 1), ReadVec(content[name[c]], 2),
                         ReadVec(content[name[c]], 3)>>
                  ELSE Append(got[c], ReadVec(content[name[c]], Len(got[c]) + 1))
<1>1. /\ pc[c] = "loading"
      /\ UNCHANGED <<setting, exists, content, name, preset, pos, bad, stored, clean>>
  BY DEF LoadReads, fileVars, histVars
<1>2. got' = [got EXCEPT ![c] = now]
  BY DEF LoadReads
<1>3. \/ /\ Len(got'[c]) = 3 /\ pc' = [pc EXCEPT ![c] = "idle"]
         /\ answer' = [answer EXCEPT ![c] = "loaded"]
      \/ Len(got'[c]) # 3 /\ pc' = pc /\ answer' = answer
  BY DEF LoadReads, Answer
<1> HIDE DEF now
<1>4. got'[c] = now /\ \A d \in Clients : d # c => got'[d] = got[d]
  BY <1>2 DEF Shape
<1>5. /\ \/ Len(got'[c]) = 3 /\ pc'[c] = "idle" /\ answer'[c] = "loaded"
         \/ Len(got'[c]) # 3 /\ pc'[c] = "loading" /\ answer'[c] = answer[c]
      /\ \A d \in Clients : d # c => pc'[d] = pc[d] /\ answer'[d] = answer[d]
  <2>1. /\ pc \in [Clients -> {"idle", "saving", "loading"}]
        /\ answer \in [Clients -> {"none", "ok", "failed", "loaded", "downloaded"}]
    BY DEF Shape, TypeOK
  <2> QED
    BY <1>1, <1>3, <2>1
<1> QED
  BY <1>1, <1>4, <1>5 DEF now

\* Download for client c.
LEMMA DownloadEffect ==
    ASSUME Shape, NEW c \in Clients, Download(c)
    PROVE  /\ pc[c] = "idle" /\ UNCHANGED <<setting, exists, content, pc, pos, bad, stored>>
           /\ got'[c] = <<None, None, None>> /\ answer'[c] = "downloaded"
           /\ \A d \in Clients : d # c =>
                    /\ name'[d] = name[d] /\ preset'[d] = preset[d] /\ got'[d] = got[d]
                    /\ answer'[d] = answer[d] /\ (clean'[d] <=> clean[d])
<1>1. PICK n \in exists :
        /\ name' = [name EXCEPT ![c] = n]
        /\ clean' = [clean EXCEPT ![c] = Saving(n) = {}]
  BY DEF Download
<1>2. /\ pc[c] = "idle" /\ UNCHANGED <<setting, exists, content, pc, pos, bad, stored>>
      /\ got' = [got EXCEPT ![c] = <<None, None, None>>]
      /\ answer' = [answer EXCEPT ![c] = "downloaded"]
      /\ preset' = [preset EXCEPT ![c] = NoPreset]
  BY DEF Download, fileVars, Answer
<1>3. \A d \in Clients : d # c => clean'[d] = clean[d]
  BY <1>1, Zenon DEF Shape, TypeOK
<1>4. /\ got'[c] = <<None, None, None>> /\ answer'[c] = "downloaded"
      /\ \A d \in Clients : d # c =>
            /\ name'[d] = name[d] /\ preset'[d] = preset[d] /\ got'[d] = got[d]
            /\ answer'[d] = answer[d]
  BY <1>1, <1>2 DEF Shape, TypeOK
<1> QED
  BY <1>2, <1>3, <1>4

\* Remove for file n.
LEMMA RemoveEffect ==
    ASSUME Shape, NEW n \in Names, Remove(n)
    PROVE  /\ UNCHANGED <<setting, pc, name, preset, pos, bad, got, answer>>
           /\ exists' = exists \ {n}
           /\ \A c \in Clients : pc[c] # "idle" => name[c] # n
           /\ \A c \in Clients : clean'[c] <=> clean[c] /\ name[c] # n
           /\ content'[n] = <<>> /\ stored'[n] = NoPreset
           /\ \A m \in Names : m # n => content'[m] = content[m] /\ stored'[m] = stored[m]
<1>1. /\ UNCHANGED <<setting, pc, name, preset, pos, bad, got, answer>>
      /\ exists' = exists \ {n}
      /\ \A c \in Clients : pc[c] # "idle" => name[c] # n
      /\ content' = [content EXCEPT ![n] = <<>>]
      /\ stored' = [stored EXCEPT ![n] = NoPreset]
      /\ clean' = [c \in Clients |-> clean[c] /\ name[c] # n]
  BY DEF Remove, clientVars
<1>2. \A c \in Clients : clean'[c] = (clean[c] /\ name[c] # n)
  BY <1>1, Zenon
<1>3. /\ content'[n] = <<>> /\ stored'[n] = NoPreset
      /\ \A m \in Names : m # n => content'[m] = content[m] /\ stored'[m] = stored[m]
  BY <1>1 DEF Shape, TypeOK
<1> QED
  BY <1>1, <1>2, <1>3

----------------------------------------------------------------------------
(* Each invariant is kept. *)

\* Saves one at a time: a save that begins finds none, and nobody disturbs it.
LEMMA SerialStep == ASSUME Shape, SerialInv, [Next]_vars PROVE SerialInv'
<1> SUFFICES ASSUME setting' = setting, ~setting.parallel,
                    NEW c \in Clients, NEW d \in Clients, pc'[c] = "saving"
             PROVE  clean'[c] /\ (pc'[d] = "saving" => c = d)
  <2>1. setting' = setting
    BY DEF Next, SaveOpens, SaveFlushes, SaveCloses, LoadOpens, LoadReads, Download, Crash,
           Remove, vars
  <2> QED
    BY <2>1 DEF SerialInv
<1>0. /\ \A a, b \in Clients : pc[a] = "saving" /\ pc[b] = "saving" => a = b
      /\ \A a \in Clients : pc[a] = "saving" => clean[a]
  BY DEF SerialInv
<1>1. ASSUME NEW a \in Clients, SaveOpens(a) PROVE clean'[c] /\ (pc'[d] = "saving" => c = d)
  <2>1. PICK n \in Names, p \in Presets : OpensAs(a, n, p)
    BY <1>1, OpensEffect
  <2>2. clean'[a] /\ \A b \in Clients : pc'[b] = "saving" => b = a
    BY <2>1 DEF OpensAs, Saves
  <2> QED
    BY <2>2
<1>2. ASSUME NEW a \in Clients, SaveFlushes(a) PROVE clean'[c] /\ (pc'[d] = "saving" => c = d)
  BY <1>0, <1>2, FlushesEffect
<1>3. ASSUME NEW a \in Clients, SaveCloses(a) PROVE clean'[c] /\ (pc'[d] = "saving" => c = d)
  BY <1>0, <1>3, ClosesEffect
<1>4. ASSUME NEW a \in Clients, LoadOpens(a) PROVE clean'[c] /\ (pc'[d] = "saving" => c = d)
  <2>1. /\ pc'[a] # "saving"
        /\ \A b \in Clients : b # a => pc'[b] = pc[b] /\ (clean'[b] <=> clean[b])
    BY <1>4, LoadOpensEffect DEF LoadOpensAs
  <2> QED
    BY <1>0, <2>1
<1>5. ASSUME NEW a \in Clients, LoadReads(a) PROVE clean'[c] /\ (pc'[d] = "saving" => c = d)
  <2>1. /\ pc'[a] # "saving" /\ clean' = clean
        /\ \A b \in Clients : b # a => pc'[b] = pc[b]
    BY <1>5, ReadsEffect
  <2> QED
    BY <1>0, <2>1
<1>6. ASSUME NEW a \in Clients, Download(a) PROVE clean'[c] /\ (pc'[d] = "saving" => c = d)
  BY <1>0, <1>6, DownloadEffect
<1>7. ASSUME Crash PROVE clean'[c] /\ (pc'[d] = "saving" => c = d)
  BY <1>7 DEF Crash
<1>8. ASSUME NEW n \in Names, Remove(n) PROVE clean'[c] /\ (pc'[d] = "saving" => c = d)
  BY <1>0, <1>8, RemoveEffect
<1>9. CASE UNCHANGED vars
  BY <1>0, <1>9 DEF vars, clientVars, histVars
<1> QED
  BY <1>1, <1>2, <1>3, <1>4, <1>5, <1>6, <1>7, <1>8, <1>9 DEF Next

\* Undisturbed saves: one that begins has the emptied file for itself, each word
\* goes on where the last has ended, and who disturbs it says so.
LEMMA CleanStep == ASSUME Shape, CleanSaver, [Next]_vars PROVE CleanSaver'
<1> SUFFICES ASSUME NEW c \in Clients, pc'[c] = "saving", clean'[c]
             PROVE  /\ \A d \in Clients : pc'[d] = "saving" /\ name'[d] = name'[c] => d = c
                    /\ content'[name'[c]] = Begun(preset'[c], pos'[c])
  BY DEF CleanSaver, Begun, WordsOf, Word, Saves
<1> DEFINE Goal == /\ \A d \in Clients : pc'[d] = "saving" /\ name'[d] = name'[c] => d = c
                   /\ content'[name'[c]] = Begun(preset'[c], pos'[c])
<1>0. pc[c] = "saving" /\ clean[c] =>
        /\ \A d \in Clients : pc[d] = "saving" /\ name[d] = name[c] => d = c
        /\ content[name[c]] = Begun(preset[c], pos[c])
  BY DEF CleanSaver, Saves
<1>00. /\ \A d \in Clients : name[d] \in Names /\ pos[d] \in 0 .. 6
       /\ \A d \in Clients : pc[d] = "saving" => preset[d] \in Presets
  BY DEF Shape, TypeOK
<1>1. ASSUME NEW a \in Clients, SaveOpens(a) PROVE Goal
  <2>1. PICK n \in Names, p \in Presets : OpensAs(a, n, p)
    BY <1>1, OpensEffect
  <2>2. CASE c = a
    <3>1. \A d \in Clients : pc'[d] = "saving" /\ name'[d] = name'[c] => d = c
      BY <2>1, <2>2 DEF OpensAs, Saves
    <3>2. content'[name'[c]] = Begun(preset'[c], pos'[c])
      BY <2>1, <2>2, BegunProperties DEF OpensAs
    <3> QED
      BY <3>1, <3>2
  <2>3. CASE c # a
    <3>1. pc[c] = "saving" /\ clean[c] /\ name[c] # n /\ name'[c] = name[c]
      BY <2>1, <2>3 DEF OpensAs
    <3>2. \A d \in Clients : pc'[d] = "saving" /\ name'[d] = name'[c] => d = c
      BY <1>0, <2>1, <3>1 DEF OpensAs
    <3>3. content'[name'[c]] = Begun(preset'[c], pos'[c])
      BY <1>0, <1>00, <2>1, <2>3, <3>1 DEF OpensAs
    <3> QED
      BY <3>2, <3>3
  <2> QED
    BY <2>2, <2>3
<1>2. ASSUME NEW a \in Clients, SaveFlushes(a) PROVE Goal
  <2>1. /\ pc[a] = "saving" /\ pos[a] < 6
        /\ pc' = pc /\ name' = name /\ preset' = preset /\ clean' = clean
        /\ \A d \in Clients : d # a => pos'[d] = pos[d]
        /\ \A m \in Names : m # name[a] => content'[m] = content[m]
        /\ \/ /\ content'[name[a]] = Overlay(content[name[a]], pos[a], pos[a] + 1,
                                              WordsOf(preset[a]))
              /\ pos'[a] = pos[a] + 1
           \/ content'[name[a]] = content[name[a]] /\ pos'[a] = pos[a]
    BY <1>2, FlushesEffect
  <2>2. /\ \A d \in Clients : pc[d] = "saving" /\ name[d] = name[c] => d = c
        /\ content[name[c]] = Begun(preset[c], pos[c])
    BY <1>0, <2>1
  <2>3. content'[name'[c]] = Begun(preset'[c], pos'[c])
    <3>1. CASE c = a
      <4>1. pos[a] + 1 \in pos[a] .. 6 /\ pos[a] \in 0 .. 6 /\ preset[a] \in Presets
        BY <1>00, <2>1
      <4>2. Overlay(Begun(preset[a], pos[a]), pos[a], pos[a] + 1, WordsOf(preset[a]))
               = Begun(preset[a], pos[a] + 1)
        BY <4>1, OverlayBegun
      <4> QED
        BY <2>1, <2>2, <3>1, <4>2
    <3>2. CASE c # a
      BY <1>00, <2>1, <2>2, <3>2
    <3> QED
      BY <3>1, <3>2
  <2> QED
    BY <2>1, <2>2, <2>3
<1>3. ASSUME NEW a \in Clients, SaveCloses(a) PROVE Goal
  <2>1. /\ name' = name /\ preset' = preset /\ pc'[a] = "idle"
        /\ \A d \in Clients : d # a =>
                    /\ pc'[d] = pc[d] /\ pos'[d] = pos[d]
                    /\ clean'[d] <=> clean[d] /\ name[d] # name[a]
        /\ \A m \in Names : m # name[a] => content'[m] = content[m]
    BY <1>3, ClosesEffect
  <2>2. c # a /\ pc[c] = "saving" /\ clean[c] /\ name[c] # name[a]
    BY <2>1
  <2> QED
    BY <1>0, <1>00, <2>1, <2>2
<1>4. ASSUME NEW a \in Clients, pc'[a] # "saving", content' = content,
             \A d \in Clients : d # a =>
                /\ pc'[d] = pc[d] /\ name'[d] = name[d] /\ preset'[d] = preset[d]
                /\ pos'[d] = pos[d] /\ (clean'[d] <=> clean[d])
      PROVE  Goal
  <2>1. c # a /\ pc[c] = "saving" /\ clean[c]
    BY <1>4
  <2> QED
    BY <1>0, <1>4, <2>1
<1>5. ASSUME NEW a \in Clients, LoadOpens(a) PROVE Goal
  <2>1. /\ pc'[a] # "saving" /\ content' = content
        /\ \A d \in Clients : d # a =>
                /\ pc'[d] = pc[d] /\ name'[d] = name[d] /\ preset'[d] = preset[d]
                /\ pos'[d] = pos[d] /\ (clean'[d] <=> clean[d])
    BY <1>5, LoadOpensEffect DEF LoadOpensAs
  <2> HIDE DEF Goal
  <2> QED
    BY <1>4, <2>1
<1>6. ASSUME NEW a \in Clients, LoadReads(a) PROVE Goal
  <2>1. /\ pc'[a] # "saving" /\ content' = content
        /\ \A d \in Clients : d # a =>
                /\ pc'[d] = pc[d] /\ name'[d] = name[d] /\ preset'[d] = preset[d]
                /\ pos'[d] = pos[d] /\ (clean'[d] <=> clean[d])
    BY <1>6, ReadsEffect
  <2> HIDE DEF Goal
  <2> QED
    BY <1>4, <2>1
<1>7. ASSUME NEW a \in Clients, Download(a) PROVE Goal
  <2>1. /\ pc'[a] # "saving" /\ content' = content
        /\ \A d \in Clients : d # a =>
                /\ pc'[d] = pc[d] /\ name'[d] = name[d] /\ preset'[d] = preset[d]
                /\ pos'[d] = pos[d] /\ (clean'[d] <=> clean[d])
    BY <1>7, DownloadEffect
  <2> HIDE DEF Goal
  <2> QED
    BY <1>4, <2>1
<1>8. ASSUME Crash PROVE Goal
  BY <1>8 DEF Crash
<1>9. ASSUME NEW n \in Names, Remove(n) PROVE Goal
  <2>1. /\ pc' = pc /\ name' = name /\ preset' = preset /\ pos' = pos
        /\ \A d \in Clients : pc[d] # "idle" => name[d] # n
        /\ \A d \in Clients : clean'[d] <=> clean[d] /\ name[d] # n
        /\ \A m \in Names : m # n => content'[m] = content[m]
    BY <1>9, RemoveEffect
  <2> QED
    BY <1>0, <1>00, <2>1
<1>10. CASE UNCHANGED vars
  BY <1>0, <1>10 DEF vars, clientVars, fileVars, histVars
<1> QED
  BY <1>1, <1>2, <1>3, <1>5, <1>6, <1>7, <1>8, <1>9, <1>10 DEF Next

\* What is stored stays in its file until it is opened for writing or removed; a save
\* stores its preset only if nobody has disturbed it.
LEMMA StoredStep == ASSUME Shape, CleanSaver, StoredInv, [Next]_vars PROVE StoredInv'
<1> SUFFICES ASSUME NEW n \in Names, stored'[n] # NoPreset
             PROVE  /\ n \in exists'
                    /\ content'[n] = WordsOf(stored'[n])
                    /\ \A d \in Clients : ~(pc'[d] = "saving" /\ name'[d] = n)
  BY DEF StoredInv, WordsOf, Word, Saves
<1> DEFINE Goal == /\ n \in exists'
                   /\ content'[n] = WordsOf(stored'[n])
                   /\ \A d \in Clients : ~(pc'[d] = "saving" /\ name'[d] = n)
<1>0. stored[n] # NoPreset =>
        /\ n \in exists
        /\ content[n] = WordsOf(stored[n])
        /\ \A d \in Clients : ~(pc[d] = "saving" /\ name[d] = n)
  BY DEF StoredInv, Saves
<1>00. /\ \A d \in Clients : name[d] \in Names /\ pos[d] \in 0 .. 6
       /\ \A d \in Clients : pc[d] = "saving" => preset[d] \in Presets /\ name[d] \in exists
  BY DEF Shape, TypeOK
<1>1. ASSUME NEW a \in Clients, SaveOpens(a) PROVE Goal
  <2>1. PICK m \in Names, p \in Presets : OpensAs(a, m, p)
    BY <1>1, OpensEffect
  <2>2. n # m /\ stored'[n] = stored[n] /\ content'[n] = content[n] /\ exists \subseteq exists'
    BY <2>1 DEF OpensAs
  <2>3. \A d \in Clients : ~(pc'[d] = "saving" /\ name'[d] = n)
    BY <1>0, <2>1, <2>2 DEF OpensAs
  <2> QED
    BY <1>0, <2>2, <2>3
<1>2. ASSUME NEW a \in Clients, SaveFlushes(a) PROVE Goal
  <2>1. /\ pc[a] = "saving"
        /\ UNCHANGED <<exists, pc, name, stored>>
        /\ \A m \in Names : m # name[a] => content'[m] = content[m]
    BY <1>2, FlushesEffect
  <2> QED
    BY <1>0, <2>1
<1>3. ASSUME NEW a \in Clients, SaveCloses(a) PROVE Goal
  <2>1. /\ pc[a] = "saving" /\ exists' = exists /\ name' = name /\ pc'[a] = "idle"
        /\ \A d \in Clients : d # a => pc'[d] = pc[d]
        /\ \A m \in Names : m # name[a] => content'[m] = content[m] /\ stored'[m] = stored[m]
    BY <1>3, ClosesEffect
  <2>2. CASE n # name[a]
    BY <1>0, <2>1, <2>2
  <2>3. CASE n = name[a]
    <3>1. PICK k \in pos[a] .. 6 :
            /\ content'[name[a]] = Overlay(content[name[a]], pos[a], k, WordsOf(preset[a]))
            /\ stored'[name[a]] = IF k = 6 /\ clean[a] THEN preset[a] ELSE NoPreset
      BY <1>3, ClosesEffect
    <3>2. k = 6 /\ clean[a] /\ stored'[n] = preset[a]
      BY <2>3, <3>1
    <3>3. /\ \A d \in Clients : pc[d] = "saving" /\ name[d] = name[a] => d = a
          /\ content[name[a]] = Begun(preset[a], pos[a])
      BY <2>1, <3>2 DEF CleanSaver, Saves
    <3>4. Overlay(Begun(preset[a], pos[a]), pos[a], 6, WordsOf(preset[a])) = WordsOf(preset[a])
      <4>1. preset[a] \in Presets /\ pos[a] \in 0 .. 6 /\ 6 \in pos[a] .. 6
        BY <1>00, <2>1
      <4> QED
        BY <4>1, OverlayBegun, BegunProperties
    <3>5. content'[n] = WordsOf(stored'[n])
      BY <2>3, <3>1, <3>2, <3>3, <3>4
    <3> QED
      BY <1>00, <2>1, <2>3, <3>3, <3>5
  <2> QED
    BY <2>2, <2>3
<1>4. ASSUME NEW a \in Clients, pc'[a] # "saving", UNCHANGED <<exists, content, stored>>,
             \A d \in Clients : d # a => pc'[d] = pc[d] /\ name'[d] = name[d]
      PROVE  Goal
  BY <1>0, <1>4
<1>5. ASSUME NEW a \in Clients, LoadOpens(a) PROVE Goal
  <2>1. /\ pc'[a] # "saving" /\ UNCHANGED <<exists, content, stored>>
        /\ \A d \in Clients : d # a => pc'[d] = pc[d] /\ name'[d] = name[d]
    BY <1>5, LoadOpensEffect DEF LoadOpensAs
  <2> HIDE DEF Goal
  <2> QED
    BY <1>4, <2>1
<1>6. ASSUME NEW a \in Clients, LoadReads(a) PROVE Goal
  <2>1. /\ pc'[a] # "saving" /\ UNCHANGED <<exists, content, stored>>
        /\ \A d \in Clients : d # a => pc'[d] = pc[d] /\ name'[d] = name[d]
    BY <1>6, ReadsEffect
  <2> HIDE DEF Goal
  <2> QED
    BY <1>4, <2>1
<1>7. ASSUME NEW a \in Clients, Download(a) PROVE Goal
  <2>1. /\ pc'[a] # "saving" /\ UNCHANGED <<exists, content, stored>>
        /\ \A d \in Clients : d # a => pc'[d] = pc[d] /\ name'[d] = name[d]
    BY <1>7, DownloadEffect
  <2> HIDE DEF Goal
  <2> QED
    BY <1>4, <2>1
<1>8. ASSUME Crash PROVE Goal
  BY <1>0, <1>8 DEF Crash, fileVars
<1>9. ASSUME NEW m \in Names, Remove(m) PROVE Goal
  <2>1. /\ UNCHANGED <<pc, name>> /\ exists' = exists \ {m} /\ stored'[m] = NoPreset
        /\ n # m => content'[n] = content[n] /\ stored'[n] = stored[n]
    BY <1>9, RemoveEffect
  <2> QED
    BY <1>0, <2>1
<1>10. CASE UNCHANGED vars
  BY <1>0, <1>10 DEF vars, clientVars, fileVars, histVars
<1> QED
  BY <1>1, <1>2, <1>3, <1>5, <1>6, <1>7, <1>8, <1>9, <1>10 DEF Next

\* Undisturbed loads: the file holds what is stored, channel after channel.
LEMMA LoadStep == ASSUME Shape, StoredInv, LoadInv, [Next]_vars PROVE LoadInv'
<1> SUFFICES ASSUME NEW c \in Clients, clean'[c], stored'[name'[c]] # NoPreset
             PROVE  /\ pc'[c] = "loading" => got'[c] = Read(stored'[name'[c]], Len(got'[c]))
                    /\ answer'[c] = "loaded" => got'[c] = Whole(stored'[name'[c]])
  BY DEF LoadInv, Read, Whole, Of, Channels
<1> DEFINE Goal == /\ pc'[c] = "loading" => got'[c] = Read(stored'[name'[c]], Len(got'[c]))
                   /\ answer'[c] = "loaded" => got'[c] = Whole(stored'[name'[c]])
<1>0. clean[c] /\ stored[name[c]] # NoPreset =>
        /\ pc[c] = "loading" => got[c] = Read(stored[name[c]], Len(got[c]))
        /\ answer[c] = "loaded" => got[c] = Whole(stored[name[c]])
  BY DEF LoadInv
<1>00. /\ \A d \in Clients : name[d] \in Names
       /\ \A n \in Names : stored[n] \in Presets \union {NoPreset}
       /\ \A d \in Clients : pc[d] = "loading" => Len(got[d]) \in 0 .. 2
  <2>1. ASSUME NEW d \in Clients, pc[d] = "loading" PROVE Len(got[d]) \in 0 .. 2
    <3> DEFINE n == Len(got[d])
    <3>1. n \in Nat /\ n < 3
      BY <2>1, LenProperties DEF Shape
    <3> HIDE DEF n
    <3>2. n \in 0 .. 2
      BY <3>1
    <3> QED
      BY <3>2 DEF n
  <2> QED
    BY <2>1 DEF Shape, TypeOK
\* Nothing that c has or works with changes.
<1>1. ASSUME pc'[c] = pc[c], name'[c] = name[c], got'[c] = got[c], answer'[c] = answer[c],
             clean[c], stored'[name[c]] = stored[name[c]]
      PROVE  Goal
  BY <1>0, <1>1
<1> HIDE DEF Goal
<1>2. ASSUME NEW a \in Clients, SaveOpens(a) PROVE Goal
  <2>1. PICK n \in Names, p \in Presets : OpensAs(a, n, p)
    BY <1>2, OpensEffect
  <2>2. c # a
    BY <2>1 DEF OpensAs
  <2>3. /\ pc'[c] = pc[c] /\ name'[c] = name[c] /\ got'[c] = got[c] /\ answer'[c] = answer[c]
        /\ clean[c] /\ name[c] # n
    BY <2>1, <2>2 DEF OpensAs
  <2>4. stored'[name[c]] = stored[name[c]]
    BY <1>00, <2>1, <2>3 DEF OpensAs
  <2> QED
    BY <1>1, <2>3, <2>4
<1>3. ASSUME NEW a \in Clients, SaveFlushes(a) PROVE Goal
  BY <1>1, <1>3, FlushesEffect
<1>4. ASSUME NEW a \in Clients, SaveCloses(a) PROVE Goal
  <2>1. /\ name' = name /\ got' = got
        /\ pc'[a] = "idle" /\ answer'[a] \in {"ok", "failed"}
        /\ \A d \in Clients : d # a =>
                /\ pc'[d] = pc[d] /\ answer'[d] = answer[d]
                /\ clean'[d] <=> clean[d] /\ name[d] # name[a]
        /\ \A m \in Names : m # name[a] => stored'[m] = stored[m]
    BY <1>4, ClosesEffect
  <2>2. CASE c = a
    BY <2>1, <2>2 DEF Goal
  <2>3. CASE c # a
    <3>1. clean[c] /\ name[c] # name[a] /\ pc'[c] = pc[c] /\ answer'[c] = answer[c]
      BY <2>1, <2>3
    <3>2. stored'[name[c]] = stored[name[c]]
      BY <1>00, <2>1, <3>1
    <3> QED
      BY <1>1, <2>1, <3>1, <3>2
  <2> QED
    BY <2>2, <2>3
<1>5. ASSUME NEW a \in Clients, LoadOpens(a) PROVE Goal
  <2>1. PICK n \in Names : LoadOpensAs(a, n)
    BY <1>5, LoadOpensEffect
  <2>2. /\ exists' = exists /\ stored' = stored /\ name'[a] = n
        /\ \/ n \in exists /\ pc'[a] = "loading" /\ got'[a] = <<>> /\ answer'[a] = "none"
           \/ n \notin exists
    BY <2>1 DEF LoadOpensAs
  <2>3. CASE c = a
    <3>1. n \in exists
      BY <2>2, <2>3 DEF StoredInv
    <3>2. pc'[c] = "loading" /\ got'[c] = <<>> /\ answer'[c] = "none"
      BY <2>2, <2>3, <3>1
    <3>3. Read(stored'[name'[c]], 0) = <<>>
      BY <1>00, <2>2, <2>3, ReadProperties
    <3>4. Len(<<>>) = 0
      OBVIOUS
    <3> QED
      BY <3>2, <3>3, <3>4 DEF Goal
  <2>4. CASE c # a
    <3>1. /\ pc'[c] = pc[c] /\ name'[c] = name[c] /\ got'[c] = got[c]
          /\ answer'[c] = answer[c] /\ clean[c]
      BY <2>1, <2>4 DEF LoadOpensAs
    <3> QED
      BY <1>1, <2>2, <3>1
  <2> QED
    BY <2>3, <2>4
<1>6. ASSUME NEW a \in Clients, LoadReads(a) PROVE Goal
  <2>1. /\ pc[a] = "loading" /\ UNCHANGED <<name, stored, clean>>
        /\ got'[a] = IF setting.buffered
                     THEN <<ReadVec(content[name[a]], 1), ReadVec(content[name[a]], 2),
                            ReadVec(content[name[a]], 3)>>
                     ELSE Append(got[a], ReadVec(content[name[a]], Len(got[a]) + 1))
        /\ \/ Len(got'[a]) = 3 /\ pc'[a] = "idle" /\ answer'[a] = "loaded"
           \/ Len(got'[a]) # 3 /\ pc'[a] = "loading" /\ answer'[a] = answer[a]
        /\ \A d \in Clients : d # a =>
                pc'[d] = pc[d] /\ got'[d] = got[d] /\ answer'[d] = answer[d]
    BY <1>6, ReadsEffect
  <2>2. CASE c # a
    BY <1>1, <2>1, <2>2
  <2>3. CASE c = a
    <3> DEFINE p == stored[name[c]]
               k == Len(got[c])
    <3>1. /\ p \in Presets \union {NoPreset} /\ k \in 0 .. 2
          /\ content[name[c]] = WordsOf(p) /\ got[c] = Read(p, k)
      BY <1>0, <1>00, <2>1, <2>3 DEF StoredInv
    <3>2. name'[c] = name[c] /\ stored'[name'[c]] = p
      BY <2>1
    <3> HIDE DEF p, k
    <3>3. \A i \in 1 .. 3 : ReadVec(WordsOf(p), i) = Whole(p)[i]
      BY <3>1, ReadWhole
    <3>4. CASE setting.buffered
      <4>1. got'[c] = <<Whole(p)[1], Whole(p)[2], Whole(p)[3]>>
        BY <2>1, <2>3, <3>1, <3>3, <3>4
      <4>2. got'[c] = Whole(p) /\ Len(got'[c]) = 3
        BY <3>1, <4>1, ReadProperties
      <4>3. pc'[c] = "idle"
        BY <2>1, <2>3, <4>2
      <4> QED
        BY <3>2, <4>2, <4>3 DEF Goal
    <3>5. CASE ~setting.buffered
      <4>1. got'[c] = Append(Read(p, k), ReadVec(WordsOf(p), k + 1))
        BY <2>1, <2>3, <3>1, <3>5 DEF k
      <4>2. k + 1 \in 1 .. 3 /\ k + 1 \in 0 .. 3
        BY <3>1
      <4>3. got'[c] = Read(p, k + 1)
        BY <3>1, <3>3, <4>1, <4>2, ReadProperties
      <4>4. Len(got'[c]) = k + 1
        BY <3>1, <4>2, <4>3, ReadProperties
      <4>5. CASE k + 1 = 3
        <5>1. got'[c] = Whole(p) /\ pc'[c] = "idle"
          BY <2>1, <2>3, <3>1, <4>3, <4>4, <4>5, ReadProperties
        <5> QED
          BY <3>2, <5>1 DEF Goal
      <4>6. CASE k + 1 # 3
        <5>1. pc'[c] = "loading" /\ answer'[c] = answer[c]
          BY <2>1, <2>3, <4>4, <4>6
        <5>2. answer[c] # "loaded"
          <6>1. SUFFICES ASSUME answer[c] = "loaded" PROVE FALSE
            OBVIOUS
          <6>2. got[c] = Whole(p)
            BY <1>0, <2>1, <3>2, <6>1 DEF p
          <6>3. Len(Whole(p)) = 3 /\ Len(Read(p, k)) = k
            BY <3>1, ReadProperties
          <6> QED
            BY <3>1, <6>2, <6>3
        <5> QED
          BY <3>2, <4>3, <4>4, <5>1, <5>2 DEF Goal
      <4> QED
        BY <4>5, <4>6
    <3> QED
      BY <3>4, <3>5
  <2> QED
    BY <2>2, <2>3
<1>7. ASSUME NEW a \in Clients, Download(a) PROVE Goal
  <2>1. /\ pc[a] = "idle" /\ pc' = pc /\ stored' = stored /\ answer'[a] = "downloaded"
        /\ \A d \in Clients : d # a =>
                /\ name'[d] = name[d] /\ got'[d] = got[d]
                /\ answer'[d] = answer[d] /\ (clean'[d] <=> clean[d])
    BY <1>7, DownloadEffect
  <2>2. CASE c = a
    BY <2>1, <2>2 DEF Goal
  <2>3. CASE c # a
    BY <1>1, <2>1, <2>3
  <2> QED
    BY <2>2, <2>3
<1>8. ASSUME Crash PROVE Goal
  BY <1>8 DEF Crash
<1>9. ASSUME NEW n \in Names, Remove(n) PROVE Goal
  <2>1. /\ UNCHANGED <<pc, name, got, answer>>
        /\ clean[c] /\ name[c] # n
        /\ \A m \in Names : m # n => stored'[m] = stored[m]
    BY <1>9, RemoveEffect
  <2> QED
    BY <1>00, <1>1, <2>1
<1>10. ASSUME UNCHANGED vars PROVE Goal
  <2>1. UNCHANGED <<pc, name, got, answer, clean, stored>>
    BY <1>10 DEF vars, clientVars, histVars
  <2> QED
    BY <1>1, <2>1
<1> QED
  BY <1>2, <1>3, <1>4, <1>5, <1>6, <1>7, <1>8, <1>9, <1>10 DEF Next, Goal

\* The circumstances do not change.
LEMMA SettingStep == ASSUME [Next]_vars PROVE setting' = setting
<1>1. ASSUME NEW c \in Clients, SaveOpens(c) \/ SaveFlushes(c) \/ SaveCloses(c)
                                 \/ LoadOpens(c) \/ LoadReads(c) \/ Download(c)
      PROVE  setting' = setting
  BY <1>1 DEF SaveOpens, SaveFlushes, SaveCloses, LoadOpens, LoadReads, Download
<1>2. ASSUME Crash \/ \E n \in Names : Remove(n) PROVE setting' = setting
  BY <1>2 DEF Crash, Remove
<1>3. ASSUME UNCHANGED vars PROVE setting' = setting
  BY <1>3 DEF vars
<1> QED
  BY <1>1, <1>2, <1>3 DEF Next

\* File f holds nothing or a preset; got is a load of nothing or of a preset.
Filled(f) == f = <<>> \/ \E p \in Presets : f = WordsOf(p)
Loaded(g) == g = <<None, None, None>> \/ \E p \in Presets : g = Whole(p)

\* Presets written in one go, on a disk with room: no step leaves part of one.
LEMMA BufferedStep == ASSUME Shape, BufferedInv, [Next]_vars PROVE BufferedInv'
<1> SUFFICES ASSUME setting'.buffered, ~setting'.diskFull
             PROVE  /\ \A n \in Names : Filled(content'[n])
                    /\ \A c \in Clients : pc'[c] = "saving" => pos'[c] = 0 /\ ~bad'[c]
                    /\ \A c \in Clients : pc'[c] = "loading" => got'[c] = <<>>
                    /\ \A c \in Clients : Len(got'[c]) = 3 => Loaded(got'[c])
  BY DEF BufferedInv, WholeOrNothing, Filled, Loaded, WordsOf, Word, Whole, Of, Channels, None
<1> DEFINE Files  == \A n \in Names : Filled(content'[n])
           Saves0 == \A c \in Clients : pc'[c] = "saving" => pos'[c] = 0 /\ ~bad'[c]
           Loads0 == \A c \in Clients : pc'[c] = "loading" => got'[c] = <<>>
           Gots   == \A c \in Clients : Len(got'[c]) = 3 => Loaded(got'[c])
           Goal   == Files /\ Saves0 /\ Loads0 /\ Gots
<1>0. /\ setting.buffered /\ ~setting.diskFull
      /\ \A n \in Names : Filled(content[n])
      /\ \A c \in Clients : pc[c] = "saving" => pos[c] = 0 /\ ~bad[c]
      /\ \A c \in Clients : pc[c] = "loading" => got[c] = <<>>
      /\ \A c \in Clients : Len(got[c]) = 3 => Loaded(got[c])
  BY SettingStep DEF BufferedInv, WholeOrNothing, Filled, Loaded
<1>00. Filled(<<>>) /\ Len(<<>>) = 0
  BY DEF Filled
<1>1. ASSUME NEW a \in Clients, SaveOpens(a) PROVE Goal
  <2>1. PICK n \in Names, p \in Presets : OpensAs(a, n, p)
    BY <1>1, OpensEffect
  <2>2. Files
    BY <1>0, <1>00, <2>1 DEF OpensAs
  <2>3. Saves0
    BY <1>0, <2>1 DEF OpensAs
  <2>4. Loads0
    BY <1>0, <2>1 DEF OpensAs
  <2>5. ASSUME NEW c \in Clients, Len(got'[c]) = 3 PROVE Loaded(got'[c])
    <3>1. c # a
      BY <1>00, <2>1, <2>5 DEF OpensAs
    <3>2. got'[c] = got[c]
      BY <2>1, <3>1 DEF OpensAs
    <3> QED
      BY <1>0, <2>5, <3>2
  <2> QED
    BY <2>2, <2>3, <2>4, <2>5
<1>2. ASSUME NEW a \in Clients, SaveFlushes(a) PROVE Goal
  BY <1>0, <1>2 DEF SaveFlushes, BufferFills
<1>3. ASSUME NEW a \in Clients, SaveCloses(a) PROVE Goal
  <2>1. /\ pc[a] = "saving" /\ UNCHANGED <<name, preset, bad, got>> /\ pc'[a] = "idle"
        /\ \A d \in Clients : d # a => pc'[d] = pc[d] /\ pos'[d] = pos[d]
        /\ \A m \in Names : m # name[a] => content'[m] = content[m]
    BY <1>3, ClosesEffect
  <2>2. pos[a] = 0 /\ ~bad[a] /\ preset[a] \in Presets /\ name[a] \in Names
    BY <1>0, <2>1 DEF Shape, TypeOK
  <2>3. content'[name[a]] = Overlay(content[name[a]], pos[a], 6, WordsOf(preset[a]))
    BY <1>0, <1>3, <2>2, ClosesEffect
  <2>4. content[name[a]] \in Seq(Words) /\ Len(content[name[a]]) <= 6
    BY <2>2 DEF Shape, TypeOK
  <2>5. content'[name[a]] = WordsOf(preset[a])
    BY <2>2, <2>3, <2>4, OverlayWhole
  <2>6. Files
    <3>1. Filled(content'[name[a]])
      BY <2>2, <2>5 DEF Filled
    <3> QED
      BY <1>0, <2>1, <3>1
  <2> QED
    BY <1>0, <2>1, <2>6
<1>4. ASSUME NEW a \in Clients, LoadOpens(a) PROVE Goal
  <2>1. PICK n \in Names : LoadOpensAs(a, n)
    BY <1>4, LoadOpensEffect
  <2>2. Files
    BY <1>0, <2>1 DEF LoadOpensAs
  <2>3. Saves0
    BY <1>0, <2>1 DEF LoadOpensAs
  <2>4. Loads0
    BY <1>0, <2>1 DEF LoadOpensAs
  <2>5. Loaded(<<None, None, None>>)
    BY DEF Loaded
  <2>6. ASSUME NEW c \in Clients, Len(got'[c]) = 3 PROVE Loaded(got'[c])
    <3>1. CASE c = a
      BY <1>00, <2>1, <2>5, <2>6, <3>1 DEF LoadOpensAs
    <3>2. CASE c # a
      BY <1>0, <2>1, <2>6, <3>2 DEF LoadOpensAs
    <3> QED
      BY <3>1, <3>2
  <2> QED
    BY <2>2, <2>3, <2>4, <2>6
<1>5. ASSUME NEW a \in Clients, LoadReads(a) PROVE Goal
  <2>1. /\ pc[a] = "loading" /\ UNCHANGED <<content, pos, bad>>
        /\ got'[a] = <<ReadVec(content[name[a]], 1), ReadVec(content[name[a]], 2),
                       ReadVec(content[name[a]], 3)>>
        /\ Len(got'[a]) = 3 => pc'[a] = "idle"
        /\ \A d \in Clients : d # a => pc'[d] = pc[d] /\ got'[d] = got[d]
    BY <1>0, <1>5, ReadsEffect
  <2>2. Len(got'[a]) = 3
    BY <2>1
  <2>3. Loaded(got'[a])
    <3>1. name[a] \in Names
      BY DEF Shape, TypeOK
    <3>2. CASE content[name[a]] = <<>>
      <4>1. got'[a] = <<None, None, None>>
        BY <2>1, <3>2, ReadNoWords
      <4> QED
        BY <4>1 DEF Loaded
    <3>3. ASSUME NEW p \in Presets, content[name[a]] = WordsOf(p) PROVE Loaded(got'[a])
      <4>1. /\ ReadVec(WordsOf(p), 1) = Whole(p)[1] /\ ReadVec(WordsOf(p), 2) = Whole(p)[2]
            /\ ReadVec(WordsOf(p), 3) = Whole(p)[3]
        BY ReadWhole
      <4>2. got'[a] = <<Whole(p)[1], Whole(p)[2], Whole(p)[3]>>
        BY <2>1, <3>3, <4>1
      <4>3. got'[a] = Whole(p)
        BY <4>2, ReadProperties
      <4> QED
        BY <4>3 DEF Loaded
    <3> QED
      BY <1>0, <3>1, <3>2, <3>3 DEF Filled
  <2> QED
    BY <1>0, <2>1, <2>2, <2>3
<1>6. ASSUME NEW a \in Clients, Download(a) PROVE Goal
  <2>1. /\ pc[a] = "idle" /\ UNCHANGED <<content, pc, pos, bad>>
        /\ got'[a] = <<None, None, None>>
        /\ \A d \in Clients : d # a => got'[d] = got[d]
    BY <1>6, DownloadEffect
  <2>2. Loaded(got'[a])
    BY <2>1 DEF Loaded
  <2> QED
    BY <1>0, <2>1, <2>2
<1>7. ASSUME Crash PROVE Goal
  BY <1>0, <1>00, <1>7 DEF Crash, fileVars
<1>8. ASSUME NEW n \in Names, Remove(n) PROVE Goal
  <2>1. /\ UNCHANGED <<pc, pos, bad, got>> /\ content'[n] = <<>>
        /\ \A m \in Names : m # n => content'[m] = content[m]
    BY <1>8, RemoveEffect
  <2> QED
    BY <1>0, <1>00, <2>1
<1>9. ASSUME UNCHANGED vars PROVE Goal
  BY <1>0, <1>9 DEF vars, clientVars, fileVars
<1> QED
  BY <1>1, <1>2, <1>3, <1>4, <1>5, <1>6, <1>7, <1>8, <1>9 DEF Next

\* Saves one at a time write on to the beginning of their own preset.
LEMMA BeginStep ==
    ASSUME Shape, SerialInv, CleanSaver, BeginningOfOne, [Next]_vars
    PROVE  BeginningOfOne'
<1> DEFINE Starts(f) == \E p \in Presets : IsPrefixOf(f, WordsOf(p))
<1> SUFFICES ASSUME ~setting'.parallel, NEW n \in Names PROVE Starts(content'[n])
  BY DEF BeginningOfOne, IsPrefixOf, WordsOf, Word
<1>0. ~setting.parallel /\ Starts(content[n])
  BY SettingStep DEF BeginningOfOne
<1>1. ASSUME NEW p \in Presets, NEW k \in 0 .. 6 PROVE Starts(Begun(p, k))
  BY BegunProperties
<1>2. Starts(<<>>)
  BY <1>1, BegunProperties, PresetsAssumption
<1> HIDE DEF Starts
\* A client that saves has the beginning of its preset in its file.
<1>3. ASSUME NEW c \in Clients, pc[c] = "saving"
      PROVE  /\ name[c] \in Names /\ preset[c] \in Presets /\ pos[c] \in 0 .. 6
             /\ content[name[c]] = Begun(preset[c], pos[c])
  <2>1. clean[c]
    BY <1>0, <1>3 DEF SerialInv
  <2> QED
    BY <1>3, <2>1 DEF CleanSaver, Shape, TypeOK
<1>4. ASSUME NEW c \in Clients, SaveOpens(c) PROVE Starts(content'[n])
  <2>1. PICK m \in Names, p \in Presets : OpensAs(c, m, p)
    BY <1>4, OpensEffect
  <2> QED
    BY <1>0, <1>2, <2>1 DEF OpensAs
<1>5. ASSUME NEW c \in Clients, SaveFlushes(c) PROVE Starts(content'[n])
  <2>1. /\ pc[c] = "saving" /\ pos[c] < 6
        /\ n # name[c] => content'[n] = content[n]
        /\ \/ content'[name[c]] = Overlay(content[name[c]], pos[c], pos[c] + 1,
                                           WordsOf(preset[c]))
           \/ content'[name[c]] = content[name[c]]
    BY <1>5, FlushesEffect
  <2>2. pos[c] + 1 \in pos[c] .. 6 /\ pos[c] + 1 \in 0 .. 6
    BY <1>3, <2>1
  <2>3. Overlay(Begun(preset[c], pos[c]), pos[c], pos[c] + 1, WordsOf(preset[c]))
          = Begun(preset[c], pos[c] + 1)
    BY <1>3, <2>1, <2>2, OverlayBegun
  <2> QED
    BY <1>0, <1>1, <1>3, <2>1, <2>2, <2>3
<1>6. ASSUME NEW c \in Clients, SaveCloses(c) PROVE Starts(content'[n])
  <2>1. pc[c] = "saving" /\ (n # name[c] => content'[n] = content[n])
    BY <1>6, ClosesEffect
  <2>2. PICK k \in pos[c] .. 6 :
            content'[name[c]] = Overlay(content[name[c]], pos[c], k, WordsOf(preset[c]))
    BY <1>6, ClosesEffect
  <2>3. k \in 0 .. 6
    BY <1>3, <2>1, <2>2
  <2>4. Overlay(Begun(preset[c], pos[c]), pos[c], k, WordsOf(preset[c])) = Begun(preset[c], k)
    BY <1>3, <2>1, <2>2, OverlayBegun
  <2> QED
    BY <1>0, <1>1, <1>3, <2>1, <2>2, <2>3, <2>4
<1>7. ASSUME NEW c \in Clients, LoadOpens(c) \/ LoadReads(c) \/ Download(c)
      PROVE  Starts(content'[n])
  BY <1>0, <1>7 DEF LoadOpens, LoadReads, Download, fileVars
<1>8. ASSUME Crash PROVE Starts(content'[n])
  BY <1>0, <1>8 DEF Crash, fileVars
<1>9. ASSUME NEW m \in Names, Remove(m) PROVE Starts(content'[n])
  BY <1>0, <1>2, <1>9, RemoveEffect
<1>10. ASSUME UNCHANGED vars PROVE Starts(content'[n])
  BY <1>0, <1>10 DEF vars, fileVars
<1> QED
  BY <1>4, <1>5, <1>6, <1>7, <1>8, <1>9, <1>10 DEF Next

----------------------------------------------------------------------------
(* Theorems. *)

\* All of it holds at the start.
LEMMA FilesInit == ASSUME Init PROVE Shape /\ FilesInv
<1>1. /\ content = [n \in Names |-> <<>>] /\ pc = [c \in Clients |-> "idle"]
      /\ got = [c \in Clients |-> <<>>] /\ answer = [c \in Clients |-> "none"]
      /\ stored = [n \in Names |-> NoPreset]
  BY DEF Init
<1>2. <<>> \in Seq(Words) /\ <<>> \in Seq(Readings) /\ Len(<<>>) = 0 /\ DOMAIN <<>> = {}
  OBVIOUS
<1>3. TypeOK
  BY <1>2 DEF Init, TypeOK
<1>4. Shape
  BY <1>1, <1>2, <1>3 DEF Shape
<1>5. SerialInv /\ CleanSaver /\ StoredInv
  BY <1>1 DEF SerialInv, CleanSaver, StoredInv
<1>6. LoadInv
  BY <1>1 DEF LoadInv
<1>7. BufferedInv
  BY <1>1, <1>2 DEF BufferedInv, WholeOrNothing
<1>8. BeginningOfOne
  <2>1. PICK p \in Presets : TRUE
    BY PresetsAssumption
  <2>2. IsPrefixOf(<<>>, WordsOf(p))
    BY BegunProperties
  <2> QED
    BY <1>1, <2>2 DEF BeginningOfOne
<1> QED
  BY <1>4, <1>5, <1>6, <1>7, <1>8 DEF FilesInv

\* The inductive invariant: the shape of the state and what files, saves and loads have
\* to do with one another.
THEOREM FilesInvariant == Spec => [](Shape /\ FilesInv)
<1>1. Init => Shape /\ FilesInv
  BY FilesInit
<1>2. Shape /\ FilesInv /\ [Next]_vars => (Shape /\ FilesInv)'
  BY ShapeStep, SerialStep, CleanStep, StoredStep, LoadStep, BufferedStep, BeginStep DEF FilesInv
<1> QED
  BY <1>1, <1>2, PTL DEF Spec

\* The types of the state are kept, in every circumstance.
THEOREM FilesTypes == Spec => []TypeOK
<1>1. Shape => TypeOK
  BY DEF Shape
<1> QED
  BY <1>1, FilesInvariant, PTL

\* A load that no save of its file disturbs yields the preset last stored there, whole
\* (gamma_desc's constructor after to_file), for any number of clients and files.
THEOREM LoadsStored == Spec => []LoadsWhatIsStored
<1>1. FilesInv => LoadsWhatIsStored
  BY DEF FilesInv, LoadInv, LoadsWhatIsStored
<1> QED
  BY <1>1, FilesInvariant, PTL

\* With saves one at a time no file ever mixes two presets (to_file's writes, some of
\* them failing, and restarts between them).
THEOREM OnePreset == Spec => []BeginningOfOne
<1>1. FilesInv => BeginningOfOne
  BY DEF FilesInv
<1> QED
  BY <1>1, FilesInvariant, PTL

\* Presets that fit in the stream's buffer, on a disk with room: loads get a preset
\* whole or no points, however many saves and loads of the file overlap.
THEOREM WholeLoads == Spec => []WholeOrNothing
<1>1. FilesInv => WholeOrNothing
  BY DEF FilesInv, BufferedInv, WholeOrNothing
<1> QED
  BY <1>1, FilesInvariant, PTL
=============================================================================
