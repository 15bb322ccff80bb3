--------------------------- MODULE SequenceLemmas ---------------------------
(***************************************************************************)
(* Facts about sequences that the proofs of several modules use: the       *)
(* members of a sequence after something was added, taken out or laid end  *)
(* to end.                                                                 *)
(***************************************************************************)
EXTENDS Naturals, SequencesExt, SequenceTheorems, WellFoundedInduction, TLAPS

\* A set of natural numbers that is not empty has a least member.
LEMMA LeastMember ==
    ASSUME NEW T, T \subseteq Nat, T # {}
    PROVE  \E m \in T : \A k \in T : m <= k
<1> DEFINE R == {ss \in Nat \X Nat : ss[1] < ss[2]}
<1>1. IsWellFoundedOn(R, Nat)
  BY NatLessThanWellFounded, Zenon DEF OpToRel
<1>2. \E m \in T : \A k \in T : <<k, m>> \notin R
  <2> HIDE DEF R
  <2> QED
    BY <1>1, WFMin, Zenon
<1>3. \A k, m \in T : <<k, m>> \notin R => m <= k
  OBVIOUS
<1> QED
  BY <1>2, <1>3, Zenon

\* The range of a sequence, and of the shortest ones.
LEMMA RangeOf ==
    ASSUME NEW S, NEW s \in Seq(S)
    PROVE  /\ \A x : x \in Range(s) <=> \E i \in 1 .. Len(s) : s[i] = x
           /\ Range(s) \subseteq S
<1>1. DOMAIN s = 1 .. Len(s) /\ \A i \in 1 .. Len(s) : s[i] \in S
  BY ElementOfSeq
<1> QED
  BY <1>1, Zenon DEF Range

LEMMA RangeShort == Range(<<>>) = {} /\ \A x : Range(<<x>>) = {x}
<1>1. DOMAIN <<>> = {} /\ \A x : DOMAIN <<x>> = {1} /\ <<x>>[1] = x
  OBVIOUS
<1> QED
  BY <1>1, Zenon DEF Range

\* The members of s \o t are those of s and those of t.
LEMMA RangeConcat ==
    ASSUME NEW S, NEW s \in Seq(S), NEW t \in Seq(S)
    PROVE  Range(s \o t) = Range(s) \union Range(t)
<1>1. /\ s \o t \in Seq(S)
      /\ Len(s \o t) = Len(s) + Len(t)
      /\ \A i \in 1 .. Len(s) + Len(t) :
            (s \o t)[i] = IF i <= Len(s) THEN s[i] ELSE t[i - Len(s)]
  BY ConcatProperties
<1>2. /\ DOMAIN s = 1 .. Len(s)
      /\ DOMAIN t = 1 .. Len(t)
      /\ DOMAIN (s \o t) = 1 .. Len(s) + Len(t)
      /\ Len(s) \in Nat /\ Len(t) \in Nat
  BY <1>1, LenProperties
<1>3. \A i \in 1 .. Len(s) : i \in 1 .. Len(s) + Len(t) /\ (s \o t)[i] = s[i]
  BY <1>1, <1>2
<1>4. \A i \in 1 .. Len(t) :
        i + Len(s) \in 1 .. Len(s) + Len(t) /\ (s \o t)[i + Len(s)] = t[i]
  BY <1>1, <1>2
<1>5. \A i \in 1 .. Len(s) + Len(t) :
        \/ i \in 1 .. Len(s) /\ (s \o t)[i] = s[i]
        \/ i - Len(s) \in 1 .. Len(t) /\ (s \o t)[i] = t[i - Len(s)]
  BY <1>1, <1>2
<1>6. ASSUME NEW x PROVE x \in Range(s \o t) <=> x \in Range(s) \union Range(t)
  <2>1. x \in Range(s \o t) <=> \E i \in 1 .. Len(s) + Len(t) : (s \o t)[i] = x
    BY <1>2, Zenon DEF Range
  <2>2. x \in Range(s) <=> \E i \in 1 .. Len(s) : s[i] = x
    BY <1>2, Zenon DEF Range
  <2>3. x \in Range(t) <=> \E i \in 1 .. Len(t) : t[i] = x
    BY <1>2, Zenon DEF Range
  <2> QED
    BY <2>1, <2>2, <2>3, <1>3, <1>4, <1>5, Zenon
<1> QED
  BY <1>6, Zenon

\* One more member at the end, or the first one taken off.
LEMMA RangeAppend ==
    ASSUME NEW S, NEW s \in Seq(S), NEW x \in S
    PROVE  Range(Append(s, x)) = Range(s) \union {x}
<1>1. Append(s, x) = s \o <<x>> /\ <<x>> \in Seq(S)
  BY AppendIsConcat
<1>2. Range(s \o <<x>>) = Range(s) \union Range(<<x>>)
  BY <1>1, RangeConcat
<1> QED
  BY <1>1, <1>2, RangeShort, Zenon

LEMMA RangeHeadTail ==
    ASSUME NEW S, NEW s \in Seq(S), s # <<>>
    PROVE  /\ Head(s) \in S /\ Tail(s) \in Seq(S)
           /\ Range(s) = {Head(s)} \union Range(Tail(s))
<1>1. /\ Head(s) \in S /\ Tail(s) \in Seq(S)
      /\ Len(s) \in Nat /\ Len(Tail(s)) = Len(s) - 1 /\ 1 \in 1 .. Len(s)
      /\ Head(s) = s[1]
      /\ \A i \in 1 .. Len(s) - 1 : Tail(s)[i] = s[i + 1]
  BY HeadTailProperties, EmptySeq
<1>2. \A i \in 1 .. Len(s) : i = 1 \/ (i - 1 \in 1 .. Len(s) - 1 /\ Tail(s)[i - 1] = s[i])
  BY <1>1
<1>3. \A i \in 1 .. Len(s) - 1 : i + 1 \in 1 .. Len(s) /\ Tail(s)[i] = s[i + 1]
  BY <1>1
<1>4. \A x : x \in Range(s) <=> \E i \in 1 .. Len(s) : s[i] = x
  BY RangeOf
<1>5. \A x : x \in Range(Tail(s)) <=> \E i \in 1 .. Len(s) - 1 : Tail(s)[i] = x
  <2>1. \A x : x \in Range(Tail(s)) <=> \E i \in 1 .. Len(Tail(s)) : Tail(s)[i] = x
    BY <1>1, RangeOf, Zenon
  <2> QED
    BY <1>1, <2>1
<1>6. \A x : x \in Range(s) <=> x = Head(s) \/ x \in Range(Tail(s))
  BY <1>1, <1>2, <1>3, <1>4, <1>5, Zenon
<1> QED
  BY <1>1, <1>6

\* Taking out the i-th member moves those behind it forward by one.
LEMMA RemoveAtProperties ==
    ASSUME NEW S, NEW s \in Seq(S), NEW i \in 1 .. Len(s)
    PROVE  /\ RemoveAt(s, i) \in Seq(S)
           /\ Len(RemoveAt(s, i)) = Len(s) - 1
           /\ \A j \in 1 .. Len(s) - 1 : RemoveAt(s, i)[j] = IF j < i THEN s[j] ELSE s[j + 1]
           /\ Range(RemoveAt(s, i)) \subseteq Range(s)
<1> DEFINE f == SubSeq(s, 1, i - 1)
           b == SubSeq(s, i + 1, Len(s))
<1>1. Len(s) \in Nat /\ \A j \in 1 .. Len(s) : s[j] \in S
  BY ElementOfSeq
<1>2. f \in Seq(S) /\ Len(f) = i - 1 /\ \A j \in 1 .. i - 1 : f[j] = s[j]
  BY <1>1
<1>3. b \in Seq(S) /\ Len(b) = Len(s) - i /\ \A j \in 1 .. Len(s) - i : b[j] = s[i + j]
  BY <1>1
<1>4. RemoveAt(s, i) = f \o b
  BY DEF RemoveAt
<1> HIDE DEF f, b
<1>5. /\ f \o b \in Seq(S)
      /\ Len(f \o b) = Len(f) + Len(b)
      /\ \A j \in 1 .. Len(f) + Len(b) : (f \o b)[j] = IF j <= Len(f) THEN f[j] ELSE b[j - Len(f)]
  BY <1>2, <1>3, ConcatProperties
<1>6. ASSUME NEW j \in 1 .. Len(s) - 1
      PROVE  RemoveAt(s, i)[j] = IF j < i THEN s[j] ELSE s[j + 1]
  <2>1. CASE j < i
    <3>1. j \in 1 .. Len(f) + Len(b) /\ j <= Len(f) /\ j \in 1 .. i - 1
      BY <1>1, <1>2, <1>3, <2>1
    <3> QED
      BY <1>2, <1>4, <1>5, <2>1, <3>1
  <2>2. CASE ~(j < i)
    <3>1. /\ j \in 1 .. Len(f) + Len(b) /\ ~(j <= Len(f))
          /\ j - Len(f) \in 1 .. Len(s) - i /\ i + (j - Len(f)) = j + 1
      BY <1>1, <1>2, <1>3, <2>2
    <3> QED
      BY <1>3, <1>4, <1>5, <2>2, <3>1
  <2> QED
    BY <2>1, <2>2
<1>7. Len(RemoveAt(s, i)) = Len(s) - 1 /\ RemoveAt(s, i) \in Seq(S)
  BY <1>1, <1>2, <1>3, <1>4, <1>5
<1>8. \A j \in 1 .. Len(s) - 1 : \E k \in 1 .. Len(s) : RemoveAt(s, i)[j] = s[k]
  <2>1. \A j \in 1 .. Len(s) - 1 : j \in 1 .. Len(s) /\ j + 1 \in 1 .. Len(s)
    BY <1>1
  <2> QED
    BY <1>6, <2>1
<1>9. \A x \in Range(RemoveAt(s, i)) : x \in Range(s)
  <2>1. \A x \in Range(RemoveAt(s, i)) : \E j \in 1 .. Len(s) - 1 : RemoveAt(s, i)[j] = x
    BY <1>7, RangeOf
  <2>2. \A x : x \in Range(s) <=> \E k \in 1 .. Len(s) : s[k] = x
    BY RangeOf
  <2> QED
    BY <1>8, <2>1, <2>2, Zenon
<1> QED
  BY <1>6, <1>7, <1>9

\* Putting e in as the i-th member moves those from i on back by one.
LEMMA InsertAtProperties ==
    ASSUME NEW S, NEW s \in Seq(S), NEW i \in 1 .. Len(s) + 1, NEW e \in S
    PROVE  /\ InsertAt(s, i, e) \in Seq(S)
           /\ Len(InsertAt(s, i, e)) = Len(s) + 1
           /\ \A j \in 1 .. Len(s) + 1 :
                InsertAt(s, i, e)[j] = IF j < i THEN s[j] ELSE IF j = i THEN e ELSE s[j - 1]
<1> DEFINE f == SubSeq(s, 1, i - 1)
           b == SubSeq(s, i, Len(s))
           fe == f \o <<e>>
<1>1. Len(s) \in Nat /\ \A j \in 1 .. Len(s) : s[j] \in S
  BY ElementOfSeq
<1>2. f \in Seq(S) /\ Len(f) = i - 1 /\ \A j \in 1 .. i - 1 : f[j] = s[j]
  BY <1>1
<1>3. /\ b \in Seq(S) /\ Len(b) = Len(s) - i + 1
      /\ \A j \in 1 .. Len(s) - i + 1 : b[j] = s[i + j - 1]
  BY <1>1
<1>4. InsertAt(s, i, e) = fe \o b
  BY DEF InsertAt
<1> HIDE DEF f, b
<1>5. /\ fe \in Seq(S) /\ Len(fe) = i
      /\ \A j \in 1 .. i : fe[j] = IF j < i THEN s[j] ELSE e
  <2>1. <<e>> \in Seq(S) /\ Len(<<e>>) = 1 /\ <<e>>[1] = e
    OBVIOUS
  <2>2. /\ fe \in Seq(S) /\ Len(fe) = (i - 1) + 1
        /\ \A j \in 1 .. (i - 1) + 1 : fe[j] = IF j <= i - 1 THEN f[j] ELSE <<e>>[j - (i - 1)]
    BY <1>2, <2>1, ConcatProperties
  <2>3. (i - 1) + 1 = i /\ i - (i - 1) = 1
    BY <1>1
  <2>4. ASSUME NEW j \in 1 .. i PROVE fe[j] = IF j < i THEN s[j] ELSE e
    <3>1. CASE j < i
      <4>1. j <= i - 1 /\ j \in 1 .. i - 1 /\ j \in 1 .. (i - 1) + 1
        BY <1>1, <3>1
      <4> QED
        BY <1>2, <2>2, <3>1, <4>1
    <3>2. CASE j = i
      <4>1. ~(i <= i - 1) /\ ~(i < i) /\ i \in 1 .. (i - 1) + 1
        BY <1>1
      <4> HIDE DEF fe
      <4>2. fe[i] = <<e>>[i - (i - 1)]
        BY <2>2, <4>1
      <4> QED
        BY <2>1, <2>3, <3>2, <4>1, <4>2
    <3>3. j < i \/ j = i
      BY <1>1
    <3> QED
      BY <3>1, <3>2, <3>3
  <2> HIDE DEF fe
  <2> QED
    BY <2>2, <2>3, <2>4
<1> HIDE DEF fe
<1>6. /\ fe \o b \in Seq(S)
      /\ Len(fe \o b) = Len(fe) + Len(b)
      /\ \A j \in 1 .. Len(fe) + Len(b) :
            (fe \o b)[j] = IF j <= Len(fe) THEN fe[j] ELSE b[j - Len(fe)]
  BY <1>3, <1>5, ConcatProperties
<1>7. ASSUME NEW j \in 1 .. Len(s) + 1
      PROVE  InsertAt(s, i, e)[j] = IF j < i THEN s[j] ELSE IF j = i THEN e ELSE s[j - 1]
  <2>1. CASE j <= i
    <3>1. j \in 1 .. Len(fe) + Len(b) /\ j <= Len(fe) /\ j \in 1 .. i /\ (j < i \/ j = i)
      BY <1>1, <1>3, <1>5, <2>1
    <3>2. ~(i < i)
      BY <1>1
    <3> QED
      BY <1>4, <1>5, <1>6, <3>1, <3>2
  <2>2. CASE ~(j <= i)
    <3>1. /\ j \in 1 .. Len(fe) + Len(b) /\ ~(j <= Len(fe)) /\ ~(j < i) /\ j # i
          /\ j - i \in 1 .. Len(s) - i + 1 /\ i + (j - i) - 1 = j - 1
      BY <1>1, <1>3, <1>5, <2>2
    <3>2. (fe \o b)[j] = b[j - i]
      BY <1>5, <1>6, <3>1
    <3>3. b[j - i] = s[i + (j - i) - 1]
      BY <1>3, <3>1
    <3> QED
      BY <1>4, <3>1, <3>2, <3>3
  <2> QED
    BY <2>1, <2>2
<1>8. Len(InsertAt(s, i, e)) = Len(s) + 1 /\ InsertAt(s, i, e) \in Seq(S)
  BY <1>1, <1>3, <1>4, <1>5, <1>6
<1> QED
  BY <1>7, <1>8

\* Taking out the first x, if there is one, takes out some x.
LEMMA RemoveFirstIsRemoveAt ==
    ASSUME NEW S, NEW s \in Seq(S), NEW x
    PROVE  \/ /\ x \notin Range(s)
              /\ RemoveFirst(s, x) = s
           \/ \E i \in 1 .. Len(s) : s[i] = x /\ RemoveFirst(s, x) = RemoveAt(s, i)
<1>1. CASE \E i \in 1 .. Len(s) : s[i] = x
  <2> DEFINE I == {i \in 1 .. Len(s) : s[i] = x}
             m == Min(I)
  <2>1. I \subseteq Nat /\ I # {}
    BY <1>1
  <2>2. RemoveFirst(s, x) = RemoveAt(s, m)
    BY <1>1, <2>1 DEF RemoveFirst, SelectInSeq
  <2>3. \E i \in I : \A k \in I : i <= k
    <3> HIDE DEF I
    <3> QED
      BY <2>1, LeastMember, Zenon
  <2>4. m \in I
    <3> HIDE DEF I
    <3> QED
      BY <2>3, Zenon DEF Min
  <2> QED
    BY <2>2, <2>4
<1>2. CASE ~ \E i \in 1 .. Len(s) : s[i] = x
  BY <1>2, RangeOf DEF RemoveFirst
<1> QED
  BY <1>1, <1>2

\* The recursion in FlattenSeq has a solution, whose n-th value is a sequence of the
\* members of the first n sequences.
LEMMA FlattenStep ==
    ASSUME NEW S, NEW ss \in Seq(Seq(S)), ss # <<>>
    PROVE  \E f \in [1 .. Len(ss) -> Seq(S)] :
              \A i \in 1 .. Len(ss) : f[i] = IF i = 1 THEN ss[i] ELSE f[i - 1] \o ss[i]
<1> DEFINE Solves(f, n) ==
              \A i \in 1 .. n : f[i] = IF i = 1 THEN ss[i] ELSE f[i - 1] \o ss[i]
           P(n) == \E f \in [1 .. n -> Seq(S)] : Solves(f, n)
           T == {n \in 1 .. Len(ss) : ~P(n)}
<1>1. Len(ss) \in Nat \ {0} /\ \A i \in 1 .. Len(ss) : ss[i] \in Seq(S)
  BY EmptySeq, ElementOfSeq
<1>2. SUFFICES ASSUME T # {} PROVE FALSE
  <2>1. T = {} => P(Len(ss))
    <3> HIDE DEF P
    <3> QED
      BY <1>1
  <2> QED
    BY <1>2, <2>1
<1> HIDE DEF P
<1>3. PICK m \in T : \A k \in T : m <= k
  <2>1. T \subseteq Nat
    BY <1>1
  <2> HIDE DEF T
  <2> QED
    BY <1>2, <2>1, LeastMember, Zenon
<1>4. m \in 1 .. Len(ss) /\ ~P(m)
  OBVIOUS
<1>5. m # 1
  <2> SUFFICES P(1)
    BY <1>4
  <2> DEFINE g == [i \in 1 .. 1 |-> ss[1]]
  <2>1. g \in [1 .. 1 -> Seq(S)]
    BY <1>1
  <2>2. Solves(g, 1)
    OBVIOUS
  <2> HIDE DEF g, Solves
  <2> QED
    BY <2>1, <2>2 DEF P
<1>6. PICK f \in [1 .. m - 1 -> Seq(S)] : Solves(f, m - 1)
  <2>1. m - 1 \in 1 .. Len(ss) /\ ~(m <= m - 1)
    BY <1>1, <1>4, <1>5
  <2>2. P(m - 1)
    BY <2>1, <1>3
  <2> HIDE DEF Solves
  <2> QED
    BY <2>2 DEF P
<1> DEFINE g == [i \in 1 .. m |-> IF i = m THEN f[m - 1] \o ss[m] ELSE f[i]]
<1>7. m \in Nat /\ m - 1 \in 1 .. m - 1 /\ m \in 1 .. m /\ m - 1 \in 1 .. m /\ m - 1 # m
  BY <1>1, <1>4, <1>5
<1>8. g \in [1 .. m -> Seq(S)]
  <2>1. f[m - 1] \in Seq(S) /\ ss[m] \in Seq(S)
    BY <1>1, <1>4, <1>7
  <2>2. f[m - 1] \o ss[m] \in Seq(S)
    BY <2>1, ConcatProperties
  <2> QED
    BY <2>2, <1>7
<1>9. ASSUME NEW i \in 1 .. m
      PROVE g[i] = IF i = 1 THEN ss[i] ELSE g[i - 1] \o ss[i]
  <2>1. CASE i = m
    <3>1. g[m - 1] = f[m - 1] /\ g[m] = f[m - 1] \o ss[m]
      BY <1>7
    <3> HIDE DEF g
    <3> QED
      BY <2>1, <3>1, <1>5
  <2>2. CASE i # m
    <3>1. i \in 1 .. m - 1 /\ i - 1 # m
      BY <2>2, <1>7
    <3>2. g[i] = f[i] /\ (i # 1 => g[i - 1] = f[i - 1])
      BY <2>2, <3>1, <1>7
    <3>3. f[i] = IF i = 1 THEN ss[i] ELSE f[i - 1] \o ss[i]
      BY <3>1, <1>6
    <3> HIDE DEF g
    <3> QED
      BY <3>2, <3>3
  <2> QED
    BY <2>1, <2>2
<1>10. P(m)
  <2>1. Solves(g, m)
    BY <1>9
  <2> HIDE DEF g, Solves
  <2> QED
    BY <1>8, <2>1 DEF P
<1> QED
  BY <1>4, <1>10

\* The pieces FlattenSeq lays end to end: the result is a sequence of their members.
LEMMA FlattenMembers ==
    ASSUME NEW S, NEW ss \in Seq(Seq(S))
    PROVE  /\ FlattenSeq(ss) \in Seq(S)
           /\ \A x : x \in Range(FlattenSeq(ss)) <=> \E i \in 1 .. Len(ss) : x \in Range(ss[i])
<1>1. CASE ss = <<>>
  <2>1. FlattenSeq(ss) = <<>> /\ Len(ss) = 0
    BY <1>1 DEF FlattenSeq
  <2>2. DOMAIN <<>> = {} /\ <<>> \in Seq(S) /\ 1 .. Len(ss) = {}
    BY <2>1
  <2> QED
    BY <2>1, <2>2, Zenon DEF Range
<1>2. CASE ss # <<>>
  <2> DEFINE step(f) == [i \in 1 .. Len(ss) |-> IF i = 1 THEN ss[i] ELSE f[i - 1] \o ss[i]]
             flat == CHOOSE f : f = step(f)
             Good(n) == /\ flat[n] \in Seq(S)
                        /\ \A x : x \in Range(flat[n]) <=> \E i \in 1 .. n : x \in Range(ss[i])
             T == {n \in 1 .. Len(ss) : ~Good(n)}
  <2>1. Len(ss) \in Nat \ {0} /\ \A i \in 1 .. Len(ss) : ss[i] \in Seq(S)
    BY <1>2, EmptySeq, ElementOfSeq
  <2>2. flat = step(flat)
    <3>1. PICK f \in [1 .. Len(ss) -> Seq(S)] :
              \A i \in 1 .. Len(ss) : f[i] = IF i = 1 THEN ss[i] ELSE f[i - 1] \o ss[i]
      BY <1>2, FlattenStep
    <3>2. f = step(f)
      BY <3>1
    <3> HIDE DEF step
    <3> QED
      BY <3>2, Zenon
  <2>3. FlattenSeq(ss) = flat[Len(ss)]
    BY <2>1 DEF FlattenSeq
  <2> HIDE DEF flat
  <2>4. \A i \in 1 .. Len(ss) : flat[i] = IF i = 1 THEN ss[i] ELSE flat[i - 1] \o ss[i]
    BY <2>2
  <2> HIDE DEF step, Good
  <2>5. SUFFICES ASSUME T # {} PROVE FALSE
    <3>1. T = {} => Good(Len(ss))
      BY <2>1
    <3> QED
      BY <2>1, <2>3, <2>5, <3>1 DEF Good
  <2>6. PICK m \in T : \A k \in T : m <= k
    <3>1. T \subseteq Nat
      BY <2>1
    <3> HIDE DEF T
    <3> QED
      BY <2>5, <3>1, LeastMember, Zenon
  <2>7. m \in 1 .. Len(ss) /\ ~Good(m) /\ ss[m] \in Seq(S)
    BY <2>1
  <2>8. CASE m = 1
    <3>1. flat[m] = ss[m] /\ 1 .. m = {1}
      BY <2>4, <2>7, <2>8
    <3> QED
      BY <2>7, <2>8, <3>1, Zenon DEF Good
  <2>9. CASE m # 1
    <3>1. m - 1 \in 1 .. Len(ss) /\ ~(m <= m - 1)
      BY <2>1, <2>7, <2>9
    <3>2. Good(m - 1)
      BY <2>6, <3>1
    <3>3. flat[m] = flat[m - 1] \o ss[m]
      BY <2>4, <2>7, <2>9
    <3>4. flat[m - 1] \in Seq(S)
      BY <3>2, Zenon DEF Good
    <3>5. flat[m] \in Seq(S)
      BY <2>7, <3>3, <3>4, ConcatProperties
    <3>6. Range(flat[m]) = Range(flat[m - 1]) \union Range(ss[m])
      BY <2>7, <3>3, <3>4, RangeConcat
    <3>7. \A i : i \in 1 .. m <=> i \in 1 .. m - 1 \/ i = m
      BY <2>1, <2>7
    <3>8. ASSUME NEW x
          PROVE x \in Range(flat[m]) <=> \E i \in 1 .. m : x \in Range(ss[i])
      BY <3>2, <3>6, <3>7, Zenon DEF Good
    <3> QED
      BY <2>7, <3>5, <3>8, Zenon DEF Good
  <2> QED
    BY <2>8, <2>9
<1> QED
  BY <1>1, <1>2

=============================================================================
