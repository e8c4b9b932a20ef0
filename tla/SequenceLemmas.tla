----------------------------- MODULE SequenceLemmas -----------------------------
(***************************************************************************)
(* Facts about the elements of queues and stacks kept as sequences: what   *)
(* appending, pushing in front and removing the head do to the set of      *)
(* elements and to the absence of duplicates; and the first of some        *)
(* positions.                                                              *)
(***************************************************************************)
EXTENDS Naturals, Sequences, SequencesExt, WellFoundedInduction, TLAPS

\* The elements of a sequence, by its positions.
LEMMA ToSetByPosition ==
  ASSUME NEW S, NEW s \in Seq(S)
  PROVE  ToSet(s) = {s[i] : i \in 1..Len(s)}
BY DEF ToSet

\* Appending x adds x to the elements.
LEMMA ToSetAppend ==
  ASSUME NEW S, NEW s \in Seq(S), NEW x \in S
  PROVE  /\ Append(s, x) \in Seq(S)
         /\ ToSet(Append(s, x)) = ToSet(s) \cup {x}
<1>1. /\ Append(s, x) \in Seq(S)
      /\ Len(Append(s, x)) = Len(s) + 1
      /\ \A i \in 1..Len(s) : Append(s, x)[i] = s[i]
      /\ Append(s, x)[Len(s) + 1] = x
  OBVIOUS
<1>2. QED
  BY <1>1 DEF ToSet

\* Pushing x in front adds x to the elements.
LEMMA ToSetPush ==
  ASSUME NEW S, NEW s \in Seq(S), NEW x \in S
  PROVE  /\ <<x>> \o s \in Seq(S)
         /\ <<x>> \o s # <<>>
         /\ Head(<<x>> \o s) = x
         /\ Tail(<<x>> \o s) = s
         /\ ToSet(<<x>> \o s) = ToSet(s) \cup {x}
<1> DEFINE t == <<x>> \o s
<1>1. /\ t \in Seq(S)
      /\ Len(t) = Len(s) + 1
      /\ t[1] = x
      /\ \A i \in 1..Len(s) : t[i + 1] = s[i]
  OBVIOUS
<1>2. \A i \in 2..Len(t) : i - 1 \in 1..Len(s) /\ t[i] = s[i - 1]
  BY <1>1
<1>3. ToSet(t) = ToSet(s) \cup {x}
  <2>1. ToSet(t) = {t[i] : i \in 1..Len(t)} /\ ToSet(s) = {s[i] : i \in 1..Len(s)}
    BY <1>1, ToSetByPosition, ZenonT(30)
  <2> HIDE DEF t
  <2>2. ASSUME NEW e \in ToSet(t)
        PROVE  e \in ToSet(s) \cup {x}
    <3>1. PICK i \in 1..Len(t) : e = t[i]
      BY <2>1
    <3>2. CASE i = 1
      BY <3>1, <3>2, <1>1
    <3>3. CASE i \in 2..Len(t)
      BY <3>1, <3>3, <1>2, <2>1
    <3>4. QED
      BY <3>1, <3>2, <3>3, <1>1
  <2>3. ASSUME NEW e \in ToSet(s) \cup {x}
        PROVE  e \in ToSet(t)
    <3>1. CASE e = x
      BY <3>1, <1>1, <2>1, 1 \in 1..Len(t)
    <3>2. CASE e \in ToSet(s)
      <4>1. PICK i \in 1..Len(s) : e = s[i]
        BY <3>2, <2>1
      <4>2. i + 1 \in 1..Len(t) /\ t[i + 1] = e
        BY <4>1, <1>1
      <4>3. QED
        BY <4>2, <2>1
    <3>3. QED
      BY <3>1, <3>2, <2>3
  <2>4. QED
    BY <2>2, <2>3
<1>4. t # <<>> /\ Head(t) = x
  BY <1>1
<1>5. Tail(t) = s
  BY <1>1
<1>6. QED
  BY <1>1, <1>3, <1>4, <1>5

\* The elements are the head and the elements of the tail.
LEMMA ToSetHeadTail ==
  ASSUME NEW S, NEW s \in Seq(S), s # <<>>
  PROVE  /\ Head(s) \in S
         /\ Tail(s) \in Seq(S)
         /\ ToSet(s) = ToSet(Tail(s)) \cup {Head(s)}
<1>1. /\ Len(s) > 0
      /\ Head(s) = s[1]
      /\ Tail(s) \in Seq(S)
      /\ Len(Tail(s)) = Len(s) - 1
      /\ \A i \in 1..Len(Tail(s)) : Tail(s)[i] = s[i + 1]
  OBVIOUS
<1>2. \A i \in 2..Len(s) : i - 1 \in 1..Len(Tail(s)) /\ s[i] = Tail(s)[i - 1]
  BY <1>1
<1>3. /\ ToSet(s) = {s[i] : i \in 1..Len(s)}
      /\ ToSet(Tail(s)) = {Tail(s)[i] : i \in 1..Len(Tail(s))}
  BY <1>1, ToSetByPosition, ZenonT(30)
<1>4. ASSUME NEW e \in ToSet(s)
      PROVE  e \in ToSet(Tail(s)) \cup {Head(s)}
  <2>1. PICK i \in 1..Len(s) : e = s[i]
    BY <1>3
  <2>2. CASE i = 1
    BY <2>1, <2>2, <1>1
  <2>3. CASE i \in 2..Len(s)
    BY <2>1, <2>3, <1>2, <1>3
  <2>4. QED
    BY <2>1, <2>2, <2>3
<1>5. ASSUME NEW e \in ToSet(Tail(s)) \cup {Head(s)}
      PROVE  e \in ToSet(s)
  <2>1. CASE e = Head(s)
    BY <2>1, <1>1, <1>3, 1 \in 1..Len(s)
  <2>2. CASE e \in ToSet(Tail(s))
    <3>1. PICK i \in 1..Len(Tail(s)) : e = Tail(s)[i]
      BY <2>2, <1>3
    <3>2. i + 1 \in 1..Len(s) /\ s[i + 1] = e
      BY <3>1, <1>1
    <3>3. QED
      BY <3>2, <1>3
  <2>3. QED
    BY <2>1, <2>2, <1>5
<1>6. QED
  BY <1>1, <1>4, <1>5

\* Appending or pushing a new element keeps the elements distinct.
LEMMA InjectiveAdd ==
  ASSUME NEW S, NEW s \in Seq(S), NEW x \in S, IsInjective(s), x \notin ToSet(s)
  PROVE  /\ IsInjective(Append(s, x))
         /\ IsInjective(<<x>> \o s)
<1> DEFINE t == <<x>> \o s
<1>1. \A i \in 1..Len(s) : s[i] # x
  BY DEF ToSet
<1>2. \A i, j \in 1..Len(s) : s[i] = s[j] => i = j
  BY DEF IsInjective
<1>3. IsInjective(Append(s, x))
  <2>1. /\ DOMAIN Append(s, x) = 1..(Len(s) + 1)
        /\ \A i \in 1..Len(s) : Append(s, x)[i] = s[i]
        /\ Append(s, x)[Len(s) + 1] = x
    OBVIOUS
  <2>2. QED
    BY <1>1, <1>2, <2>1 DEF IsInjective
<1>4. IsInjective(t)
  <2>1. /\ DOMAIN t = 1..(Len(s) + 1)
        /\ t[1] = x
        /\ \A i \in 2..(Len(s) + 1) : i - 1 \in 1..Len(s) /\ t[i] = s[i - 1]
    OBVIOUS
  <2> HIDE DEF t
  <2>2. ASSUME NEW i \in 1..(Len(s) + 1), NEW j \in 1..(Len(s) + 1), t[i] = t[j]
        PROVE  i = j
    <3>1. CASE i = 1 /\ j = 1
      BY <3>1
    <3>2. CASE i = 1 /\ j \in 2..(Len(s) + 1)
      BY <3>2, <2>1, <2>2, <1>1
    <3>3. CASE j = 1 /\ i \in 2..(Len(s) + 1)
      BY <3>3, <2>1, <2>2, <1>1
    <3>4. CASE i \in 2..(Len(s) + 1) /\ j \in 2..(Len(s) + 1)
      <4>1. i - 1 = j - 1
        BY <3>4, <2>1, <2>2, <1>2
      <4>2. QED
        BY <4>1
    <3>5. QED
      BY <3>1, <3>2, <3>3, <3>4
  <2>3. QED
    BY <2>1, <2>2 DEF IsInjective
<1>5. QED
  BY <1>3, <1>4

\* Removing the head of distinct elements removes it altogether.
LEMMA InjectiveTail ==
  ASSUME NEW S, NEW s \in Seq(S), s # <<>>, IsInjective(s)
  PROVE  /\ IsInjective(Tail(s))
         /\ Head(s) \notin ToSet(Tail(s))
<1>1. /\ Len(s) > 0
      /\ Head(s) = s[1]
      /\ DOMAIN Tail(s) = 1..(Len(s) - 1)
      /\ \A i \in 1..(Len(s) - 1) : Tail(s)[i] = s[i + 1]
  OBVIOUS
<1>2. \A i, j \in 1..Len(s) : s[i] = s[j] => i = j
  BY DEF IsInjective
<1>3. IsInjective(Tail(s))
  BY <1>1, <1>2 DEF IsInjective
<1>4. Head(s) \notin ToSet(Tail(s))
  BY <1>1, <1>2 DEF ToSet
<1>5. QED
  BY <1>3, <1>4

\* A sequence of one element.
LEMMA ToSetOne ==
  ASSUME NEW S, NEW x \in S
  PROVE  /\ <<x>> \in Seq(S)
         /\ ToSet(<<x>>) = {x}
<1>1. <<x>> \in Seq(S) /\ DOMAIN <<x>> = {1} /\ <<x>>[1] = x
  OBVIOUS
<1>2. QED
  BY <1>1 DEF ToSet

\* The elements of a concatenation.
LEMMA ToSetConcat ==
  ASSUME NEW S, NEW s \in Seq(S), NEW t \in Seq(S)
  PROVE  /\ s \o t \in Seq(S)
         /\ ToSet(s \o t) = ToSet(s) \cup ToSet(t)
<1> DEFINE c == s \o t
<1>1. /\ c \in Seq(S)
      /\ Len(c) = Len(s) + Len(t)
      /\ \A i \in 1..Len(s) : i \in 1..Len(c) /\ c[i] = s[i]
      /\ \A i \in 1..Len(t) : Len(s) + i \in 1..Len(c) /\ c[Len(s) + i] = t[i]
  OBVIOUS
<1>2. /\ ToSet(s) = {s[i] : i \in 1..Len(s)}
      /\ ToSet(t) = {t[i] : i \in 1..Len(t)}
      /\ ToSet(c) = {c[i] : i \in 1..Len(c)}
  BY <1>1, ToSetByPosition
<1> HIDE DEF c
<1>3. ASSUME NEW e \in ToSet(c)
      PROVE  e \in ToSet(s) \cup ToSet(t)
  <2>1. PICK i \in 1..Len(c) : e = c[i]
    BY <1>2
  <2>2. CASE i \in 1..Len(s)
    BY <2>1, <2>2, <1>1, <1>2
  <2>3. CASE i > Len(s)
    <3>1. i - Len(s) \in 1..Len(t) /\ Len(s) + (i - Len(s)) = i
      BY <2>3, <1>1
    <3>2. e = t[i - Len(s)]
      BY <3>1, <2>1, <1>1
    <3>3. QED
      BY <3>1, <3>2, <1>2
  <2>4. QED
    BY <2>1, <2>2, <2>3, <1>1
<1>4. ASSUME NEW e \in ToSet(s) \cup ToSet(t)
      PROVE  e \in ToSet(c)
  <2>1. CASE e \in ToSet(s)
    BY <2>1, <1>1, <1>2
  <2>2. CASE e \in ToSet(t)
    <3>1. PICK i \in 1..Len(t) : e = t[i]
      BY <2>2, <1>2
    <3>2. QED
      BY <3>1, <1>1, <1>2
  <2>3. QED
    BY <1>4, <2>1, <2>2
<1>5. QED
  BY <1>1, <1>3, <1>4 DEF c

\* Sequences without repetitions and without common elements, one after the
\* other, are without repetitions.
LEMMA InjectiveConcat ==
  ASSUME NEW S, NEW s \in Seq(S), NEW t \in Seq(S),
         IsInjective(s), IsInjective(t), ToSet(s) \cap ToSet(t) = {}
  PROVE  IsInjective(s \o t)
<1> DEFINE c == s \o t
<1>1. /\ Len(s) \in Nat /\ Len(t) \in Nat
      /\ DOMAIN s = 1..Len(s) /\ DOMAIN t = 1..Len(t)
      /\ DOMAIN c = 1..(Len(s) + Len(t))
      /\ \A i \in 1..(Len(s) + Len(t)) : c[i] = IF i <= Len(s) THEN s[i] ELSE t[i - Len(s)]
  OBVIOUS
<1>2. \A i \in 1..Len(s), j \in 1..Len(t) : s[i] # t[j]
  BY <1>1 DEF ToSet
<1> HIDE DEF c
<1>3. ASSUME NEW i \in DOMAIN c, NEW j \in DOMAIN c, c[i] = c[j]
      PROVE  i = j
  <2>1. CASE i <= Len(s) /\ j <= Len(s)
    BY <1>1, <1>3, <2>1 DEF IsInjective
  <2>2. CASE i > Len(s) /\ j > Len(s)
    <3>1. i - Len(s) \in DOMAIN t /\ j - Len(s) \in DOMAIN t
      BY <1>1, <2>2
    <3>2. t[i - Len(s)] = t[j - Len(s)]
      BY <1>1, <1>3, <2>2
    <3>3. i - Len(s) = j - Len(s)
      BY <3>1, <3>2 DEF IsInjective
    <3>4. QED
      BY <1>1, <3>3
  <2>3. CASE i <= Len(s) /\ j > Len(s)
    BY <1>1, <1>2, <1>3, <2>3
  <2>4. CASE i > Len(s) /\ j <= Len(s)
    BY <1>1, <1>2, <1>3, <2>4
  <2>5. QED
    BY <1>1, <2>1, <2>2, <2>3, <2>4
<1>4. IsInjective(c)
  BY <1>3 DEF IsInjective
<1>5. QED
  BY <1>4 DEF c

\* Of some positions one is the first.
LEMMA FirstPosition ==
  ASSUME NEW I \in SUBSET Nat, I # {}
  PROVE  Min(I) \in I /\ \A i \in I : Min(I) <= i
<1>1. PICK first \in I : \A i \in I : ~(<<i, first>> \in OpToRel(<, Nat))
  BY WFMin, NatLessThanWellFounded
<1>2. \A i \in I : ~(i < first)
  BY <1>1 DEF OpToRel
<1>3. \A i \in I : first <= i
  BY <1>2
<1>4. QED
  BY <1>3 DEF Min

=============================================================================
