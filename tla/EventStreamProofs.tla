----------------------------- MODULE EventStreamProofs -----------------------------
(***************************************************************************)
(* That each subscriber of the event stream is told once of its end, that  *)
(* nothing that has ended is left in the subject, and that the subject     *)
(* with its replaced lists implements the broadcast, for any subscribers,  *)
(* handlers and number of events.                                          *)
(***************************************************************************)
EXTENDS EventStream, SequenceTheorems, WellFoundedInduction, TLAPS

-----------------------------------------------------------------------------
(* Lists without some of their elements. Induction over data is by a set:  *)
(* the numbers that have a property, and a least one among those that have *)
(* not.                                                                    *)
LEMMA NatInduct ==
  ASSUME NEW B \in SUBSET Nat, 0 \in B, \A n \in B : n + 1 \in B
  PROVE  B = Nat
  <1> SUFFICES ASSUME Nat \ B # {} PROVE FALSE
    OBVIOUS
  <1>1. PICK n \in Nat \ B : \A m \in Nat \ B : ~ (<<m, n>> \in OpToRel(<, Nat))
    BY NatLessThanWellFounded, WFMin
  <1>2. n - 1 \in Nat /\ n - 1 < n /\ (n - 1) + 1 = n
    OBVIOUS
  <1>3. <<n - 1, n>> \in OpToRel(<, Nat)
    BY <1>2 DEF OpToRel
  <1> QED BY <1>1, <1>2, <1>3

(* The function that Sublist is the last value of.                         *)
KeptBy(s, S, N, g) ==
  g = [n \in 0 .. N |->
         IF n = 0 THEN << >>
         ELSE IF s[n] \in S THEN Append(g[n - 1], s[n]) ELSE g[n - 1]]

LEMMA SublistIsLast == \A s, S : Sublist(s, S) = (CHOOSE g : KeptBy(s, S, Len(s), g))[Len(s)]
  BY DEF Sublist, KeptBy

(* A set of sequences that has the empty one and is closed under Append    *)
(* has all.                                                                *)
LEMMA SeqInduct ==
  ASSUME NEW T, NEW B \in SUBSET Seq(T), << >> \in B, \A s \in B : \A t \in T : Append(s, t) \in B
  PROVE  B = Seq(T)
  <1> DEFINE L == {n \in Nat : \A s \in Seq(T) : Len(s) = n => s \in B}
  <1>1. 0 \in L
    BY EmptySeq
  <1>2. ASSUME NEW n \in L PROVE n + 1 \in L
    <2>1. SUFFICES ASSUME NEW s \in Seq(T), Len(s) = n + 1 PROVE s \in B
      OBVIOUS
    <2>2. s # << >> /\ n \in Nat
      BY <2>1
    <2>3. PICK r \in Seq(T), t \in T : s = Append(r, t)
      BY <2>2, SequenceEmptyOrAppend
    <2>4. Len(r) = n
      BY <2>1, <2>2, <2>3
    <2>5. r \in B BY <1>2, <2>4
    <2> QED BY <2>3, <2>5
  <1>3. L = Nat
    BY <1>1, <1>2, NatInduct
  <1>4. \A s \in Seq(T) : Len(s) \in L
    BY <1>3
  <1> QED BY <1>4

(* The functions of a sequence and of a longer one agree where both are    *)
(* defined,                                                                *)
LEMMA KeptAgree ==
  ASSUME NEW s, NEW r, NEW S, NEW N \in Nat, NEW M \in Nat, N <= M,
         \A n \in 1 .. N : s[n] = r[n],
         NEW g, NEW h, KeptBy(s, S, N, g), KeptBy(r, S, M, h)
  PROVE  \A n \in 0 .. N : g[n] = h[n]
  <1> DEFINE B == {n \in Nat : n <= N => g[n] = h[n]}
  <1>0. /\ \A n \in 0 .. N : g[n] = IF n = 0 THEN << >>
              ELSE IF s[n] \in S THEN Append(g[n - 1], s[n]) ELSE g[n - 1]
        /\ \A n \in 0 .. M : h[n] = IF n = 0 THEN << >>
              ELSE IF r[n] \in S THEN Append(h[n - 1], r[n]) ELSE h[n - 1]
    BY DEF KeptBy
  <1>1. 0 \in B BY <1>0
  <1>2. ASSUME NEW n \in B PROVE n + 1 \in B
    <2>1. SUFFICES ASSUME n + 1 <= N PROVE g[n + 1] = h[n + 1]
      BY <1>2
    <2>2. g[n] = h[n] /\ (n + 1) - 1 = n /\ n + 1 \in 1 .. N /\ n + 1 \in 0 .. N /\ n + 1 \in 0 .. M
      BY <1>2, <2>1
    <2> QED BY <2>2, <1>0
  <1>3. B = Nat BY <1>1, <1>2, NatInduct
  <1> QED BY <1>3

(* and each exists.                                                        *)
LEMMA KeptExist ==
  ASSUME NEW T, NEW s \in Seq(T), NEW S, NEW N \in 0 .. Len(s)
  PROVE  \E g \in [0 .. N -> Seq(T)] : KeptBy(s, S, N, g)
  <1> DEFINE B == {n \in Nat : n <= Len(s) => \E g \in [0 .. n -> Seq(T)] : KeptBy(s, S, n, g)}
  <1>1. 0 \in B
    <2>1. KeptBy(s, S, 0, [n \in 0 .. 0 |-> << >>])
      BY DEF KeptBy
    <2>2. [n \in 0 .. 0 |-> << >>] \in [0 .. 0 -> Seq(T)]
      BY EmptySeq
    <2> QED BY <2>1, <2>2
  <1>2. ASSUME NEW n \in B PROVE n + 1 \in B
    <2>1. SUFFICES ASSUME n + 1 <= Len(s)
                   PROVE  \E g \in [0 .. n + 1 -> Seq(T)] : KeptBy(s, S, n + 1, g)
      OBVIOUS
    <2>2. PICK h \in [0 .. n -> Seq(T)] : KeptBy(s, S, n, h)
      BY <2>1, <1>2
    <2>3. s[n + 1] \in T BY <2>1
    <2> DEFINE last == IF s[n + 1] \in S THEN Append(h[n], s[n + 1]) ELSE h[n]
               g == [k \in 0 .. n + 1 |-> IF k = n + 1 THEN last ELSE h[k]]
    <2>4. last \in Seq(T)
      BY <2>3
    <2>5. \A k \in 0 .. n : h[k] = IF k = 0 THEN << >>
              ELSE IF s[k] \in S THEN Append(h[k - 1], s[k]) ELSE h[k - 1]
      BY <2>2 DEF KeptBy
    <2>6. g \in [0 .. n + 1 -> Seq(T)]
      BY <2>4
    <2>7. KeptBy(s, S, n + 1, g)
      <3>1. ASSUME NEW k \in 0 .. n + 1
            PROVE  g[k] = IF k = 0 THEN << >>
                          ELSE IF s[k] \in S THEN Append(g[k - 1], s[k]) ELSE g[k - 1]
        <4>1. CASE k = n + 1
          <5>1. g[k] = last /\ k # 0 /\ k - 1 = n /\ k - 1 \in 0 .. n + 1 /\ k - 1 # n + 1
            BY <4>1
          <5>2. g[k - 1] = h[n] BY <5>1
          <5> QED BY <5>1, <5>2, <4>1
        <4>2. CASE k # n + 1
          <5>1. k \in 0 .. n /\ g[k] = h[k] BY <4>2
          <5>2. k # 0 => k - 1 \in 0 .. n + 1 /\ k - 1 # n + 1 BY <5>1
          <5>3. k # 0 => g[k - 1] = h[k - 1] BY <5>2
          <5> QED BY <5>1, <5>3, <2>5
        <4> QED BY <4>1, <4>2
      <3> HIDE DEF g
      <3>2. g = [k \in 0 .. n + 1 |-> g[k]]
        BY <2>6
      <3> QED BY <3>1, <3>2 DEF KeptBy
    <2> QED BY <2>6, <2>7
  <1>3. B = Nat BY <1>1, <1>2, NatInduct
  <1> QED BY <1>3

LEMMA SublistBy ==
  ASSUME NEW T, NEW s \in Seq(T), NEW S
  PROVE  \E g \in [0 .. Len(s) -> Seq(T)] : KeptBy(s, S, Len(s), g) /\ Sublist(s, S) = g[Len(s)]
  <1>0. Len(s) \in Nat /\ Len(s) <= Len(s) /\ Len(s) \in 0 .. Len(s)
    OBVIOUS
  <1>1. PICK g \in [0 .. Len(s) -> Seq(T)] : KeptBy(s, S, Len(s), g)
    BY <1>0, KeptExist
  <1> DEFINE h == CHOOSE x : KeptBy(s, S, Len(s), x)
  <1>2. KeptBy(s, S, Len(s), h) BY <1>1
  <1>3. Sublist(s, S) = h[Len(s)] BY SublistIsLast
  <1> HIDE DEF h
  <1>4. g[Len(s)] = h[Len(s)]
    BY <1>0, <1>1, <1>2, KeptAgree
  <1> QED BY <1>1, <1>3, <1>4

LEMMA SublistType ==
  ASSUME NEW T, NEW s \in Seq(T), NEW S PROVE Sublist(s, S) \in Seq(T)
  BY SublistBy

LEMMA SublistEmpty == ASSUME NEW S PROVE Sublist(<< >>, S) = << >>
  <1>1. PICK g : KeptBy(<< >>, S, 0, g) /\ Sublist(<< >>, S) = g[0]
    BY SublistBy, EmptySeq
  <1> QED BY <1>1 DEF KeptBy

(* So the sublist may be built from the end,                               *)
LEMMA SublistAppend ==
  ASSUME NEW T, NEW s \in Seq(T), NEW t \in T, NEW S
  PROVE  Sublist(Append(s, t), S) = IF t \in S THEN Append(Sublist(s, S), t) ELSE Sublist(s, S)
  <1> DEFINE r == Append(s, t)
             n == Len(s)
  <1>1. /\ r \in Seq(T) /\ n \in Nat /\ Len(r) = n + 1 /\ r[n + 1] = t
        /\ \A i \in 1 .. n : s[i] = r[i]
    OBVIOUS
  <1>0. n <= n + 1 /\ n \in 0 .. n /\ n + 1 \in Nat
    OBVIOUS
  <1>2. PICK g : KeptBy(s, S, n, g) /\ Sublist(s, S) = g[n]
    BY SublistBy
  <1> HIDE DEF r, n
  <1>3. PICK h : KeptBy(r, S, n + 1, h) /\ Sublist(r, S) = h[n + 1]
    BY <1>1, SublistBy
  <1>4. g[n] = h[n]
    BY <1>0, <1>1, <1>2, <1>3, KeptAgree
  <1>5. h[n + 1] = IF r[n + 1] \in S THEN Append(h[n], r[n + 1]) ELSE h[n]
    <2>1. n + 1 \in 0 .. n + 1 /\ n + 1 # 0 /\ (n + 1) - 1 = n BY <1>1
    <2> QED BY <1>3, <2>1 DEF KeptBy
  <1> QED BY <1>1, <1>2, <1>3, <1>4, <1>5 DEF r

(* The set of the elements of a sequence.                                  *)
LEMMA SetOfEmpty == ToSet(<< >>) = {}
  BY DEF ToSet

LEMMA SetOfAppend ==
  ASSUME NEW T, NEW s \in Seq(T), NEW t \in T
  PROVE  ToSet(Append(s, t)) = ToSet(s) \cup {t}
  <1>1. /\ DOMAIN s = 1 .. Len(s) /\ DOMAIN Append(s, t) = 1 .. Len(s) + 1 /\ Len(s) \in Nat
        /\ \A i \in 1 .. Len(s) : Append(s, t)[i] = s[i]
        /\ Append(s, t)[Len(s) + 1] = t
    BY AppendProperties
  <1>2. \A i : i \in 1 .. Len(s) + 1 <=> i \in 1 .. Len(s) \/ i = Len(s) + 1
    BY <1>1
  <1> HIDE DEF ToSet
  <1>3. \A x : x \in ToSet(Append(s, t)) <=> x \in ToSet(s) \/ x = t
    BY <1>1, <1>2 DEF ToSet
  <1> QED BY <1>3

LEMMA SetType == ASSUME NEW T, NEW s \in Seq(T) PROVE ToSet(s) \subseteq T
  BY DEF ToSet

LEMMA ConcatAppend ==
  ASSUME NEW T, NEW s \in Seq(T), NEW r \in Seq(T), NEW t \in T
  PROVE  s \o Append(r, t) = Append(s \o r, t)
  <1>1. Append(r, t) = r \o <<t>> /\ <<t>> \in Seq(T) /\ s \o r \in Seq(T)
    BY AppendIsConcat
  <1>2. s \o (r \o <<t>>) = (s \o r) \o <<t>>
    BY <1>1, ConcatAssociative
  <1>3. Append(s \o r, t) = (s \o r) \o <<t>>
    BY <1>1, AppendIsConcat
  <1> QED BY <1>1, <1>2, <1>3

(* Taking a sublist is taking it of each part,                             *)
LEMMA SublistOfConcat ==
  ASSUME NEW T, NEW s \in Seq(T), NEW r \in Seq(T), NEW S
  PROVE  Sublist(s \o r, S) = Sublist(s, S) \o Sublist(r, S)
  <1> DEFINE B == {q \in Seq(T) : Sublist(s \o q, S) = Sublist(s, S) \o Sublist(q, S)}
  <1>1. << >> \in B
    BY EmptySeq, SublistEmpty, SublistType, ConcatEmptySeq
  <1>2. ASSUME NEW q \in B, NEW t \in T PROVE Append(q, t) \in B
    <2>1. /\ q \in Seq(T) /\ s \o q \in Seq(T)
          /\ Sublist(s, S) \in Seq(T) /\ Sublist(q, S) \in Seq(T)
          /\ Sublist(s \o q, S) = Sublist(s, S) \o Sublist(q, S)
      BY SublistType
    <2>2. Sublist(s \o Append(q, t), S) = IF t \in S THEN Append(Sublist(s \o q, S), t)
                                                     ELSE Sublist(s \o q, S)
      <3> DEFINE p == s \o q
      <3>1. p \in Seq(T) /\ s \o Append(q, t) = Append(p, t)
        BY <2>1, ConcatAppend
      <3> HIDE DEF p
      <3>2. Sublist(Append(p, t), S) = IF t \in S THEN Append(Sublist(p, S), t) ELSE Sublist(p, S)
        BY <3>1, SublistAppend
      <3> QED BY <3>1, <3>2 DEF p
    <2>3. Sublist(Append(q, t), S) = IF t \in S THEN Append(Sublist(q, S), t) ELSE Sublist(q, S)
      BY <2>1, SublistAppend
    <2>4. Sublist(s, S) \o Append(Sublist(q, S), t) = Append(Sublist(s, S) \o Sublist(q, S), t)
      BY <2>1, ConcatAppend
    <2>5. Append(q, t) \in Seq(T) BY <2>1
    <2> QED BY <2>1, <2>2, <2>3, <2>4, <2>5
  <1> HIDE DEF B
  <1>3. B \subseteq Seq(T) BY DEF B
  <1>4. B = Seq(T) BY <1>1, <1>2, <1>3, SeqInduct
  <1> QED BY <1>4 DEF B

(* its elements are those that are kept,                                   *)
LEMMA SublistMembers ==
  ASSUME NEW T, NEW s \in Seq(T), NEW S
  PROVE  ToSet(Sublist(s, S)) = ToSet(s) \cap S
  <1> DEFINE B == {q \in Seq(T) : ToSet(Sublist(q, S)) = ToSet(q) \cap S}
  <1>1. << >> \in B
    BY EmptySeq, SublistEmpty, SetOfEmpty
  <1>2. ASSUME NEW q \in B, NEW t \in T PROVE Append(q, t) \in B
    <2>1. q \in Seq(T) /\ Append(q, t) \in Seq(T) /\ Sublist(q, S) \in Seq(T)
      BY SublistType
    <2>2. ToSet(Append(q, t)) = ToSet(q) \cup {t}
      BY <2>1, SetOfAppend
    <2>3. ToSet(Append(Sublist(q, S), t)) = ToSet(Sublist(q, S)) \cup {t}
      BY <2>1, SetOfAppend
    <2>4. Sublist(Append(q, t), S) = IF t \in S THEN Append(Sublist(q, S), t) ELSE Sublist(q, S)
      BY <2>1, SublistAppend
    <2> QED BY <2>1, <2>2, <2>3, <2>4
  <1> HIDE DEF B
  <1>3. B \subseteq Seq(T) BY DEF B
  <1>4. B = Seq(T) BY <1>1, <1>2, <1>3, SeqInduct
  <1> QED BY <1>4 DEF B

(* two in turn are one,                                                    *)
LEMMA SublistTwice ==
  ASSUME NEW T, NEW s \in Seq(T), NEW S, NEW R
  PROVE  Sublist(Sublist(s, S), R) = Sublist(s, S \cap R)
  <1> DEFINE B == {q \in Seq(T) : Sublist(Sublist(q, S), R) = Sublist(q, S \cap R)}
  <1>1. << >> \in B
    BY EmptySeq, SublistEmpty
  <1>2. ASSUME NEW q \in B, NEW t \in T PROVE Append(q, t) \in B
    <2>1. q \in Seq(T) /\ Append(q, t) \in Seq(T) /\ Sublist(q, S) \in Seq(T)
      BY SublistType
    <2>2. Sublist(Append(q, t), S) = IF t \in S THEN Append(Sublist(q, S), t) ELSE Sublist(q, S)
      BY <2>1, SublistAppend
    <2>3. Sublist(Append(Sublist(q, S), t), R)
            = IF t \in R THEN Append(Sublist(Sublist(q, S), R), t) ELSE Sublist(Sublist(q, S), R)
      <3> DEFINE p == Sublist(q, S)
      <3>1. p \in Seq(T) BY <2>1
      <3> HIDE DEF p
      <3>2. Sublist(Append(p, t), R) = IF t \in R THEN Append(Sublist(p, R), t) ELSE Sublist(p, R)
        BY <3>1, SublistAppend
      <3> QED BY <3>2 DEF p
    <2>4. Sublist(Append(q, t), S \cap R)
            = IF t \in S \cap R THEN Append(Sublist(q, S \cap R), t) ELSE Sublist(q, S \cap R)
      BY <2>1, SublistAppend
    <2>5. Sublist(Sublist(q, S), R) = Sublist(q, S \cap R)
      OBVIOUS
    <2>6. Sublist(Sublist(Append(q, t), S), R) = Sublist(Append(q, t), S \cap R)
      <3>1. CASE t \in S /\ t \in R BY <3>1, <2>2, <2>3, <2>4, <2>5
      <3>2. CASE t \in S /\ t \notin R BY <3>2, <2>2, <2>3, <2>4, <2>5
      <3>3. CASE t \notin S BY <3>3, <2>2, <2>4, <2>5
      <3> QED BY <3>1, <3>2, <3>3
    <2> QED BY <2>1, <2>6
  <1> HIDE DEF B
  <1>3. B \subseteq Seq(T) BY DEF B
  <1>4. B = Seq(T) BY <1>1, <1>2, <1>3, SeqInduct
  <1> QED BY <1>4 DEF B

(* and nothing but the elements of the sequence matters.                   *)
LEMMA SublistSame ==
  ASSUME NEW T, NEW s \in Seq(T), NEW S, NEW R, ToSet(s) \cap S = ToSet(s) \cap R
  PROVE  Sublist(s, S) = Sublist(s, R)
  <1> DEFINE B == {q \in Seq(T) : ToSet(q) \cap S = ToSet(q) \cap R => Sublist(q, S) = Sublist(q, R)}
  <1>1. << >> \in B
    BY EmptySeq, SublistEmpty
  <1>2. ASSUME NEW q \in B, NEW t \in T PROVE Append(q, t) \in B
    <2>1. q \in Seq(T) /\ Append(q, t) \in Seq(T)
      OBVIOUS
    <2>2. ToSet(Append(q, t)) = ToSet(q) \cup {t}
      BY <2>1, SetOfAppend
    <2>3. Sublist(Append(q, t), S) = IF t \in S THEN Append(Sublist(q, S), t) ELSE Sublist(q, S)
      BY <2>1, SublistAppend
    <2>4. Sublist(Append(q, t), R) = IF t \in R THEN Append(Sublist(q, R), t) ELSE Sublist(q, R)
      BY <2>1, SublistAppend
    <2>5. ToSet(q) \cap S = ToSet(q) \cap R => Sublist(q, S) = Sublist(q, R)
      OBVIOUS
    <2>6. ToSet(Append(q, t)) \cap S = ToSet(Append(q, t)) \cap R =>
            ToSet(q) \cap S = ToSet(q) \cap R /\ (t \in S <=> t \in R)
      <3> HIDE DEF B
      <3> QED BY <2>2
    <2>7. ToSet(Append(q, t)) \cap S = ToSet(Append(q, t)) \cap R =>
            Sublist(Append(q, t), S) = Sublist(Append(q, t), R)
      <3> HIDE DEF B
      <3> QED BY <2>3, <2>4, <2>5, <2>6
    <2> QED BY <2>1, <2>7
  <1> HIDE DEF B
  <1>3. B \subseteq Seq(T) BY DEF B
  <1>4. B = Seq(T) BY <1>1, <1>2, <1>3, SeqInduct
  <1> QED BY <1>4 DEF B

LEMMA SublistAll ==
  ASSUME NEW T, NEW s \in Seq(T), NEW S, ToSet(s) \subseteq S
  PROVE  Sublist(s, S) = s
  <1> DEFINE B == {q \in Seq(T) : ToSet(q) \subseteq S => Sublist(q, S) = q}
  <1>1. << >> \in B
    BY EmptySeq, SublistEmpty
  <1>2. ASSUME NEW q \in B, NEW t \in T PROVE Append(q, t) \in B
    <2>1. q \in Seq(T) /\ Append(q, t) \in Seq(T)
      OBVIOUS
    <2>2. ToSet(Append(q, t)) = ToSet(q) \cup {t}
      BY <2>1, SetOfAppend
    <2>3. Sublist(Append(q, t), S) = IF t \in S THEN Append(Sublist(q, S), t) ELSE Sublist(q, S)
      BY <2>1, SublistAppend
    <2> QED BY <2>1, <2>2, <2>3
  <1> HIDE DEF B
  <1>3. B \subseteq Seq(T) BY DEF B
  <1>4. B = Seq(T) BY <1>1, <1>2, <1>3, SeqInduct
  <1> QED BY <1>4 DEF B

(* The sublist may be built from the front as well.                        *)
LEMMA HeadAndTail ==
  ASSUME NEW T, NEW s \in Seq(T), s # << >>
  PROVE  /\ Head(s) \in T /\ Tail(s) \in Seq(T)
         /\ ToSet(s) = {Head(s)} \cup ToSet(Tail(s))
         /\ \A S : Sublist(s, S) = IF Head(s) \in S THEN <<Head(s)>> \o Sublist(Tail(s), S)
                                                    ELSE Sublist(Tail(s), S)
  <1> DEFINE x == Head(s)
             r == Tail(s)
  <1>1. /\ x \in T /\ r \in Seq(T) /\ Len(s) \in Nat /\ Len(r) = Len(s) - 1
        /\ \A i \in 1 .. Len(r) : r[i] = s[i + 1]
        /\ x = s[1] /\ Len(s) > 0
    BY HeadTailProperties
  <1>2. <<x>> \in Seq(T) BY <1>1
  <1>3. s = <<x>> \o r
    BY <1>1
  <1> HIDE DEF x, r
  <1>4. \A S : Sublist(s, S) = Sublist(<<x>>, S) \o Sublist(r, S)
    <2> SUFFICES ASSUME NEW S PROVE Sublist(s, S) = Sublist(<<x>>, S) \o Sublist(r, S)
      OBVIOUS
    <2> DEFINE one == <<x>>
    <2>0. one \in Seq(T) BY <1>2
    <2> HIDE DEF one
    <2>1. Sublist(one \o r, S) = Sublist(one, S) \o Sublist(r, S)
      BY <1>1, <2>0, SublistOfConcat
    <2> QED BY <1>3, <2>1 DEF one
  <1>5. <<x>> = Append(<< >>, x) /\ << >> \in Seq(T)
    OBVIOUS
  <1>6. \A S : Sublist(<<x>>, S) = IF x \in S THEN <<x>> ELSE << >>
    <2> SUFFICES ASSUME NEW S PROVE Sublist(<<x>>, S) = IF x \in S THEN <<x>> ELSE << >>
      OBVIOUS
    <2> DEFINE none == << >>
    <2>0. none \in Seq(T) /\ x \in T BY <1>1, <1>5
    <2> HIDE DEF none
    <2>1. Sublist(Append(none, x), S)
            = IF x \in S THEN Append(Sublist(none, S), x) ELSE Sublist(none, S)
      BY <2>0, SublistAppend
    <2> QED BY <1>5, <2>1, SublistEmpty DEF none
  <1>7. \A S : Sublist(s, S) = IF x \in S THEN <<x>> \o Sublist(r, S) ELSE Sublist(r, S)
    <2> SUFFICES ASSUME NEW S
                 PROVE  Sublist(s, S) = IF x \in S THEN <<x>> \o Sublist(r, S) ELSE Sublist(r, S)
      OBVIOUS
    <2>1. Sublist(r, S) \in Seq(T) BY <1>1, SublistType
    <2>2. << >> \o Sublist(r, S) = Sublist(r, S) BY <2>1, ConcatEmptySeq
    <2> QED BY <1>4, <1>6, <2>2
  <1>8. ToSet(s) = {x} \cup ToSet(r)
    <2>1. DOMAIN s = 1 .. Len(s) /\ DOMAIN r = 1 .. Len(r)
      BY <1>1
    <2>2. \A i : i \in 1 .. Len(s) <=> i = 1 \/ (i - 1 \in 1 .. Len(r) /\ i \in Nat)
      BY <1>1
    <2>3. \A y : y \in ToSet(s) <=> \E i \in 1 .. Len(s) : y = s[i]
      BY <2>1 DEF ToSet
    <2>4. \A y : y \in ToSet(r) <=> \E i \in 1 .. Len(r) : y = s[i + 1]
      BY <1>1, <2>1 DEF ToSet
    <2>5. \A y : y \in ToSet(r) <=> \E i \in 2 .. Len(s) : y = s[i]
      <3>1. ASSUME NEW i \in 1 .. Len(r) PROVE i + 1 \in 2 .. Len(s) BY <1>1
      <3>2. ASSUME NEW i \in 2 .. Len(s) PROVE i - 1 \in 1 .. Len(r) /\ (i - 1) + 1 = i BY <1>1
      <3> QED BY <3>1, <3>2, <2>4
    <2>6. \A i : i \in 1 .. Len(s) <=> i = 1 \/ i \in 2 .. Len(s)
      BY <1>1
    <2> QED BY <1>1, <2>3, <2>5, <2>6
  <1> QED BY <1>1, <1>7, <1>8 DEF x, r

LEMMA SetOfConcat ==
  ASSUME NEW T, NEW s \in Seq(T), NEW r \in Seq(T)
  PROVE  ToSet(s \o r) = ToSet(s) \cup ToSet(r)
  <1> DEFINE B == {q \in Seq(T) : ToSet(s \o q) = ToSet(s) \cup ToSet(q)}
  <1>1. << >> \in B
    BY EmptySeq, SetOfEmpty, ConcatEmptySeq
  <1>2. ASSUME NEW q \in B, NEW t \in T PROVE Append(q, t) \in B
    <2>1. q \in Seq(T) /\ Append(q, t) \in Seq(T) /\ s \o q \in Seq(T)
      OBVIOUS
    <2>2. ToSet(Append(q, t)) = ToSet(q) \cup {t}
      BY <2>1, SetOfAppend
    <2> DEFINE p == s \o q
    <2>3. p \in Seq(T) /\ ToSet(p) = ToSet(s) \cup ToSet(q) /\ s \o Append(q, t) = Append(p, t)
      BY <2>1, ConcatAppend
    <2> HIDE DEF p
    <2>4. ToSet(Append(p, t)) = ToSet(p) \cup {t}
      BY <2>3, SetOfAppend
    <2> QED BY <2>1, <2>2, <2>3, <2>4
  <1> HIDE DEF B
  <1>3. B \subseteq Seq(T) BY DEF B
  <1>4. B = Seq(T) BY <1>1, <1>2, <1>3, SeqInduct
  <1> QED BY <1>4 DEF B

(* Keeping also what was appended appends it.                              *)
LEMMA SublistOfLonger ==
  ASSUME NEW T, NEW s \in Seq(T), NEW r \in Seq(T), NEW S, ToSet(r) \cap ToSet(s) = {}
  PROVE  Sublist(s \o r, S \cup ToSet(r)) = Sublist(s, S) \o r
  <1> DEFINE U == S \cup ToSet(r)
  <1>1. Sublist(s \o r, U) = Sublist(s, U) \o Sublist(r, U)
    BY SublistOfConcat
  <1>2. Sublist(r, U) = r
    BY SublistAll
  <1>3. ToSet(s) \cap U = ToSet(s) \cap S
    OBVIOUS
  <1> HIDE DEF U
  <1>4. Sublist(s, U) = Sublist(s, S)
    BY <1>3, SublistSame
  <1> QED BY <1>1, <1>2, <1>4 DEF U

-----------------------------------------------------------------------------
(* The inductive invariant. What a subscriber is told at its end.          *)
Kinds == {"error", "completed"}

TypeOK ==
  /\ mode \in {"Casting", "Completed", "Errored"}
  /\ completer \in Seq(Taps) /\ order \in Seq(Taps) /\ turn \in Seq(Taps)
  /\ open \subseteq Taps /\ live \subseteq Subscribers
  /\ cs \in BOOLEAN /\ connection \in BOOLEAN /\ nested \in BOOLEAN /\ hooks \in Nat
  /\ pc \in {"idle", "produce", "dispatch", "callback"}
  /\ running \in Subscribers \cup {Nobody}
  /\ live_ \in BOOLEAN
  /\ count \in Nat
  /\ seen \in [Taps -> Seq(Nat)]
  /\ ended \in [Subscribers -> Seq(Kinds)]

(* The list of the subject is that of the open taps in the order they were *)
(* added, whatever was unsubscribed and retained on the way; the weak      *)
(* pointer finds it or has expired between two events; once the stream has *)
(* ended, all that is open has still its turn to be told.                  *)
Lists ==
  /\ completer = IF mode = "Casting" THEN Sublist(order, open) ELSE << >>
  /\ pc \in {"idle", "produce"} => cached \in {Expired, completer}
  /\ mode # "Casting" => cached = Expired
  /\ ToSet(turn) \subseteq ToSet(order) /\ open \subseteq ToSet(order)
  /\ pc \in {"idle", "produce"} => turn = << >>
  /\ mode # "Casting" => open \subseteq ToSet(turn)

(* The stages of step(): a handler runs in a callback only, and the        *)
(* subject has one hook of the connection, however often step() has        *)
(* connected.                                                              *)
Stage ==
  /\ pc = "callback" <=> running # Nobody
  /\ pc \in {"produce", "callback"} => mode = "Casting"
  /\ connection = nested /\ hooks = (IF nested THEN 1 ELSE 0)
  /\ pc # "idle" => cs /\ nested
  /\ pc = "idle" => (cs <=> mode = "Casting")

(* A lifetime is as long as one of its taps is open, but for a first()     *)
(* that has taken its event and has its handler running; every open tap    *)
(* was added with the first of its subscriber.                             *)
Lives ==
  /\ \A t \in open : Owner(t) \in live
  /\ \A u \in live : \/ \E t \in open : Owner(t) = u
                     \/ running = u /\ u \in First
  /\ \A u \in live : <<u, 1>> \in ToSet(order)
  /\ \A t \in ToSet(order) : <<Owner(t), 1>> \in ToSet(order)

(* A subscriber is told at most once, and is gone from then on; a first()  *)
(* completes only with an event it has seen; the one whose handler runs    *)
(* has been told nothing.                                                  *)
Told ==
  /\ \A u \in Subscribers : /\ Len(ended[u]) <= 1
                            /\ ended[u] # << >> => u \notin live
                            /\ u \in First /\ ended[u] = <<"completed">> => seen[<<u, 1>>] # << >>
  /\ running # Nobody => ended[running] = << >> /\ seen[<<running, 1>>] # << >>

IInv == /\ TypeOK /\ Lists /\ Stage /\ Lives /\ Told

-----------------------------------------------------------------------------
(* What the taps of a subscriber are.                                      *)
LEMMA TapFacts ==
  /\ \A u \in Subscribers :
       /\ TapsOf(u) \in Seq(Taps)
       /\ <<u, 1>> \in ToSet(TapsOf(u)) /\ <<u, 1>> \in Taps
       /\ ToSet(TapsOf(u)) \subseteq {<<u, 1>>, <<u, 2>>}
       /\ u \notin Timeout => ToSet(TapsOf(u)) = {<<u, 1>>}
       /\ \A t \in ToSet(TapsOf(u)) : t \in Taps /\ Owner(t) = u
  /\ \A t \in Taps : /\ Owner(t) \in Subscribers /\ t \in ToSet(TapsOf(Owner(t)))
                     /\ t[2] = 1 => t = <<Owner(t), 1>>
                     /\ t[2] = 2 => Owner(t) \in Timeout
  <1>1. ASSUME NEW u PROVE ToSet(<< <<u, 1>> >>) = {<<u, 1>>}
    BY DEF ToSet
  <1>2. ASSUME NEW u PROVE ToSet(<< <<u, 1>>, <<u, 2>> >>) = {<<u, 1>>, <<u, 2>>}
    BY DEF ToSet
  <1>3. \A u : ToSet(TapsOf(u)) = IF u \in Timeout THEN {<<u, 1>>, <<u, 2>>} ELSE {<<u, 1>>}
    BY <1>1, <1>2 DEF TapsOf
  <1>4. \A t : t \in Taps <=> \E u \in Subscribers : t \in ToSet(TapsOf(u))
    BY DEF Taps
  <1>5. ASSUME NEW u \in Subscribers PROVE TapsOf(u) \in Seq(Taps)
    <2>1. <<u, 1>> \in Taps BY <1>3, <1>4
    <2>2. u \in Timeout => <<u, 2>> \in Taps BY <1>3, <1>4
    <2> QED BY <2>1, <2>2 DEF TapsOf
  <1>6. \A u : Owner(<<u, 1>>) = u /\ Owner(<<u, 2>>) = u
    BY DEF Owner
  <1>7. ASSUME NEW t \in Taps
        PROVE  /\ Owner(t) \in Subscribers /\ t \in ToSet(TapsOf(Owner(t)))
               /\ t[2] = 1 => t = <<Owner(t), 1>>
               /\ t[2] = 2 => Owner(t) \in Timeout
    <2>1. PICK u \in Subscribers : t \in ToSet(TapsOf(u))
      BY <1>4
    <2>2. CASE t = <<u, 1>> BY <2>1, <2>2, <1>6
    <2>3. CASE u \in Timeout /\ t = <<u, 2>> BY <2>1, <2>3, <1>6
    <2> QED BY <2>1, <2>2, <2>3, <1>3
  <1> QED BY <1>3, <1>4, <1>5, <1>6, <1>7

(* Closing taps retains the open ones in the list of the subject.          *)
LEMMA ClosingKeeps ==
  ASSUME TypeOK, Lists, NEW ts, Closing(ts), UNCHANGED <<mode, order>>
  PROVE  /\ open' = open \ ts
         /\ completer' \in Seq(Taps)
         /\ completer' = IF mode' = "Casting" THEN Sublist(order', open') ELSE << >>
         /\ mode' # "Casting" => cached' = Expired
         /\ pc \in {"idle", "produce"} => cached' \in {Expired, completer'}
  <1>1. open' = open \ ts
    BY DEF Closing
  <1>2. CASE ts \cap open = {}
    BY <1>1, <1>2 DEF Closing, Lists, TypeOK
  <1>3. CASE ts \cap open # {}
    <2>1. completer' = Sublist(completer, open \ ts)
      BY <1>3 DEF Closing, Install, Retained
    <2>2. cached' = IF pc \in {"dispatch", "callback"} THEN cached ELSE Expired
      BY <1>3 DEF Closing, Install
    <2>3. completer' \in Seq(Taps)
      BY <2>1, SublistType DEF TypeOK
    <2>4. CASE mode = "Casting"
      <3>1. completer = Sublist(order, open) /\ order \in Seq(Taps) /\ open \cap (open \ ts) = open \ ts
        BY <2>4 DEF Lists, TypeOK
      <3>2. Sublist(Sublist(order, open), open \ ts) = Sublist(order, open \cap (open \ ts))
        BY <3>1, SublistTwice
      <3>3. completer' = Sublist(order, open \ ts)
        BY <2>1, <3>1, <3>2
      <3> QED BY <1>1, <2>2, <2>3, <2>4, <3>3
    <2>5. CASE mode # "Casting"
      <3>1. completer' = << >>
        BY <2>1, <2>5, SublistEmpty DEF Lists
      <3> QED BY <1>1, <2>2, <2>3, <2>5, <3>1 DEF Lists, TypeOK
    <2> QED BY <2>4, <2>5
  <1> QED BY <1>2, <1>3

LEMMA StartIInv == Init => IInv
  <1> SUFFICES ASSUME Init PROVE IInv
    OBVIOUS
  <1>1. ToSet(order) = {} /\ ToSet(turn) = {} /\ Sublist(order, open) = << >>
    BY SetOfEmpty, SublistEmpty DEF Init
  <1>2. TypeOK
    BY EmptySeq DEF Init, TypeOK
  <1>3. Lists BY <1>1 DEF Init, Lists
  <1>4. Stage BY DEF Init, Stage
  <1>5. Lives BY <1>1 DEF Init, Lives
  <1>6. Told BY DEF Init, Told
  <1> QED BY <1>2, <1>3, <1>4, <1>5, <1>6 DEF IInv

(* Each part is kept by every step.                                        *)
LEMMA StepTypeOK == IInv /\ [Next]_vars => TypeOK'
  <1> SUFFICES ASSUME IInv, [Next]_vars PROVE TypeOK'
    OBVIOUS
  <1> USE DEF IInv
  <1>1. ASSUME NEW u \in Subscribers, Subscribe(u) PROVE TypeOK'
    <2>1. TapsOf(u) \in Seq(Taps) /\ ToSet(TapsOf(u)) \subseteq Taps
      BY TapFacts
    <2>2. CASE mode = "Casting"
      <3>1. /\ completer' = Sublist(completer, open) \o TapsOf(u)
            /\ open' = open \cup ToSet(TapsOf(u))
            /\ live' = live \cup {u} /\ order' = order \o TapsOf(u)
            /\ UNCHANGED <<mode, ended, live_, link, control, count, seen>>
        BY <1>1, <2>2 DEF Subscribe, Install, Retained
      <3>2. completer' \in Seq(Taps)
        BY <2>1, <3>1, SublistType DEF TypeOK
      <3> QED BY <2>1, <3>1, <3>2 DEF TypeOK, link, control
    <2>3. CASE mode # "Casting"
      <3>1. /\ UNCHANGED <<subject, lifetimes, order, link, control, count, seen>>
            /\ ended' = [ended EXCEPT ![u] = Append(@, Outcome(u))]
            /\ live_' = (live_ /\ Outcome(u) # "error")
        BY <1>1, <2>3 DEF Subscribe, Calls
      <3>2. Outcome(u) \in Kinds BY DEF Outcome, Kinds
      <3> QED BY <3>1, <3>2 DEF TypeOK, link, control, subject, lifetimes
    <2> QED BY <2>2, <2>3
  <1>2. ASSUME NEW u \in Subscribers, Unsubscribe(u) PROVE TypeOK'
    <2>1. Closing(ToSet(TapsOf(u))) /\ UNCHANGED <<mode, order>>
      BY <1>2 DEF Unsubscribe, EndLifetime, log
    <2> QED BY <1>2, <2>1, ClosingKeeps DEF Unsubscribe, EndLifetime, TypeOK, link, control, log
  <1>3. CASE request_deregister
    BY <1>3 DEF request_deregister, TypeOK, subject, lifetimes, link, control, log
  <1>4. CASE Step
    BY <1>4 DEF Step, TypeOK, subject, lifetimes, log
  <1>5. CASE Emit
    <2>1. turn' \in Seq(Taps)
      BY <1>5 DEF Emit, TypeOK, Lists
    <2> QED BY <1>5, <2>1 DEF Emit, TypeOK, lifetimes, link
  <1>6. CASE EndProduce
    BY <1>6, EmptySeq DEF EndProduce, Ends, TypeOK, subject, lifetimes, link, log
  <1>7. CASE Fail
    BY <1>7, EmptySeq DEF Fail, Ends, TypeOK, subject, lifetimes, link, log
  <1>8. ASSUME TakesEvent \/ EndTap \/ Skip
        PROVE  Head(turn) \in Taps /\ Tail(turn) \in Seq(Taps) /\ Owner(Head(turn)) \in Subscribers
    <2>1. turn \in Seq(Taps) /\ turn # << >>
      BY <1>8 DEF TypeOK, TakesEvent, EndTap, Skip
    <2> QED BY <2>1, HeadAndTail, TapFacts
  <1>9. CASE Reject
    BY <1>8, <1>9 DEF Reject, Sees, TypeOK, lifetimes, link
  <1>10. CASE Accept
    <2>1. \E ts : Closing(ts) /\ UNCHANGED <<mode, order>>
      BY <1>10 DEF Accept, Sees
    <2> QED BY <1>8, <1>10, <2>1, ClosingKeeps DEF Accept, Sees, TypeOK, link
  <1>11. CASE TimeOut
    <2>1. \E ts : Closing(ts) /\ UNCHANGED <<mode, order>>
      BY <1>11 DEF TimeOut, Sees, EndLifetime
    <2> QED BY <1>8, <1>11, <2>1, ClosingKeeps DEF TimeOut, Sees, Calls, Kinds, EndLifetime, TypeOK, link
  <1>12. CASE Return
    <2>1. CASE running \in First \cap live
      <3>1. Closing(ToSet(TapsOf(running))) /\ UNCHANGED <<mode, order>>
        BY <1>12, <2>1 DEF Return, EndLifetime, log
      <3>2. /\ Calls(running, "completed") /\ live' \subseteq live
            /\ UNCHANGED <<mode, link, turn, log>> /\ pc' = "dispatch" /\ running' = Nobody
        BY <1>12, <2>1 DEF Return, EndLifetime
      <3>3. live_' \in BOOLEAN /\ ended' \in [Subscribers -> Seq(Kinds)]
        BY <2>1, <3>2 DEF Calls, Kinds, TypeOK
      <3> QED BY <3>1, <3>2, <3>3, ClosingKeeps DEF TypeOK, link, log
    <2>2. CASE running \notin First \cap live
      BY <1>12, <2>2 DEF Return, TypeOK, lifetimes, link, log
    <2> QED BY <2>1, <2>2
  <1>13. CASE Throw
    <2>1. Closing(ToSet(TapsOf(running))) /\ UNCHANGED <<mode, order>>
      BY <1>13 DEF Throw, EndLifetime, log
    <2>2. running \in Subscribers
      BY <1>13 DEF Throw, Stage, TypeOK
    <2> QED BY <1>13, <2>1, <2>2, ClosingKeeps DEF Throw, Calls, Kinds, EndLifetime, TypeOK, link, log
  <1>14. CASE Skip
    BY <1>8, <1>14 DEF Skip, TypeOK, subject, lifetimes, link, log
  <1>15. CASE EventDone
    BY <1>15 DEF EventDone, TypeOK, lifetimes, link, log
  <1>16. CASE EndTap
    <2>1. /\ \E ts : Closing(ts) /\ UNCHANGED <<mode, order>>
          /\ live' \subseteq live
          /\ UNCHANGED <<link, pc, running, log, mode>> /\ turn' = Tail(turn)
          /\ \/ UNCHANGED <<ended, live_>>
             \/ Calls(Owner(Head(turn)), Outcome(Owner(Head(turn))))
      BY <1>16 DEF EndTap, EndLifetime, log
    <2>2. Outcome(Owner(Head(turn))) \in Kinds BY DEF Outcome, Kinds
    <2>3. live_' \in BOOLEAN /\ ended' \in [Subscribers -> Seq(Kinds)]
      <3>1. CASE UNCHANGED <<ended, live_>>
        BY <3>1 DEF TypeOK
      <3>2. CASE Calls(Owner(Head(turn)), Outcome(Owner(Head(turn))))
        <4>1. live_' \in BOOLEAN
          BY <3>2 DEF Calls
        <4>2. ended' \in [Subscribers -> Seq(Kinds)]
          BY <1>8, <1>16, <2>2, <3>2 DEF Calls, TypeOK
        <4> QED BY <4>1, <4>2
      <3> QED BY <2>1, <3>1, <3>2
    <2> QED BY <1>8, <1>16, <2>1, <2>3, ClosingKeeps DEF TypeOK, link, log
  <1>17. CASE Finish
    <2>1. UNCHANGED <<subject, lifetimes, turn, running, live_, log, ended>> /\ pc' = "idle"
      BY <1>17 DEF Finish
    <2>2. cs' \in BOOLEAN /\ connection' \in BOOLEAN /\ nested' \in BOOLEAN /\ hooks' \in Nat
      <3>1. CASE nested
        <4>1. cs' = FALSE /\ connection' = FALSE /\ nested' = FALSE /\ hooks' = 0
          BY <1>17, <3>1, Zenon DEF Finish
        <4> QED BY <4>1
      <3>2. CASE ~nested BY <1>17, <3>2 DEF Finish, TypeOK
      <3> QED BY <3>1, <3>2
    <2> QED BY <2>1, <2>2 DEF TypeOK, subject, lifetimes, log
  <1>18. CASE UNCHANGED vars
    BY <1>18 DEF vars, TypeOK, subject, lifetimes, link, control, log
  <1> QED
    BY <1>1, <1>2, <1>3, <1>4, <1>5, <1>6, <1>7, <1>9, <1>10, <1>11, <1>12, <1>13, <1>14,
       <1>15, <1>16, <1>17, <1>18 DEF Next, Dispatch

LEMMA StepStage == IInv /\ [Next]_vars => Stage'
  <1> SUFFICES ASSUME IInv, [Next]_vars PROVE Stage'
    OBVIOUS
  <1> USE DEF IInv
  <1>1. ASSUME NEW u \in Subscribers, Subscribe(u) PROVE Stage'
    <2>1. UNCHANGED <<link, control, mode>>
      BY <1>1 DEF Subscribe, subject
    <2> QED BY <2>1 DEF Stage, link, control
  <1>2. ASSUME NEW u \in Subscribers, Unsubscribe(u) PROVE Stage'
    BY <1>2 DEF Unsubscribe, Stage, link, control
  <1>3. CASE request_deregister
    BY <1>3 DEF request_deregister, Stage, subject, link, control
  <1>4. CASE Step
    <2>1. connection' /\ nested' /\ pc' = "produce" /\ UNCHANGED <<mode, cs, running>>
      BY <1>4 DEF Step, subject
    <2>2. hooks' = 1
      BY <1>4 DEF Step, Stage, TypeOK
    <2> QED BY <1>4, <2>1, <2>2 DEF Step, Stage
  <1>5. CASE Emit
    BY <1>5 DEF Emit, Stage, link
  <1>6. CASE EndProduce \/ Fail
    <2>1. pc = "produce" /\ UNCHANGED <<link, running>>
      BY <1>6 DEF EndProduce, Fail, Ends
    <2>2. \/ pc' = "idle" /\ mode' = mode
          \/ pc' = "dispatch" /\ mode' # "Casting"
      BY <1>6 DEF EndProduce, Fail, Ends, subject
    <2> QED BY <2>1, <2>2 DEF Stage, link
  <1>7. ASSUME TakesEvent
        PROVE  pc = "dispatch" /\ mode = "Casting" /\ (Head(turn) \in open => Owner(Head(turn)) # Nobody)
    BY <1>7, TapFacts, EventStreamAssumption DEF TakesEvent, TypeOK, Subscribers
  <1>8. CASE Reject \/ TimeOut
    <2>1. TakesEvent /\ UNCHANGED <<mode, link, pc, running>>
      BY <1>8 DEF Reject, TimeOut, Sees
    <2> QED BY <1>7, <2>1 DEF Stage, link
  <1>9. CASE Accept
    <2>1. /\ TakesEvent /\ UNCHANGED <<mode, link>> /\ Head(turn) \in open
          /\ running' = Owner(Head(turn)) /\ pc' = "callback"
      BY <1>9 DEF Accept, Sees, TakesEvent
    <2> QED BY <1>7, <2>1 DEF Stage, link
  <1>10. CASE Return \/ Throw
    <2>1. pc = "callback" /\ pc' = "dispatch" /\ running' = Nobody /\ UNCHANGED <<mode, link>>
      BY <1>10 DEF Return, Throw
    <2> QED BY <2>1 DEF Stage, link
  <1>11. CASE Skip \/ EndTap
    <2>1. UNCHANGED <<mode, link, pc, running>>
      BY <1>11 DEF Skip, EndTap, subject
    <2> QED BY <2>1 DEF Stage, link
  <1>12. CASE EventDone
    BY <1>12 DEF EventDone, Stage, link
  <1>13. CASE Finish
    <2>1. pc = "dispatch" /\ mode # "Casting" /\ pc' = "idle" /\ UNCHANGED <<mode, running>>
      BY <1>13 DEF Finish, subject
    <2>2. nested BY <2>1 DEF Stage
    <2>3. cs' = FALSE /\ connection' = FALSE /\ nested' = FALSE /\ hooks' = 0
      BY <1>13, <2>2, Zenon DEF Finish
    <2> QED BY <2>1, <2>3 DEF Stage
  <1>14. CASE UNCHANGED vars
    BY <1>14 DEF vars, Stage, subject, link, control
  <1> QED
    BY <1>1, <1>2, <1>3, <1>4, <1>5, <1>6, <1>8, <1>9, <1>10, <1>11, <1>12, <1>13, <1>14
    DEF Next, Dispatch

LEMMA StepLists == IInv /\ [Next]_vars => Lists'
  <1> SUFFICES ASSUME IInv, [Next]_vars PROVE Lists'
    OBVIOUS
  <1> USE DEF IInv
  <1>0. TypeOK'
    BY StepTypeOK
  <1>1. ASSUME NEW u \in Subscribers, Subscribe(u) PROVE Lists'
    <2>1. /\ TapsOf(u) \in Seq(Taps) /\ order \in Seq(Taps) /\ completer \in Seq(Taps)
          /\ ToSet(TapsOf(u)) \subseteq {<<u, 1>>, <<u, 2>>}
      BY TapFacts DEF TypeOK
    <2>2. CASE mode = "Casting"
      <3> DEFINE new == ToSet(TapsOf(u))
      <3>1. /\ completer' = Sublist(completer, open) \o TapsOf(u)
            /\ cached' = IF pc \in {"dispatch", "callback"} THEN cached ELSE Expired
            /\ open' = open \cup new
            /\ order' = order \o TapsOf(u)
            /\ pc \in {"idle", "callback"}
            /\ UNCHANGED <<mode, pc, turn>>
        BY <1>1, <2>2 DEF Subscribe, Install, Retained, AtEase, control
      <3>2. new \cap ToSet(order) = {}
        <4>1. <<u, 1>> \notin ToSet(order)
          BY <1>1 DEF Subscribe, Used
        <4>2. \A t \in new : t \in Taps /\ Owner(t) = u
          BY TapFacts
        <4> QED BY <4>1, <4>2 DEF Lives
      <3> HIDE DEF new
      <3>3. ToSet(order') = ToSet(order) \cup new
        BY <2>1, <3>1, SetOfConcat DEF new
      <3>4. Sublist(order \o TapsOf(u), open \cup new) = Sublist(order, open) \o TapsOf(u)
        BY <2>1, <3>2, SublistOfLonger DEF new
      <3>7. Sublist(completer, open) = Sublist(order, open)
        <4>1. completer = Sublist(order, open) BY <2>2 DEF Lists
        <4>2. Sublist(Sublist(order, open), open) = Sublist(order, open \cap open)
          BY <2>1, SublistTwice
        <4> QED BY <4>1, <4>2
      <3>8. completer' = Sublist(order', open')
        BY <3>1, <3>4, <3>7
      <3> QED BY <2>2, <3>1, <3>3, <3>8 DEF Lists
    <2>3. CASE mode # "Casting"
      <3>1. UNCHANGED <<subject, open, order, turn, pc>>
        BY <1>1, <2>3 DEF Subscribe, lifetimes, control
      <3> QED BY <3>1 DEF Lists, subject
    <2> QED BY <2>2, <2>3
  <1>2. ASSUME NEW ts, Closing(ts), UNCHANGED <<mode, order>>,
               ToSet(turn') \subseteq ToSet(turn),
               pc' = "callback" \/ pc' = "dispatch" \/ (pc' = pc /\ turn' = turn),
               mode # "Casting" => open \ ts \subseteq ToSet(turn')
        PROVE  Lists'
    <2>1. /\ open' = open \ ts
          /\ completer' = IF mode' = "Casting" THEN Sublist(order', open') ELSE << >>
          /\ mode' # "Casting" => cached' = Expired
          /\ pc \in {"idle", "produce"} => cached' \in {Expired, completer'}
      BY <1>2, ClosingKeeps
    <2> QED BY <1>2, <2>1 DEF Lists
  <1>3. ASSUME NEW u \in Subscribers, Unsubscribe(u) PROVE Lists'
    <2>1. Closing(ToSet(TapsOf(u))) /\ UNCHANGED <<mode, order, turn, pc>>
      BY <1>3 DEF Unsubscribe, EndLifetime, log, control
    <2>2. mode # "Casting" => open \ ToSet(TapsOf(u)) \subseteq ToSet(turn')
      BY <2>1 DEF Lists
    <2> QED BY <1>2, <2>1, <2>2
  <1>4. CASE request_deregister
    BY <1>4 DEF request_deregister, Lists, subject, lifetimes, control, log
  <1>5. CASE Step
    BY <1>5 DEF Step, Lists, subject, lifetimes, log
  <1>6. CASE Emit
    <2>1. pc = "produce" /\ mode = "Casting" /\ UNCHANGED <<mode, completer, lifetimes, order>>
      BY <1>6 DEF Emit, Stage
    <2>2. turn' = completer /\ cached' = completer /\ pc' = "dispatch"
      BY <1>6, <2>1 DEF Emit, Lists
    <2>3. ToSet(completer) = ToSet(order) \cap open
      BY <2>1, SublistMembers DEF Lists, TypeOK
    <2> QED BY <2>1, <2>2, <2>3 DEF Lists, lifetimes
  <1>7. CASE EndProduce \/ Fail
    <2>1. pc = "produce" /\ mode = "Casting" /\ UNCHANGED <<open, order>>
      BY <1>7 DEF EndProduce, Fail, Ends, Stage, lifetimes, log
    <2>2. CASE UNCHANGED <<subject, turn>> /\ pc' = "idle"
      BY <2>1, <2>2 DEF Lists, subject
    <2>3. CASE mode' # "Casting" /\ turn' = completer /\ completer' = << >> /\ cached' = Expired /\ pc' = "dispatch"
      <3>1. ToSet(completer) = ToSet(order) \cap open
        BY <2>1, SublistMembers DEF Lists, TypeOK
      <3> QED BY <2>1, <2>3, <3>1 DEF Lists
    <2> QED BY <1>7, <2>2, <2>3 DEF EndProduce, Fail, Ends
  <1>8. ASSUME TakesEvent \/ EndTap \/ Skip
        PROVE  /\ pc = "dispatch"
               /\ ToSet(turn) = {Head(turn)} \cup ToSet(Tail(turn))
    BY <1>8, HeadAndTail DEF TypeOK, TakesEvent, EndTap, Skip
  <1>9. CASE Reject
    <2>1. turn' = Tail(turn) /\ UNCHANGED <<completer, cached, open, pc, mode, order>> /\ mode = "Casting"
      BY <1>9 DEF Reject, Sees, lifetimes, TakesEvent
    <2> QED BY <1>8, <1>9, <2>1 DEF Lists, Reject
  <1>10. CASE Accept
    <2>1. /\ turn' = Tail(turn) /\ UNCHANGED <<mode, order>> /\ mode = "Casting"
          /\ pc' = "callback"
      BY <1>10 DEF Accept, Sees, TakesEvent
    <2>2. \E ts : Closing(ts)
      BY <1>10 DEF Accept
    <2> QED BY <1>2, <1>8, <1>10, <2>1, <2>2 DEF Accept
  <1>11. CASE TimeOut
    <2>1. /\ turn' = Tail(turn) /\ UNCHANGED <<mode, order, pc>> /\ mode = "Casting"
          /\ Closing(ToSet(TapsOf(Owner(Head(turn))))) /\ TakesEvent
      BY <1>11 DEF TimeOut, Sees, TakesEvent, EndLifetime
    <2> QED BY <1>2, <1>8, <2>1
  <1>12. CASE Return \/ Throw
    <2>1. /\ pc = "callback" /\ pc' = "dispatch" /\ mode = "Casting"
          /\ UNCHANGED <<mode, order, turn>>
      BY <1>12 DEF Return, Throw, Stage, log
    <2>2. CASE Closing(ToSet(TapsOf(running)))
      BY <1>2, <2>1, <2>2
    <2>3. CASE UNCHANGED <<completer, cached, lifetimes>>
      BY <2>1, <2>3 DEF Lists, lifetimes
    <2> QED BY <1>12, <2>2, <2>3 DEF Return, Throw, EndLifetime
  <1>13. CASE Skip
    <2>1. /\ turn' = Tail(turn) /\ UNCHANGED <<completer, cached, open, pc, mode, order>>
          /\ Head(turn) \notin open
      BY <1>13 DEF Skip, subject, lifetimes, log
    <2> QED BY <1>8, <1>13, <2>1 DEF Lists
  <1>14. CASE EventDone
    BY <1>14 DEF EventDone, Lists, lifetimes, log
  <1>15. CASE EndTap
    <2>1. turn' = Tail(turn) /\ UNCHANGED <<mode, order, pc>> /\ mode # "Casting" /\ Head(turn) \in open
      BY <1>15 DEF EndTap, log
    <2>2. Head(turn) \in ToSet(TapsOf(Owner(Head(turn))))
      BY <2>1, TapFacts DEF TypeOK
    <2>3. PICK ts : Closing(ts) /\ Head(turn) \in ts
      BY <1>15, <2>2 DEF EndTap, EndLifetime
    <2>4. open \ ts \subseteq ToSet(turn')
      BY <1>8, <1>15, <2>1, <2>3 DEF Lists
    <2> QED BY <1>2, <1>8, <1>15, <2>1, <2>3, <2>4
  <1>16. CASE Finish
    <2>1. pc = "dispatch" /\ turn = << >> /\ mode # "Casting" /\ pc' = "idle"
      BY <1>16 DEF Finish
    <2> QED BY <1>16, <2>1 DEF Finish, Lists, subject, lifetimes, log
  <1>17. CASE UNCHANGED vars
    BY <1>17 DEF vars, Lists, subject, lifetimes, control, log
  <1> QED
    BY <1>1, <1>3, <1>4, <1>5, <1>6, <1>7, <1>9, <1>10, <1>11, <1>12, <1>13, <1>14,
       <1>15, <1>16, <1>17 DEF Next, Dispatch

(* The end of a lifetime closes all its taps.                              *)
LEMMA LifetimeEnds ==
  ASSUME IInv, NEW u \in Subscribers, EndLifetime(u), UNCHANGED <<mode, order>>,
         running' = running \/ (running' = Nobody /\ (running = u \/ running \notin First \cap live))
  PROVE  Lives'
  <1> USE DEF IInv
  <1>1. open' = open \ ToSet(TapsOf(u)) /\ live' = live \ {u}
    BY DEF EndLifetime, Closing
  <1>2. \A t \in open' : Owner(t) \in live'
    BY <1>1, TapFacts DEF Lives, TypeOK
  <1>3. ASSUME NEW v \in live'
        PROVE  (\E t \in open' : Owner(t) = v) \/ (running' = v /\ v \in First)
    <2>1. v \in live /\ v # u /\ v \in Subscribers
      BY <1>1 DEF TypeOK
    <2>2. ASSUME NEW t \in open, Owner(t) = v PROVE t \in open'
      BY <1>1, <2>1, <2>2, TapFacts
    <2>3. CASE running = v /\ v \in First
      BY <2>1, <2>3
    <2> QED BY <2>1, <2>2, <2>3 DEF Lives
  <1> QED BY <1>1, <1>2, <1>3 DEF Lives

LEMMA StepLives == IInv /\ [Next]_vars => Lives'
  <1> SUFFICES ASSUME IInv, [Next]_vars PROVE Lives'
    OBVIOUS
  <1> USE DEF IInv
  <1>1. ASSUME NEW u \in Subscribers, Subscribe(u) PROVE Lives'
    <2> DEFINE new == ToSet(TapsOf(u))
    <2>1. /\ TapsOf(u) \in Seq(Taps) /\ order \in Seq(Taps)
          /\ <<u, 1>> \in new /\ \A t \in new : Owner(t) = u
      BY TapFacts DEF TypeOK
    <2>2. CASE mode = "Casting"
      <3>1. /\ open' = open \cup new /\ live' = live \cup {u}
            /\ order' = order \o TapsOf(u) /\ UNCHANGED running
        BY <1>1, <2>2 DEF Subscribe, control
      <3>2. ToSet(order') = ToSet(order) \cup new
        BY <2>1, <3>1, SetOfConcat
      <3> HIDE DEF new
      <3>3. ASSUME NEW v \in live'
            PROVE  (\E t \in open' : Owner(t) = v) \/ (running' = v /\ v \in First)
        <4>1. v = u \/ v \in live BY <3>1
        <4>2. \E t \in open' : Owner(t) = u BY <2>1, <3>1
        <4>3. open \subseteq open' /\ running' = running BY <3>1
        <4> QED BY <4>1, <4>2, <4>3 DEF Lives
      <3> QED BY <2>1, <3>1, <3>2, <3>3 DEF Lives
    <2>3. CASE mode # "Casting"
      <3>1. UNCHANGED <<lifetimes, order, running>>
        BY <1>1, <2>3 DEF Subscribe, control
      <3> QED BY <3>1 DEF Lives, lifetimes
    <2> QED BY <2>2, <2>3
  <1>2. ASSUME NEW u \in Subscribers, Unsubscribe(u) PROVE Lives'
    <2>1. EndLifetime(u) /\ UNCHANGED <<mode, order, running>>
      BY <1>2 DEF Unsubscribe, log, control
    <2> QED BY <2>1, LifetimeEnds
  <1>3. CASE UNCHANGED <<open, live, order, running>>
    BY <1>3 DEF Lives
  <1>4. ASSUME TakesEvent \/ EndTap
        PROVE  /\ Head(turn) \in open /\ Head(turn) \in Taps /\ pc = "dispatch"
               /\ Owner(Head(turn)) \in Subscribers
               /\ Head(turn) \in ToSet(TapsOf(Owner(Head(turn))))
               /\ running = Nobody /\ \A u \in live : running # u
    <2>1. Head(turn) \in open /\ pc = "dispatch"
      BY <1>4 DEF TakesEvent, EndTap
    <2> QED BY <2>1, TapFacts, EventStreamAssumption DEF TypeOK, Stage, Subscribers
  <1>5. CASE Accept
    <2> DEFINE u == Owner(Head(turn))
    <2>1. /\ running' = u /\ UNCHANGED <<live, order>> /\ TakesEvent
          /\ open' = open \ (IF running' \in First THEN {Head(turn)} ELSE {})
      BY <1>5 DEF Accept, Sees, Closing
    <2>2. /\ Head(turn) \in open /\ u \in Subscribers /\ Head(turn) \in ToSet(TapsOf(u))
          /\ \A v \in live : running # v
      BY <1>4, <2>1
    <2> HIDE DEF u
    <2>3. ASSUME NEW v \in live'
          PROVE  (\E t \in open' : Owner(t) = v) \/ (running' = v /\ v \in First)
      <3>1. v \in live /\ \E t \in open : Owner(t) = v
        BY <2>1, <2>2 DEF Lives
      <3>2. CASE u \notin First
        BY <2>1, <3>1, <3>2
      <3>3. CASE u \in First /\ v # u
        <4>1. PICK t \in open : Owner(t) = v
          BY <3>1
        <4>2. t # Head(turn)
          BY <3>3, <4>1 DEF u
        <4> QED BY <2>1, <4>1, <4>2
      <3>4. CASE u \in First /\ v = u
        BY <2>1, <3>4
      <3> QED BY <3>2, <3>3, <3>4
    <2>4. open' \subseteq open
      BY <2>1
    <2> QED BY <2>1, <2>3, <2>4 DEF Lives
  <1>6. CASE TimeOut
    BY <1>4, <1>6, LifetimeEnds DEF TimeOut, Sees
  <1>7. CASE Return
    <2>1. CASE running \in First \cap live
      <3>1. EndLifetime(running) /\ running' = Nobody /\ UNCHANGED <<mode, order>>
        BY <1>7, <2>1 DEF Return, log
      <3>2. running \in Subscribers
        BY <2>1 DEF TypeOK
      <3> QED BY <3>1, <3>2, LifetimeEnds
    <2>2. CASE running \notin First \cap live
      <3>1. UNCHANGED <<lifetimes, order>> /\ running' = Nobody
        BY <1>7, <2>2 DEF Return, log
      <3> QED BY <2>2, <3>1 DEF Lives, lifetimes
    <2> QED BY <2>1, <2>2
  <1>8. CASE Throw
    <2>1. EndLifetime(running) /\ running' = Nobody /\ UNCHANGED <<mode, order>>
      BY <1>8 DEF Throw, log
    <2>2. running \in Subscribers
      BY <1>8 DEF Throw, TypeOK, Stage
    <2> QED BY <2>1, <2>2, LifetimeEnds
  <1>9. CASE EndTap
    <2> DEFINE u == Owner(Head(turn))
    <2>1. /\ Head(turn) \in open /\ u \in Subscribers /\ Head(turn) \in ToSet(TapsOf(u))
          /\ \A v \in live : running # v
      BY <1>4, <1>9
    <2>2. UNCHANGED <<mode, order, running>>
      BY <1>9 DEF EndTap, log
    <2>3. CASE ~(ToSet(TapsOf(u)) \cap open \subseteq {Head(turn)}) /\ live' = live /\ Closing({Head(turn)})
      <3>1. open' = open \ {Head(turn)} /\ live' = live
        BY <2>3 DEF Closing
      <3> HIDE DEF u
      <3>2. ASSUME NEW v \in live'
            PROVE  \E t \in open' : Owner(t) = v
        <4>1. v \in live /\ \E t \in open : Owner(t) = v
          BY <2>1, <3>1 DEF Lives
        <4>2. CASE v = u
          <5>1. PICK t \in ToSet(TapsOf(u)) : t \in open /\ t # Head(turn)
            BY <2>3
          <5> QED BY <2>1, <3>1, <4>2, <5>1, TapFacts
        <4>3. CASE v # u
          <5>1. PICK t \in open : Owner(t) = v
            BY <4>1
          <5>2. t # Head(turn)
            BY <4>3, <5>1 DEF u
          <5> QED BY <3>1, <5>1, <5>2
        <4> QED BY <4>2, <4>3
      <3> QED BY <2>2, <3>1, <3>2 DEF Lives
    <2>4. CASE EndLifetime(u)
      BY <2>1, <2>2, <2>4, LifetimeEnds
    <2> QED BY <1>9, <2>3, <2>4 DEF EndTap
  <1> QED
    BY <1>1, <1>2, <1>3, <1>5, <1>6, <1>7, <1>8, <1>9
    DEF Next, Dispatch, request_deregister, Step, Emit, EndProduce, Fail, Ends, Reject, Sees, Skip,
        EventDone, Finish, vars, lifetimes, control, log

(* Telling a subscriber that is gone afterwards tells it once.             *)
LEMMA TellsOnce ==
  ASSUME IInv, NEW u \in Subscribers, NEW what \in Kinds, Calls(u, what),
         ended[u] = << >>, live' \subseteq live \ {u},
         \A t \in Taps : seen[t] # << >> => seen'[t] # << >>,
         what = "completed" /\ u \in First => seen'[<<u, 1>>] # << >>,
         running' \in {Nobody} \cup ({running} \ {u})
  PROVE  Told'
  <1> USE DEF IInv
  <1>1. /\ ended'[u] = <<what>>
        /\ \A v \in Subscribers : v # u => ended'[v] = ended[v]
    BY DEF Calls, TypeOK
  <1>2. \A v \in Subscribers : <<v, 1>> \in Taps
    BY TapFacts
  <1>3. ASSUME NEW v \in Subscribers
        PROVE  /\ Len(ended'[v]) <= 1
               /\ ended'[v] # << >> => v \notin live'
               /\ v \in First /\ ended'[v] = <<"completed">> => seen'[<<v, 1>>] # << >>
    <2>1. CASE v = u BY <1>1, <2>1
    <2>2. CASE v # u BY <1>1, <1>2, <2>2 DEF Told
    <2> QED BY <2>1, <2>2
  <1>4. running' # Nobody => ended'[running'] = << >> /\ seen'[<<running', 1>>] # << >>
    BY <1>1, <1>2 DEF Told, TypeOK
  <1> QED BY <1>3, <1>4 DEF Told

LEMMA StepTold == IInv /\ [Next]_vars => Told'
  <1> SUFFICES ASSUME IInv, [Next]_vars PROVE Told'
    OBVIOUS
  <1> USE DEF IInv
  <1>1. ASSUME NEW u \in Subscribers, Subscribe(u) PROVE Told'
    <2>1. ended[u] = << >> /\ u \notin live /\ UNCHANGED <<running, seen, pc>>
      BY <1>1 DEF Subscribe, Used, Lives, control
    <2>2. CASE mode = "Casting"
      <3>1. UNCHANGED ended /\ live' = live \cup {u}
        BY <1>1, <2>2 DEF Subscribe
      <3> QED BY <2>1, <3>1 DEF Told
    <2>3. CASE mode # "Casting"
      <3>1. Calls(u, Outcome(u)) /\ UNCHANGED live
        BY <1>1, <2>3 DEF Subscribe, lifetimes
      <3>2. Outcome(u) \in Kinds /\ (u \in First => Outcome(u) = "error") /\ running = Nobody
        BY <2>3 DEF Outcome, Kinds, Stage
      <3>3. live' \subseteq live \ {u} /\ running' \in {Nobody} \cup ({running} \ {u})
            /\ (\A t \in Taps : seen[t] # << >> => seen'[t] # << >>)
            /\ (Outcome(u) = "completed" /\ u \in First => seen'[<<u, 1>>] # << >>)
        BY <2>1, <3>1, <3>2
      <3>4. Calls(u, Outcome(u)) /\ Outcome(u) \in Kinds /\ ended[u] = << >>
        BY <2>1, <3>1, <3>2
      <3> QED BY <3>3, <3>4, TellsOnce
    <2> QED BY <2>2, <2>3
  <1>2. CASE UNCHANGED <<ended, seen, running>> /\ live' \subseteq live
    BY <1>2 DEF Told
  <1>3. ASSUME TakesEvent \/ EndTap
        PROVE  /\ Head(turn) \in Taps /\ Owner(Head(turn)) \in Subscribers
               /\ Owner(Head(turn)) \in live /\ ended[Owner(Head(turn))] = << >>
               /\ running = Nobody /\ pc = "dispatch"
               /\ Head(turn)[2] = 1 => Head(turn) = <<Owner(Head(turn)), 1>>
    <2>1. Head(turn) \in open /\ pc = "dispatch"
      BY <1>3 DEF TakesEvent, EndTap
    <2> QED BY <2>1, TapFacts DEF TypeOK, Stage, Lives, Told
  <1>4. ASSUME TakesEvent, Sees(Head(turn))
        PROVE  /\ \A t \in Taps : seen[t] # << >> => seen'[t] # << >>
               /\ seen'[Head(turn)] # << >>
    <2> DEFINE x == Head(turn)
    <2>1. x \in Taps /\ seen' = [seen EXCEPT ![x] = Append(@, count)]
      BY <1>3, <1>4 DEF Sees
    <2> HIDE DEF x
    <2>2. seen[x] \in Seq(Nat) /\ count \in Nat /\ seen \in [Taps -> Seq(Nat)]
      BY <2>1 DEF TypeOK
    <2>3. Append(seen[x], count) # << >>
      BY <2>2, AppendProperties
    <2>4. \A t \in Taps : seen'[t] = IF t = x THEN Append(seen[x], count) ELSE seen[t]
      BY <2>1, <2>2
    <2>5. /\ \A t \in Taps : seen[t] # << >> => seen'[t] # << >>
          /\ seen'[x] # << >>
      <3>1. x \in Taps BY <2>1
      <3> QED BY <2>3, <2>4, <3>1
    <2> QED BY <2>5 DEF x
  <1>5. \A v \in Subscribers : <<v, 1>> \in Taps
    BY TapFacts
  <1>6. CASE Reject
    <2>1. TakesEvent /\ Sees(Head(turn)) /\ UNCHANGED <<live, running, ended>>
      BY <1>6 DEF Reject, lifetimes
    <2> QED BY <1>3, <1>4, <1>5, <2>1 DEF Told
  <1>7. CASE Accept
    <2>1. /\ TakesEvent /\ Sees(Head(turn)) /\ UNCHANGED <<live, ended>>
          /\ running' = Owner(Head(turn)) /\ Head(turn)[2] = 1
      BY <1>7 DEF Accept
    <2> QED BY <1>3, <1>4, <1>5, <2>1 DEF Told
  <1>8. CASE TimeOut
    <2>1. /\ TakesEvent /\ Sees(Head(turn)) /\ Calls(Owner(Head(turn)), "error")
          /\ live' = live \ {Owner(Head(turn))} /\ UNCHANGED running
      BY <1>8 DEF TimeOut, EndLifetime
    <2>2. "error" \in Kinds /\ live' \subseteq live \ {Owner(Head(turn))}
          /\ (\A t \in Taps : seen[t] # << >> => seen'[t] # << >>)
          /\ Owner(Head(turn)) \in Subscribers /\ ended[Owner(Head(turn))] = << >>
          /\ running' \in {Nobody} \cup ({running} \ {Owner(Head(turn))})
      BY <1>3, <1>4, <2>1 DEF Kinds
    <2>3. Calls(Owner(Head(turn)), "error") BY <2>1
    <2> QED BY <2>2, <2>3, TellsOnce
  <1>9. CASE Return
    <2>1. CASE running \in First \cap live
      <3>1. /\ Calls(running, "completed") /\ live' = live \ {running} /\ running' = Nobody
            /\ UNCHANGED seen
        BY <1>9, <2>1 DEF Return, EndLifetime, log
      <3>2. running \in Subscribers /\ running # Nobody
        BY <1>9, <2>1 DEF TypeOK, Return, Stage
      <3>3. ended[running] = << >> /\ seen[<<running, 1>>] # << >>
        BY <3>2 DEF Told
      <3>4. "completed" \in Kinds /\ live' \subseteq live \ {running}
            /\ (\A t \in Taps : seen[t] # << >> => seen'[t] # << >>)
            /\ seen'[<<running, 1>>] # << >>
            /\ running' \in {Nobody} \cup ({running} \ {running})
        BY <3>1, <3>3 DEF Kinds
      <3>5. Calls(running, "completed") BY <3>1
      <3> QED BY <3>2, <3>3, <3>4, <3>5, TellsOnce
    <2>2. CASE running \notin First \cap live
      <3>1. UNCHANGED <<live, ended, seen>> /\ running' = Nobody
        BY <1>9, <2>2 DEF Return, lifetimes, log
      <3> QED BY <3>1 DEF Told
    <2> QED BY <2>1, <2>2
  <1>10. CASE Throw
    <2>1. /\ Calls(running, "error") /\ live' = live \ {running} /\ running' = Nobody
          /\ UNCHANGED seen
      BY <1>10 DEF Throw, EndLifetime, log
    <2>2. running \in Subscribers /\ ended[running] = << >>
      BY <1>10 DEF TypeOK, Throw, Stage, Told
    <2>3. /\ "error" \in Kinds /\ live' \subseteq live \ {running}
          /\ \A t \in Taps : seen[t] # << >> => seen'[t] # << >>
          /\ running' \in {Nobody} \cup ({running} \ {running})
      BY <2>1 DEF Kinds
    <2>4. Calls(running, "error") BY <2>1
    <2> QED BY <2>2, <2>3, <2>4, TellsOnce
  <1>11. CASE EndTap
    <2> DEFINE u == Owner(Head(turn))
    <2>1. UNCHANGED <<running, seen>>
      BY <1>11 DEF EndTap, log
    <2>2. CASE UNCHANGED <<live, ended>>
      BY <2>1, <2>2 DEF Told
    <2>3. CASE Calls(u, Outcome(u)) /\ EndLifetime(u)
      <3>1. Outcome(u) \in Kinds /\ (u \in First => Outcome(u) = "error")
        BY DEF Outcome, Kinds
      <3>2. live' = live \ {u}
        BY <2>3 DEF EndLifetime
      <3>3. u \in Subscribers /\ u \in live /\ ended[u] = << >> /\ running = Nobody
        BY <1>3, <1>11
      <3> HIDE DEF u
      <3>4. live' \subseteq live \ {u} /\ running' \in {Nobody} \cup ({running} \ {u})
            /\ (\A t \in Taps : seen[t] # << >> => seen'[t] # << >>)
            /\ (Outcome(u) = "completed" /\ u \in First => seen'[<<u, 1>>] # << >>)
        BY <2>1, <3>1, <3>2, <3>3
      <3>5. Calls(u, Outcome(u)) /\ Outcome(u) \in Kinds /\ ended[u] = << >> /\ u \in Subscribers
        BY <2>3, <3>1, <3>3
      <3> QED BY <3>4, <3>5, TellsOnce
    <2> QED BY <1>11, <2>2, <2>3 DEF EndTap
  <1>12. ASSUME NEW u \in Subscribers, Unsubscribe(u) PROVE Told'
    BY <1>2, <1>12 DEF Unsubscribe, EndLifetime, log, control
  <1> QED
    BY <1>1, <1>2, <1>6, <1>7, <1>8, <1>9, <1>10, <1>11, <1>12
    DEF Next, Dispatch, request_deregister, Step, Emit, EndProduce, Fail, Ends, Skip,
        EventDone, Finish, vars, lifetimes, control, log

LEMMA StepIInv == IInv /\ [Next]_vars => IInv'
  BY StepTypeOK, StepLists, StepStage, StepLives, StepTold DEF IInv

(* The inductive invariant of the event stream (rx::holdon, rx::steppable  *)
(* and the subject).                                                       *)
THEOREM Invariance == Spec => []IInv
  BY StartIInv, StepIInv, PTL DEF Spec

LEMMA InvOneEnd == IInv => OneEnd
  <1> SUFFICES ASSUME IInv PROVE OneEnd
    OBVIOUS
  <1>1. ASSUME pc = "dispatch", mode # "Casting", NEW u \in live
        PROVE  \E i \in DOMAIN turn : Owner(turn[i]) = u
    <2>1. running = Nobody /\ u # Nobody
      BY <1>1, EventStreamAssumption DEF IInv, Stage, TypeOK, Subscribers
    <2>2. PICK t \in open : Owner(t) = u
      BY <1>1, <2>1 DEF IInv, Lives
    <2>3. t \in ToSet(turn)
      BY <1>1 DEF IInv, Lists
    <2> QED BY <2>2, <2>3 DEF ToSet
  <1> QED BY <1>1 DEF OneEnd, IInv, Told

(* No subscriber is told twice of its end or stays after it, and when the  *)
(* stream ends, every one that is alive will be told                       *)
(* (multicast_observer::on_completed and on_error, nextdetacher).          *)
THEOREM OneEndEach == Spec => []OneEnd
  BY Invariance, InvOneEnd, PTL

LEMMA InvNothingLeft == IInv => NothingLeftBehind
  <1> SUFFICES ASSUME IInv PROVE NothingLeftBehind
    OBVIOUS
  <1>1. pc = "idle" /\ mode = "Casting" => completer = Sublist(order, open)
    BY DEF IInv, Lists
  <1>2. ASSUME NEW u \in live PROVE ToSet(TapsOf(u)) \cap open # {} \/ running = u
    <2>1. ASSUME NEW t \in open, Owner(t) = u PROVE t \in ToSet(TapsOf(u))
      BY <2>1, TapFacts DEF IInv, TypeOK
    <2> QED BY <2>1 DEF IInv, Lives
  <1>3. \A t \in open : Owner(t) \in live
    BY DEF IInv, Lives
  <1>4. connection = nested /\ nested = (hooks = 1) /\ hooks <= 1 /\ (pc = "idle" => (cs <=> mode = "Casting"))
    BY DEF IInv, Stage, TypeOK
  <1>5. ASSUME pc = "idle", mode # "Casting" PROVE open = {} /\ live = {}
    <2>1. open = {}
      BY <1>5, SetOfEmpty DEF IInv, Lists
    <2>2. \A u \in live : running # u
      BY <1>5, EventStreamAssumption DEF IInv, Stage, TypeOK, Subscribers
    <2> QED BY <2>1, <2>2 DEF IInv, Lives
  <1> QED BY <1>1, <1>2, <1>3, <1>4, <1>5 DEF NothingLeftBehind

(* What has unsubscribed or ended is in no list of the subject, and step() *)
(* leaves one connection behind (binder_type, composite_subscription,      *)
(* steppable::on_connect).                                                 *)
THEOREM NothingStays == Spec => []NothingLeftBehind
  BY Invariance, InvNothingLeft, PTL

-----------------------------------------------------------------------------
(* The refinement: who is on the stream, and who has still to be given the *)
(* event, oldest first.                                                    *)
Members == Sublist(order, open)
Waiting == IF mode = "Casting" THEN Sublist(turn, open) ELSE << >>

LEMMA SameOperators ==
  /\ \A s, S : Promise!Sublist(s, S) = Sublist(s, S)
  /\ \A s : Promise!ToSet(s) = ToSet(s)
  BY DEF Promise!Sublist, Sublist, Promise!ToSet, ToSet

(* Leaving, as the promise says it and as the lists do.                    *)
LEMMA WithoutIs ==
  ASSUME NEW s \in Seq(Taps), NEW S, NEW gone
  PROVE  Promise!Without(Sublist(s, S), gone) = Sublist(s, S \ gone)
  <1> DEFINE p == Sublist(s, S)
  <1>1. ToSet(p) = ToSet(s) \cap S
    BY SublistMembers
  <1>2. Promise!Without(p, gone) = Sublist(p, ToSet(p) \ gone)
    BY SameOperators DEF Promise!Without
  <1>3. Sublist(p, ToSet(p) \ gone) = Sublist(s, S \cap (ToSet(p) \ gone))
    BY SublistTwice
  <1> HIDE DEF p
  <1>4. ToSet(s) \cap (S \cap (ToSet(p) \ gone)) = ToSet(s) \cap (S \ gone)
    BY <1>1
  <1>5. Sublist(s, S \cap (ToSet(p) \ gone)) = Sublist(s, S \ gone)
    BY <1>4, SublistSame
  <1> QED BY <1>2, <1>3, <1>5 DEF p

LEMMA MembersAre == IInv => Members \in Seq(Taps) /\ ToSet(Members) = open
  <1> SUFFICES ASSUME IInv PROVE Members \in Seq(Taps) /\ ToSet(Members) = open
    OBVIOUS
  <1>1. order \in Seq(Taps) /\ open \subseteq ToSet(order)
    BY DEF IInv, TypeOK, Lists
  <1>2. Sublist(order, open) \in Seq(Taps) /\ ToSet(Sublist(order, open)) = ToSet(order) \cap open
    BY <1>1, SublistType, SublistMembers
  <1> QED BY <1>1, <1>2 DEF Members

(* Each step is one of the promise, or none.                               *)
promised == <<Members, Waiting, count, seen>>

(* A subscriber joins at the end, and waits for nothing,                   *)
LEMMA JoinSteps ==
  ASSUME IInv, NEW u \in Subscribers, Subscribe(u)
  PROVE  Promise!Join \/ UNCHANGED promised
  <1> USE DEF IInv
  <1>0. /\ TapsOf(u) \in Seq(Taps) /\ order \in Seq(Taps) /\ turn \in Seq(Taps)
        /\ UNCHANGED <<count, seen, turn>>
    BY TapFacts DEF Subscribe, TypeOK, control
  <1>1. CASE mode # "Casting"
    <2>1. UNCHANGED <<mode, open, order>>
      BY <1>1 DEF Subscribe, subject, lifetimes
    <2> QED BY <1>0, <2>1 DEF promised, Members, Waiting
  <1>2. CASE mode = "Casting"
    <2> DEFINE new == ToSet(TapsOf(u))
    <2>1. /\ open' = open \cup new /\ order' = order \o TapsOf(u) /\ mode' = mode
      BY <1>2 DEF Subscribe
    <2>2. new \cap ToSet(order) = {}
      <3>1. <<u, 1>> \notin ToSet(order)
        BY DEF Subscribe, Used
      <3>2. \A t \in new : t \in Taps /\ Owner(t) = u
        BY TapFacts
      <3> QED BY <3>1, <3>2 DEF Lives
    <2>3. new \cap ToSet(Members) = {}
      BY <2>2, MembersAre DEF Lists
    <2>4. Members' = Members \o TapsOf(u)
      <3>1. Sublist(order \o TapsOf(u), open \cup new) = Sublist(order, open) \o TapsOf(u)
        BY <1>0, <2>2, SublistOfLonger
      <3> QED BY <2>1, <3>1 DEF Members
    <2>5. Waiting' = Waiting
      <3>1. ToSet(turn) \cap open' = ToSet(turn) \cap open
        BY <2>1, <2>2 DEF Lists
      <3>2. Sublist(turn, open') = Sublist(turn, open)
        BY <1>0, <3>1, SublistSame
      <3> QED BY <1>0, <2>1, <3>2 DEF Waiting
    <2>6. Promise!Join
      BY <1>0, <2>3, <2>4, <2>5, SameOperators DEF Promise!Join, Members, Waiting
    <2> QED BY <2>6
  <1> QED BY <1>1, <1>2

(* what is closed leaves, and is passed over if it had its turn to come,   *)
LEMMA LeaveSteps ==
  ASSUME IInv, UNCHANGED <<mode, order, count, seen>>, open' \subseteq open,
         mode = "Casting" => turn' = turn
  PROVE  Promise!Leave
  <1> USE DEF IInv
  <1> DEFINE gone == open \ open'
  <1>1. gone \in SUBSET ToSet(Members)
    BY MembersAre
  <1>2. order \in Seq(Taps) /\ turn \in Seq(Taps) /\ open \ gone = open'
    BY DEF TypeOK
  <1> HIDE DEF gone
  <1>3. Members' = Promise!Without(Members, gone)
    BY <1>2, WithoutIs DEF Members
  <1>4. Waiting' = Promise!Without(Waiting, gone)
    <2>1. CASE mode = "Casting"
      BY <1>2, <2>1, WithoutIs DEF Waiting
    <2>2. CASE mode # "Casting"
      <3>1. Promise!Without(<< >>, gone) = << >>
        BY SameOperators, SublistEmpty DEF Promise!Without
      <3> QED BY <2>2, <3>1 DEF Waiting
    <2> QED BY <2>1, <2>2
  <1> QED BY <1>1, <1>3, <1>4, SameOperators DEF Promise!Leave, Members, Waiting

(* the first in line sees the event, whatever its handler closes,          *)
LEMMA SeeSteps ==
  ASSUME IInv, TakesEvent, Sees(Head(turn)), open' \subseteq open
  PROVE  Promise!See
  <1> USE DEF IInv
  <1> DEFINE gone == open \ open'
             t == Head(turn)
             r == Tail(turn)
  <1>1. gone \in SUBSET ToSet(Members)
    BY MembersAre
  <1>2. /\ order \in Seq(Taps) /\ turn \in Seq(Taps) /\ open \ gone = open'
        /\ turn # << >> /\ mode = "Casting" /\ t \in open
    BY DEF TypeOK, TakesEvent
  <1>3. /\ r \in Seq(Taps) /\ t \in Taps
        /\ Sublist(turn, open) = <<t>> \o Sublist(r, open)
    BY <1>2, HeadAndTail
  <1>4. /\ mode' = "Casting" /\ turn' = r /\ UNCHANGED <<order, count>>
        /\ seen' = [seen EXCEPT ![t] = Append(@, count)]
    BY <1>2 DEF Sees
  <1> HIDE DEF gone, t, r
  <1>5. Members' = Promise!Without(Members, gone)
    BY <1>2, <1>4, WithoutIs DEF Members
  <1>6. Waiting # << >> /\ Head(Waiting) = t /\ Tail(Waiting) = Sublist(r, open)
    <2>1. Waiting = <<t>> \o Sublist(r, open)
      BY <1>2, <1>3 DEF Waiting
    <2>2. Sublist(r, open) \in Seq(Taps)
      BY <1>3, SublistType
    <2> QED BY <1>3, <2>1, <2>2
  <1>7. Waiting' = Promise!Without(Tail(Waiting), gone)
    <2>1. Promise!Without(Sublist(r, open), gone) = Sublist(r, open')
      BY <1>2, <1>3, WithoutIs
    <2> QED BY <1>4, <1>6, <2>1 DEF Waiting
  <1> QED BY <1>1, <1>4, <1>5, <1>6, <1>7, SameOperators DEF Promise!See, Members, Waiting

(* and an event is given to those on the stream, for the cached list is    *)
(* that of the subject.                                                    *)
LEMMA PublishStep == IInv /\ Emit => Promise!Publish
  <1> SUFFICES ASSUME IInv, Emit PROVE Promise!Publish
    OBVIOUS
  <1> USE DEF IInv
  <1>1. /\ pc = "produce" /\ mode = "Casting" /\ turn = << >> /\ completer = Sublist(order, open)
        /\ UNCHANGED <<mode, open, order, seen>> /\ count' = count + 1
    BY DEF Emit, Stage, Lists, lifetimes
  <1>2. turn' = Members
    BY <1>1 DEF Emit, Lists, Members
  <1>3. Members \in Seq(Taps) /\ ToSet(Members) = open
    BY MembersAre
  <1>4. Members' = Members
    BY <1>1 DEF Members
  <1> HIDE DEF IInv
  <1>5. Sublist(Members, open) = Members
    BY <1>3, SublistAll
  <1>6. Waiting = << >>
    BY <1>1, SublistEmpty DEF Waiting
  <1>7. Waiting' = Members
    BY <1>1, <1>2, <1>5 DEF Waiting
  <1> QED BY <1>1, <1>4, <1>6, <1>7 DEF Promise!Publish, Members, Waiting

LEMMA StepsAsPromised ==
  IInv /\ [Next]_vars => Promise!Next \/ UNCHANGED promised
  <1> SUFFICES ASSUME IInv, [Next]_vars PROVE Promise!Next \/ UNCHANGED promised
    OBVIOUS
  <1> USE DEF Promise!Next
  <1>1. ASSUME NEW u \in Subscribers, Subscribe(u) PROVE Promise!Next \/ UNCHANGED promised
    BY <1>1, JoinSteps
  <1>2. ASSUME NEW u \in Subscribers, Unsubscribe(u) PROVE Promise!Next
    <2>1. open' \subseteq open /\ UNCHANGED <<mode, order, count, seen, turn>>
      BY <1>2 DEF Unsubscribe, EndLifetime, Closing, log, control
    <2> QED BY <2>1, LeaveSteps
  <1>3. CASE UNCHANGED <<mode, order, open, turn, count, seen>>
    BY <1>3 DEF promised, Members, Waiting
  <1>4. CASE Emit
    BY <1>4, PublishStep
  <1>5. ASSUME NEW how \in {"Completed", "Errored"}, Ends(how), pc = "produce"
        PROVE  UNCHANGED promised
    <2>1. mode' # "Casting" /\ UNCHANGED <<order, open, count, seen>>
      BY <1>5 DEF Ends, lifetimes, log
    <2>2. Waiting = << >> /\ Waiting' = << >>
      BY <1>5, <2>1, SublistEmpty DEF Waiting, IInv, Lists
    <2> QED BY <2>1, <2>2 DEF promised, Members
  <1>6. CASE EndProduce \/ Fail
    BY <1>3, <1>5, <1>6 DEF EndProduce, Fail, subject, lifetimes, log
  <1>7. CASE Reject \/ Accept \/ TimeOut
    <2>1. TakesEvent /\ Sees(Head(turn)) /\ open' \subseteq open
      BY <1>7 DEF Reject, Accept, TimeOut, EndLifetime, Closing, lifetimes
    <2> QED BY <2>1, SeeSteps
  <1>8. CASE Return \/ Throw
    <2>1. open' \subseteq open /\ UNCHANGED <<mode, order, count, seen, turn>>
      BY <1>8 DEF Return, Throw, EndLifetime, Closing, lifetimes, log
    <2> QED BY <2>1, LeaveSteps
  <1>9. CASE Skip
    <2>1. turn # << >> /\ Head(turn) \notin open /\ turn' = Tail(turn)
          /\ UNCHANGED <<mode, order, open, count, seen>>
      BY <1>9 DEF Skip, subject, lifetimes, log
    <2>2. turn \in Seq(Taps)
      BY DEF IInv, TypeOK
    <2>3. Sublist(turn, open) = Sublist(Tail(turn), open)
      BY <2>1, <2>2, HeadAndTail
    <2> QED BY <2>1, <2>3 DEF promised, Members, Waiting
  <1>10. CASE EndTap
    <2>1. open' \subseteq open /\ UNCHANGED <<mode, order, count, seen>> /\ mode # "Casting"
      BY <1>10 DEF EndTap, EndLifetime, Closing, log
    <2> QED BY <2>1, LeaveSteps
  <1> QED
    BY <1>1, <1>2, <1>3, <1>4, <1>6, <1>7, <1>8, <1>9, <1>10
    DEF Next, Dispatch, request_deregister, Step, EventDone, Finish, vars,
        subject, lifetimes, control, log

LEMMA BeginsAsPromised == Init => Promise!Init
  <1> SUFFICES ASSUME Init PROVE Promise!Init
    OBVIOUS
  <1>1. Sublist(order, open) = << >> /\ Sublist(turn, open) = << >>
    BY SublistEmpty DEF Init
  <1> QED BY <1>1 DEF Init, Promise!Init

(* The subject, its lists and its weak pointer implement the broadcast: an *)
(* event goes to the taps that were on the stream when it was published    *)
(* and still are, each once, oldest first (rx-subject.hpp,                 *)
(* multicast_observer::on_next).                                           *)
THEOREM Refinement == Spec => ImplementsBroadcast
  <1>1. Init => Promise!Init
    BY BeginsAsPromised
  <1>2. IInv /\ [Next]_vars => [Promise!Next]_(Promise!vars)
    BY StepsAsPromised DEF promised, Members, Waiting, Promise!vars
  <1> QED
    BY <1>1, <1>2, Invariance, PTL DEF Spec, ImplementsBroadcast, Promise!Spec
====================================================================================
