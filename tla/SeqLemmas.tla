----------------------------- MODULE SeqLemmas ------------------------------
(***************************************************************************)
(* Facts about the sequences the histories of this project are made of:    *)
(* moving an item from one queue to the next, prefixes, elements; and      *)
(* about the totals of the tables their counters are kept in.              *)
(***************************************************************************)
EXTENDS Integers, Sequences, SequencesExt, SequenceTheorems, WellFoundedInduction,
        FiniteSetTheorems, Subsequences, Tables, TLAPS

(* Appending to the second of two sequences appends to their               *)
(* concatenation: a send at the end of a queue.                            *)
LEMMA ConcatAppend ==
    ASSUME NEW S, NEW s \in Seq(S), NEW t \in Seq(S), NEW x \in S
    PROVE  s \o Append(t, x) = Append(s \o t, x)
<1>1. /\ s \o t \in Seq(S)
      /\ Len(s \o t) = Len(s) + Len(t)
      /\ \A i \in 1 .. Len(s) + Len(t) :
            (s \o t)[i] = IF i <= Len(s) THEN s[i] ELSE t[i - Len(s)]
  BY ConcatProperties
<1>2. /\ Append(t, x) \in Seq(S)
      /\ Len(Append(t, x)) = Len(t) + 1
      /\ \A i \in 1 .. Len(t) : Append(t, x)[i] = t[i]
      /\ Append(t, x)[Len(t) + 1] = x
  BY AppendProperties
<1> DEFINE u == Append(t, x)
<1>3. /\ s \o u \in Seq(S)
      /\ Len(s \o u) = Len(s) + Len(u)
      /\ \A i \in 1 .. Len(s) + Len(u) :
            (s \o u)[i] = IF i <= Len(s) THEN s[i] ELSE u[i - Len(s)]
  BY <1>2, ConcatProperties
<1> DEFINE v == Append(s \o t, x)
<1>4. /\ v \in Seq(S)
      /\ Len(v) = Len(s \o t) + 1
      /\ \A i \in 1 .. Len(s \o t) : v[i] = (s \o t)[i]
      /\ v[Len(s \o t) + 1] = x
  BY <1>1, AppendProperties
<1>5. Len(s) \in Nat /\ Len(t) \in Nat
  BY LenProperties
<1>6. Len(v) = Len(s \o u)
  BY <1>1, <1>2, <1>3, <1>4, <1>5
<1>7. ASSUME NEW i \in 1 .. Len(v) PROVE v[i] = (s \o u)[i]
  <2>1. CASE i <= Len(s)
    BY <2>1, <1>1, <1>2, <1>3, <1>4, <1>5
  <2>2. CASE i > Len(s) /\ i <= Len(s) + Len(t)
    <3>1. i - Len(s) \in 1 .. Len(t)
      BY <2>2, <1>1, <1>4, <1>5
    <3> QED
      BY <3>1, <2>2, <1>1, <1>2, <1>3, <1>4, <1>5
  <2>3. CASE i = Len(s) + Len(t) + 1
    BY <2>3, <1>1, <1>2, <1>3, <1>4, <1>5
  <2> QED
    BY <2>1, <2>2, <2>3, <1>1, <1>4, <1>5
<1> HIDE DEF u, v
<1>8. v = s \o u
  BY <1>3, <1>4, <1>6, <1>7, SeqEqual
<1> QED
  BY <1>8 DEF u, v

(* Moving the head of the second sequence to the end of the first does not *)
(* change their concatenation: a receive.                                  *)
LEMMA MoveHead ==
    ASSUME NEW S, NEW s \in Seq(S), NEW t \in Seq(S), t # << >>
    PROVE  Append(s, Head(t)) \o Tail(t) = s \o t
<1>1. Head(t) \in S /\ Tail(t) \in Seq(S)
  BY HeadTailProperties
<1>2. t = <<Head(t)>> \o Tail(t)
  <2> DEFINE h == <<Head(t)>>
  <2>1. h \in Seq(S) /\ Len(h) = 1 /\ h[1] = Head(t)
    BY <1>1
  <2>2. /\ h \o Tail(t) \in Seq(S)
        /\ Len(h \o Tail(t)) = 1 + Len(Tail(t))
        /\ \A i \in 1 .. 1 + Len(Tail(t)) :
              (h \o Tail(t))[i] = IF i <= 1 THEN h[i] ELSE Tail(t)[i - 1]
    BY <1>1, <2>1, ConcatProperties
  <2>3. /\ Len(Tail(t)) = Len(t) - 1
        /\ \A i \in 1 .. Len(Tail(t)) : Tail(t)[i] = t[i + 1]
        /\ Len(t) \in Nat \ {0}
    BY HeadTailProperties, EmptySeq
  <2>4. Head(t) = t[1]
    OBVIOUS
  <2>5. ASSUME NEW i \in 1 .. Len(t) PROVE t[i] = (h \o Tail(t))[i]
    <3>1. CASE i = 1
      BY <3>1, <2>1, <2>2, <2>3, <2>4
    <3>2. CASE i # 1
      <4>1. i - 1 \in 1 .. Len(Tail(t)) /\ (i - 1) + 1 = i
        BY <3>2, <2>3
      <4>2. Tail(t)[i - 1] = t[i]
        BY <4>1, <2>3
      <4> QED
        BY <4>1, <4>2, <3>2, <2>2, <2>3
    <3> QED
      BY <3>1, <3>2
  <2>6. Len(t) = Len(h \o Tail(t))
    BY <2>2, <2>3
  <2> QED
    BY <2>2, <2>5, <2>6, SeqEqual
<1>3. <<Head(t)>> \in Seq(S)
  BY <1>1
<1>4. Append(s, Head(t)) = s \o <<Head(t)>>
  BY <1>1, AppendIsConcat
<1>5. (s \o <<Head(t)>>) \o Tail(t) = s \o (<<Head(t)>> \o Tail(t))
  BY <1>1, <1>3, ConcatAssociative
<1> QED
  BY <1>2, <1>4, <1>5

(* A sequence is a prefix of what it is extended to.                       *)
LEMMA PrefixOfConcat ==
    ASSUME NEW S, NEW s \in Seq(S), NEW t \in Seq(S)
    PROVE  IsPrefix(s, s \o t)
<1>1. /\ s \o t \in Seq(S)
      /\ Len(s \o t) = Len(s) + Len(t)
      /\ \A i \in 1 .. Len(s) + Len(t) :
            (s \o t)[i] = IF i <= Len(s) THEN s[i] ELSE t[i - Len(s)]
  BY ConcatProperties
<1>2. Len(s) \in Nat /\ Len(t) \in Nat
  BY LenProperties
<1>3. \A i \in 1 .. Len(s) : (s \o t)[i] \in S /\ s[i] \in S
  BY <1>1, <1>2, ElementOfSeq
<1> DEFINE a == SubSeq(s, 1, Len(s))
           b == SubSeq(s \o t, 1, Len(s))
<1>4. /\ a \in Seq(S)
      /\ Len(a) = IF 1 <= Len(s) THEN Len(s) - 1 + 1 ELSE 0
      /\ \A i \in 1 .. Len(s) - 1 + 1 : a[i] = s[1 + i - 1]
  BY <1>2, <1>3, SubSeqProperties
<1>5. /\ b \in Seq(S)
      /\ Len(b) = IF 1 <= Len(s) THEN Len(s) - 1 + 1 ELSE 0
      /\ \A i \in 1 .. Len(s) - 1 + 1 : b[i] = (s \o t)[1 + i - 1]
  BY <1>2, <1>3, SubSeqProperties
<1>6. Len(a) = Len(b)
  BY <1>4, <1>5
<1>7. ASSUME NEW i \in 1 .. Len(a) PROVE a[i] = b[i]
  <2>1. i \in 1 .. Len(s) /\ i \in 1 .. Len(s) - 1 + 1 /\ 1 + i - 1 = i
    BY <1>2, <1>4
  <2> QED
    BY <2>1, <1>1, <1>2, <1>4, <1>5
<1> HIDE DEF a, b
<1>8. a = b
  BY <1>4, <1>5, <1>6, <1>7, SeqEqual
<1> QED
  BY <1>1, <1>2, <1>8 DEF a, b, IsPrefix

(* A sequence is a prefix of itself with one more element.                 *)
LEMMA PrefixOfAppend ==
    ASSUME NEW S, NEW s \in Seq(S), NEW x \in S
    PROVE  IsPrefix(s, Append(s, x))
<1>1. <<x>> \in Seq(S)
  OBVIOUS
<1> QED
  BY <1>1, AppendIsConcat, PrefixOfConcat

(* A sequence is a prefix of itself.                                       *)
LEMMA PrefixReflexive ==
    ASSUME NEW S, NEW s \in Seq(S)
    PROVE  IsPrefix(s, s)
BY LenProperties DEF IsPrefix

(* The elements of a sequence after an append.                             *)
LEMMA ToSetAppend ==
    ASSUME NEW S, NEW s \in Seq(S), NEW x \in S
    PROVE  ToSet(Append(s, x)) = ToSet(s) \cup {x}
<1> DEFINE u == Append(s, x)
<1>1. /\ u \in Seq(S)
      /\ Len(u) = Len(s) + 1
      /\ \A i \in 1 .. Len(s) : u[i] = s[i]
      /\ u[Len(s) + 1] = x
  BY AppendProperties
<1>2. /\ DOMAIN s = 1 .. Len(s)
      /\ DOMAIN u = 1 .. Len(u)
      /\ Len(s) \in Nat
  BY <1>1, LenProperties
<1> HIDE DEF u
<1>3. ASSUME NEW e \in ToSet(u) PROVE e \in ToSet(s) \cup {x}
  <2>1. PICK i \in 1 .. Len(s) + 1 : e = u[i]
    BY <1>1, <1>2 DEF ToSet
  <2>2. CASE i = Len(s) + 1
    BY <2>1, <2>2, <1>1
  <2>3. CASE i \in 1 .. Len(s)
    BY <2>1, <2>3, <1>1, <1>2 DEF ToSet
  <2> QED
    BY <2>2, <2>3, <1>2
<1>4. ASSUME NEW e \in ToSet(s) \cup {x} PROVE e \in ToSet(u)
  <2>1. CASE e \in ToSet(s)
    <3>1. PICK i \in 1 .. Len(s) : e = s[i]
      BY <2>1, <1>2 DEF ToSet
    <3>2. i \in DOMAIN u /\ u[i] = e
      BY <3>1, <1>1, <1>2
    <3> QED
      BY <3>2 DEF ToSet
  <2>2. CASE e = x
    <3>1. Len(s) + 1 \in DOMAIN u /\ u[Len(s) + 1] = e
      BY <2>2, <1>1, <1>2
    <3> QED
      BY <3>1 DEF ToSet
  <2> QED
    BY <2>1, <2>2
<1> QED
  BY <1>3, <1>4 DEF u

(* The elements of two sequences put one after the other.                  *)
LEMMA ToSetConcat ==
    ASSUME NEW S, NEW s \in Seq(S), NEW t \in Seq(S)
    PROVE  ToSet(s \o t) = ToSet(s) \cup ToSet(t)
<1>1. /\ s \o t \in Seq(S)
      /\ Len(s \o t) = Len(s) + Len(t)
      /\ \A i \in 1 .. Len(s) + Len(t) :
            (s \o t)[i] = IF i <= Len(s) THEN s[i] ELSE t[i - Len(s)]
  BY ConcatProperties
<1>2. /\ DOMAIN s = 1 .. Len(s) /\ Len(s) \in Nat
      /\ DOMAIN t = 1 .. Len(t) /\ Len(t) \in Nat
      /\ DOMAIN (s \o t) = 1 .. Len(s) + Len(t)
  BY <1>1, LenProperties
<1>3. ASSUME NEW i \in DOMAIN (s \o t)
      PROVE  (s \o t)[i] \in ToSet(s) \cup ToSet(t)
  <2>1. CASE i <= Len(s)
    BY <1>1, <1>2, <1>3, <2>1 DEF ToSet
  <2>2. CASE i > Len(s)
    <3>1. i - Len(s) \in DOMAIN t /\ (s \o t)[i] = t[i - Len(s)]
      BY <1>1, <1>2, <1>3, <2>2
    <3> QED
      BY <3>1 DEF ToSet
  <2> QED
    BY <1>2, <2>1, <2>2
<1>4. ASSUME NEW i \in DOMAIN s PROVE s[i] \in ToSet(s \o t)
  <2>1. i \in DOMAIN (s \o t) /\ (s \o t)[i] = s[i]
    BY <1>1, <1>2
  <2> QED
    BY <2>1 DEF ToSet
<1>5. ASSUME NEW i \in DOMAIN t PROVE t[i] \in ToSet(s \o t)
  <2>1. i + Len(s) \in DOMAIN (s \o t) /\ (s \o t)[i + Len(s)] = t[i]
    BY <1>1, <1>2
  <2> QED
    BY <2>1 DEF ToSet
<1> QED
  BY <1>3, <1>4, <1>5 DEF ToSet

(* A sequence without repetition stays so when a new element is appended.  *)
LEMMA InjectiveAppend ==
    ASSUME NEW S, NEW s \in Seq(S), NEW x \in S,
           IsInjective(s), x \notin ToSet(s)
    PROVE  IsInjective(Append(s, x))
<1> DEFINE u == Append(s, x)
<1>1. /\ u \in Seq(S)
      /\ Len(u) = Len(s) + 1
      /\ \A i \in 1 .. Len(s) : u[i] = s[i]
      /\ u[Len(s) + 1] = x
  BY AppendProperties
<1>2. /\ DOMAIN s = 1 .. Len(s)
      /\ DOMAIN u = 1 .. Len(u)
      /\ Len(s) \in Nat
  BY <1>1, LenProperties
<1>3. \A i \in 1 .. Len(s) : s[i] # x
  BY <1>2 DEF ToSet
<1>4. \A i, j \in 1 .. Len(s) : s[i] = s[j] => i = j
  BY <1>2 DEF IsInjective
<1> HIDE DEF u
<1>5. ASSUME NEW i \in DOMAIN u, NEW j \in DOMAIN u, u[i] = u[j] PROVE i = j
  <2>1. i \in 1 .. Len(s) \/ i = Len(s) + 1
    BY <1>1, <1>2
  <2>2. j \in 1 .. Len(s) \/ j = Len(s) + 1
    BY <1>1, <1>2
  <2> QED
    BY <2>1, <2>2, <1>1, <1>3, <1>4, <1>5
<1> QED
  BY <1>5 DEF u, IsInjective

(* A sequence that is not empty is its front with its last element.        *)
LEMMA FrontAndLast ==
    ASSUME NEW S, NEW s \in Seq(S), s # << >>
    PROVE  /\ Front(s) \in Seq(S) /\ Last(s) \in S
           /\ Len(Front(s)) = Len(s) - 1
           /\ s = Append(Front(s), Last(s))
<1> DEFINE n == Len(s)
           f == SubSeq(s, 1, n - 1)
<1>1. n \in Nat \ {0} /\ \A i \in 1 .. n : s[i] \in S
  BY LenProperties, EmptySeq, ElementOfSeq
<1> HIDE DEF n
<1>2. \A i \in 1 .. n - 1 : s[i] \in S
  BY <1>1
<1>3. /\ f \in Seq(S)
      /\ Len(f) = IF 1 <= n - 1 THEN (n - 1) - 1 + 1 ELSE 0
      /\ \A i \in 1 .. (n - 1) - 1 + 1 : f[i] = s[1 + i - 1]
  BY <1>1, <1>2, SubSeqProperties
<1> HIDE DEF f
<1>4. Len(f) = n - 1 /\ \A i \in 1 .. n - 1 : f[i] = s[i]
  <2>1. Len(f) = n - 1 /\ (n - 1) - 1 + 1 = n - 1
    BY <1>1, <1>3
  <2>2. \A i \in 1 .. n - 1 : f[i] = s[1 + i - 1] /\ 1 + i - 1 = i
    BY <1>1, <1>3, <2>1
  <2> QED
    BY <2>1, <2>2
<1> DEFINE u == Append(f, s[n])
<1>5. /\ s[n] \in S
      /\ u \in Seq(S) /\ Len(u) = n
      /\ \A i \in 1 .. n - 1 : u[i] = f[i]
      /\ u[n] = s[n]
  <2>1. s[n] \in S
    BY <1>1
  <2>2. /\ u \in Seq(S) /\ Len(u) = Len(f) + 1
        /\ \A i \in 1 .. Len(f) : u[i] = f[i]
        /\ u[Len(f) + 1] = s[n]
    BY <1>3, <2>1, AppendProperties
  <2>3. Len(f) + 1 = n
    BY <1>1, <1>4
  <2> QED
    BY <1>4, <2>1, <2>2, <2>3
<1> HIDE DEF u
<1>6. \A i \in 1 .. n : u[i] = s[i]
  BY <1>1, <1>4, <1>5
<1>7. u = s
  BY <1>5, <1>6, SeqEqual DEF n
<1> QED
  BY <1>3, <1>4, <1>5, <1>7 DEF n, f, u, Front, Last

(* Taking the last element off again.                                      *)
LEMMA FrontOfAppend ==
    ASSUME NEW S, NEW s \in Seq(S), NEW x \in S
    PROVE  Front(Append(s, x)) = s /\ Last(Append(s, x)) = x /\ Append(s, x) # << >>
<1> DEFINE u == Append(s, x)
<1>1. /\ u \in Seq(S) /\ Len(u) = Len(s) + 1
      /\ u[Len(s) + 1] = x
      /\ u # << >>
  BY AppendProperties, LenProperties, EmptySeq
<1> HIDE DEF u
<1>2. /\ Front(u) \in Seq(S) /\ Last(u) \in S
      /\ u = Append(Front(u), Last(u))
  BY <1>1, FrontAndLast
<1>3. Append(s, x) = Append(Front(u), Last(u))
  BY <1>2 DEF u
<1>4. s = Front(u) /\ x = Last(u)
  BY <1>2, <1>3, AppendInjective
<1> QED
  BY <1>1, <1>4 DEF u

(* What is taken off a sequence without repetition is not in the rest.     *)
LEMMA InjectiveOfAppend ==
    ASSUME NEW S, NEW s \in Seq(S), NEW x \in S, IsInjective(Append(s, x))
    PROVE  IsInjective(s) /\ x \notin ToSet(s)
<1> DEFINE u == Append(s, x)
<1>1. /\ Len(u) = Len(s) + 1 /\ u \in Seq(S)
      /\ \A i \in 1 .. Len(s) : u[i] = s[i]
      /\ u[Len(s) + 1] = x
  BY AppendProperties
<1>2. /\ DOMAIN s = 1 .. Len(s) /\ DOMAIN u = 1 .. Len(s) + 1
      /\ Len(s) \in Nat
  BY <1>1, LenProperties
<1>3. \A i, j \in DOMAIN u : u[i] = u[j] => i = j
  BY DEF IsInjective
<1> HIDE DEF u
<1>4. \A i, j \in DOMAIN s : s[i] = s[j] => i = j
  BY <1>1, <1>2, <1>3
<1>5. \A i \in DOMAIN s : s[i] # x
  BY <1>1, <1>2, <1>3
<1> QED
  BY <1>4, <1>5 DEF IsInjective, ToSet

(* A part of a sequence without repetition has none.                       *)
LEMMA InjectiveOfConcat ==
    ASSUME NEW S, NEW s \in Seq(S), NEW t \in Seq(S), IsInjective(s \o t)
    PROVE  IsInjective(s)
<1>1. /\ s \o t \in Seq(S)
      /\ Len(s \o t) = Len(s) + Len(t)
      /\ \A i \in 1 .. Len(s) + Len(t) :
            (s \o t)[i] = IF i <= Len(s) THEN s[i] ELSE t[i - Len(s)]
  BY ConcatProperties
<1>2. /\ DOMAIN s = 1 .. Len(s) /\ DOMAIN (s \o t) = 1 .. Len(s) + Len(t)
      /\ Len(s) \in Nat /\ Len(t) \in Nat
  BY <1>1, LenProperties
<1>3. \A i \in DOMAIN s : i \in DOMAIN (s \o t) /\ (s \o t)[i] = s[i]
  BY <1>1, <1>2
<1> QED
  BY <1>3 DEF IsInjective

(* The elements of a sequence are its head and those of its tail.          *)
LEMMA ToSetHeadTail ==
    ASSUME NEW S, NEW s \in Seq(S), s # << >>
    PROVE  /\ Head(s) \in S /\ Tail(s) \in Seq(S)
           /\ Len(Tail(s)) = Len(s) - 1
           /\ \A i \in DOMAIN Tail(s) : i + 1 \in DOMAIN s /\ Tail(s)[i] = s[i + 1]
           /\ ToSet(s) = {Head(s)} \cup ToSet(Tail(s))
<1> DEFINE t == Tail(s)
<1>1. /\ Head(s) \in S /\ t \in Seq(S)
      /\ Len(t) = Len(s) - 1
      /\ \A i \in 1 .. Len(t) : t[i] = s[i + 1]
      /\ Len(s) \in Nat \ {0}
  BY HeadTailProperties, EmptySeq, LenProperties
<1>2. Head(s) = s[1]
  OBVIOUS
<1>3. DOMAIN s = 1 .. Len(s) /\ DOMAIN t = 1 .. Len(t)
  BY <1>1, LenProperties
<1> HIDE DEF t
<1>4. \A i \in DOMAIN t : i + 1 \in DOMAIN s /\ t[i] = s[i + 1]
  BY <1>1, <1>3
<1>5. ASSUME NEW i \in DOMAIN s PROVE s[i] \in {Head(s)} \cup ToSet(t)
  <2>1. CASE i = 1
    BY <1>2, <2>1
  <2>2. CASE i # 1
    <3>1. i - 1 \in DOMAIN t /\ (i - 1) + 1 = i
      BY <1>1, <1>3, <2>2
    <3>2. t[i - 1] = s[i]
      BY <1>4, <3>1
    <3> QED
      BY <3>1, <3>2 DEF ToSet
  <2> QED
    BY <2>1, <2>2
<1>6. Head(s) \in ToSet(s)
  <2>1. 1 \in DOMAIN s
    BY <1>1, <1>3
  <2> QED
    BY <1>2, <2>1 DEF ToSet
<1>7. ToSet(t) \subseteq ToSet(s)
  BY <1>4 DEF ToSet
<1>8. ToSet(s) = {Head(s)} \cup ToSet(t)
  <2>1. ToSet(s) \subseteq {Head(s)} \cup ToSet(t)
    <3>1. ASSUME NEW x \in ToSet(s) PROVE x \in {Head(s)} \cup ToSet(t)
      <4>1. PICK i \in DOMAIN s : x = s[i]
        BY DEF ToSet
      <4> QED
        BY <1>5, <4>1
    <3> QED
      BY <3>1
  <2> QED
    BY <1>6, <1>7, <2>1
<1> QED
  BY <1>1, <1>4, <1>8 DEF t

(* The head of a sequence without repetition is not in its tail.           *)
LEMMA InjectiveTail ==
    ASSUME NEW S, NEW s \in Seq(S), s # << >>, IsInjective(s)
    PROVE  IsInjective(Tail(s)) /\ Head(s) \notin ToSet(Tail(s))
<1> DEFINE t == Tail(s)
<1>1. /\ t \in Seq(S) /\ \A i \in DOMAIN t : i + 1 \in DOMAIN s /\ t[i] = s[i + 1]
  BY ToSetHeadTail
<1>2. /\ 1 \in DOMAIN s /\ Head(s) = s[1]
      /\ DOMAIN t \subseteq Nat \ {0}
  BY <1>1, LenProperties, EmptySeq
<1>3. \A i, j \in DOMAIN s : s[i] = s[j] => i = j
  BY DEF IsInjective
<1> HIDE DEF t
<1>4. \A i \in DOMAIN t : i + 1 # 1
  BY <1>2
<1>5. \A i, j \in DOMAIN t : i + 1 = j + 1 => i = j
  BY <1>2
<1>6. \A i, j \in DOMAIN t : t[i] = t[j] => i = j
  BY <1>1, <1>3, <1>5
<1>7. \A i \in DOMAIN t : t[i] # Head(s)
  BY <1>1, <1>2, <1>3, <1>4
<1> QED
  BY <1>6, <1>7 DEF IsInjective, ToSet, t

-----------------------------------------------------------------------------
(* Subsequences *)

(* More items to follow do not disturb the order.                          *)
LEMMA InOrderOfLonger ==
    ASSUME NEW S, NEW s \in Seq(S), NEW t \in Seq(S), NEW x \in S, InOrderOf(s, t)
    PROVE  InOrderOf(s, Append(t, x))
<1> DEFINE u == Append(t, x)
<1>1. /\ u \in Seq(S) /\ Len(u) = Len(t) + 1
      /\ \A k \in 1 .. Len(t) : u[k] = t[k]
  BY AppendProperties
<1>2. /\ DOMAIN t = 1 .. Len(t) /\ DOMAIN u = 1 .. Len(t) + 1 /\ Len(t) \in Nat
  BY <1>1, LenProperties
<1> HIDE DEF u
<1>3. \A k \in DOMAIN t : k \in DOMAIN u /\ u[k] = t[k]
  BY <1>1, <1>2
<1>4. InOrderOf(s, u)
  BY <1>3 DEF InOrderOf
<1> QED
  BY <1>4 DEF u

(* The same item appended to both comes last in both.                      *)
LEMMA InOrderOfAppend ==
    ASSUME NEW S, NEW s \in Seq(S), NEW t \in Seq(S), NEW x \in S,
           InOrderOf(s, t), ToSet(s) \subseteq ToSet(t)
    PROVE  InOrderOf(Append(s, x), Append(t, x))
<1> DEFINE v == Append(s, x)
           u == Append(t, x)
<1>1. /\ u \in Seq(S) /\ Len(u) = Len(t) + 1
      /\ \A k \in 1 .. Len(t) : u[k] = t[k]
      /\ u[Len(t) + 1] = x
  BY AppendProperties
<1>2. /\ v \in Seq(S) /\ Len(v) = Len(s) + 1
      /\ \A k \in 1 .. Len(s) : v[k] = s[k]
      /\ v[Len(s) + 1] = x
  BY AppendProperties
<1>3. /\ DOMAIN t = 1 .. Len(t) /\ DOMAIN u = 1 .. Len(t) + 1 /\ Len(t) \in Nat
      /\ DOMAIN s = 1 .. Len(s) /\ DOMAIN v = 1 .. Len(s) + 1 /\ Len(s) \in Nat
  BY <1>1, <1>2, LenProperties
<1> HIDE DEF u, v
<1>4. ASSUME NEW i \in DOMAIN v, NEW j \in DOMAIN v, i < j
      PROVE  \E k, l \in DOMAIN u : k < l /\ u[k] = v[i] /\ u[l] = v[j]
  <2>1. i \in DOMAIN s /\ v[i] = s[i]
    BY <1>2, <1>3, <1>4
  <2>2. CASE j \in DOMAIN s
    <3>1. PICK k \in DOMAIN t, l \in DOMAIN t : k < l /\ t[k] = s[i] /\ t[l] = s[j]
      BY <1>4, <2>1, <2>2 DEF InOrderOf
    <3>2. k \in DOMAIN u /\ l \in DOMAIN u /\ u[k] = t[k] /\ u[l] = t[l]
      BY <1>1, <1>3
    <3>3. v[j] = s[j]
      BY <1>2, <1>3, <2>2
    <3> QED
      BY <2>1, <3>1, <3>2, <3>3
  <2>3. CASE j \notin DOMAIN s
    <3>1. j = Len(s) + 1 /\ v[j] = x
      BY <1>2, <1>3, <2>3
    <3>2. PICK k \in DOMAIN t : t[k] = s[i]
      BY <2>1 DEF ToSet
    <3>3. /\ k \in DOMAIN u /\ u[k] = t[k] /\ k < Len(t) + 1
          /\ Len(t) + 1 \in DOMAIN u
      BY <1>1, <1>3
    <3> QED
      BY <1>1, <2>1, <3>1, <3>2, <3>3
  <2> QED
    BY <2>2, <2>3
<1>5. InOrderOf(v, u)
  BY <1>4 DEF InOrderOf
<1> QED
  BY <1>5 DEF u, v

(* An order of a sequence without repetition repeats nothing.              *)
LEMMA InOrderOfInjective ==
    ASSUME NEW S, NEW s \in Seq(S), NEW t \in Seq(S), InOrderOf(s, t), IsInjective(t)
    PROVE  IsInjective(s)
<1>1. DOMAIN s \subseteq Int /\ DOMAIN t \subseteq Int
  BY LenProperties
<1>2. \A k, l \in DOMAIN t : k < l => t[k] # t[l]
  BY <1>1 DEF IsInjective
<1>3. \A i, j \in DOMAIN s : i < j => s[i] # s[j]
  BY <1>2 DEF InOrderOf
<1>4. \A i, j \in DOMAIN s : i = j \/ i < j \/ j < i
  BY <1>1
<1>5. \A i, j \in DOMAIN s : s[i] = s[j] => i = j
  BY <1>3, <1>4
<1> QED
  BY <1>5 DEF IsInjective

(* Every set of naturals that is not empty has a least element: induction  *)
(* in a form that speaks of sets only.                                     *)
LEMMA LeastNatural ==
    ASSUME NEW T, T \subseteq Nat, T # {}
    PROVE  \E m \in T : \A n \in T : m <= n
<1> DEFINE R == OpToRel(<, Nat)
<1>1. IsWellFoundedOn(R, Nat)
  BY NatLessThanWellFounded
<1>2. \A i, j \in Nat : i < j => <<i, j>> \in R
  BY DEF OpToRel
<1> HIDE DEF R
<1>3. PICK m \in T : \A n \in T : ~(<<n, m>> \in R)
  BY <1>1, WFMin
<1>4. \A n \in T : ~(n < m)
  BY <1>2, <1>3
<1>5. \A n \in T : m <= n
  BY <1>4
<1> QED
  BY <1>5

(* Induction over the naturals up to n, for a property given as a set.     *)
LEMMA InductionUpTo ==
    ASSUME NEW n \in Nat, NEW P, 0 \in P,
           \A k \in 0 .. n : k # 0 /\ k - 1 \in P => k \in P
    PROVE  \A k \in 0 .. n : k \in P
<1> SUFFICES ASSUME NEW b \in 0 .. n, b \notin P PROVE FALSE
  OBVIOUS
<1> DEFINE T == {k \in 0 .. n : k \notin P}
<1>1. T \subseteq Nat /\ T # {}
  OBVIOUS
<1>2. PICK m \in T : \A k \in T : m <= k
  BY <1>1, LeastNatural
<1>3. m # 0 /\ m - 1 \in 0 .. n /\ ~(m <= m - 1)
  BY <1>2
<1>4. m - 1 \in P
  BY <1>2, <1>3
<1> QED
  BY <1>2, <1>3, <1>4

(* What is computed round by round stays in V.                             *)
LEMMA RoundsStay ==
    ASSUME NEW n \in Nat, NEW V, NEW g, g[0] \in V,
           \A k \in 1 .. n : g[k - 1] \in V => g[k] \in V
    PROVE  \A k \in 0 .. n : g[k] \in V
<1> DEFINE P == {k \in 0 .. n : g[k] \in V}
<1>1. 0 \in P
  OBVIOUS
<1>2. ASSUME NEW k \in 0 .. n, k # 0, k - 1 \in P PROVE k \in P
  <2>1. k \in 1 .. n
    BY <1>2
  <2> QED
    BY <1>2, <2>1
<1> HIDE DEF P
<1>3. \A k \in 0 .. n : k \in P
  BY <1>1, <1>2, InductionUpTo
<1> QED
  BY <1>3 DEF P

(* A function on the first naturals is a sequence.                         *)
LEMMA FunctionIsSeq == ASSUME NEW S, NEW n \in Nat, NEW f \in [1 .. n -> S]
                       PROVE  f \in Seq(S) /\ Len(f) = n /\ DOMAIN f = 1 .. n
<1>1. f \in Seq(S)
  BY SeqDef
<1>2. Len(f) \in Nat /\ DOMAIN f = 1 .. Len(f)
  BY <1>1, LenProperties
<1> QED
  BY <1>1, <1>2

(* f follows the recursion given by base and step up to n.                 *)
Follows(f, n, base, step) ==
    f[0] = base /\ \A k \in 1 .. n : f[k] = step[k][f[k - 1]]

(* A function on the naturals up to n may be defined by recursion.         *)
LEMMA RecursionUpTo ==
    ASSUME NEW n \in Nat, NEW V, NEW base \in V, NEW step \in [1 .. n -> [V -> V]]
    PROVE  \E f \in [0 .. n -> V] : Follows(f, n, base, step)
<1> DEFINE Upto(m, f) == Follows(f, m, base, step)
           P == {m \in 0 .. n : \E f \in [0 .. m -> V] : Upto(m, f)}
<1>1. 0 \in P
  <2> DEFINE f == [k \in 0 .. 0 |-> base]
  <2>1. f \in [0 .. 0 -> V] /\ Upto(0, f)
    BY DEF Follows
  <2>2. 0 \in 0 .. n
    OBVIOUS
  <2> HIDE DEF f, Upto
  <2> QED
    BY <2>1, <2>2
<1>2. ASSUME NEW m \in 0 .. n, m # 0, m - 1 \in P PROVE m \in P
  <2>1. PICK g \in [0 .. m - 1 -> V] : Upto(m - 1, g)
    BY <1>2
  <2> DEFINE f == [k \in 0 .. m |-> IF k = m THEN step[m][g[m - 1]] ELSE g[k]]
  <2>2. m \in 1 .. n /\ m - 1 \in 0 .. m - 1 /\ g[m - 1] \in V
    BY <1>2
  <2>3. step[m][g[m - 1]] \in V
    BY <2>2
  <2>4. f \in [0 .. m -> V]
    BY <2>3
  <2>5. f[0] = base
    BY <1>2, <2>1 DEF Follows
  <2>6. ASSUME NEW k \in 1 .. m PROVE f[k] = step[k][f[k - 1]]
    <3>1. k - 1 \in 0 .. m /\ k - 1 # m /\ f[k - 1] = g[k - 1]
      BY <1>2
    <3>2. CASE k = m
      BY <3>1, <3>2
    <3>3. CASE k # m
      <4>1. k \in 1 .. m - 1 /\ f[k] = g[k]
        BY <1>2, <3>3
      <4> QED
        BY <2>1, <3>1, <4>1 DEF Follows
    <3> QED
      BY <3>2, <3>3
  <2> HIDE DEF f
  <2> QED
    BY <2>4, <2>5, <2>6 DEF Follows
<1> HIDE DEF P
<1>3. n \in P
  <2>1. \A m \in 0 .. n : m # 0 /\ m - 1 \in P => m \in P
    BY <1>2
  <2>2. \A m \in 0 .. n : m \in P
    BY <1>1, <2>1, InductionUpTo
  <2> QED
    BY <2>2
<1> QED
  BY <1>3 DEF P

(* The slices kept after each round of the loop that Keep describes.       *)
KeepsRounds(kept, s, S) ==
    /\ kept[0] = << >>
    /\ \A n \in 1 .. Len(s) :
          kept[n] = IF s[n] \in S THEN Append(kept[n - 1], s[n]) ELSE kept[n - 1]

(* Keep goes through the sequence from the front: its recursion has a      *)
(* solution.                                                               *)
LEMMA KeepRecursion ==
    ASSUME NEW T, NEW s \in Seq(T), NEW S
    PROVE  \E kept \in [0 .. Len(s) -> Seq(T)] :
              Keep(s, S) = kept[Len(s)] /\ KeepsRounds(kept, s, S)
<1> DEFINE N == Len(s)
           Eq(g) == g = [n \in 0 .. N |->
                           IF n = 0 THEN << >>
                           ELSE IF s[n] \in S THEN Append(g[n - 1], s[n]) ELSE g[n - 1]]
           kept == CHOOSE g : Eq(g)
           step == [n \in 1 .. N |->
                       [v \in Seq(T) |-> IF s[n] \in S THEN Append(v, s[n]) ELSE v]]
           V == Seq(T)
           e == << >>
<1>1. N \in Nat
  BY LenProperties
<1>2. Keep(s, S) = kept[N]
  BY DEF Keep
<1>3. \A n \in 1 .. N : s[n] \in T
  BY ElementOfSeq
<1> HIDE DEF N
<1>4. /\ e \in V
      /\ step \in [1 .. N -> [V -> V]]
      /\ \A n \in 1 .. N, v \in V :
            step[n][v] = IF s[n] \in S THEN Append(v, s[n]) ELSE v
  BY <1>3, AppendProperties
<1> HIDE DEF step, V, e
<1>5. PICK f \in [0 .. N -> V] : Follows(f, N, e, step)
  BY <1>1, <1>4, RecursionUpTo
<1>6. \A k \in 1 .. N : k - 1 \in 0 .. N /\ f[k - 1] \in V
  BY <1>1
<1>7. \A k \in 1 .. N : f[k] = IF s[k] \in S THEN Append(f[k - 1], s[k]) ELSE f[k - 1]
  BY <1>4, <1>5, <1>6 DEF Follows
<1>8. Eq(f)
  <2>1. \A n \in 0 .. N : n = 0 \/ n \in 1 .. N
    BY <1>1
  <2>2. \A n \in 0 .. N :
            f[n] = IF n = 0 THEN e
                   ELSE IF s[n] \in S THEN Append(f[n - 1], s[n]) ELSE f[n - 1]
    BY ZenonT(30), <1>5, <1>7, <2>1 DEF Follows
  <2>3. f = [n \in 0 .. N |-> f[n]]
    OBVIOUS
  <2> QED
    BY <2>2, <2>3 DEF e
<1>9. Eq(kept)
  BY ZenonT(30), <1>8
<1> HIDE DEF kept
<1>10. /\ kept = [n \in 0 .. N |-> kept[n]]
       /\ \A n \in 0 .. N :
             kept[n] = IF n = 0 THEN e
                       ELSE IF s[n] \in S THEN Append(kept[n - 1], s[n]) ELSE kept[n - 1]
  BY <1>9 DEF e
<1> HIDE DEF Eq
<1>11. /\ kept[0] = e
       /\ \A n \in 1 .. N : n \in 0 .. N /\ n # 0
       /\ 0 \in 0 .. N
  BY <1>1, <1>10
<1>12. \A n \in 1 .. N :
          kept[n] = IF s[n] \in S THEN Append(kept[n - 1], s[n]) ELSE kept[n - 1]
  BY <1>10, <1>11
<1>13. \A n \in 0 .. N : kept[n] \in V
  <2> DEFINE P == {n \in 0 .. N : kept[n] \in V}
  <2>1. 0 \in P
    BY <1>4, <1>11
  <2>2. ASSUME NEW n \in 0 .. N, n # 0, n - 1 \in P PROVE n \in P
    <3>1. n \in 1 .. N /\ kept[n - 1] \in V
      BY <1>1, <2>2
    <3>2. s[n] \in T
      BY <1>3, <3>1
    <3>3. Append(kept[n - 1], s[n]) \in V
      BY <3>1, <3>2, AppendProperties DEF V
    <3> QED
      BY <1>12, <3>1, <3>3
  <2>3. \A n \in 0 .. N : n # 0 /\ n - 1 \in P => n \in P
    BY <2>2
  <2> HIDE DEF P
  <2>4. \A n \in 0 .. N : n \in P
    BY <1>1, <2>1, <2>3, InductionUpTo
  <2> QED
    BY <2>4 DEF P
<1>14. kept \in [0 .. N -> V]
  BY <1>10, <1>13
<1> QED
  BY <1>2, <1>11, <1>12, <1>14 DEF N, V, e, KeepsRounds

(* What Keep leaves: the elements of S, all of them, in their order.       *)
LEMMA KeepProperties ==
    ASSUME NEW T, NEW s \in Seq(T), NEW S
    PROVE  /\ Keep(s, S) \in Seq(T)
           /\ ToSet(Keep(s, S)) = ToSet(s) \cap S
           /\ InOrderOf(Keep(s, S), s)
<1> DEFINE N == Len(s)
<1>0. PICK kept \in [0 .. N -> Seq(T)] : Keep(s, S) = kept[N] /\ KeepsRounds(kept, s, S)
  BY KeepRecursion
<1>1. /\ Keep(s, S) = kept[N]
      /\ kept[0] = << >>
      /\ \A n \in 1 .. N :
            kept[n] = IF s[n] \in S THEN Append(kept[n - 1], s[n]) ELSE kept[n - 1]
  BY <1>0 DEF KeepsRounds
<1>2. N \in Nat /\ DOMAIN s = 1 .. N /\ \A n \in 1 .. N : s[n] \in T
  BY LenProperties, ElementOfSeq
<1> HIDE DEF N
<1> DEFINE Elements(n) == \A x : x \in ToSet(kept[n]) <=> x \in S /\ \E i \in 1 .. n : s[i] = x
           Ordered(n) == \A i, j \in DOMAIN kept[n] : i < j =>
                            \E k, l \in 1 .. n : k < l /\ s[k] = kept[n][i] /\ s[l] = kept[n][j]
           P == {n \in 0 .. N : Elements(n) /\ Ordered(n)}
<1>3. 0 \in P
  <2>1. DOMAIN kept[0] = {} /\ ToSet(kept[0]) = {} /\ 1 .. 0 = {} /\ 0 \in 0 .. N
    BY <1>1, <1>2 DEF ToSet
  <2>2. Elements(0)
    BY <2>1
  <2>3. Ordered(0)
    BY <2>1
  <2> HIDE DEF Elements, Ordered
  <2> QED
    BY <2>1, <2>2, <2>3
<1>4. ASSUME NEW n \in 0 .. N, n # 0, n - 1 \in P PROVE n \in P
  <2>1. /\ n \in 1 .. N /\ n - 1 \in 0 .. N /\ kept[n - 1] \in Seq(T) /\ s[n] \in T
        /\ \A i \in 1 .. n : i \in 1 .. n - 1 \/ i = n
        /\ \A i \in 1 .. n - 1 : i \in 1 .. n /\ i < n
        /\ n \in 1 .. n
    BY <1>2, <1>4
  <2>2. Elements(n - 1) /\ Ordered(n - 1)
    BY <1>4
  <2>3. CASE s[n] \notin S
    <3>1. kept[n] = kept[n - 1]
      BY <1>1, <2>1, <2>3
    <3>2. Elements(n)
      BY <2>1, <2>2, <2>3, <3>1
    <3>3. Ordered(n)
      BY <2>1, <2>2, <3>1
    <3> HIDE DEF Elements, Ordered
    <3> QED
      BY <3>2, <3>3
  <2>4. CASE s[n] \in S
    <3> DEFINE u == kept[n - 1]
               v == kept[n]
    <3>1. v = Append(u, s[n]) /\ u \in Seq(T)
      BY <1>1, <2>1, <2>4
    <3>2. ToSet(v) = ToSet(u) \cup {s[n]}
      BY <2>1, <3>1, ToSetAppend
    <3>3. Elements(n)
      BY <2>1, <2>2, <2>4, <3>2
    <3>4. /\ Len(v) = Len(u) + 1 /\ v \in Seq(T)
          /\ \A i \in 1 .. Len(u) : v[i] = u[i]
          /\ v[Len(u) + 1] = s[n]
      BY <2>1, <3>1, AppendProperties
    <3>5. Len(u) \in Nat /\ DOMAIN u = 1 .. Len(u) /\ DOMAIN v = 1 .. Len(u) + 1
      BY <3>1, <3>4, LenProperties
    <3>6. ASSUME NEW i \in DOMAIN v, NEW j \in DOMAIN v, i < j
          PROVE  \E k, l \in 1 .. n : k < l /\ s[k] = v[i] /\ s[l] = v[j]
      <4>1. i \in DOMAIN u /\ v[i] = u[i]
        BY <3>4, <3>5, <3>6
      <4>2. CASE j \in DOMAIN u
        <5>1. v[j] = u[j]
          BY <3>4, <3>5, <4>2
        <5>2. \E k, l \in 1 .. n - 1 : k < l /\ s[k] = u[i] /\ s[l] = u[j]
          BY <2>2, <3>6, <4>1, <4>2
        <5> QED
          BY <2>1, <4>1, <5>1, <5>2
      <4>3. CASE j \notin DOMAIN u
        <5>1. v[j] = s[n]
          BY <3>4, <3>5, <4>3
        <5>2. u[i] \in ToSet(u)
          BY <4>1 DEF ToSet
        <5>3. PICK k \in 1 .. n - 1 : s[k] = u[i]
          BY <2>2, <5>2
        <5> QED
          BY <2>1, <4>1, <5>1, <5>3
      <4> QED
        BY <4>2, <4>3
    <3>7. Ordered(n)
      BY <3>6
    <3> HIDE DEF Elements, Ordered
    <3> QED
      BY <3>3, <3>7
  <2> QED
    BY <2>3, <2>4
<1>5. \A n \in 0 .. N : n # 0 /\ n - 1 \in P => n \in P
  BY <1>4
<1> HIDE DEF P
<1>6. N \in P
  <2>1. \A n \in 0 .. N : n \in P
    BY <1>2, <1>3, <1>5, InductionUpTo
  <2> QED
    BY <1>2, <2>1
<1>7. Elements(N) /\ Ordered(N) /\ kept[N] \in Seq(T)
  BY <1>2, <1>6 DEF P
<1>8. ToSet(kept[N]) = ToSet(s) \cap S
  <2>1. \A x : x \in ToSet(s) <=> \E i \in 1 .. N : s[i] = x
    BY <1>2 DEF ToSet
  <2> QED
    BY <1>7, <2>1
<1>9. InOrderOf(kept[N], s)
  <2> DEFINE w == kept[N]
  <2>1. \A i, j \in DOMAIN w : i < j =>
            \E k, l \in DOMAIN s : k < l /\ s[k] = w[i] /\ s[l] = w[j]
    <3>1. Ordered(N)
      BY <1>7
    <3> HIDE DEF w
    <3>2. \A i, j \in DOMAIN w : i < j =>
              \E k, l \in 1 .. N : k < l /\ s[k] = w[i] /\ s[l] = w[j]
      BY <3>1 DEF w
    <3> HIDE DEF Elements, Ordered
    <3>3. ASSUME NEW i \in DOMAIN w, NEW j \in DOMAIN w, i < j
          PROVE  \E k, l \in DOMAIN s : k < l /\ s[k] = w[i] /\ s[l] = w[j]
      <4>1. PICK k \in 1 .. N, l \in 1 .. N : k < l /\ s[k] = w[i] /\ s[l] = w[j]
        BY <3>2, <3>3
      <4>2. k \in DOMAIN s /\ l \in DOMAIN s
        BY <1>2
      <4> QED
        BY <4>1, <4>2
    <3> QED
      BY <3>3
  <2> HIDE DEF w
  <2>2. InOrderOf(w, s)
    BY <2>1 DEF InOrderOf
  <2> QED
    BY <2>2 DEF w
<1> QED
  BY <1>1, <1>7, <1>8, <1>9

(* Keep goes through a concatenation piece by piece.                       *)
LEMMA KeepConcat ==
    ASSUME NEW T, NEW s \in Seq(T), NEW t \in Seq(T), NEW S
    PROVE  Keep(s \o t, S) = Keep(s, S) \o Keep(t, S)
<1> DEFINE u == s \o t
           M == Len(s)
           N == Len(t)
<1>1. /\ u \in Seq(T) /\ Len(u) = M + N /\ M \in Nat /\ N \in Nat
      /\ \A i \in 1 .. M + N : u[i] = IF i <= M THEN s[i] ELSE t[i - M]
  BY ConcatProperties, LenProperties
<1>2. PICK f \in [0 .. M -> Seq(T)] : Keep(s, S) = f[M] /\ KeepsRounds(f, s, S)
  BY KeepRecursion
<1>3. PICK g \in [0 .. N -> Seq(T)] : Keep(t, S) = g[N] /\ KeepsRounds(g, t, S)
  BY KeepRecursion
<1> HIDE DEF u
<1>4. PICK h \in [0 .. Len(u) -> Seq(T)] : Keep(u, S) = h[Len(u)] /\ KeepsRounds(h, u, S)
  BY <1>1, KeepRecursion
<1>5. /\ f[0] = << >> /\ g[0] = << >> /\ h[0] = << >>
      /\ \A n \in 1 .. M : f[n] = IF s[n] \in S THEN Append(f[n - 1], s[n]) ELSE f[n - 1]
      /\ \A n \in 1 .. N : g[n] = IF t[n] \in S THEN Append(g[n - 1], t[n]) ELSE g[n - 1]
      /\ \A n \in 1 .. M + N : h[n] = IF u[n] \in S THEN Append(h[n - 1], u[n]) ELSE h[n - 1]
  BY <1>1, <1>2, <1>3, <1>4 DEF KeepsRounds
<1>6. \A n \in 1 .. N : t[n] \in T
  BY ElementOfSeq
<1> HIDE DEF M, N
<1>7. \A n \in 0 .. M : h[n] = f[n]
  <2> DEFINE P == {n \in 0 .. M : h[n] = f[n]}
  <2>1. 0 \in P
    BY <1>1, <1>5
  <2>2. ASSUME NEW n \in 0 .. M, n # 0, n - 1 \in P PROVE n \in P
    <3>1. n \in 1 .. M /\ n \in 1 .. M + N /\ u[n] = s[n] /\ h[n - 1] = f[n - 1]
      BY <1>1, <2>2
    <3> QED
      BY <1>5, <3>1
  <2>3. \A n \in 0 .. M : n # 0 /\ n - 1 \in P => n \in P
    BY <2>2
  <2> HIDE DEF P
  <2>4. \A n \in 0 .. M : n \in P
    BY <1>1, <2>1, <2>3, InductionUpTo
  <2> QED
    BY <2>4 DEF P
<1>8. \A n \in 0 .. N : h[M + n] = f[M] \o g[n]
  <2> DEFINE P == {n \in 0 .. N : h[M + n] = f[M] \o g[n]}
  <2>1. 0 \in P
    <3>1. f[M] \in Seq(T) /\ M \in 0 .. M /\ M + 0 = M
      BY <1>1, <1>2
    <3>2. f[M] \o << >> = f[M]
      BY <3>1, ConcatEmptySeq
    <3>3. h[M + 0] = f[M] \o g[0]
      BY <1>5, <1>7, <3>1, <3>2
    <3> QED
      BY SMTT(30), <1>1, <3>3
  <2>2. ASSUME NEW n \in 0 .. N, n # 0, n - 1 \in P PROVE n \in P
    <3>1. /\ n \in 1 .. N /\ M + n \in 1 .. M + N /\ u[M + n] = t[n]
          /\ (M + n) - 1 = M + (n - 1) /\ n - 1 \in 0 .. N /\ M \in 0 .. M
      <4>1. n \in 1 .. N /\ M + n \in 1 .. M + N /\ ~(M + n <= M) /\ (M + n) - M = n
        BY <1>1, <2>2
      <4>2. u[M + n] = t[n]
        BY <1>1, <4>1
      <4> QED
        BY <1>1, <2>2, <4>1, <4>2
    <3>2. h[M + (n - 1)] = f[M] \o g[n - 1]
      BY <2>2
    <3>3. f[M] \in Seq(T) /\ g[n - 1] \in Seq(T) /\ t[n] \in T
      BY <1>2, <1>3, <1>6, <3>1 DEF N
    <3>4. f[M] \o Append(g[n - 1], t[n]) = Append(f[M] \o g[n - 1], t[n])
      <4> DEFINE a == f[M]
                 b == g[n - 1]
                 x == t[n]
      <4>1. a \in Seq(T) /\ b \in Seq(T) /\ x \in T
        BY <3>3
      <4> HIDE DEF a, b, x
      <4>2. a \o Append(b, x) = Append(a \o b, x)
        BY <4>1, ConcatAppend
      <4> QED
        BY <4>2 DEF a, b, x
    <3>5. /\ h[M + n] = IF t[n] \in S THEN Append(h[M + (n - 1)], t[n]) ELSE h[M + (n - 1)]
          /\ g[n] = IF t[n] \in S THEN Append(g[n - 1], t[n]) ELSE g[n - 1]
      BY <1>5, <3>1
    <3>6. h[M + n] = f[M] \o g[n]
      BY <3>2, <3>4, <3>5
    <3> QED
      BY <3>6
  <2>3. \A n \in 0 .. N : n # 0 /\ n - 1 \in P => n \in P
    BY <2>2
  <2> HIDE DEF P
  <2>4. \A n \in 0 .. N : n \in P
    BY <1>1, <2>1, <2>3, InductionUpTo
  <2> QED
    BY <2>4 DEF P
<1>9. Keep(u, S) = h[M + N] /\ N \in 0 .. N
  BY <1>1, <1>4
<1> QED
  BY <1>2, <1>3, <1>8, <1>9 DEF u

(* Keep of one element, and of none.                                       *)
LEMMA KeepOne ==
    ASSUME NEW T, NEW x \in T, NEW S
    PROVE  /\ Keep(<< >>, S) = << >>
           /\ Keep(<<x>>, S) = IF x \in S THEN <<x>> ELSE << >>
<1>1. /\ <<x>> \in Seq(T) /\ Len(<<x>>) = 1 /\ <<x>>[1] = x
      /\ << >> \in Seq(T) /\ Len(<< >>) = 0
  OBVIOUS
<1>2. PICK e \in [0 .. 0 -> Seq(T)] : Keep(<< >>, S) = e[0] /\ KeepsRounds(e, << >>, S)
  BY <1>1, KeepRecursion
<1>3. PICK f \in [0 .. 1 -> Seq(T)] : Keep(<<x>>, S) = f[1] /\ KeepsRounds(f, <<x>>, S)
  BY <1>1, KeepRecursion
<1>4. f[0] = << >> /\ f[1] = IF x \in S THEN Append(f[0], x) ELSE f[0]
  BY <1>1, <1>3 DEF KeepsRounds
<1>5. Append(<< >>, x) = <<x>>
  OBVIOUS
<1> QED
  BY <1>2, <1>3, <1>4, <1>5 DEF KeepsRounds

-----------------------------------------------------------------------------
(* Sizes *)

(* A sequence without repetitions has as many elements as places.          *)
LEMMA CardinalityOfInjective ==
    ASSUME NEW S, NEW s \in Seq(S), IsInjective(s)
    PROVE  IsFiniteSet(ToSet(s)) /\ Cardinality(ToSet(s)) = Len(s)
<1>1. Len(s) \in Nat /\ DOMAIN s = 1 .. Len(s)
  BY LenProperties
<1>2. s \in [1 .. Len(s) -> ToSet(s)]
  BY <1>1 DEF ToSet
<1>3. s \in Bijection(1 .. Len(s), ToSet(s))
  BY <1>1, <1>2 DEF Bijection, Injection, Surjection, ToSet, IsInjective
<1>4. ExistsBijection(1 .. Len(s), ToSet(s))
  BY <1>3 DEF ExistsBijection
<1>5. Cardinality(ToSet(s)) = Len(s)
  BY <1>1, <1>4, FS_CountingElements
<1>6. IsFiniteSet(ToSet(s))
  BY <1>1, <1>4, FS_NatBijection
<1> QED
  BY <1>5, <1>6

(* The first places of a sequence.                                         *)
LEMMA FirstPlaces ==
    ASSUME NEW S, NEW s \in Seq(S), NEW n \in 0 .. Len(s)
    PROVE  /\ SubSeq(s, 1, n) \in Seq(S)
           /\ Len(SubSeq(s, 1, n)) = n
           /\ \A i \in 1 .. n : SubSeq(s, 1, n)[i] = s[i]
<1>1. Len(s) \in Nat /\ \A i \in 1 .. Len(s) : s[i] \in S
  BY LenProperties, ElementOfSeq
<1> QED
  BY <1>1

(* The next n places after the first a of a sequence.                      *)
LEMMA NextPlaces ==
    ASSUME NEW S, NEW s \in Seq(S), NEW a \in Nat, NEW n \in Nat, a + n <= Len(s)
    PROVE  /\ [i \in 1 .. n |-> s[a + i]] \in Seq(S)
           /\ SubSeq(s, 1, a) \in Seq(S)
           /\ SubSeq(s, 1, a + n) = SubSeq(s, 1, a) \o [i \in 1 .. n |-> s[a + i]]
<1> DEFINE p == [i \in 1 .. n |-> s[a + i]]
<1>1. Len(s) \in Nat /\ \A i \in 1 .. Len(s) : s[i] \in S
  BY LenProperties, ElementOfSeq
<1>2. \A i \in 1 .. n : a + i \in 1 .. Len(s)
  BY <1>1
<1>3. p \in Seq(S) /\ Len(p) = n /\ \A i \in 1 .. n : p[i] = s[a + i]
  BY <1>1, <1>2
<1> HIDE DEF p
<1>4. a \in 0 .. Len(s) /\ a + n \in 0 .. Len(s)
  BY <1>1
<1>5. /\ SubSeq(s, 1, a) \in Seq(S) /\ Len(SubSeq(s, 1, a)) = a
      /\ \A i \in 1 .. a : SubSeq(s, 1, a)[i] = s[i]
  BY <1>4, FirstPlaces
<1>6. /\ SubSeq(s, 1, a + n) \in Seq(S) /\ Len(SubSeq(s, 1, a + n)) = a + n
      /\ \A i \in 1 .. a + n : SubSeq(s, 1, a + n)[i] = s[i]
  BY <1>4, FirstPlaces
<1> DEFINE f == SubSeq(s, 1, a)
           w == SubSeq(s, 1, a + n)
<1>7. f \in Seq(S) /\ Len(f) = a /\ w \in Seq(S) /\ Len(w) = a + n
  BY <1>5, <1>6
<1>8. \A i \in 1 .. a : f[i] = s[i]
  BY <1>5
<1>9. \A i \in 1 .. a + n : w[i] = s[i]
  BY <1>6
<1> HIDE DEF f, w
<1>10. /\ f \o p \in Seq(S) /\ Len(f \o p) = a + n
       /\ \A i \in 1 .. a + n : (f \o p)[i] = IF i <= a THEN f[i] ELSE p[i - a]
  <2>0. f \in Seq(S) /\ p \in Seq(S)
    BY <1>3, <1>7
  <2>1. /\ f \o p \in Seq(S) /\ Len(f \o p) = Len(f) + Len(p)
        /\ \A i \in 1 .. Len(f) + Len(p) :
              (f \o p)[i] = IF i <= Len(f) THEN f[i] ELSE p[i - Len(f)]
    BY <2>0, ConcatProperties
  <2>2. Len(f) = a /\ Len(p) = n
    BY <1>3, <1>7
  <2> QED
    BY <2>1, <2>2
<1>11. ASSUME NEW i \in 1 .. a + n PROVE w[i] = (f \o p)[i]
  <2>1. CASE i <= a
    BY <1>8, <1>9, <1>10, <2>1
  <2>2. CASE ~(i <= a)
    <3>1. i - a \in 1 .. n /\ a + (i - a) = i
      BY <2>2
    <3>2. p[i - a] = s[i]
      BY <1>3, <3>1
    <3> QED
      BY <1>9, <1>10, <2>2, <3>2
  <2> QED
    BY <2>1, <2>2
<1>12. w = f \o p
  BY <1>7, <1>10, <1>11, SeqEqual
<1> QED
  BY <1>3, <1>5, <1>12 DEF p, f, w

(* An append leaves the places before it.                                  *)
LEMMA FirstPlacesOfAppend ==
    ASSUME NEW S, NEW s \in Seq(S), NEW x \in S, NEW n \in 0 .. Len(s)
    PROVE  SubSeq(Append(s, x), 1, n) = SubSeq(s, 1, n)
<1> DEFINE u == Append(s, x)
<1>1. u \in Seq(S) /\ Len(u) = Len(s) + 1 /\ \A i \in 1 .. Len(s) : u[i] = s[i]
  BY AppendProperties
<1>2. Len(s) \in Nat
  BY LenProperties
<1> HIDE DEF u
<1>3. n \in 0 .. Len(u)
  BY <1>1, <1>2
<1>4. /\ SubSeq(s, 1, n) \in Seq(S) /\ Len(SubSeq(s, 1, n)) = n
      /\ \A i \in 1 .. n : SubSeq(s, 1, n)[i] = s[i]
  BY FirstPlaces
<1>5. /\ SubSeq(u, 1, n) \in Seq(S) /\ Len(SubSeq(u, 1, n)) = n
      /\ \A i \in 1 .. n : SubSeq(u, 1, n)[i] = u[i]
  BY <1>1, <1>3, FirstPlaces
<1>6. \A i \in 1 .. n : SubSeq(u, 1, n)[i] = SubSeq(s, 1, n)[i]
  BY <1>1, <1>2, <1>4, <1>5
<1> QED
  BY <1>4, <1>5, <1>6, SeqEqual DEF u

(* Two injective sequences without a common element, one after the other.  *)
LEMMA InjectiveConcat ==
    ASSUME NEW S, NEW s \in Seq(S), NEW t \in Seq(S), IsInjective(s), IsInjective(t),
           ToSet(s) \cap ToSet(t) = {}
    PROVE  IsInjective(s \o t)
<1> DEFINE u == s \o t
<1>1. /\ DOMAIN u = 1 .. Len(s) + Len(t) /\ Len(s) \in Nat /\ Len(t) \in Nat
      /\ DOMAIN s = 1 .. Len(s) /\ DOMAIN t = 1 .. Len(t)
      /\ \A i \in 1 .. Len(s) + Len(t) :
            u[i] = IF i <= Len(s) THEN s[i] ELSE t[i - Len(s)]
  BY ConcatProperties, LenProperties
<1> SUFFICES ASSUME NEW i \in DOMAIN u, NEW j \in DOMAIN u, u[i] = u[j] PROVE i = j
  BY DEF IsInjective
<1>2. CASE i <= Len(s) /\ j <= Len(s)
  <2>1. i \in DOMAIN s /\ j \in DOMAIN s /\ s[i] = s[j]
    BY <1>1, <1>2
  <2> QED
    BY <2>1 DEF IsInjective
<1>3. CASE ~(i <= Len(s)) /\ ~(j <= Len(s))
  <2>1. i - Len(s) \in DOMAIN t /\ j - Len(s) \in DOMAIN t /\ t[i - Len(s)] = t[j - Len(s)]
    BY <1>1, <1>3
  <2>2. i - Len(s) = j - Len(s)
    BY <2>1 DEF IsInjective
  <2> QED
    BY <1>1, <2>2
<1>4. CASE i <= Len(s) /\ ~(j <= Len(s))
  <2>1. i \in DOMAIN s /\ j - Len(s) \in DOMAIN t /\ s[i] = t[j - Len(s)]
    BY <1>1, <1>4
  <2> QED
    BY <2>1 DEF ToSet
<1>5. CASE ~(i <= Len(s)) /\ j <= Len(s)
  <2>1. j \in DOMAIN s /\ i - Len(s) \in DOMAIN t /\ s[j] = t[i - Len(s)]
    BY <1>1, <1>5
  <2> QED
    BY <2>1 DEF ToSet
<1> QED
  BY <1>2, <1>3, <1>4, <1>5

(* A sequence cut in two.                                                  *)
LEMMA CutInTwo ==
    ASSUME NEW S, NEW s \in Seq(S), NEW n \in 0 .. Len(s)
    PROVE  /\ SubSeq(s, 1, n) \in Seq(S) /\ SubSeq(s, n + 1, Len(s)) \in Seq(S)
           /\ ToSet(s) = ToSet(SubSeq(s, 1, n)) \cup ToSet(SubSeq(s, n + 1, Len(s)))
           /\ IsInjective(s) =>
                 /\ IsInjective(SubSeq(s, 1, n)) /\ IsInjective(SubSeq(s, n + 1, Len(s)))
                 /\ ToSet(SubSeq(s, 1, n)) \cap ToSet(SubSeq(s, n + 1, Len(s))) = {}
<1> DEFINE a == SubSeq(s, 1, n)
           b == SubSeq(s, n + 1, Len(s))
           m == Len(s) - n
<1>1. /\ Len(s) \in Nat /\ DOMAIN s = 1 .. Len(s) /\ n \in Nat /\ m \in Nat
      /\ \A i \in 1 .. Len(s) : s[i] \in S
  BY LenProperties, ElementOfSeq
<1>2. a \in Seq(S) /\ Len(a) = n /\ \A i \in 1 .. n : a[i] = s[i]
  BY SMTT(30), FirstPlaces
<1>3. b \in Seq(S) /\ Len(b) = m /\ \A i \in 1 .. m : b[i] = s[n + i]
  <2>1. \A i \in n + 1 .. Len(s) : s[i] \in S
    BY <1>1
  <2>2. /\ b \in Seq(S) /\ Len(b) = (IF n + 1 <= Len(s) THEN Len(s) - (n + 1) + 1 ELSE 0)
        /\ \A i \in 1 .. Len(s) - (n + 1) + 1 : b[i] = s[n + 1 + i - 1]
    BY <1>1, <2>1, SubSeqProperties
  <2> DEFINE N == Len(s)
             L == Len(b)
  <2>3. L = m /\ N - (n + 1) + 1 = m /\ \A i \in 1 .. m : n + 1 + i - 1 = n + i
    <3>1. /\ N \in Nat /\ n \in 0 .. N /\ L = (IF n + 1 <= N THEN N - (n + 1) + 1 ELSE 0)
          /\ m = N - n
      BY <1>1, <2>2
    <3> HIDE DEF N, L, m
    <3> QED
      BY <3>1
  <2>4. \A i \in 1 .. m : b[i] = s[n + i]
    BY <2>2, <2>3
  <2> QED
    BY <2>2, <2>3, <2>4
<1>4. DOMAIN a = 1 .. n /\ DOMAIN b = 1 .. m
  BY <1>2, <1>3, LenProperties
<1> HIDE DEF a, b
<1>5. ToSet(a) = {s[i] : i \in 1 .. n}
  BY <1>2, <1>4 DEF ToSet
<1>6. ToSet(b) = {s[i] : i \in n + 1 .. Len(s)}
  <2>1. \A i \in n + 1 .. Len(s) : i - n \in 1 .. m /\ n + (i - n) = i
    BY <1>1
  <2>2. \A i \in 1 .. m : n + i \in n + 1 .. Len(s)
    BY <1>1
  <2>3. ToSet(b) = {s[n + i] : i \in 1 .. m}
    BY <1>3, <1>4 DEF ToSet
  <2> QED
    BY <2>1, <2>2, <2>3
<1>7. ToSet(s) = ToSet(a) \cup ToSet(b)
  <2>1. ToSet(s) = {s[i] : i \in 1 .. Len(s)}
    BY <1>1 DEF ToSet
  <2>2. 1 .. Len(s) = (1 .. n) \cup (n + 1 .. Len(s))
    BY <1>1
  <2> QED
    BY <1>5, <1>6, <2>1, <2>2
<1>8. ASSUME IsInjective(s)
      PROVE  IsInjective(a) /\ IsInjective(b) /\ ToSet(a) \cap ToSet(b) = {}
  <2>1. \A i, j \in 1 .. Len(s) : s[i] = s[j] => i = j
    BY <1>1, <1>8 DEF IsInjective
  <2>2. IsInjective(a)
    BY <1>1, <1>2, <1>4, <2>1 DEF IsInjective
  <2>3. IsInjective(b)
    <3> SUFFICES ASSUME NEW i \in 1 .. m, NEW j \in 1 .. m, b[i] = b[j] PROVE i = j
      BY <1>4 DEF IsInjective
    <3>1. n + i \in 1 .. Len(s) /\ n + j \in 1 .. Len(s) /\ s[n + i] = s[n + j]
      BY <1>1, <1>3
    <3>2. n + i = n + j
      BY <2>1, <3>1
    <3> QED
      BY <1>1, <3>2
  <2>4. ToSet(a) \cap ToSet(b) = {}
    <3>1. \A i \in 1 .. n : \A j \in n + 1 .. Len(s) :
             i \in 1 .. Len(s) /\ j \in 1 .. Len(s) /\ i # j
      BY <1>1
    <3> QED
      BY <1>5, <1>6, <2>1, <3>1
  <2> QED
    BY <2>2, <2>3, <2>4
<1> QED
  BY <1>2, <1>3, <1>7, <1>8 DEF a, b

-----------------------------------------------------------------------------
(* Totals *)

(* The units of one entry.                                                 *)
LEMMA UnitsOfEntry ==
    ASSUME NEW x, NEW n \in Nat
    PROVE  IsFiniteSet({x} \X (1 .. n)) /\ Cardinality({x} \X (1 .. n)) = n
<1>1. IsFiniteSet(1 .. n) /\ Cardinality(1 .. n) = n
  BY FS_Interval
<1>2. IsFiniteSet({x}) /\ Cardinality({x}) = 1
  BY FS_Singleton
<1> QED
  BY <1>1, <1>2, FS_Product

(* An entry more is its value more.                                        *)
LEMMA TotalSplit ==
    ASSUME NEW f, NEW g, NEW c, c \notin DOMAIN g, DOMAIN f = DOMAIN g \cup {c},
           \A x \in DOMAIN g : f[x] = g[x], f[c] \in Nat
    PROVE  /\ IsFiniteSet(UnitsOf(f)) <=> IsFiniteSet(UnitsOf(g))
           /\ IsFiniteSet(UnitsOf(g)) => Total(g) \in Nat /\ Total(f) = Total(g) + f[c]
<1> DEFINE row == {c} \X (1 .. f[c])
           U == UnitsOf(f)
           V == UnitsOf(g)
<1>1. U = V \cup row
  <2>1. ASSUME NEW u \in U PROVE u \in V \cup row
    <3>1. PICK x \in DOMAIN f : u \in {x} \X (1 .. f[x])
      BY DEF UnitsOf
    <3>2. CASE x = c
      BY <3>1, <3>2
    <3>3. CASE x # c
      BY <3>1, <3>3 DEF UnitsOf
    <3> QED
      BY <3>2, <3>3
  <2>2. ASSUME NEW u \in V PROVE u \in U
    BY DEF UnitsOf
  <2>3. row \subseteq U
    BY DEF UnitsOf
  <2> QED
    BY <2>1, <2>2, <2>3
<1>2. V \cap row = {}
  BY DEF UnitsOf
<1>3. IsFiniteSet(row) /\ Cardinality(row) = f[c]
  BY UnitsOfEntry
<1>4. V \subseteq U
  BY <1>1
<1> HIDE DEF row, U, V
<1>5. IsFiniteSet(U) => IsFiniteSet(V)
  BY <1>4, FS_Subset
<1>6. ASSUME IsFiniteSet(V)
      PROVE  IsFiniteSet(U) /\ Cardinality(V) \in Nat /\ Cardinality(U) = Cardinality(V) + f[c]
  <2>1. Cardinality(V \cap row) = 0
    BY <1>2, FS_EmptySet
  <2>2. Cardinality(V) \in Nat
    BY <1>6, FS_CardinalityType
  <2>3. /\ IsFiniteSet(V \cup row)
        /\ Cardinality(V \cup row) = Cardinality(V) + Cardinality(row) - Cardinality(V \cap row)
    BY <1>3, <1>6, FS_Union
  <2> QED
    BY <1>1, <1>3, <2>1, <2>2, <2>3
<1> QED
  BY <1>5, <1>6 DEF U, V, Total

(* Changing one entry.                                                     *)
LEMMA TotalUpdate ==
    ASSUME NEW f, NEW g, NEW c \in DOMAIN f, DOMAIN g = DOMAIN f,
           \A x \in DOMAIN f : x # c => g[x] = f[x],
           f[c] \in Nat, g[c] \in Nat, IsFiniteSet(UnitsOf(f))
    PROVE  /\ IsFiniteSet(UnitsOf(g)) /\ Total(f) \in Nat /\ Total(g) \in Nat
           /\ Total(g) = Total(f) - f[c] + g[c]
<1> DEFINE r == [x \in DOMAIN f \ {c} |-> f[x]]
<1>1. /\ DOMAIN r = DOMAIN f \ {c}
      /\ \A x \in DOMAIN r : r[x] = f[x] /\ g[x] = r[x]
  OBVIOUS
<1>2. c \notin DOMAIN r /\ DOMAIN f = DOMAIN r \cup {c} /\ DOMAIN g = DOMAIN r \cup {c}
  BY <1>1
<1> HIDE DEF r
<1>3. IsFiniteSet(UnitsOf(r)) /\ Total(r) \in Nat /\ Total(f) = Total(r) + f[c]
  BY <1>1, <1>2, TotalSplit
<1>4. IsFiniteSet(UnitsOf(g)) /\ Total(g) = Total(r) + g[c]
  BY <1>1, <1>2, <1>3, TotalSplit
<1> QED
  BY <1>3, <1>4

(* A table without units.                                                  *)
LEMMA TotalZero ==
    ASSUME NEW f, \A x \in DOMAIN f : f[x] = 0
    PROVE  IsFiniteSet(UnitsOf(f)) /\ Total(f) = 0
<1>1. UnitsOf(f) = {}
  <2>1. \A x \in DOMAIN f : 1 .. f[x] = {}
    OBVIOUS
  <2> QED
    BY <2>1 DEF UnitsOf
<1> QED
  BY <1>1, FS_EmptySet DEF Total

-----------------------------------------------------------------------------
(* Places and rounds *)

(* Every set of places that is not empty has a greatest one.               *)
LEMMA GreatestPlace ==
    ASSUME NEW n \in Nat, NEW S, S \subseteq 1 .. n, S # {}
    PROVE  Max(S) \in S /\ \A y \in S : Max(S) >= y
<1> DEFINE T == {n - x : x \in S}
<1>1. T \subseteq Nat /\ T # {}
  <2>1. PICK x : x \in S
    OBVIOUS
  <2>2. n - x \in T
    BY <2>1
  <2> QED
    BY <2>2
<1>2. PICK m \in T : \A y \in T : m <= y
  BY <1>1, LeastNatural
<1>3. PICK x \in S : m = n - x
  BY <1>2
<1>4. ASSUME NEW y \in S PROVE x >= y
  <2>1. n - y \in T /\ x \in Nat /\ y \in Nat
    BY <1>3
  <2>2. n - x <= n - y
    BY <1>2, <1>3, <2>1
  <2> HIDE DEF T
  <2> QED
    BY <2>1, <2>2
<1>5. \A y \in S : x >= y
  BY <1>4
<1> QED
  BY <1>5 DEF Max

(* What changes in the rounds of W only is at the end what it was after    *)
(* the last of them.                                                       *)
LEMMA LastChange ==
    ASSUME NEW n \in Nat, NEW g, NEW W, W \subseteq 1 .. n,
           \A k \in 1 .. n : k \notin W => g[k] = g[k - 1]
    PROVE  /\ W = {} => g[n] = g[0]
           /\ W # {} => Max(W) \in W /\ g[n] = g[Max(W)]
<1> DEFINE Stays(a) == \A k \in 0 .. n : k >= a => g[k] = g[a]
<1>1. ASSUME NEW a \in 0 .. n, \A k \in W : k <= a PROVE Stays(a)
  <2> DEFINE P == {k \in 0 .. n : k >= a => g[k] = g[a]}
  <2>1. 0 \in P
    OBVIOUS
  <2>2. ASSUME NEW k \in 0 .. n, k # 0, k - 1 \in P PROVE k \in P
    <3>1. k \in 1 .. n
      BY <2>2
    <3>2. CASE k > a
      <4>1. k \notin W /\ k - 1 >= a
        BY <1>1, <3>1, <3>2
      <4> QED
        BY <2>2, <3>1, <4>1
    <3>3. CASE k <= a
      BY <3>1, <3>3
    <3> QED
      BY <3>1, <3>2, <3>3
  <2> HIDE DEF P
  <2>3. \A k \in 0 .. n : k \in P
    BY <2>1, <2>2, InductionUpTo
  <2> QED
    BY <2>3 DEF P
<1>2. CASE W = {}
  <2>1. Stays(0)
    BY <1>1, <1>2
  <2> QED
    BY <1>2, <2>1
<1>3. CASE W # {}
  <2> DEFINE m == Max(W)
  <2>1. m \in W /\ \A y \in W : m >= y
    BY <1>3, GreatestPlace
  <2> HIDE DEF m
  <2>2. m \in 0 .. n /\ m <= n /\ \A k \in W : k <= m
    BY <2>1
  <2>3. Stays(m)
    BY <1>1, <2>2
  <2>4. g[n] = g[m]
    BY <2>2, <2>3
  <2> QED
    BY <1>3, <2>1, <2>4 DEF m
<1> QED
  BY <1>2, <1>3

(* There are n places up to n.                                             *)
LEMMA CountPlaces ==
    ASSUME NEW n \in Nat
    PROVE  IsFiniteSet(1 .. n) /\ Cardinality(1 .. n) = n
<1>1. 1 \in Int /\ n \in Int
  OBVIOUS
<1>2. IsFiniteSet(1 .. n) /\ Cardinality(1 .. n) = IF 1 > n THEN 0 ELSE n - 1 + 1
  BY <1>1, FS_Interval
<1> QED
  BY <1>2

(* The first element of a sequence that has one.                           *)
LEMMA FirstOfSeq ==
    ASSUME NEW S, NEW s \in Seq(S), s # << >>
    PROVE  s[1] \in S
<1>1. Len(s) # 0 /\ Len(s) \in Nat
  BY EmptySeq, LenProperties
<1>2. 1 \in 1 .. Len(s)
  BY <1>1
<1> QED
  BY <1>2, ElementOfSeq

(* Where the elements that Keep keeps were.                                *)
LEMMA KeepPlaces ==
    ASSUME NEW T, NEW s \in Seq(T), NEW S
    PROVE  /\ Keep(s, S) \in Seq(T)
           /\ \E at \in [DOMAIN Keep(s, S) -> DOMAIN s] :
                 /\ \A i, j \in DOMAIN Keep(s, S) : at[i] = at[j] => i = j
                 /\ \A i \in DOMAIN Keep(s, S) : Keep(s, S)[i] = s[at[i]]
<1> DEFINE N == Len(s)
<1>0. PICK kept \in [0 .. N -> Seq(T)] : Keep(s, S) = kept[N] /\ KeepsRounds(kept, s, S)
  BY KeepRecursion
<1>1. /\ Keep(s, S) = kept[N]
      /\ kept[0] = << >>
      /\ \A n \in 1 .. N :
            kept[n] = IF s[n] \in S THEN Append(kept[n - 1], s[n]) ELSE kept[n - 1]
  BY <1>0 DEF KeepsRounds
<1>2. N \in Nat /\ DOMAIN s = 1 .. N /\ \A n \in 1 .. N : s[n] \in T
  BY LenProperties, ElementOfSeq
<1> HIDE DEF N
<1> DEFINE Places(n, at) ==
               /\ \A i, j \in DOMAIN kept[n] : at[i] = at[j] => i = j
               /\ \A i \in DOMAIN kept[n] : kept[n][i] = s[at[i]]
           P == {n \in 0 .. N : \E at \in [DOMAIN kept[n] -> 1 .. n] : Places(n, at)}
<1>3. 0 \in P
  <2>1. DOMAIN kept[0] = {}
    BY <1>1
  <2> DEFINE at == [i \in {} |-> 0]
  <2>2. at \in [DOMAIN kept[0] -> 1 .. 0] /\ Places(0, at)
    BY <2>1
  <2>3. 0 \in 0 .. N
    BY <1>2
  <2> HIDE DEF at, Places
  <2> QED
    BY <2>2, <2>3
<1>4. ASSUME NEW n \in 0 .. N, n # 0, n - 1 \in P PROVE n \in P
  <2>1. n \in 1 .. N /\ n - 1 \in 0 .. N /\ s[n] \in T /\ kept[n - 1] \in Seq(T)
    BY <1>2, <1>4
  <2>2. PICK old \in [DOMAIN kept[n - 1] -> 1 .. n - 1] : Places(n - 1, old)
    BY <1>4
  <2>3. CASE s[n] \notin S
    <3>1. kept[n] = kept[n - 1]
      BY <1>1, <2>1, <2>3
    <3>2. old \in [DOMAIN kept[n] -> 1 .. n]
      BY <2>1, <3>1
    <3>3. Places(n, old)
      BY <2>2, <3>1
    <3> HIDE DEF Places
    <3> QED
      BY <1>4, <3>2, <3>3
  <2>4. CASE s[n] \in S
    <3> DEFINE v == kept[n - 1]
               u == Append(v, s[n])
               L == Len(v)
    <3>1. kept[n] = u
      BY <1>1, <2>1, <2>4
    <3>2. /\ u \in Seq(T) /\ Len(u) = L + 1 /\ \A i \in 1 .. L : u[i] = v[i]
          /\ u[L + 1] = s[n]
      BY <2>1, AppendProperties
    <3>3. L \in Nat /\ DOMAIN v = 1 .. L /\ DOMAIN u = 1 .. L + 1
      BY <2>1, <3>2, LenProperties
    <3> HIDE DEF u, L
    <3> DEFINE at == [i \in 1 .. L + 1 |-> IF i = L + 1 THEN n ELSE old[i]]
    <3>4. \A i \in 1 .. L : old[i] \in 1 .. n - 1 /\ v[i] = s[old[i]]
      BY <2>2, <3>3
    <3>5. \A i, j \in 1 .. L : old[i] = old[j] => i = j
      BY <2>2, <3>3
    <3>6. at \in [1 .. L + 1 -> 1 .. n]
      BY <2>1, <3>3, <3>4
    <3>7. \A i, j \in 1 .. L + 1 : at[i] = at[j] => i = j
      <4>1. \A i \in 1 .. L + 1 : i = L + 1 \/ i \in 1 .. L
        BY <3>3
      <4>2. \A i \in 1 .. L : old[i] # n
        BY <2>1, <3>4
      <4> QED
        BY <3>5, <4>1, <4>2
    <3>8. \A i \in 1 .. L + 1 : u[i] = s[at[i]]
      BY <3>2, <3>3, <3>4
    <3> HIDE DEF at
    <3>9. at \in [DOMAIN kept[n] -> 1 .. n] /\ Places(n, at)
      BY <3>1, <3>3, <3>6, <3>7, <3>8
    <3> HIDE DEF Places
    <3> QED
      BY <1>4, <3>9
  <2> QED
    BY <2>3, <2>4
<1> HIDE DEF P
<1>5. N \in P
  <2>1. \A k \in 0 .. N : k \in P
    BY <1>2, <1>3, <1>4, InductionUpTo
  <2> QED
    BY <1>2, <2>1
<1>6. PICK at \in [DOMAIN kept[N] -> 1 .. N] : Places(N, at)
  BY <1>5 DEF P
<1>7. kept[N] \in Seq(T)
  BY <1>2
<1> DEFINE k == kept[N]
<1>8. /\ at \in [DOMAIN k -> DOMAIN s]
      /\ \A i, j \in DOMAIN k : at[i] = at[j] => i = j
      /\ \A i \in DOMAIN k : k[i] = s[at[i]]
  BY <1>2, <1>6
<1>9. k \in Seq(T) /\ Keep(s, S) = k
  BY <1>1, <1>7
<1> HIDE DEF k, Places
<1> QED
  BY <1>8, <1>9

(* Nothing to leave out.                                                   *)
LEMMA KeepAll ==
    ASSUME NEW T, NEW s \in Seq(T), NEW S, ToSet(s) \subseteq S
    PROVE  Keep(s, S) = s
<1> DEFINE N == Len(s)
<1>0. PICK kept \in [0 .. N -> Seq(T)] : Keep(s, S) = kept[N] /\ KeepsRounds(kept, s, S)
  BY KeepRecursion
<1>1. N \in Nat /\ DOMAIN s = 1 .. N /\ \A n \in 1 .. N : s[n] \in S /\ s[n] \in T
  BY LenProperties, ElementOfSeq DEF ToSet
<1>2. /\ Keep(s, S) = kept[N] /\ kept[0] = << >>
      /\ \A n \in 1 .. N : kept[n] = Append(kept[n - 1], s[n])
  BY <1>0, <1>1 DEF KeepsRounds
<1> HIDE DEF N
<1> DEFINE P == {n \in 0 .. N : Len(kept[n]) = n /\ \A i \in 1 .. n : kept[n][i] = s[i]}
<1>3. 0 \in P
  BY <1>1, <1>2
<1>4. ASSUME NEW n \in 0 .. N, n # 0, n - 1 \in P PROVE n \in P
  <2>1. n \in 1 .. N /\ n - 1 \in 0 .. N /\ kept[n - 1] \in Seq(T) /\ s[n] \in T
    BY <1>1, <1>4
  <2> DEFINE v == kept[n - 1]
             u == Append(v, s[n])
  <2>2. kept[n] = u
    BY <1>2, <2>1
  <2>3. Len(u) = Len(v) + 1 /\ (\A i \in 1 .. Len(v) : u[i] = v[i]) /\ u[Len(v) + 1] = s[n]
    BY <2>1, AppendProperties
  <2>4. Len(v) = n - 1 /\ \A i \in 1 .. n - 1 : v[i] = s[i]
    BY <1>4
  <2> HIDE DEF u, v
  <2>5. Len(u) = n /\ \A i \in 1 .. n : u[i] = s[i]
    BY <2>1, <2>3, <2>4
  <2> QED
    BY <2>2, <2>5
<1> HIDE DEF P
<1>5. N \in P
  <2>1. \A k \in 0 .. N : k \in P
    BY <1>1, <1>3, <1>4, InductionUpTo
  <2> QED
    BY <1>1, <2>1
<1>6. kept[N] \in Seq(T) /\ Len(kept[N]) = N /\ \A i \in 1 .. N : kept[N][i] = s[i]
  BY <1>1, <1>5 DEF P
<1>7. kept[N] = s
  BY <1>6, SeqEqual DEF N
<1> QED
  BY <1>2, <1>7

(* order goes through S, each element once or more.                        *)
IsOrderOf(order, S, T) ==
    /\ order \in Seq(T) /\ DOMAIN order = 1 .. Len(order) /\ Len(order) \in Nat
    /\ \A i \in DOMAIN order : order[i] \in S
    /\ \A e \in S : \E i \in DOMAIN order : order[i] = e

(* The orders in which a finite set, such as a Go map, is ranged over.     *)
LEMMA OrdersAreOrders ==
    ASSUME NEW T, NEW S, S \subseteq T, IsFiniteSet(S), NEW order \in SetToSeqs(S)
    PROVE  IsOrderOf(order, S, T)
<1> DEFINE n == Cardinality(S)
           D == 1 .. n
<1>1. order \in [D -> S] /\ \A i, j \in D : i # j => order[i] # order[j]
  BY DEF SetToSeqs
<1>2. n \in Nat
  BY FS_CardinalityType
<1> HIDE DEF n
<1>3. IsFiniteSet(D) /\ Cardinality(D) = n
  BY <1>2, CountPlaces
<1>4. order \in Injection(D, S)
  BY <1>1 DEF Injection, IsInjective
<1>5. Cardinality(D) = Cardinality(S)
  BY <1>3 DEF n
<1> HIDE DEF D
<1>6. order \in Surjection(D, S)
  BY <1>4, <1>5, FS_Injection
<1>7. order \in [1 .. n -> T]
  BY <1>1 DEF D
<1>8. order \in Seq(T)
  BY <1>2, <1>7, FunctionIsSeq
<1>9. DOMAIN order = 1 .. Len(order) /\ Len(order) \in Nat
  BY <1>8, LenProperties
<1>10. DOMAIN order = D
  BY <1>1
<1>11. \A e \in S : \E i \in D : order[i] = e
  BY <1>6 DEF Surjection
<1> QED
  BY <1>1, <1>8, <1>9, <1>10, <1>11 DEF IsOrderOf

(* The same, its parts in view.                                            *)
LEMMA OrdersOfSet ==
    ASSUME NEW T, NEW S, S \subseteq T, IsFiniteSet(S), NEW order \in SetToSeqs(S)
    PROVE  /\ order \in Seq(T) /\ DOMAIN order = 1 .. Len(order) /\ Len(order) \in Nat
           /\ \A i \in DOMAIN order : order[i] \in S
           /\ \A e \in S : \E i \in DOMAIN order : order[i] = e
<1>1. IsOrderOf(order, S, T)
  BY OrdersAreOrders
<1> QED
  BY <1>1 DEF IsOrderOf

-----------------------------------------------------------------------------
(* Totals of finite tables *)

(* The units of a table of naturals with finitely many keys.               *)
LEMMA FiniteTotal ==
    ASSUME NEW f, IsFiniteSet(DOMAIN f), \A x \in DOMAIN f : f[x] \in Nat
    PROVE  IsFiniteSet(UnitsOf(f)) /\ Total(f) \in Nat
<1> DEFINE D == DOMAIN f
           rows == {{x} \X (1 .. f[x]) : x \in D}
           g == [x \in D |-> {x} \X (1 .. f[x])]
<1>1. g \in Surjection(D, rows)
  BY DEF Surjection
<1> HIDE DEF g
<1>2. ASSUME NEW r \in rows PROVE IsFiniteSet(r)
  <2>1. PICK x \in D : r = {x} \X (1 .. f[x])
    OBVIOUS
  <2>2. f[x] \in Nat
    OBVIOUS
  <2> QED
    BY <2>1, <2>2, UnitsOfEntry
<1>3. UnitsOf(f) = UNION rows
  BY DEF UnitsOf
<1> HIDE DEF rows
<1>4. IsFiniteSet(rows)
  BY <1>1, FS_Surjection
<1>5. IsFiniteSet(UNION rows)
  BY <1>2, <1>4, FS_UNION
<1> QED
  BY <1>3, <1>5, FS_CardinalityType DEF Total

(* A table whose entries are found, as large, under different keys of      *)
(* another has no larger total.                                            *)
LEMMA TotalOfPart ==
    ASSUME NEW f, NEW g, NEW at, IsFiniteSet(DOMAIN g), \A x \in DOMAIN g : g[x] \in Nat,
           \A x \in DOMAIN f : f[x] \in Nat /\ at[x] \in DOMAIN g /\ f[x] <= g[at[x]],
           \A x, y \in DOMAIN f : at[x] = at[y] => x = y
    PROVE  IsFiniteSet(UnitsOf(f)) /\ Total(f) \in Nat /\ Total(g) \in Nat /\ Total(f) <= Total(g)
<1>1. IsFiniteSet(UnitsOf(g)) /\ Total(g) \in Nat
  BY FiniteTotal
<1> DEFINE U == UnitsOf(f)
           V == UnitsOf(g)
           m == [u \in U |-> <<at[u[1]], u[2]>>]
<1>2. ASSUME NEW u \in U
      PROVE  u[1] \in DOMAIN f /\ u[2] \in 1 .. f[u[1]] /\ u = <<u[1], u[2]>>
  <2>1. PICK x \in DOMAIN f : u \in {x} \X (1 .. f[x])
    BY DEF UnitsOf
  <2> QED
    BY <2>1
<1>3. ASSUME NEW u \in U PROVE <<at[u[1]], u[2]>> \in V
  <2>1. u[1] \in DOMAIN f /\ u[2] \in 1 .. f[u[1]]
    BY <1>2
  <2>2. at[u[1]] \in DOMAIN g /\ u[2] \in 1 .. g[at[u[1]]]
    BY <2>1
  <2> QED
    BY <2>2 DEF UnitsOf
<1>4. ASSUME NEW u \in U, NEW v \in U, m[u] = m[v] PROVE u = v
  <2>1. at[u[1]] = at[v[1]] /\ u[2] = v[2]
    BY <1>4
  <2> QED
    BY <1>2, <2>1
<1> HIDE DEF U, V
<1>5. m \in Injection(U, V)
  BY <1>3, <1>4 DEF Injection, IsInjective
<1> HIDE DEF m
<1>6. IsFiniteSet(U) /\ Cardinality(U) <= Cardinality(V)
  BY <1>1, <1>5, FS_Injection DEF V
<1>7. Cardinality(U) \in Nat
  BY <1>6, FS_CardinalityType
<1> QED
  BY <1>1, <1>6, <1>7 DEF U, V, Total

-----------------------------------------------------------------------------
(* Places in lists *)

(* Every set of places that is not empty has a least one.                  *)
LEMMA LeastPlace ==
    ASSUME NEW S, S \subseteq Nat, S # {}
    PROVE  Min(S) \in S /\ \A y \in S : Min(S) <= y
<1>1. \E m \in S : \A y \in S : m <= y
  BY LeastNatural
<1> QED
  BY <1>1 DEF Min

(* A set of places that gets a later one keeps its first; the last is new. *)
LEMMA PlaceAdded ==
    ASSUME NEW n \in Nat, n # 0, NEW S, S \subseteq 1 .. n - 1
    PROVE  /\ Max(S \cup {n}) = n
           /\ S # {} => Min(S \cup {n}) = Min(S)
           /\ S = {} => Min(S \cup {n}) = n
<1> DEFINE U == S \cup {n}
<1>1. U \subseteq 1 .. n /\ U # {} /\ U \subseteq Nat
  OBVIOUS
<1>7. \A x \in U : x \in S \/ x = n
  OBVIOUS
<1>8. n \in U /\ S \subseteq U
  OBVIOUS
<1> HIDE DEF U
<1>2. Max(U) \in U /\ \A y \in U : Max(U) >= y
  BY <1>1, GreatestPlace
<1>3. Min(U) \in U /\ \A y \in U : Min(U) <= y
  BY <1>1, LeastPlace
<1>4. Max(U) = n
  <2>1. Max(U) >= n /\ Max(U) \in 1 .. n
    BY <1>1, <1>2, <1>8
  <2> QED
    BY <2>1
<1>5. ASSUME S # {} PROVE Min(U) = Min(S)
  <2>0. S \subseteq Nat
    OBVIOUS
  <2>1. Min(S) \in S /\ \A y \in S : Min(S) <= y
    BY <1>5, <2>0, LeastPlace
  <2>2. Min(S) \in 1 .. n - 1 /\ Min(S) \in U
    BY <1>8, <2>1
  <2>3. Min(U) <= Min(S) /\ Min(U) \in 1 .. n
    BY <1>1, <1>3, <2>2
  <2>4. Min(U) # n
    BY <2>2, <2>3
  <2>5. Min(U) \in S
    BY <1>3, <1>7, <2>4
  <2>6. Min(S) <= Min(U)
    BY <2>1, <2>5
  <2> QED
    BY <2>2, <2>3, <2>6
<1>6. ASSUME S = {} PROVE Min(U) = n
  BY <1>3, <1>6, <1>7
<1> QED
  BY <1>4, <1>5, <1>6 DEF U

(* The places up to k: what round k adds.                                  *)
UpTo(P, k) == {i \in P : i <= k}

Rounds(P, n) ==
    /\ UpTo(P, 0) = {} /\ UpTo(P, n) = P
    /\ \A k \in 1 .. n :
          /\ UpTo(P, k - 1) \subseteq 1 .. k - 1
          /\ k \in P => UpTo(P, k) = UpTo(P, k - 1) \cup {k}
          /\ k \notin P => UpTo(P, k) = UpTo(P, k - 1)

LEMMA PlacesUpTo == ASSUME NEW n \in Nat, NEW P, P \subseteq 1 .. n PROVE Rounds(P, n)
<1>1. \A i \in P : i \in Nat /\ 1 <= i /\ i <= n
  OBVIOUS
<1>2. UpTo(P, 0) = {} /\ UpTo(P, n) = P
  <2>1. \A i \in P : ~(i <= 0) /\ i <= n
    BY <1>1
  <2> QED
    BY <2>1, Zenon DEF UpTo
<1>3. ASSUME NEW k \in 1 .. n
      PROVE  /\ UpTo(P, k - 1) \subseteq 1 .. k - 1
             /\ k \in P => UpTo(P, k) = UpTo(P, k - 1) \cup {k}
             /\ k \notin P => UpTo(P, k) = UpTo(P, k - 1)
  <2>1. k \in Nat /\ k - 1 \in Nat
    OBVIOUS
  <2>2. \A i \in P : (i <= k <=> i <= k - 1 \/ i = k) /\ (i <= k - 1 => i \in 1 .. k - 1 /\ i # k)
    BY <1>1, <2>1
  <2> QED
    BY <2>2 DEF UpTo
<1> QED
  BY <1>2, <1>3 DEF Rounds

(* Places in a list that got an item in front.                             *)
LEMMA ShiftedPlaces ==
    ASSUME NEW n \in Nat, NEW S, S \subseteq 1 .. n, S # {}
    PROVE  LET U == {i + 1 : i \in S}
           IN  Min(U) = Min(S) + 1 /\ Max(U) = Max(S) + 1
<1> DEFINE U == {i + 1 : i \in S}
<1>1. S \subseteq Nat /\ U \subseteq 1 .. n + 1 /\ U \subseteq Nat /\ n + 1 \in Nat
  OBVIOUS
<1>2. U # {}
  <2>1. PICK x : x \in S
    OBVIOUS
  <2>2. x + 1 \in U
    BY <2>1
  <2> QED
    BY <2>2
<1>3. \A i \in S : i + 1 \in U
  OBVIOUS
<1>4. \A u \in U : u - 1 \in S /\ u \in Nat
  OBVIOUS
<1> HIDE DEF U
<1>5. Min(S) \in S /\ (\A y \in S : Min(S) <= y) /\ Max(S) \in S /\ (\A y \in S : Max(S) >= y)
  BY <1>1, LeastPlace, GreatestPlace
<1>6. Min(U) \in U /\ \A y \in U : Min(U) <= y
  BY <1>1, <1>2, LeastPlace
<1>7. Max(U) \in U /\ \A y \in U : Max(U) >= y
  BY <1>1, <1>2, GreatestPlace
<1>8. Min(U) = Min(S) + 1
  <2>1. Min(U) <= Min(S) + 1 /\ Min(S) <= Min(U) - 1
    BY <1>3, <1>4, <1>5, <1>6
  <2>2. Min(U) \in Nat /\ Min(S) \in Nat
    BY <1>1, <1>5, <1>6
  <2> QED
    BY <2>1, <2>2
<1>9. Max(U) = Max(S) + 1
  <2>1. Max(U) >= Max(S) + 1 /\ Max(S) >= Max(U) - 1
    BY <1>3, <1>4, <1>5, <1>7
  <2>2. Max(U) \in Nat /\ Max(S) \in Nat
    BY <1>1, <1>5, <1>7
  <2> QED
    BY <2>1, <2>2
<1> QED
  BY <1>8, <1>9 DEF U

(* What follows the first item.                                            *)
LEMMA HeadAndTail ==
    ASSUME NEW T, NEW s \in Seq(T), NEW x
    PROVE  Head(<<x>> \o s) = x /\ Tail(<<x>> \o s) = s
<1> DEFINE U == T \cup {x}
           u == <<x>>
           v == u \o s
<1>1. s \in Seq(U) /\ u \in Seq(U) /\ Len(u) = 1 /\ u[1] = x
  <2>1. Len(s) \in Nat /\ s \in [1 .. Len(s) -> U]
    BY LenProperties
  <2>2. s \in Seq(U)
    <3> HIDE DEF U
    <3> QED
      BY <2>1, FunctionIsSeq
  <2> QED
    BY <2>2
<1> HIDE DEF U, u
<1>2. /\ v \in Seq(U) /\ Len(v) = 1 + Len(s) /\ Len(s) \in Nat
      /\ v[1] = x /\ \A i \in 1 .. Len(s) : v[i + 1] = s[i]
  <2>1. Len(s) \in Nat
    BY <1>1, LenProperties
  <2>2. /\ v \in Seq(U) /\ Len(v) = Len(u) + Len(s)
        /\ \A i \in 1 .. Len(u) + Len(s) : v[i] = IF i <= Len(u) THEN u[i] ELSE s[i - Len(u)]
    BY <1>1, ConcatProperties
  <2> HIDE DEF v
  <2>3. v[1] = x
    BY <1>1, <2>1, <2>2
  <2>4. \A i \in 1 .. Len(s) : v[i + 1] = s[i]
    BY <1>1, <2>1, <2>2
  <2> QED
    BY <1>1, <2>1, <2>2, <2>3, <2>4
<1> HIDE DEF v
<1>3. v # << >>
  BY <1>2
<1>4. Head(v) = x /\ Tail(v) \in Seq(U) /\ Len(Tail(v)) = Len(s)
      /\ \A i \in 1 .. Len(s) : Tail(v)[i] = v[i + 1]
  <2>1. Tail(v) \in Seq(U) /\ Len(Tail(v)) = Len(v) - 1
        /\ \A i \in 1 .. Len(Tail(v)) : Tail(v)[i] = v[i + 1]
    BY <1>2, <1>3, HeadTailProperties
  <2> QED
    BY <1>2, <1>3, <2>1
<1>5. Tail(v) = s
  BY <1>1, <1>2, <1>4, SeqEqual
<1> QED
  BY <1>4, <1>5 DEF v, u

(* A list of at most one item.                                             *)
LEMMA OneOrNone ==
    ASSUME NEW U, NEW x \in U, NEW s, s = <<x>> \/ s = << >>
    PROVE  s \in Seq(U) /\ Len(s) \in Nat /\ \A i \in 1 .. Len(s) : s[i] = x /\ i = 1
<1>1. CASE s = <<x>>
  <2>1. Len(s) = 1 /\ s[1] = x /\ s \in Seq(U)
    BY <1>1
  <2> QED
    BY <2>1
<1>2. CASE s = << >>
  <2>1. Len(s) = 0 /\ s \in Seq(U)
    BY <1>2
  <2> QED
    BY <2>1
<1> QED
  BY <1>1, <1>2
=============================================================================
