---------------------------- MODULE DataLemmas ----------------------------
(***************************************************************************)
(* What the proofs of several components need of numbers and sequences.     *)
(*                                                                         *)
(* Induction over the natural numbers is stated of sets of numbers: a set  *)
(* is a value, and so what is stated of one can be used for any.            *)
(***************************************************************************)
EXTENDS Integers, Sequences, SequencesExt, SequenceTheorems, WellFoundedInduction, TLAPS

(* The order of the naturals, as a relation.                                *)
Below == OpToRel(<, Nat)

(* A smaller natural is below.                                              *)
LEMMA SmallerIsBelow ==
  ASSUME NEW m \in Nat, NEW n \in Nat, m < n PROVE <<m, n>> \in Below
  BY DEF Below, OpToRel

(* A set of naturals that is not empty has a least element.                 *)
LEMMA LeastNatural ==
  ASSUME NEW S, S \subseteq Nat, S # {}
  PROVE  \E n \in S : \A m \in S : n <= m
<1>1. IsWellFoundedOn(Below, Nat)
  BY NatLessThanWellFounded DEF Below
<1>2. PICK n \in S : \A m \in S : ~(<<m, n>> \in Below)
  <2>1. \E n \in S : \A m \in S : ~(<<m, n>> \in Below)
    BY <1>1, WFMin
  <2> QED BY <2>1
<1>3. ASSUME NEW m \in S PROVE n <= m
  <2>1. ~(<<m, n>> \in Below)
    BY <1>2
  <2>2. ~(m < n)
    BY <2>1, SmallerIsBelow
  <2> QED BY <2>2
<1> QED BY <1>3

(* What zero has, and each number's successor has with the number, all have. *)
LEMMA AllNaturals ==
  ASSUME NEW S, 0 \in S, \A n \in Nat : n \in S => n + 1 \in S
  PROVE  \A n \in Nat : n \in S
<1> SUFFICES ASSUME NEW k \in Nat, k \notin S PROVE FALSE
  OBVIOUS
<1>1. PICK n \in Nat \ S : \A m \in Nat \ S : n <= m
  <2>1. Nat \ S # {} /\ Nat \ S \subseteq Nat
    OBVIOUS
  <2> QED BY <2>1, LeastNatural
<1>2. n # 0 /\ n - 1 \in Nat /\ ~(n <= n - 1) /\ (n - 1) + 1 = n
  OBVIOUS
<1>3. n - 1 \in S
  BY <1>1, <1>2
<1> QED BY <1>1, <1>2, <1>3

-----------------------------------------------------------------------------
(* Walks: what is done for one after another is a function from how many    *)
(* were visited to what there is then.                                      *)
Walks(at, f, p, N, P) ==
    /\ at = [n \in 0..N |-> at[n]] /\ at[0] = p
    /\ \A n \in 1..N : at[n] = f[n][at[n - 1]]
    /\ \A n \in 0..N : at[n] \in P[n]

(* A walk whose steps lead from each of some sets into the next is there.   *)
LEMMA Turns ==
  ASSUME NEW N \in Nat, NEW P, NEW f, NEW p \in P[0],
         \A n \in 1..N : \A q \in P[n - 1] : f[n][q] \in P[n]
  PROVE  \E at : Walks(at, f, p, N, P)
<1> DEFINE S == {k \in Nat : k <= N => \E at : Walks(at, f, p, k, P)}
<1>1. 0 \in S
  <2> DEFINE a == [n \in 0..0 |-> p]
  <2>1. Walks(a, f, p, 0, P)
    BY DEF Walks
  <2> HIDE DEF a
  <2> QED BY <2>1
<1>2. ASSUME NEW k \in Nat, k \in S PROVE k + 1 \in S
  <2> SUFFICES ASSUME k + 1 <= N PROVE \E at : Walks(at, f, p, k + 1, P)
    OBVIOUS
  <2>1. PICK at : Walks(at, f, p, k, P)
    BY <1>2
  <2> DEFINE b == [n \in 0..(k + 1) |-> IF n = k + 1 THEN f[k + 1][at[k]] ELSE at[n]]
  <2>2. /\ k \in 0..k /\ k + 1 \in 1..N /\ k + 1 \in 0..(k + 1) /\ (k + 1) - 1 = k
        /\ b[k + 1] = f[k + 1][at[k]]
    OBVIOUS
  <2>3. /\ b = [n \in 0..(k + 1) |-> b[n]] /\ \A n \in 0..k : b[n] = at[n]
        /\ b[0] = p
    BY <2>1 DEF Walks
  <2> HIDE DEF b
  <2>4. ASSUME NEW n \in 1..(k + 1) PROVE b[n] = f[n][b[n - 1]]
    <3>1. CASE n = k + 1
      BY <2>2, <2>3, <3>1
    <3>2. CASE n # k + 1
      <4>1. n \in 0..k /\ n \in 1..k /\ n - 1 \in 0..k
        BY <3>2
      <4> QED BY <2>1, <2>3, <4>1 DEF Walks
    <3> QED BY <3>1, <3>2
  <2>5. ASSUME NEW n \in 0..(k + 1) PROVE b[n] \in P[n]
    <3>1. CASE n = k + 1
      <4>1. at[k] \in P[k]
        BY <2>1, <2>2 DEF Walks
      <4>2. f[k + 1][at[k]] \in P[k + 1]
        BY <2>2, <4>1
      <4> QED BY <2>2, <3>1, <4>2
    <3>2. CASE n # k + 1
      <4>1. n \in 0..k
        BY <3>2
      <4> QED BY <2>1, <2>3, <4>1 DEF Walks
    <3> QED BY <3>1, <3>2
  <2>6. Walks(b, f, p, k + 1, P)
    BY <2>3, <2>4, <2>5 DEF Walks
  <2> QED BY <2>6
<1>3. N \in S
  <2> HIDE DEF S
  <2> QED BY <1>1, <1>2, AllNaturals
<1> QED BY <1>3

(* A walk that goes from each of some sets into the next ends in the last.  *)
LEMMA TurnsStay ==
  ASSUME NEW N \in Nat, NEW P, NEW at, at[0] \in P[0],
         \A n \in 1..N : at[n - 1] \in P[n - 1] => at[n] \in P[n]
  PROVE  at[N] \in P[N]
<1> DEFINE S == {k \in Nat : k <= N => at[k] \in P[k]}
<1>1. 0 \in S
  OBVIOUS
<1>2. ASSUME NEW k \in Nat, k \in S PROVE k + 1 \in S
  <2> SUFFICES ASSUME k + 1 <= N PROVE at[k + 1] \in P[k + 1]
    OBVIOUS
  <2>1. k + 1 \in 1..N /\ (k + 1) - 1 = k
    OBVIOUS
  <2> QED BY <1>2, <2>1
<1>3. N \in S
  <2> HIDE DEF S
  <2> QED BY <1>1, <1>2, AllNaturals
<1> QED BY <1>3

-----------------------------------------------------------------------------
(* Queues hold messages of many shapes: all that is used of one is that it  *)
(* is a sequence.                                                           *)
IsSeq(s) == s \in Seq(Range(s))

(* A sequence over any set is a sequence.                                   *)
LEMMA SeqIsSeq == ASSUME NEW T, NEW s \in Seq(T) PROVE IsSeq(s)
<1>1. \A i \in 1..Len(s) : s[i] \in Range(s)
  BY DEF Range
<1> QED BY <1>1 DEF IsSeq

(* Posting a message keeps those before it.                                 *)
LEMMA Appended ==
  ASSUME NEW s, IsSeq(s), NEW x
  PROVE  /\ IsSeq(Append(s, x))
         /\ DOMAIN s = 1..Len(s) /\ Len(s) \in Nat
         /\ DOMAIN Append(s, x) = 1..(Len(s) + 1)
         /\ \A i \in DOMAIN s : Append(s, x)[i] = s[i]
         /\ Append(s, x)[Len(s) + 1] = x
         /\ Last(Append(s, x)) = x
<1> DEFINE T == Range(s) \cup {x}
<1>1. s \in Seq(T) /\ x \in T
  BY DEF IsSeq
<1>2. Append(s, x) \in Seq(T)
  BY <1>1
<1>3. IsSeq(Append(s, x))
  BY <1>2, SeqIsSeq
<1>4. /\ DOMAIN s = 1..Len(s) /\ Len(s) \in Nat
      /\ DOMAIN Append(s, x) = 1..(Len(s) + 1)
      /\ \A i \in DOMAIN s : Append(s, x)[i] = s[i]
      /\ Append(s, x)[Len(s) + 1] = x
      /\ Len(Append(s, x)) = Len(s) + 1
  BY <1>1
<1> QED BY <1>3, <1>4 DEF Last

(* Taking the oldest message moves the others up.                           *)
LEMMA Taken ==
  ASSUME NEW s, IsSeq(s), s # <<>>
  PROVE  /\ IsSeq(Tail(s))
         /\ DOMAIN s = 1..Len(s) /\ Len(s) \in Nat \ {0}
         /\ 1 \in DOMAIN s /\ Head(s) = s[1]
         /\ DOMAIN Tail(s) = 1..(Len(s) - 1)
         /\ \A i \in DOMAIN Tail(s) : i + 1 \in DOMAIN s /\ Tail(s)[i] = s[i + 1]
<1> DEFINE T == Range(s)
<1>1. s \in Seq(T)
  BY DEF IsSeq
<1> HIDE DEF T
<1>2. Tail(s) \in Seq(T)
  BY <1>1
<1>3. IsSeq(Tail(s))
  BY <1>2, SeqIsSeq
<1> QED BY <1>1, <1>3

(* Two sequences with the same elements are the same.                       *)
LEMMA SameSeq ==
  ASSUME NEW s, IsSeq(s), NEW t, IsSeq(t), Len(s) = Len(t), \A i \in 1..Len(s) : s[i] = t[i]
  PROVE  s = t
<1> DEFINE T == Range(s) \cup Range(t)
<1>1. s \in Seq(T) /\ t \in Seq(T)
  <2>1. s \in Seq(Range(s)) /\ t \in Seq(Range(t))
    BY DEF IsSeq
  <2> HIDE DEF T
  <2>2. Range(s) \subseteq T /\ Range(t) \subseteq T
    BY DEF T
  <2> QED BY <2>1, <2>2, SeqMonotonic
<1> HIDE DEF T
<1> QED BY <1>1, SeqEqual

(* Messages after messages.                                                  *)
LEMMA Joined ==
  ASSUME NEW s, IsSeq(s), NEW t, IsSeq(t)
  PROVE  /\ IsSeq(s \o t)
         /\ Len(s) \in Nat /\ Len(t) \in Nat
         /\ Len(s \o t) = Len(s) + Len(t)
         /\ \A i \in 1..Len(s) : (s \o t)[i] = s[i]
         /\ \A i \in 1..Len(t) : (s \o t)[Len(s) + i] = t[i]
<1> DEFINE T == Range(s) \cup Range(t)
<1>1. s \in Seq(T) /\ t \in Seq(T)
  <2>1. s \in Seq(Range(s)) /\ t \in Seq(Range(t))
    BY DEF IsSeq
  <2> HIDE DEF T
  <2>2. Range(s) \subseteq T /\ Range(t) \subseteq T
    BY DEF T
  <2> QED BY <2>1, <2>2, SeqMonotonic
<1> HIDE DEF T
<1>2. s \o t \in Seq(T)
  BY <1>1
<1>3. IsSeq(s \o t)
  BY <1>2, SeqIsSeq
<1> QED BY <1>1, <1>3

(* The first messages of a sequence.                                        *)
LEMMA FirstOf ==
  ASSUME NEW s, IsSeq(s), NEW k \in 0..Len(s)
  PROVE  /\ IsSeq(SubSeq(s, 1, k))
         /\ Len(SubSeq(s, 1, k)) = k
         /\ \A i \in 1..k : SubSeq(s, 1, k)[i] = s[i]
<1> DEFINE T == Range(s)
<1>1. s \in Seq(T)
  BY DEF IsSeq
<1> HIDE DEF T
<1>2. Len(s) \in Nat /\ \A i \in 1..k : s[i] \in T
  BY <1>1
<1>3. SubSeq(s, 1, k) \in Seq(T)
  BY <1>1, <1>2
<1>4. IsSeq(SubSeq(s, 1, k))
  BY <1>3, SeqIsSeq
<1> QED BY <1>1, <1>2, <1>4

(* The first messages of two parts: those of the first part, or it and the   *)
(* first ones of the second.                                                 *)
LEMMA FirstOfJoined ==
  ASSUME NEW s, IsSeq(s), NEW t, IsSeq(t)
  PROVE  /\ \A k \in 0..Len(s) : SubSeq(s \o t, 1, k) = SubSeq(s, 1, k)
         /\ \A k \in 0..Len(t) : SubSeq(s \o t, 1, Len(s) + k) = s \o SubSeq(t, 1, k)
<1> DEFINE z == s \o t
<1>1. /\ IsSeq(z) /\ Len(s) \in Nat /\ Len(t) \in Nat /\ Len(z) = Len(s) + Len(t)
      /\ \A i \in 1..Len(s) : z[i] = s[i]
      /\ \A i \in 1..Len(t) : z[Len(s) + i] = t[i]
  BY Joined
<1> HIDE DEF z
<1>2. ASSUME NEW k \in 0..Len(s) PROVE SubSeq(z, 1, k) = SubSeq(s, 1, k)
  <2>0. k \in 0..Len(z) /\ 1..k \subseteq 1..Len(s)
    BY <1>1
  <2>1. /\ IsSeq(SubSeq(z, 1, k)) /\ Len(SubSeq(z, 1, k)) = k
        /\ \A i \in 1..k : SubSeq(z, 1, k)[i] = z[i]
    BY <1>1, <2>0, FirstOf
  <2>2. /\ IsSeq(SubSeq(s, 1, k)) /\ Len(SubSeq(s, 1, k)) = k
        /\ \A i \in 1..k : SubSeq(s, 1, k)[i] = s[i]
    BY FirstOf
  <2>3. \A i \in 1..k : SubSeq(z, 1, k)[i] = SubSeq(s, 1, k)[i]
    BY <1>1, <2>0, <2>1, <2>2
  <2> QED BY <2>1, <2>2, <2>3, SameSeq
<1>3. ASSUME NEW k \in 0..Len(t) PROVE SubSeq(z, 1, Len(s) + k) = s \o SubSeq(t, 1, k)
  <2> DEFINE n == Len(s) + k
             a == SubSeq(z, 1, n)
             b == SubSeq(t, 1, k)
  <2>0. n \in 0..Len(z) /\ k \in Nat /\ n \in Nat
    BY <1>1
  <2>1. IsSeq(a) /\ Len(a) = n /\ \A i \in 1..n : a[i] = z[i]
    <3> HIDE DEF n
    <3> QED BY <1>1, <2>0, FirstOf
  <2>2. IsSeq(b) /\ Len(b) = k /\ \A i \in 1..k : b[i] = t[i]
    BY FirstOf
  <2> HIDE DEF a, b
  <2>3. /\ IsSeq(s \o b) /\ Len(s \o b) = Len(s) + k
        /\ \A i \in 1..Len(s) : (s \o b)[i] = s[i]
        /\ \A i \in 1..k : (s \o b)[Len(s) + i] = b[i]
    <3>1. IsSeq(b) /\ k = Len(b)
      BY <2>2
    <3>2. /\ IsSeq(s \o b) /\ Len(s \o b) = Len(s) + Len(b)
          /\ \A i \in 1..Len(s) : (s \o b)[i] = s[i]
          /\ \A i \in 1..Len(b) : (s \o b)[Len(s) + i] = b[i]
      BY <3>1, Joined
    <3> QED BY <3>1, <3>2
  <2>4. ASSUME NEW i \in 1..n PROVE a[i] = (s \o b)[i]
    <3>1. CASE i \in 1..Len(s)
      BY <1>1, <2>1, <2>3, <3>1
    <3>2. CASE i \notin 1..Len(s)
      <4>1. PICK j \in 1..k : i = Len(s) + j
        <5>1. i - Len(s) \in 1..k /\ i = Len(s) + (i - Len(s))
          BY <1>1, <2>0, <3>2
        <5> QED BY <5>1
      <4>2. j \in 1..Len(t)
        BY <1>1
      <4> QED BY <1>1, <2>1, <2>2, <2>3, <4>1, <4>2
    <3> QED BY <3>1, <3>2
  <2>5. a = s \o b
    BY <2>1, <2>3, <2>4, SameSeq
  <2> QED BY <2>5 DEF a, b
<1> QED BY <1>2, <1>3 DEF z

(* Nothing comes after all of a sequence, and its first message before the   *)
(* others.                                                                   *)
LEMMA Parts ==
  ASSUME NEW s, IsSeq(s)
  PROVE  /\ SubSeq(s, 1, Len(s)) = s
         /\ SubSeq(s, 1, 0) = <<>>
         /\ s \o <<>> = s /\ <<>> \o s = s
         /\ \A x : Append(s, x) = s \o <<x>>
         /\ s # <<>> => s = <<Head(s)>> \o Tail(s)
<1> DEFINE T == Range(s)
<1>1. s \in Seq(T)
  BY DEF IsSeq
<1> HIDE DEF T
<1>2. SubSeq(s, 1, Len(s)) = s
  BY <1>1, SubSeqFull
<1>3. SubSeq(s, 1, 0) = <<>>
  BY SubSeqEmpty
<1>4. s \o <<>> = s /\ <<>> \o s = s
  BY <1>1, ConcatEmptySeq
<1>5. \A x : Append(s, x) = s \o <<x>>
  BY <1>1
<1>6. ASSUME s # <<>> PROVE s = <<Head(s)>> \o Tail(s)
  <2>1. /\ IsSeq(Tail(s)) /\ Len(s) \in Nat \ {0} /\ 1 \in DOMAIN s
        /\ \A i \in DOMAIN Tail(s) : Tail(s)[i] = s[i + 1]
        /\ DOMAIN Tail(s) = 1..(Len(s) - 1) /\ Head(s) = s[1]
    BY <1>6, Taken
  <2> DEFINE h == <<Head(s)>>
             t == Tail(s)
  <2>2. h \in Seq({Head(s)}) /\ Len(h) = 1 /\ h[1] = s[1]
    BY <2>1
  <2>3. IsSeq(h) /\ Len(t) = Len(s) - 1
    <3>1. IsSeq(h)
      <4> HIDE DEF h
      <4> QED BY <2>2, SeqIsSeq
    <3>2. Len(t) = Len(s) - 1
      BY <1>1, <1>6
    <3> QED BY <3>1, <3>2
  <2> HIDE DEF h, t
  <2>4. /\ IsSeq(h \o t) /\ Len(h \o t) = Len(h) + Len(t)
        /\ \A i \in 1..Len(h) : (h \o t)[i] = h[i]
        /\ \A i \in 1..Len(t) : (h \o t)[Len(h) + i] = t[i]
    <3>1. IsSeq(t)
      BY <2>1 DEF t
    <3>2. IsSeq(h)
      BY <2>3
    <3> QED BY <3>1, <3>2, Joined
  <2>5. ASSUME NEW i \in 1..Len(s) PROVE s[i] = (h \o t)[i]
    <3>1. CASE i = 1
      BY <2>2, <2>4, <3>1
    <3>2. CASE i # 1
      <4>1. PICK j \in 1..Len(t) : i = j + 1
        <5>1. i - 1 \in 1..Len(t) /\ i = (i - 1) + 1
          BY <2>1, <2>3, <3>2
        <5> QED BY <5>1
      <4>2. t[j] = s[j + 1]
        BY <2>1, <2>3, <4>1 DEF t
      <4>3. (h \o t)[Len(h) + j] = t[j] /\ Len(h) + j = j + 1
        BY <2>2, <2>3, <2>4, <4>1
      <4> QED BY <4>1, <4>2, <4>3
    <3> QED BY <3>1, <3>2
  <2>6. Len(s) = Len(h \o t)
    BY <2>1, <2>2, <2>3, <2>4
  <2>7. s = h \o t
    BY <2>4, <2>5, <2>6, SameSeq
  <2> QED BY <2>7 DEF h, t
<1> QED BY <1>2, <1>3, <1>4, <1>5, <1>6

(* Sequences of sequences over a set, joined in order, are one over the set. *)
LEMMA Flattened ==
  ASSUME NEW T, NEW seqs \in Seq(Seq(T))
  PROVE  FlattenSeq(seqs) \in Seq(T)
<1>1. CASE Len(seqs) = 0
  BY <1>1 DEF FlattenSeq
<1>2. CASE Len(seqs) # 0
  <2> DEFINE Made(k, f) == f = [i \in 1..k |-> IF i = 1 THEN seqs[i] ELSE f[i - 1] \o seqs[i]]
             S == {k \in Nat : \E f : Made(k, f)}
  <2>1. 0 \in S
    <3>1. Made(0, [i \in 1..0 |-> 0])
      OBVIOUS
    <3> QED BY <3>1
  <2>2. ASSUME NEW k \in Nat, k \in S PROVE k + 1 \in S
    <3>1. PICK f : Made(k, f)
      BY <2>2
    <3> DEFINE g == [i \in 1..(k + 1) |->
                       IF i = k + 1 THEN IF i = 1 THEN seqs[i] ELSE f[k] \o seqs[i] ELSE f[i]]
    <3>2. \A i \in 1..k : f[i] = IF i = 1 THEN seqs[i] ELSE f[i - 1] \o seqs[i]
      BY <3>1
    <3>3. ASSUME NEW i \in 1..(k + 1)
          PROVE  g[i] = IF i = 1 THEN seqs[i] ELSE g[i - 1] \o seqs[i]
      <4>1. CASE i = 1
        <5>1. CASE k = 0
          BY <4>1, <5>1
        <5>2. CASE k # 0
          <6>1. i \in 1..k /\ i # k + 1
            BY <4>1, <5>2
          <6> QED BY <3>2, <4>1, <6>1
        <5> QED BY <5>1, <5>2
      <4>2. CASE i # 1 /\ i = k + 1
        <5>1. i - 1 = k /\ k \in 1..(k + 1) /\ k # k + 1
          BY <4>2
        <5>2. g[i - 1] = f[k]
          BY <5>1
        <5>3. g[i] = f[k] \o seqs[i]
          BY <4>2
        <5> QED BY <4>2, <5>2, <5>3
      <4>3. CASE i # 1 /\ i # k + 1
        <5>1. i \in 1..k /\ i - 1 \in 1..(k + 1) /\ i - 1 # k + 1
          BY <4>3
        <5>2. g[i] = f[i] /\ g[i - 1] = f[i - 1]
          BY <4>3, <5>1
        <5> QED BY <3>2, <4>3, <5>1, <5>2
      <4> QED BY <4>1, <4>2, <4>3
    <3>4. g = [i \in 1..(k + 1) |-> g[i]]
      OBVIOUS
    <3> DEFINE h == [i \in 1..(k + 1) |-> IF i = 1 THEN seqs[i] ELSE g[i - 1] \o seqs[i]]
    <3> HIDE DEF g
    <3>5. g = h
      BY <3>3, <3>4
    <3>6. Made(k + 1, g)
      <4> HIDE DEF h
      <4> QED BY <3>5 DEF h
    <3> HIDE DEF Made, S
    <3>7. \E f1 : Made(k + 1, f1)
      BY <3>6
    <3> QED BY <3>7 DEF S
  <2>3. PICK n \in Nat \ {0} : n = Len(seqs)
    BY <1>2
  <2>4. \A i \in 1..n : seqs[i] \in Seq(T)
    BY <2>3
  <2>5. \E f : Made(n, f)
    <3> HIDE DEF S
    <3>1. n \in S
      BY <2>1, <2>2, <2>3, AllNaturals
    <3> QED BY <3>1 DEF S
  <2> DEFINE whole == CHOOSE f : Made(n, f)
  <2>6. Made(n, whole)
    BY <2>5
  <2>7. FlattenSeq(seqs) = whole[n]
    BY <2>3 DEF FlattenSeq
  <2> HIDE DEF whole
  <2>8. \A i \in 1..n : whole[i] = IF i = 1 THEN seqs[i] ELSE whole[i - 1] \o seqs[i]
    BY <2>6
  <2> HIDE DEF Made, S
  <2> DEFINE P == {k \in Nat : k \in 1..n => whole[k] \in Seq(T)}
  <2>9. 0 \in P
    OBVIOUS
  <2>10. ASSUME NEW k \in Nat, k \in P PROVE k + 1 \in P
    <3> SUFFICES ASSUME k + 1 \in 1..n PROVE whole[k + 1] \in Seq(T)
      OBVIOUS
    <3>1. CASE k = 0
      <4>1. PICK i \in 1..n : i = k + 1
        OBVIOUS
      <4>2. whole[i] = seqs[i]
        BY <2>8, <3>1, <4>1
      <4> QED BY <2>4, <4>1, <4>2
    <3>2. CASE k # 0
      <4>1. PICK i \in 1..n : i = k + 1
        OBVIOUS
      <4>2. i - 1 = k /\ i # 1 /\ k \in 1..n
        BY <3>2, <4>1
      <4>3. whole[i] = whole[k] \o seqs[i]
        BY <2>8, <4>1, <4>2
      <4>4. whole[k] \in Seq(T) /\ seqs[i] \in Seq(T)
        BY <2>4, <2>10, <4>1, <4>2
      <4> HIDE DEF P
      <4>5. whole[i] \in Seq(T)
        BY <4>3, <4>4
      <4> QED BY <4>1, <4>5
    <3> QED BY <3>1, <3>2
  <2>11. n \in P
    <3> HIDE DEF P
    <3> QED BY <2>9, <2>10, AllNaturals
  <2> QED BY <2>7, <2>11
<1> QED BY <1>1, <1>2

-----------------------------------------------------------------------------
(* A function on the first numbers is a sequence of as many.                *)
LEMMA VectorOf ==
  ASSUME NEW n \in Nat, NEW f, f = [i \in 1..n |-> f[i]]
  PROVE  IsSeq(f) /\ Len(f) = n /\ DOMAIN f = 1..n
<1>1. DOMAIN f = 1..n
  OBVIOUS
<1>2. \A i \in 1..n : f[i] \in Range(f)
  BY <1>1 DEF Range
<1>3. f \in [1..n -> Range(f)]
  BY <1>2
<1>4. f \in Seq(Range(f)) /\ Len(f) = n
  BY <1>3
<1> QED BY <1>1, <1>4 DEF IsSeq

(* The reverse of a sequence.                                               *)
LEMMA Reversed ==
  ASSUME NEW S, NEW s \in Seq(S)
  PROVE  /\ Reverse(s) \in Seq(S) /\ Len(Reverse(s)) = Len(s)
         /\ \A i \in 1..Len(s) : Reverse(s)[i] = s[(Len(s) - i) + 1]
<1> DEFINE r == [i \in 1..Len(s) |-> s[(Len(s) - i) + 1]]
<1>1. Len(s) \in Nat /\ \A i \in 1..Len(s) : (Len(s) - i) + 1 \in 1..Len(s)
  OBVIOUS
<1>2. \A i \in 1..Len(s) : r[i] \in S
  BY <1>1, ElementOfSeq
<1>3. r \in Seq(S) /\ Len(r) = Len(s)
  BY <1>1, <1>2
<1> QED BY <1>3 DEF Reverse

(* A part of a sequence between two of its cells.                           *)
LEMMA Parted ==
  ASSUME NEW S, NEW s \in Seq(S), NEW i \in Nat, NEW j \in Nat, i < j, j <= Len(s)
  PROVE  /\ SubSeq(s, i + 1, j) \in Seq(S)
         /\ Len(SubSeq(s, i + 1, j)) = j - i
         /\ \A k \in 1..(j - i) : SubSeq(s, i + 1, j)[k] = s[i + k]
<1> DEFINE m == i + 1
<1>1. m \in Int /\ j \in Int /\ m <= j /\ Len(s) \in Nat /\ m..j \subseteq 1..Len(s)
  OBVIOUS
<1>2. \A k \in m..j : s[k] \in S
  BY <1>1, ElementOfSeq
<1>3. (j - m) + 1 = j - i /\ \A k \in 1..(j - i) : (m + k) - 1 = i + k
  OBVIOUS
<1> HIDE DEF m
<1>4. /\ SubSeq(s, m, j) \in Seq(S)
      /\ Len(SubSeq(s, m, j)) = (j - m) + 1
      /\ \A k \in 1..((j - m) + 1) : SubSeq(s, m, j)[k] = s[(m + k) - 1]
  BY <1>1, <1>2, SubSeqProperties
<1> QED BY <1>3, <1>4 DEF m

(* Three parts that are what a sequence has after from, one after another.  *)
AreParts(S, z, from, to, a, b, c) ==
    /\ z \in Seq(S) /\ from \in Nat /\ to \in Nat /\ from < to /\ to <= Len(z)
    /\ a \in Seq(S) /\ b \in Seq(S) /\ c \in Seq(S)
    /\ Len(a) + Len(b) + Len(c) = to - from
    /\ \A k \in 1..Len(a) : a[k] = z[from + k]
    /\ \A k \in 1..Len(b) : b[k] = z[from + Len(a) + k]
    /\ \A k \in 1..Len(c) : c[k] = z[from + Len(a) + Len(b) + k]
Three(a, b, c) == a \o b \o c
PartOf(z, from, to) == SubSeq(z, from + 1, to)
LEMMA Glued ==
  ASSUME NEW S, NEW z, NEW from, NEW to, NEW a, NEW b, NEW c,
         AreParts(S, z, from, to, a, b, c)
  PROVE  Three(a, b, c) = PartOf(z, from, to)
<1> USE DEF AreParts
<1> DEFINE la == Len(a)
           lb == Len(b)
           lc == Len(c)
           ab == a \o b
           r == ab \o c
           x == SubSeq(z, from + 1, to)
<1>1. la \in Nat /\ lb \in Nat /\ lc \in Nat
  OBVIOUS
<1>2. /\ x \in Seq(S) /\ Len(x) = to - from
      /\ \A k \in 1..(to - from) : x[k] = z[from + k]
  BY Parted
<1>3. /\ ab \in Seq(S) /\ Len(ab) = la + lb
      /\ \A k \in 1..(la + lb) : ab[k] = IF k <= la THEN a[k] ELSE b[k - la]
  BY ConcatProperties
<1>4. /\ r \in Seq(S) /\ Len(r) = la + lb + lc
      /\ \A k \in 1..(la + lb + lc) : r[k] = IF k <= la + lb THEN ab[k] ELSE c[k - (la + lb)]
  <2> HIDE DEF ab
  <2>1. /\ ab \o c \in Seq(S) /\ Len(ab \o c) = Len(ab) + Len(c)
        /\ \A k \in 1..(Len(ab) + Len(c)) :
              (ab \o c)[k] = IF k <= Len(ab) THEN ab[k] ELSE c[k - Len(ab)]
    BY <1>3, ConcatProperties
  <2> QED BY <1>3, <2>1
<1> HIDE DEF ab, r, x
<1>5. ASSUME NEW k \in 1..(to - from) PROVE r[k] = x[k]
  <2>1. k \in 1..(la + lb + lc) /\ x[k] = z[from + k]
    BY <1>2
  <2>2. CASE k <= la
    <3>1. k \in 1..la /\ k \in 1..(la + lb) /\ k <= la + lb
      BY <1>1, <2>2
    <3>2. r[k] = a[k] /\ a[k] = z[from + k]
      BY <1>3, <1>4, <2>1, <2>2, <3>1
    <3> QED BY <2>1, <3>2
  <2>3. CASE ~(k <= la) /\ k <= la + lb
    <3>1. k \in 1..(la + lb) /\ k - la \in 1..lb /\ from + la + (k - la) = from + k
      BY <1>1, <2>3
    <3>2. r[k] = b[k - la] /\ b[k - la] = z[from + la + (k - la)]
      BY <1>3, <1>4, <2>1, <2>3, <3>1
    <3> QED BY <2>1, <3>1, <3>2
  <2>4. CASE ~(k <= la + lb)
    <3>1. k - (la + lb) \in 1..lc /\ from + la + lb + (k - (la + lb)) = from + k
      BY <1>1, <2>1, <2>4
    <3>2. r[k] = c[k - (la + lb)] /\ c[k - (la + lb)] = z[from + la + lb + (k - (la + lb))]
      BY <1>4, <2>1, <2>4, <3>1
    <3> QED BY <2>1, <3>1, <3>2
  <2> QED BY <2>2, <2>3, <2>4
<1>6. r = x
  <2>1. Len(r) = Len(x) /\ Len(r) = to - from
    BY <1>2, <1>4
  <2> QED BY <1>2, <1>4, <1>5, <2>1, SeqEqual
<1> QED BY <1>6 DEF r, ab, x, Three, PartOf
=============================================================================
