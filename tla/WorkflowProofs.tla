---------------------------- MODULE WorkflowProofs ----------------------------
(***************************************************************************)
(* Listings, totals and numbers of the command line, for any organisation, *)
(* endpoints, page size and number of changes.                             *)
(***************************************************************************)
EXTENDS Workflow, TLAPS, WellFoundedInduction, SequenceTheorems, FiniteSetTheorems

-----------------------------------------------------------------------------
(* Induction, over sets of numbers: the library's theorem over < is about sets, so *)
(* it can be cited here.                                                           *)

\* A set of numbers that is not empty has a least one.
LEMMA Least ==
  ASSUME NEW T, T \subseteq Nat, T # {}
  PROVE  \E n \in T : \A m \in T : n <= m
<1>1. PICK n \in T : \A m \in T : ~(<<m, n>> \in OpToRel(<, Nat))
  BY NatLessThanWellFounded, WFMin
<1>2. \A m \in T : ~(m < n)
  BY <1>1 DEF OpToRel
<1> QED
  BY <1>2

\* A set of numbers that holds 0 and every successor of its members holds them all.
LEMMA Induction ==
  ASSUME NEW T, T \subseteq Nat, 0 \in T, \A n \in T : n + 1 \in T
  PROVE  T = Nat
<1> SUFFICES ASSUME T # Nat PROVE FALSE
  OBVIOUS
<1>1. PICK n \in Nat \ T : \A m \in Nat \ T : n <= m
  BY Least
<1>2. n # 0 /\ n - 1 \in T
  BY <1>1
<1> QED
  BY <1>1, <1>2

\* A recursive function of the position: it starts from c and takes the steps of G.
Walks(f, V, c, G, k) ==
  f \in [0 .. k -> V] /\ f[0] = c /\ \A n \in 1 .. k : f[n] = G[n][f[n - 1]]

\* A function defined step by step, from the position before, exists.
LEMMA Recursion ==
  ASSUME NEW V, NEW c \in V, NEW k \in Nat, NEW G \in [Nat -> [V -> V]]
  PROVE  \E f : Walks(f, V, c, G, k)
<1> DEFINE Walk(f, m) == Walks(f, V, c, G, m)
           T == {m \in Nat : \E f : Walk(f, m)}
<1> USE DEF Walks
<1>1. 0 \in T
  <2>1. Walk([n \in 0 .. 0 |-> c], 0)
    OBVIOUS
  <2> QED
    BY <2>1
<1>2. ASSUME NEW m \in T PROVE m + 1 \in T
  <2>1. PICK f : Walk(f, m)
    OBVIOUS
  <2> DEFINE g == [n \in 0 .. m + 1 |-> IF n = m + 1 THEN G[m + 1][f[m]] ELSE f[n]]
  <2>2. f[m] \in V /\ G[m + 1] \in [V -> V]
    BY <2>1
  <2>3. G[m + 1][f[m]] \in V
    BY <2>2
  <2>4. g \in [0 .. m + 1 -> V] /\ g[0] = c
    BY <2>1, <2>3
  <2>5. ASSUME NEW n \in 1 .. m + 1 PROVE g[n] = G[n][g[n - 1]]
    <3>1. CASE n = m + 1
      BY <3>1
    <3>2. CASE n # m + 1
      <4>1. n \in 1 .. m /\ n \in 0 .. m + 1 /\ n - 1 \in 0 .. m + 1 /\ n - 1 # m + 1
        BY <3>2
      <4>2. g[n] = f[n] /\ g[n - 1] = f[n - 1]
        BY <4>1, <3>2
      <4> QED
        BY <2>1, <4>1, <4>2
    <3> QED
      BY <3>1, <3>2
  <2>6. Walk(g, m + 1)
    BY <2>4, <2>5
  <2> HIDE DEF g, Walk, Walks
  <2>7. m \in Nat
    OBVIOUS
  <2> QED
    BY <2>6, <2>7
<1> HIDE DEF T, Walks
<1>3. T = Nat
  BY <1>1, <1>2, Induction DEF T
<1> QED
  BY <1>3 DEF T

-----------------------------------------------------------------------------
(* Kept *)

\* What Kept computes, up to each position
KeptUpTo(s, S) ==
  CHOOSE f : f = [n \in 0 .. Len(s) |->
                    IF n = 0 THEN <<>>
                    ELSE IF s[n] \in S THEN Append(f[n - 1], s[n]) ELSE f[n - 1]]

KeepsUpTo(f, s, S, X) ==
  /\ f \in [0 .. Len(s) -> Seq(X)]
  /\ f[0] = <<>>
  /\ \A n \in 1 .. Len(s) : f[n] = IF s[n] \in S THEN Append(f[n - 1], s[n]) ELSE f[n - 1]

\* The recursive function of Kept exists, and Kept is its last value.
LEMMA KeptWalk ==
  ASSUME NEW X, NEW s \in Seq(X), NEW S
  PROVE  KeepsUpTo(KeptUpTo(s, S), s, S, X) /\ Kept(s, S) = KeptUpTo(s, S)[Len(s)]
<1> DEFINE Def(f) == f = [n \in 0 .. Len(s) |->
                            IF n = 0 THEN <<>>
                            ELSE IF s[n] \in S THEN Append(f[n - 1], s[n]) ELSE f[n - 1]]
           G == [n \in Nat |-> [x \in Seq(X) |->
                   IF n \in 1 .. Len(s) /\ s[n] \in S THEN Append(x, s[n]) ELSE x]]
<1>1. G \in [Nat -> [Seq(X) -> Seq(X)]]
  OBVIOUS
<1>2. Len(s) \in Nat /\ <<>> \in Seq(X)
  OBVIOUS
<1> HIDE DEF G
<1>3. PICK f \in [0 .. Len(s) -> Seq(X)] :
        f[0] = <<>> /\ \A n \in 1 .. Len(s) : f[n] = G[n][f[n - 1]]
  <2> HIDE DEF G
  <2>1. \E f : Walks(f, Seq(X), <<>>, G, Len(s))
    BY <1>1, <1>2, Recursion
  <2> QED
    BY <2>1 DEF Walks
<1>4. ASSUME NEW n \in 1 .. Len(s)
      PROVE  f[n] = IF s[n] \in S THEN Append(f[n - 1], s[n]) ELSE f[n - 1]
  <2>1. n - 1 \in 0 .. Len(s) /\ n \in Nat
    BY <1>2
  <2>2. f[n - 1] \in Seq(X)
    BY <2>1, <1>3
  <2> QED
    BY <1>3, <2>1, <2>2 DEF G
<1>5. Def(f)
  <2>1. ASSUME NEW n \in 0 .. Len(s)
        PROVE  f[n] = IF n = 0 THEN <<>>
                      ELSE IF s[n] \in S THEN Append(f[n - 1], s[n]) ELSE f[n - 1]
    <3>1. CASE n = 0
      BY <3>1, <1>3
    <3>2. CASE n # 0
      <4>1. n \in 1 .. Len(s)
        BY <3>2, <1>2
      <4> QED
        BY <4>1, <1>4, <3>2
    <3> QED
      BY <3>1, <3>2
  <2> QED
    BY <2>1, <1>3
<1>6. KeptUpTo(s, S) = CHOOSE g : Def(g)
  BY DEF KeptUpTo
<1>7. Def(KeptUpTo(s, S))
  <2> HIDE DEF Def
  <2> QED
    BY <1>5, <1>6
<1> DEFINE u == KeptUpTo(s, S)
<1> HIDE DEF u
<1>8. Def(u)
  BY <1>7 DEF u
<1>9. \A n \in 0 .. Len(s) : u[n] = f[n]
  <2> DEFINE T == {n \in Nat : n \in 0 .. Len(s) => u[n] = f[n]}
  <2>1. 0 \in T
    BY <1>8, <1>3, <1>2
  <2>2. ASSUME NEW n \in T PROVE n + 1 \in T
    <3> SUFFICES ASSUME n + 1 \in 0 .. Len(s) PROVE u[n + 1] = f[n + 1]
      OBVIOUS
    <3>1. n \in 0 .. Len(s) /\ n + 1 # 0 /\ (n + 1) - 1 = n /\ n + 1 \in 1 .. Len(s)
      BY <1>2
    <3>2. u[n] = f[n]
      BY <3>1
    <3>3. u[n + 1] = IF s[n + 1] \in S THEN Append(u[n], s[n + 1]) ELSE u[n]
      BY <1>8, <3>1
    <3>4. f[n + 1] = IF s[n + 1] \in S THEN Append(f[n], s[n + 1]) ELSE f[n]
      BY <1>4, <3>1
    <3> QED
      BY <3>2, <3>3, <3>4
  <2> HIDE DEF T
  <2>3. T = Nat
    BY <2>1, <2>2, Induction DEF T
  <2> QED
    BY <2>3, <1>2 DEF T
<1>10. u = f
  BY <1>8, <1>9, <1>3
<1>11. KeepsUpTo(u, s, S, X)
  BY <1>10, <1>3, <1>4 DEF KeepsUpTo
<1>12. Kept(s, S) = KeptUpTo(s, S)[Len(s)]
  BY DEF Kept, KeptUpTo
<1> QED
  BY <1>11, <1>12 DEF u

-----------------------------------------------------------------------------
(* Sequences, by their last element *)

\* An element appended to the second sequence is appended to the concatenation.
LEMMA ConcatAppend ==
  ASSUME NEW X, NEW s \in Seq(X), NEW t \in Seq(X), NEW x \in X
  PROVE  s \o Append(t, x) = Append(s \o t, x)
<1>1. <<x>> \in Seq(X)
  OBVIOUS
<1>2. Append(t, x) = t \o <<x>>
  BY AppendIsConcat
<1>3. s \o t \in Seq(X)
  BY ConcatProperties
<1>4. Append(s \o t, x) = (s \o t) \o <<x>>
  BY <1>3, AppendIsConcat
<1> QED
  BY <1>1, <1>2, <1>4, ConcatAssociative

\* A set of sequences that holds the empty one and is closed under Append holds them all.
LEMMA SeqInduction ==
  ASSUME NEW X, NEW Q, Q \subseteq Seq(X), <<>> \in Q,
         \A s \in Q, x \in X : Append(s, x) \in Q
  PROVE  Q = Seq(X)
<1> DEFINE T == {n \in Nat : \A s \in Seq(X) : Len(s) = n => s \in Q}
<1>1. 0 \in T
  <2>1. ASSUME NEW s \in Seq(X), Len(s) = 0 PROVE s \in Q
    <3>1. s = <<>>
      BY <2>1
    <3> QED
      BY <3>1
  <2> QED
    BY <2>1
<1>2. ASSUME NEW n \in T PROVE n + 1 \in T
  <2>1. ASSUME NEW s \in Seq(X), Len(s) = n + 1 PROVE s \in Q
    <3>1. n \in Nat /\ s # <<>>
      BY <2>1
    <3>2. PICK t \in Seq(X), x \in X : s = Append(t, x)
      BY <3>1, SequenceEmptyOrAppend
    <3>3. Len(t) = n
      BY <3>1, <3>2, <2>1
    <3>4. t \in Q
      BY <3>3
    <3> QED
      BY <3>2, <3>4
  <2> QED
    BY <2>1
<1> HIDE DEF T
<1>3. T = Nat
  BY <1>1, <1>2, Induction DEF T
<1>4. ASSUME NEW s \in Seq(X) PROVE s \in Q
  <2>1. Len(s) \in T
    BY <1>3
  <2> QED
    BY <2>1 DEF T
<1> QED
  BY <1>4

\* Append adds one element.
LEMMA AppendToSet ==
  ASSUME NEW X, NEW s \in Seq(X), NEW x \in X
  PROVE  ToSet(Append(s, x)) = ToSet(s) \union {x}
<1>1. DOMAIN Append(s, x) = 1 .. Len(s) + 1 /\ DOMAIN s = 1 .. Len(s) /\ Len(s) \in Nat
  OBVIOUS
<1>2. \A i \in 1 .. Len(s) : Append(s, x)[i] = s[i]
  OBVIOUS
<1>3. Append(s, x)[Len(s) + 1] = x
  OBVIOUS
<1> QED
  BY <1>1, <1>2, <1>3 DEF ToSet

\* Nothing is kept of nothing.
LEMMA KeptEmpty ==
  ASSUME NEW S
  PROVE  Kept(<<>>, S) = <<>>
<1>1. KeepsUpTo(KeptUpTo(<<>>, S), <<>>, S, {}) /\ Kept(<<>>, S) = KeptUpTo(<<>>, S)[Len(<<>>)]
  BY KeptWalk, <<>> \in Seq({})
<1> QED
  BY <1>1 DEF KeepsUpTo

\* The last element is kept, after what was kept before it, when it is in S.
LEMMA KeptAppend ==
  ASSUME NEW X, NEW s \in Seq(X), NEW x \in X, NEW S
  PROVE  /\ Kept(s, S) \in Seq(X)
         /\ x \in S => Kept(Append(s, x), S) = Append(Kept(s, S), x)
         /\ x \notin S => Kept(Append(s, x), S) = Kept(s, S)
<1> DEFINE t == Append(s, x)
           f == KeptUpTo(s, S)
           g == KeptUpTo(t, S)
<1>1. t \in Seq(X) /\ Len(t) = Len(s) + 1 /\ t[Len(s) + 1] = x /\ Len(s) \in Nat
  OBVIOUS
<1>2. \A n \in 1 .. Len(s) : t[n] = s[n]
  OBVIOUS
<1> HIDE DEF t, f, g
<1>3. KeepsUpTo(f, s, S, X) /\ Kept(s, S) = f[Len(s)]
  BY KeptWalk DEF f
<1>4. KeepsUpTo(g, t, S, X) /\ Kept(t, S) = g[Len(t)]
  BY <1>1, KeptWalk DEF g
<1>5. \A n \in 0 .. Len(s) : f[n] = g[n]
  <2> DEFINE T == {n \in Nat : n \in 0 .. Len(s) => f[n] = g[n]}
  <2>1. 0 \in T
    BY <1>3, <1>4 DEF KeepsUpTo
  <2>2. ASSUME NEW n \in T PROVE n + 1 \in T
    <3> SUFFICES ASSUME n + 1 \in 0 .. Len(s) PROVE f[n + 1] = g[n + 1]
      OBVIOUS
    <3>1. n \in 0 .. Len(s) /\ (n + 1) - 1 = n /\ n + 1 \in 1 .. Len(s) /\ n + 1 \in 1 .. Len(t)
      BY <1>1
    <3>2. f[n] = g[n] /\ s[n + 1] = t[n + 1]
      BY <3>1, <1>2
    <3>3. g[n + 1] = IF t[n + 1] \in S THEN Append(g[n], t[n + 1]) ELSE g[n]
      BY <1>4, <3>1 DEF KeepsUpTo
    <3>4. f[n + 1] = IF s[n + 1] \in S THEN Append(f[n], s[n + 1]) ELSE f[n]
      BY <1>3, <3>1 DEF KeepsUpTo
    <3> QED
      BY <3>2, <3>3, <3>4
  <2> HIDE DEF T
  <2>3. T = Nat
    BY <2>1, <2>2, Induction DEF T
  <2> QED
    BY <2>3, <1>1 DEF T
<1>6. Kept(s, S) = g[Len(s)] /\ Kept(s, S) \in Seq(X)
  BY <1>3, <1>5, <1>1 DEF KeepsUpTo
<1>7. g[Len(t)] = IF t[Len(t)] \in S THEN Append(g[Len(s)], t[Len(t)]) ELSE g[Len(s)]
  <2>1. Len(t) \in 1 .. Len(t) /\ Len(t) - 1 = Len(s)
    BY <1>1
  <2> QED
    BY <2>1, <1>4 DEF KeepsUpTo
<1> QED
  BY <1>1, <1>4, <1>6, <1>7 DEF t

\* Kept keeps the entries that are in S, and nothing else.
LEMMA KeptSet ==
  ASSUME NEW X, NEW S
  PROVE  \A s \in Seq(X) : Kept(s, S) \in Seq(X) /\ ToSet(Kept(s, S)) = ToSet(s) \intersect S
<1> DEFINE Q == {s \in Seq(X) : Kept(s, S) \in Seq(X) /\ ToSet(Kept(s, S)) = ToSet(s) \intersect S}
<1>1. <<>> \in Q
  <2>1. Kept(<<>>, S) = <<>> /\ ToSet(<<>>) = {}
    BY KeptEmpty DEF ToSet
  <2>2. ToSet(Kept(<<>>, S)) = {} /\ ToSet(<<>>) \intersect S = {}
    BY <2>1, Zenon
  <2>3. <<>> \in Seq(X)
    OBVIOUS
  <2>4. Kept(<<>>, S) \in Seq(X)
    BY <2>1, <2>3, Zenon
  <2> QED
    BY <2>2, <2>3, <2>4
<1>2. ASSUME NEW s \in Q, NEW x \in X PROVE Append(s, x) \in Q
  <2>1. /\ Kept(s, S) \in Seq(X)
        /\ x \in S => Kept(Append(s, x), S) = Append(Kept(s, S), x)
        /\ x \notin S => Kept(Append(s, x), S) = Kept(s, S)
    BY KeptAppend
  <2>2. ToSet(Append(s, x)) = ToSet(s) \union {x}
    BY AppendToSet
  <2>3. ToSet(Append(Kept(s, S), x)) = ToSet(Kept(s, S)) \union {x}
    BY <2>1, AppendToSet
  <2>4. Kept(Append(s, x), S) \in Seq(X) /\ Append(s, x) \in Seq(X)
    BY <2>1
  <2>5. ToSet(Kept(Append(s, x), S)) = ToSet(Append(s, x)) \intersect S
    BY <2>1, <2>2, <2>3
  <2> QED
    BY <2>4, <2>5
<1> HIDE DEF Q
<1>3. Q = Seq(X)
  BY <1>1, <1>2, SeqInduction DEF Q
<1> QED
  BY <1>3 DEF Q

\* ... and so after a concatenation.
LEMMA KeptAppendConcat ==
  ASSUME NEW X, NEW s \in Seq(X), NEW t \in Seq(X), NEW x \in X, NEW S
  PROVE  /\ x \in S => Kept(Append(s \o t, x), S) = Append(Kept(s \o t, S), x)
         /\ x \notin S => Kept(Append(s \o t, x), S) = Kept(s \o t, S)
<1>1. PICK p \in Seq(X) : p = s \o t
  BY ConcatProperties
<1>2. x \in S => Kept(Append(p, x), S) = Append(Kept(p, S), x)
  BY KeptAppend
<1>3. x \notin S => Kept(Append(p, x), S) = Kept(p, S)
  BY KeptAppend
<1> QED
  BY <1>1, <1>2, <1>3

\* What is kept of two sequences is kept of each.
LEMMA KeptConcat ==
  ASSUME NEW X, NEW S, NEW s \in Seq(X)
  PROVE  \A t \in Seq(X) : Kept(s \o t, S) = Kept(s, S) \o Kept(t, S)
<1> DEFINE Q == {t \in Seq(X) : Kept(s \o t, S) = Kept(s, S) \o Kept(t, S)}
<1>1. <<>> \in Q
  <2>1. s \o <<>> = s /\ Kept(s, S) \in Seq(X) /\ Kept(<<>>, S) = <<>>
    BY KeptEmpty, KeptSet
  <2> QED
    BY <2>1
<1>2. ASSUME NEW t \in Q, NEW x \in X PROVE Append(t, x) \in Q
  <2>1. s \o t \in Seq(X) /\ Append(t, x) \in Seq(X)
    OBVIOUS
  <2>2. s \o Append(t, x) = Append(s \o t, x)
    BY ConcatAppend
  <2>3. /\ x \in S => Kept(Append(s \o t, x), S) = Append(Kept(s \o t, S), x)
        /\ x \notin S => Kept(Append(s \o t, x), S) = Kept(s \o t, S)
    BY KeptAppendConcat
  <2>4. /\ x \in S => Kept(Append(t, x), S) = Append(Kept(t, S), x)
        /\ x \notin S => Kept(Append(t, x), S) = Kept(t, S)
    BY KeptAppend
  <2>5. Kept(s, S) \in Seq(X) /\ Kept(t, S) \in Seq(X)
    BY KeptSet
  <2>6. Kept(s, S) \o Append(Kept(t, S), x) = Append(Kept(s, S) \o Kept(t, S), x)
    BY <2>5, ConcatAppend
  <2>7. Kept(s \o Append(t, x), S) = Kept(s, S) \o Kept(Append(t, x), S)
    BY <2>2, <2>3, <2>4, <2>6
  <2> QED
    BY <2>1, <2>7
<1> HIDE DEF Q
<1>3. Q = Seq(X)
  BY <1>1, <1>2, SeqInduction DEF Q
<1> QED
  BY <1>3 DEF Q

\* Somebody new moves the entries that are kept up, if at all.
LEMMA KeptInsert ==
  ASSUME NEW X, NEW s \in Seq(X), NEW i \in 1 .. Len(s) + 1, NEW u \in X, NEW S,
         NEW k \in DOMAIN Kept(s, S)
  PROVE  \E j \in DOMAIN Kept(InsertAt(s, i, u), S) :
           j >= k /\ Kept(InsertAt(s, i, u), S)[j] = Kept(s, S)[k]
<1>1. PICK p \in Seq(X), q \in Seq(X) : s = p \o q /\ InsertAt(s, i, u) = (p \o <<u>>) \o q
  <2> DEFINE p == SubSeq(s, 1, i - 1)
             q == SubSeq(s, i, Len(s))
  <2>1. Len(s) \in Nat /\ i - 1 \in 0 .. Len(s) /\ (i - 1) + 1 = i /\ 1 \in 1 .. Len(s) + 1
        /\ i - 1 \in 1 - 1 .. Len(s) /\ Len(s) \in i - 1 .. Len(s)
    OBVIOUS
  <2>2. p \in Seq(X) /\ q \in Seq(X)
    BY <2>1
  <2>3. p \o q = SubSeq(s, 1, Len(s))
    <3>1. SubSeq(s, 1, i - 1) \o SubSeq(s, (i - 1) + 1, Len(s)) = SubSeq(s, 1, Len(s))
      BY <2>1, ConcatAdjacentSubSeq
    <3> QED
      BY <3>1, <2>1
  <2>4. p \o q = s
    BY <2>3, SubSeqFull
  <2>5. InsertAt(s, i, u) = (p \o <<u>>) \o q
    BY DEF InsertAt
  <2> QED
    BY <2>2, <2>4, <2>5
<1>2. PICK a \in Seq(X), b \in Seq(X), c \in Seq(X) :
        a = Kept(p, S) /\ b = Kept(<<u>>, S) /\ c = Kept(q, S)
  <2>1. <<u>> \in Seq(X)
    OBVIOUS
  <2> QED
    BY <2>1, KeptSet
<1>3. Kept(s, S) = a \o c
  <2>1. \A t \in Seq(X) : Kept(p \o t, S) = Kept(p, S) \o Kept(t, S)
    BY <1>1, KeptConcat
  <2> QED
    BY <1>1, <1>2, <2>1
<1>4. PICK r \in Seq(X) : r = p \o <<u>> /\ Kept(r, S) = a \o b
  <2>1. PICK v \in Seq(X) : v = <<u>>
    <3>1. <<u>> \in Seq(X)
      OBVIOUS
    <3> QED
      BY <3>1, Zenon
  <2>2. Kept(p \o v, S) = Kept(p, S) \o Kept(v, S)
    BY KeptConcat
  <2>3. p \o v \in Seq(X)
    BY ConcatProperties
  <2> QED
    BY <1>2, <2>1, <2>2, <2>3
<1>5. Kept(InsertAt(s, i, u), S) = (a \o b) \o c
  <2>1. Kept(r \o q, S) = Kept(r, S) \o Kept(q, S)
    BY KeptConcat
  <2> QED
    BY <1>1, <1>2, <1>4, <2>1
<1>6. k \in 1 .. Len(a) + Len(c) /\ Len(a) \in Nat /\ Len(b) \in Nat /\ Len(c) \in Nat
  BY <1>3
<1> DEFINE w == (a \o b) \o c
<1>7. DOMAIN w = 1 .. Len(a) + Len(b) + Len(c)
  OBVIOUS
<1>8. CASE k <= Len(a)
  <2>1. w[k] = (a \o c)[k] /\ k \in DOMAIN w /\ k >= k
    BY <1>6, <1>7, <1>8
  <2> HIDE DEF w
  <2>2. w = Kept(InsertAt(s, i, u), S) /\ a \o c = Kept(s, S)
    BY <1>3, <1>5 DEF w
  <2> QED
    BY <2>1, <2>2, Zenon
<1>9. CASE k > Len(a)
  <2>1. k + Len(b) \in DOMAIN w /\ k + Len(b) >= k
    BY <1>6, <1>7, <1>9
  <2>2. (a \o c)[k] = c[k - Len(a)]
    BY <1>6, <1>9
  <2>3. w[k + Len(b)] = c[(k + Len(b)) - Len(a \o b)]
    <3>1. a \o b \in Seq(X) /\ Len(a \o b) = Len(a) + Len(b)
      OBVIOUS
    <3>2. k + Len(b) \in 1 .. Len(a \o b) + Len(c) /\ ~(k + Len(b) <= Len(a \o b))
      BY <3>1, <1>6, <1>9
    <3> QED
      BY <3>1, <3>2, ConcatProperties
  <2>4. (k + Len(b)) - Len(a \o b) = k - Len(a)
    BY <1>6
  <2>5. w[k + Len(b)] = (a \o c)[k]
    BY <2>2, <2>3, <2>4
  <2> QED
    BY <2>1, <2>5, <1>3, <1>5
<1> QED
  BY <1>6, <1>8, <1>9

-----------------------------------------------------------------------------
(* The total of the lines *)

Lines == [msgs : Nat, sized : BOOLEAN]

SumsUpTo(f, ls) ==
  /\ f \in [0 .. Len(ls) -> Nat]
  /\ f[0] = 0
  /\ \A n \in 1 .. Len(ls) : f[n] = f[n - 1] + ls[n].msgs

SumUpTo(ls) ==
  CHOOSE f : f = [n \in 0 .. Len(ls) |-> IF n = 0 THEN 0 ELSE f[n - 1] + ls[n].msgs]

\* The recursive function of MessagesOf exists, and MessagesOf is its last value.
LEMMA SumWalk ==
  ASSUME NEW ls \in Seq(Lines)
  PROVE  SumsUpTo(SumUpTo(ls), ls) /\ MessagesOf(ls) = SumUpTo(ls)[Len(ls)]
<1> DEFINE Def(f) == f = [n \in 0 .. Len(ls) |-> IF n = 0 THEN 0 ELSE f[n - 1] + ls[n].msgs]
           G == [n \in Nat |-> [x \in Nat |-> IF n \in 1 .. Len(ls) THEN x + ls[n].msgs ELSE x]]
<1>1. \A n \in 1 .. Len(ls) : ls[n].msgs \in Nat
  <2>1. \A n \in 1 .. Len(ls) : ls[n] \in Lines
    OBVIOUS
  <2> QED
    BY <2>1 DEF Lines
<1>2. Len(ls) \in Nat
  OBVIOUS
<1>3. G \in [Nat -> [Nat -> Nat]]
  BY <1>1
<1> HIDE DEF G
<1>4. PICK f : Walks(f, Nat, 0, G, Len(ls))
  BY <1>2, <1>3, Recursion
<1>5. ASSUME NEW n \in 1 .. Len(ls) PROVE f[n] = f[n - 1] + ls[n].msgs
  <2>1. n - 1 \in 0 .. Len(ls) /\ n \in Nat
    BY <1>2
  <2>2. f[n - 1] \in Nat /\ f[n] = G[n][f[n - 1]]
    BY <2>1, <1>4 DEF Walks
  <2> QED
    BY <2>1, <2>2 DEF G
<1>6. Def(f)
  <2>1. ASSUME NEW n \in 0 .. Len(ls)
        PROVE  f[n] = IF n = 0 THEN 0 ELSE f[n - 1] + ls[n].msgs
    <3>1. CASE n = 0
      BY <3>1, <1>4 DEF Walks
    <3>2. CASE n # 0
      <4>1. n \in 1 .. Len(ls)
        BY <3>2, <1>2
      <4> QED
        BY <4>1, <1>5, <3>2
    <3> QED
      BY <3>1, <3>2
  <2> QED
    BY <2>1, <1>4 DEF Walks
<1>7. SumUpTo(ls) = CHOOSE g : Def(g)
  BY DEF SumUpTo
<1>8. Def(SumUpTo(ls))
  <2> HIDE DEF Def
  <2> QED
    BY <1>6, <1>7
<1> DEFINE u == SumUpTo(ls)
<1> HIDE DEF u
<1>9. Def(u)
  BY <1>8 DEF u
<1>10. \A n \in 0 .. Len(ls) : u[n] = f[n]
  <2> DEFINE T == {n \in Nat : n \in 0 .. Len(ls) => u[n] = f[n]}
  <2>1. 0 \in T
    BY <1>9, <1>4, <1>2 DEF Walks
  <2>2. ASSUME NEW n \in T PROVE n + 1 \in T
    <3> SUFFICES ASSUME n + 1 \in 0 .. Len(ls) PROVE u[n + 1] = f[n + 1]
      OBVIOUS
    <3>1. n \in 0 .. Len(ls) /\ n + 1 # 0 /\ (n + 1) - 1 = n /\ n + 1 \in 1 .. Len(ls)
      BY <1>2
    <3>2. u[n] = f[n]
      BY <3>1
    <3>3. u[n + 1] = u[n] + ls[n + 1].msgs
      BY <1>9, <3>1
    <3>4. f[n + 1] = f[n] + ls[n + 1].msgs
      BY <1>5, <3>1
    <3> QED
      BY <3>2, <3>3, <3>4
  <2> HIDE DEF T
  <2>3. T = Nat
    BY <2>1, <2>2, Induction DEF T
  <2> QED
    BY <2>3, <1>2 DEF T
<1>11. u = f
  BY <1>9, <1>10, <1>4 DEF Walks
<1>12. SumsUpTo(u, ls)
  BY <1>11, <1>4, <1>5 DEF SumsUpTo, Walks
<1>13. MessagesOf(ls) = SumUpTo(ls)[Len(ls)]
  BY DEF MessagesOf, SumUpTo
<1> QED
  BY <1>12, <1>13 DEF u

\* One more assessed mailbox adds its messages to the total.
LEMMA SumAppend ==
  ASSUME NEW ls \in Seq(Lines), NEW a \in Lines
  PROVE  MessagesOf(ls) \in Nat /\ MessagesOf(Append(ls, a)) = MessagesOf(ls) + a.msgs
<1> DEFINE t == Append(ls, a)
           f == SumUpTo(ls)
           g == SumUpTo(t)
<1>1. t \in Seq(Lines) /\ Len(t) = Len(ls) + 1 /\ t[Len(ls) + 1] = a /\ Len(ls) \in Nat
  OBVIOUS
<1>2. \A n \in 1 .. Len(ls) : t[n] = ls[n]
  OBVIOUS
<1> HIDE DEF t, f, g
<1>3. SumsUpTo(f, ls) /\ MessagesOf(ls) = f[Len(ls)]
  BY SumWalk DEF f
<1>4. SumsUpTo(g, t) /\ MessagesOf(t) = g[Len(t)]
  BY <1>1, SumWalk DEF g
<1>5. \A n \in 0 .. Len(ls) : f[n] = g[n]
  <2> DEFINE T == {n \in Nat : n \in 0 .. Len(ls) => f[n] = g[n]}
  <2>1. 0 \in T
    BY <1>3, <1>4 DEF SumsUpTo
  <2>2. ASSUME NEW n \in T PROVE n + 1 \in T
    <3> SUFFICES ASSUME n + 1 \in 0 .. Len(ls) PROVE f[n + 1] = g[n + 1]
      OBVIOUS
    <3>1. n \in 0 .. Len(ls) /\ (n + 1) - 1 = n /\ n + 1 \in 1 .. Len(ls) /\ n + 1 \in 1 .. Len(t)
      BY <1>1
    <3>2. f[n] = g[n] /\ ls[n + 1] = t[n + 1]
      BY <3>1, <1>2
    <3>3. g[n + 1] = g[n] + t[n + 1].msgs
      BY <1>4, <3>1 DEF SumsUpTo
    <3>4. f[n + 1] = f[n] + ls[n + 1].msgs
      BY <1>3, <3>1 DEF SumsUpTo
    <3> QED
      BY <3>2, <3>3, <3>4
  <2> HIDE DEF T
  <2>3. T = Nat
    BY <2>1, <2>2, Induction DEF T
  <2> QED
    BY <2>3, <1>1 DEF T
<1>6. MessagesOf(ls) = g[Len(ls)] /\ MessagesOf(ls) \in Nat
  BY <1>3, <1>5, <1>1 DEF SumsUpTo
<1>7. g[Len(t)] = g[Len(ls)] + t[Len(t)].msgs
  <2>1. Len(t) \in 1 .. Len(t) /\ Len(t) - 1 = Len(ls)
    BY <1>1
  <2> QED
    BY <2>1, <1>4 DEF SumsUpTo
<1> QED
  BY <1>1, <1>4, <1>6, <1>7 DEF t

\* No mailbox, no message.
LEMMA SumEmpty == MessagesOf(<<>>) = 0
<1>1. SumsUpTo(SumUpTo(<<>>), <<>>) /\ MessagesOf(<<>>) = SumUpTo(<<>>)[Len(<<>>)]
  BY SumWalk, <<>> \in Seq(Lines)
<1> QED
  BY <1>1 DEF SumsUpTo

\* What the extrapolation makes of the lines: those that say nothing get m messages.
Silent(ls) == {i \in DOMAIN ls : ls[i].msgs = 0 /\ ~ls[i].sized}
Filled(ls, m) ==
  [i \in DOMAIN ls |-> IF i \in Silent(ls) THEN [msgs |-> m, sized |-> TRUE] ELSE ls[i]]

\* The lines that say nothing can be counted.
LEMMA SilentFinite ==
  ASSUME NEW ls \in Seq(Lines)
  PROVE  /\ IsFiniteSet(Silent(ls)) /\ Cardinality(Silent(ls)) \in Nat
         /\ Cardinality(Silent(ls)) <= Len(ls)
<1>1. DOMAIN ls = 1 .. Len(ls) /\ Len(ls) \in Nat
  OBVIOUS
<1>2. IsFiniteSet(1 .. Len(ls)) /\ Cardinality(1 .. Len(ls)) = Len(ls)
  <2>1. 1 \in Int /\ Len(ls) \in Int
    BY <1>1
  <2>2. Cardinality(1 .. Len(ls)) = IF 1 > Len(ls) THEN 0 ELSE Len(ls) - 1 + 1
    BY <2>1, FS_Interval
  <2>3. IsFiniteSet(1 .. Len(ls))
    BY <2>1, FS_Interval
  <2> QED
    BY <2>2, <2>3, <1>1
<1>3. Silent(ls) \subseteq 1 .. Len(ls)
  BY <1>1 DEF Silent
<1>4. IsFiniteSet(Silent(ls)) /\ Cardinality(Silent(ls)) <= Cardinality(1 .. Len(ls))
  BY <1>2, <1>3, FS_Subset
<1> QED
  BY <1>2, <1>4, FS_CardinalityType

\* The extrapolation adds m messages for each line that says nothing: sample times silent.
LEMMA FilledTotal ==
  ASSUME NEW m \in Nat
  PROVE  \A ls \in Seq(Lines) :
           /\ Filled(ls, m) \in Seq(Lines)
           /\ MessagesOf(Filled(ls, m)) = MessagesOf(ls) + Cardinality(Silent(ls)) * m
<1> DEFINE Q == {ls \in Seq(Lines) :
                   /\ Filled(ls, m) \in Seq(Lines)
                   /\ MessagesOf(Filled(ls, m)) = MessagesOf(ls) + Cardinality(Silent(ls)) * m}
<1>1. <<>> \in Q
  <2>1. Filled(<<>>, m) = <<>> /\ Silent(<<>>) = {}
    BY DEF Filled, Silent
  <2>2. MessagesOf(Filled(<<>>, m)) = 0 /\ MessagesOf(<<>>) = 0 /\ Cardinality(Silent(<<>>)) = 0
    BY <2>1, SumEmpty, FS_EmptySet
  <2>3. 0 = 0 + 0 * m /\ <<>> \in Seq(Lines)
    OBVIOUS
  <2> QED
    BY <2>1, <2>2, <2>3
<1>2. ASSUME NEW ls \in Q, NEW a \in Lines PROVE Append(ls, a) \in Q
  <2> DEFINE t == Append(ls, a)
             b == IF a.msgs = 0 /\ ~a.sized THEN [msgs |-> m, sized |-> TRUE] ELSE a
  <2>1. /\ t \in Seq(Lines) /\ Len(t) = Len(ls) + 1 /\ t[Len(ls) + 1] = a /\ Len(ls) \in Nat
        /\ DOMAIN t = 1 .. Len(ls) + 1 /\ DOMAIN ls = 1 .. Len(ls)
        /\ \A n \in 1 .. Len(ls) : t[n] = ls[n]
    OBVIOUS
  <2>2. b \in Lines
    BY DEF Lines
  <2>3. Silent(t) = Silent(ls) \union (IF a.msgs = 0 /\ ~a.sized THEN {Len(ls) + 1} ELSE {})
    <3> HIDE DEF t
    <3> QED
      BY <2>1 DEF Silent
  <2>4. Filled(t, m) = Append(Filled(ls, m), b)
    <3>1. Filled(ls, m) \in Seq(Lines) /\ DOMAIN Filled(ls, m) = 1 .. Len(ls)
      BY <2>1 DEF Filled
    <3>2. Len(Filled(ls, m)) = Len(ls)
      BY <3>1, <2>1
    <3> DEFINE u == Append(Filled(ls, m), b)
    <3>3. /\ u \in Seq(Lines) /\ DOMAIN u = 1 .. Len(ls) + 1 /\ u[Len(ls) + 1] = b
          /\ \A n \in 1 .. Len(ls) : u[n] = Filled(ls, m)[n]
      BY <3>1, <3>2, <2>2, <2>1
    <3> HIDE DEF t, u, b
    <3>4. Filled(t, m) = [i \in 1 .. Len(ls) + 1 |->
                             IF i \in Silent(t) THEN [msgs |-> m, sized |-> TRUE] ELSE t[i]]
      BY <2>1 DEF Filled
    <3>5. ASSUME NEW i \in 1 .. Len(ls) + 1 PROVE Filled(t, m)[i] = u[i]
      <4>1. CASE i = Len(ls) + 1
        <5>1. i \in Silent(t) <=> a.msgs = 0 /\ ~a.sized
          BY <4>1, <2>1 DEF Silent
        <5> QED
          BY <4>1, <5>1, <3>3, <3>4, <2>1 DEF b
      <4>2. CASE i # Len(ls) + 1
        <5>1. i \in 1 .. Len(ls)
          BY <4>2, <2>1
        <5>2. i \in Silent(t) <=> i \in Silent(ls)
          BY <5>1, <2>1 DEF Silent
        <5>3. Filled(ls, m)[i] = IF i \in Silent(ls) THEN [msgs |-> m, sized |-> TRUE] ELSE ls[i]
          BY <5>1, <2>1 DEF Filled
        <5> QED
          BY <5>1, <5>2, <5>3, <3>3, <3>4, <2>1
      <4> QED
        BY <4>1, <4>2
    <3>6. Filled(t, m) = u
      BY <3>3, <3>4, <3>5
    <3> QED
      BY <3>6 DEF u
  <2>5. MessagesOf(Append(Filled(ls, m), b)) = MessagesOf(Filled(ls, m)) + b.msgs
    BY <2>2, SumAppend
  <2>6. MessagesOf(t) = MessagesOf(ls) + a.msgs /\ MessagesOf(ls) \in Nat
    BY SumAppend
  <2>7. Cardinality(Silent(ls)) \in Nat /\ IsFiniteSet(Silent(ls))
    BY SilentFinite
  <2>8. a.msgs \in Nat
    BY DEF Lines
  <2>9. PICK c \in Nat : c = Cardinality(Silent(ls))
    BY <2>7
  <2>10. (c + 1) * m = c * m + m /\ c * m \in Nat
    OBVIOUS
  <2>11. MessagesOf(Filled(t, m)) = MessagesOf(t) + Cardinality(Silent(t)) * m
    <3>1. CASE a.msgs = 0 /\ ~a.sized
      <4>1. Silent(t) = Silent(ls) \union {Len(ls) + 1} /\ Len(ls) + 1 \notin Silent(ls)
        BY <3>1, <2>3, <2>1 DEF Silent
      <4>2. Cardinality(Silent(t)) = c + 1
        BY <4>1, <2>7, <2>9, FS_AddElement
      <4>3. b.msgs = m
        BY <3>1
      <4>4. a.msgs = 0
        BY <3>1
      <4> HIDE DEF t, b
      <4>5. MessagesOf(Filled(t, m)) = (MessagesOf(ls) + c * m) + m
        BY <4>3, <2>4, <2>5, <2>9
      <4>6. MessagesOf(t) = MessagesOf(ls)
        BY <4>4, <2>6
      <4>7. Cardinality(Silent(t)) * m = c * m + m
        BY <4>2, <2>10
      <4> QED
        BY <4>5, <4>6, <4>7, <2>6, <2>10
    <3>2. CASE ~(a.msgs = 0 /\ ~a.sized)
      <4>1. Silent(t) = Silent(ls)
        BY <3>2, <2>3
      <4>2. b.msgs = a.msgs
        BY <3>2
      <4> HIDE DEF t, b
      <4>3. MessagesOf(Filled(t, m)) = (MessagesOf(ls) + c * m) + a.msgs
        BY <4>2, <2>4, <2>5, <2>9
      <4>4. Cardinality(Silent(t)) * m = c * m
        BY <4>1, <2>9
      <4> QED
        BY <4>3, <4>4, <2>6, <2>8, <2>10
    <3> QED
      BY <3>1, <3>2
  <2>12. Filled(t, m) \in Seq(Lines)
    BY <2>2, <2>4
  <2> QED
    BY <2>1, <2>11, <2>12
<1> HIDE DEF Q
<1>3. Q = Seq(Lines)
  BY <1>1, <1>2, SeqInduction DEF Q
<1> QED
  BY <1>3 DEF Q

-----------------------------------------------------------------------------
(* The smaller and the larger of two numbers, and pages *)

\* The smaller of two numbers.
LEMMA MinOfTwo ==
  ASSUME NEW a \in Int, NEW b \in Int
  PROVE  Min({a, b}) = IF a <= b THEN a ELSE b
BY DEF Min

\* The larger of two numbers.
LEMMA MaxOfTwo ==
  ASSUME NEW a \in Int, NEW b \in Int
  PROVE  Max({a, b}) = IF a >= b THEN a ELSE b
BY DEF Max

\* What SubSeq holds, in the cases the listing meets.
LEMMA SubSeqIs ==
  ASSUME NEW X, NEW s \in Seq(X), NEW j \in Nat \ {0}, NEW k \in Nat, k <= Len(s)
  PROVE  /\ SubSeq(s, j, k) \in Seq(X)
         /\ Len(SubSeq(s, j, k)) = IF j <= k THEN k - j + 1 ELSE 0
         /\ \A i \in 1 .. k - j + 1 : SubSeq(s, j, k)[i] = s[j + i - 1]
<1>1. CASE j <= k
  <2>1. k \in j .. Len(s)
    BY <1>1
  <2>2. SubSeq(s, j, k) \in Seq(X) /\ Len(SubSeq(s, j, k)) = k - j + 1
    BY <2>1
  <2>3. \A i \in 1 .. k - j + 1 : SubSeq(s, j, k)[i] = s[j + i - 1]
    BY <2>1
  <2> QED
    BY <1>1, <2>2, <2>3
<1>2. CASE k < j
  <2>1. SubSeq(s, j, k) = <<>>
    BY <1>2
  <2> QED
    BY <1>2, <2>1
<1> QED
  BY <1>1, <1>2

\* The first n users are users (users[:n]).
LEMMA FirstTyped ==
  ASSUME NEW us \in Seq(Users), NEW n \in Nat
  PROVE  SubSeq(us, 1, Min({n, Len(us)})) \in Seq(Users)
<1>1. Len(us) \in Nat
  OBVIOUS
<1>2. Min({n, Len(us)}) \in Nat /\ Min({n, Len(us)}) <= Len(us)
  BY <1>1, MinOfTwo
<1>3. PICK k \in Nat : k = Min({n, Len(us)})
  BY <1>2
<1>4. k <= Len(us)
  BY <1>2, <1>3
<1>5. SubSeq(us, 1, k) \in Seq(Users)
  BY <1>4, SubSeqIs
<1> QED
  BY <1>3, <1>5

\* A page holds the entries from its start on, as many as there are up to the limit.
LEMMA PageIs ==
  ASSUME NEW all \in Seq(Users), NEW s \in Nat \ {0},
         NEW last, last = Min({s + Limit - 1, Len(all)})
  PROVE  /\ last \in Nat /\ last <= Len(all)
         /\ SubSeq(all, s, last) \in Seq(Users)
         /\ ToSet(SubSeq(all, s, last)) = {all[k] : k \in s .. last}
         /\ Len(SubSeq(all, s, last)) = Limit <=> s + Limit - 1 <= Len(all)
         /\ Len(SubSeq(all, s, last)) <= Limit
         /\ s + Limit - 1 <= Len(all) => last = s + Limit - 1
         /\ s + Limit - 1 > Len(all) => last = Len(all)
<1>1. Len(all) \in Nat /\ s + Limit - 1 \in Nat /\ Limit \in Nat \ {0}
  BY LimitsAssumption
<1>2. last = IF s + Limit - 1 <= Len(all) THEN s + Limit - 1 ELSE Len(all)
  BY <1>1, MinOfTwo
<1>3. last \in Nat /\ last <= Len(all)
  BY <1>1, <1>2
<1>5. /\ SubSeq(all, s, last) \in Seq(Users)
      /\ Len(SubSeq(all, s, last)) = IF s <= last THEN last - s + 1 ELSE 0
      /\ \A i \in 1 .. last - s + 1 : SubSeq(all, s, last)[i] = all[s + i - 1]
  <2>1. PICK k \in Nat : k = last /\ k <= Len(all)
    BY <1>3
  <2>2. SubSeq(all, s, k) \in Seq(Users)
    BY <2>1, SubSeqIs
  <2>3. Len(SubSeq(all, s, k)) = IF s <= k THEN k - s + 1 ELSE 0
    BY <2>1, SubSeqIs
  <2>4. \A i \in 1 .. k - s + 1 : SubSeq(all, s, k)[i] = all[s + i - 1]
    BY <2>1, SubSeqIs
  <2> QED
    BY <2>1, <2>2, <2>3, <2>4
<1>6. ToSet(SubSeq(all, s, last)) = {all[k] : k \in s .. last}
  <2> DEFINE page == SubSeq(all, s, last)
  <2>1. DOMAIN page = 1 .. last - s + 1
    BY <1>3, <1>5
  <2> HIDE DEF page
  <2>2. ASSUME NEW i \in DOMAIN page PROVE page[i] \in {all[k] : k \in s .. last}
    <3>1. s + i - 1 \in s .. last
      BY <2>1, <1>3
    <3> QED
      BY <3>1, <2>1, <1>5 DEF page
  <2>3. ASSUME NEW k \in s .. last PROVE \E i \in DOMAIN page : page[i] = all[k]
    <3>1. k - s + 1 \in DOMAIN page /\ s + (k - s + 1) - 1 = k
      BY <2>1, <1>3
    <3> QED
      BY <3>1, <2>1, <1>5 DEF page
  <2>4. ToSet(page) = {page[i] : i \in DOMAIN page}
    BY DEF ToSet
  <2>5. {page[i] : i \in DOMAIN page} = {all[k] : k \in s .. last}
    BY <2>2, <2>3
  <2> QED
    BY <2>4, <2>5 DEF page
<1>7. /\ Len(SubSeq(all, s, last)) = Limit <=> s + Limit - 1 <= Len(all)
      /\ Len(SubSeq(all, s, last)) <= Limit
  BY <1>1, <1>2, <1>3, <1>5
<1>8. /\ s + Limit - 1 <= Len(all) => last = s + Limit - 1
      /\ s + Limit - 1 > Len(all) => last = Len(all)
  BY <1>1, <1>2
<1> QED
  BY <1>3, <1>5, <1>6, <1>7, <1>8

\* A user who joins is put among the others, and nobody is lost.
LEMMA InsertTyped ==
  ASSUME NEW s \in Seq(Users), NEW i \in 1 .. Len(s) + 1, NEW u \in Users
  PROVE  InsertAt(s, i, u) \in Seq(Users) /\ ToSet(s) \subseteq ToSet(InsertAt(s, i, u))
<1>1. Len(s) \in Nat /\ i - 1 \in Nat /\ i - 1 <= Len(s) /\ i \in Nat \ {0}
  OBVIOUS
<1> DEFINE p == SubSeq(s, 1, i - 1)
           q == SubSeq(s, i, Len(s))
           t == InsertAt(s, i, u)
<1>2. /\ p \in Seq(Users) /\ Len(p) = i - 1
      /\ \A j \in 1 .. i - 1 : p[j] = s[j]
  BY <1>1, SubSeqIs
<1>3. /\ q \in Seq(Users) /\ Len(q) = Len(s) - i + 1
      /\ \A j \in 1 .. Len(s) - i + 1 : q[j] = s[i + j - 1]
  BY <1>1, SubSeqIs
<1>4. t = (p \o <<u>>) \o q
  BY DEF InsertAt
<1> HIDE DEF p, q, t
<1>5. /\ t \in Seq(Users) /\ Len(t) = Len(s) + 1 /\ DOMAIN t = 1 .. Len(s) + 1
      /\ \A j \in 1 .. i - 1 : t[j] = p[j]
      /\ \A j \in i + 1 .. Len(s) + 1 : t[j] = q[j - i]
  BY <1>1, <1>2, <1>3, <1>4
<1>6. ASSUME NEW j \in 1 .. Len(s) PROVE \E k \in DOMAIN t : t[k] = s[j]
  <2>1. CASE j < i
    BY <2>1, <1>1, <1>2, <1>5
  <2>2. CASE j >= i
    <3>1. j + 1 \in i + 1 .. Len(s) + 1 /\ (j + 1) - i \in 1 .. Len(s) - i + 1
          /\ i + ((j + 1) - i) - 1 = j
      BY <2>2, <1>1
    <3>2. t[j + 1] = q[(j + 1) - i] /\ q[(j + 1) - i] = s[j] /\ j + 1 \in DOMAIN t
      BY <3>1, <1>1, <1>3, <1>5
    <3> QED
      BY <3>2
  <2> QED
    BY <2>1, <2>2, <1>1
<1>7. ToSet(s) \subseteq ToSet(t)
  BY <1>6 DEF ToSet
<1> QED
  BY <1>5, <1>7 DEF t

\* A user who leaves is taken out.
LEMMA RemoveTyped ==
  ASSUME NEW s \in Seq(Users), NEW i \in DOMAIN s
  PROVE  RemoveAt(s, i) \in Seq(Users)
<1>1. Len(s) \in Nat /\ i - 1 \in Nat /\ i - 1 <= Len(s) /\ i + 1 \in Nat \ {0}
  OBVIOUS
<1>2. SubSeq(s, 1, i - 1) \in Seq(Users) /\ SubSeq(s, i + 1, Len(s)) \in Seq(Users)
  BY <1>1, SubSeqIs
<1> QED
  BY <1>2 DEF RemoveAt

-----------------------------------------------------------------------------
(* Types *)

\* The endpoints that are tried are endpoints.
LEMMA CandidatesTyped == Scoped \o Plain \in Seq(Endpoints)
BY EndpointsAssumption, ConcatProperties

\* A page, read and added to the entries so far
LEMMA PageTyped ==
  ASSUME TypeOK, eps # <<>>
  PROVE  /\ Kept(dir, Shows[Head(eps)]) \in Seq(Users)
         /\ PageAt(Head(eps), start) \in Seq(Users)
         /\ Addressed(PageAt(Head(eps), start)) \in Seq(Users)
         /\ collected \o Addressed(PageAt(Head(eps), start)) \in Seq(Users)
<1>1. PICK all \in Seq(Users) : all = Kept(dir, Shows[Head(eps)])
  BY KeptSet DEF TypeOK
<1>2. PICK page \in Seq(Users) : page = PageAt(Head(eps), start)
  <2>1. PICK last : last = Min({start + Limit - 1, Len(all)})
    OBVIOUS
  <2>2. SubSeq(all, start, last) \in Seq(Users)
    BY <2>1, PageIs DEF TypeOK
  <2>3. PageAt(Head(eps), start) = SubSeq(all, start, last)
    BY <1>1, <2>1 DEF PageAt
  <2> QED
    BY <2>2, <2>3
<1>3. PICK read \in Seq(Users) : read = Addressed(page)
  BY KeptSet DEF Addressed
<1>4. collected \o read \in Seq(Users)
  BY ConcatProperties DEF TypeOK
<1> QED
  BY <1>1, <1>2, <1>3, <1>4

\* The end of a listing leaves users behind and a next phase.
LEMMA ListedTyped ==
  ASSUME NEW us \in Seq(Users), TypeOK, Listed(us)
  PROVE  /\ users' \in Seq(Users)
         /\ stage' \in {"report", "pilot", "select"}
         /\ pc' \in {"assess", "org", "select"}
BY DEF TypeOK, Listed

\* The steps of a listing keep the types.
LEMMA ListingTypes ==
  ASSUME TypeOK, Page \/ PageError \/ NoEndpointLeft
  PROVE  TypeOK'
<1> USE DEF report, choice, listing
<1>1. CASE Page
  <2>0. eps # <<>> /\ UNCHANGED <<opts, dir, report, choice, owed, steady, changes>>
    BY <1>1 DEF Page
  <2>1. PICK page \in Seq(Users), read \in Seq(Users) :
          /\ page = PageAt(Head(eps), start)
          /\ read = collected \o Addressed(page)
    BY <2>0, PageTyped
  <2>2. CASE start' = start + Limit /\ collected' = read /\ UNCHANGED <<eps, pc, stage, users>>
    BY <2>0, <2>2, LimitsAssumption DEF TypeOK
  <2>3. CASE Listed(read) /\ UNCHANGED <<eps, start, collected>>
    <3>1. /\ users' \in Seq(Users) /\ stage' \in {"report", "pilot", "select"}
          /\ pc' \in {"assess", "org", "select"}
      BY <2>3, ListedTyped
    <3> QED
      BY <2>0, <2>3, <3>1 DEF TypeOK
  <2>4. CASE NextEndpoint(<<>>)
    <3>1. Tail(eps) \in Seq(Endpoints)
      BY <2>0 DEF TypeOK
    <3> QED
      BY <2>0, <2>4, <3>1 DEF TypeOK, NextEndpoint, OtherEndpoints
  <2> QED
    BY <1>1, <2>1, <2>2, <2>3, <2>4 DEF Page
<1>2. CASE PageError
  <2>1. Tail(eps) \in Seq(Endpoints)
    BY <1>2 DEF TypeOK, PageError
  <2>2. /\ eps' = Tail(eps) /\ start' = 1 /\ collected' = <<>>
        /\ UNCHANGED <<pc, stage, users, opts, dir, assessed, total, shown, picks, selected,
                       active, owed, changes>>
    BY <1>2 DEF PageError, NextEndpoint, OtherEndpoints, KeptOnError
  <2>3. steady' \in BOOLEAN
    BY <1>2, FALSE \in BOOLEAN, Zenon DEF PageError
  <2> QED
    BY <2>1, <2>2, <2>3 DEF TypeOK
<1>3. CASE NoEndpointLeft
  <2>1. /\ users' \in Seq(Users) /\ stage' \in {"report", "pilot", "select"}
        /\ pc' \in {"assess", "org", "select"}
    <3>1. <<>> \in Seq(Users) /\ Listed(<<>>)
      BY <1>3 DEF NoEndpointLeft
    <3> QED
      BY <3>1, ListedTyped
  <2> QED
    BY <1>3, <2>1 DEF TypeOK, NoEndpointLeft
<1> QED
  BY <1>1, <1>2, <1>3

\* A mailbox that was assessed is one line more.
LEMMA NoteTyped ==
  ASSUME TypeOK, NEW n \in Nat, NEW b \in BOOLEAN, Note(n, b)
  PROVE  assessed' \in Seq(Lines) /\ total' \in Nat
<1>1. [msgs |-> n, sized |-> b] \in Lines /\ assessed \in Seq(Lines)
  BY DEF Lines, TypeOK
<1>2. Append(assessed, [msgs |-> n, sized |-> b]) \in Seq(Lines)
  BY <1>1
<1> QED
  BY <1>2 DEF Note, TypeOK

\* Each way of sizing a user gives a line; the figures are natural numbers.
LEMMA AssessUserNotes ==
  ASSUME TypeOK, AssessUser
  PROVE  \E n \in Nat, b \in BOOLEAN : Note(n, b)
<1> DEFINE u == users[Len(assessed) + 1]
<1>1. u \in Users
  <2>1. Len(assessed) \in Nat /\ Len(users) \in Nat /\ Len(assessed) < Len(users)
    BY DEF TypeOK, AssessUser
  <2>2. Len(assessed) + 1 \in 1 .. Len(users)
    BY <2>1
  <2> QED
    BY <2>2 DEF TypeOK
<1> HIDE DEF u
<1>2. Storage[u] \in Nat /\ Mail[u] \in Nat
  BY <1>1, SizesAssumption
<1>3. FromStorage(u) \in Nat
  <2>1. Storage[u] \div 100 \in Int
    BY <1>2
  <2> QED
    BY <2>1, MaxOfTwo, 1 \in Int DEF FromStorage
<1>4. FromFolders(u) \subseteq Nat
  BY <1>2 DEF FromFolders
<1>5. \/ \E n \in FromFolders(u) : Note(n, n > 0 \/ Storage[u] > 0)
      \/ Note(FromStorage(u), TRUE)
      \/ Note(0, FALSE)
  BY DEF AssessUser, u
<1>6. ASSUME NEW n \in FromFolders(u), Note(n, n > 0 \/ Storage[u] > 0)
      PROVE  \E m \in Nat, b \in BOOLEAN : Note(m, b)
  <2>1. (n > 0 \/ Storage[u] > 0) \in BOOLEAN /\ n \in Nat
    BY <1>4
  <2> QED
    BY <1>6, <2>1, Zenon
<1> QED
  BY <1>3, <1>5, <1>6, TRUE \in BOOLEAN, FALSE \in BOOLEAN, 0 \in Nat, Zenon

\* The figures of the extrapolation
LEMMA ExtrapolateFills ==
  ASSUME TypeOK, Extrapolate
  PROVE  \/ UNCHANGED <<assessed, total>>
         \/ \E m \in Nat : /\ assessed' = Filled(assessed, m)
                           /\ total' = total + Cardinality(Silent(assessed)) * m
<1> SUFFICES ASSUME ~UNCHANGED <<assessed, total>>
             PROVE  \E m \in Nat : /\ assessed' = Filled(assessed, m)
                                  /\ total' = total + Cardinality(Silent(assessed)) * m
  OBVIOUS
<1>1. assessed \in Seq(Lines) /\ users \in Seq(Users) /\ Len(assessed) = Len(users)
  BY DEF TypeOK, Lines, Extrapolate
<1>2. Unknown = Silent(assessed)
  BY DEF Unknown, Silent
<1>3. PICK c \in Nat : c = Cardinality(Unknown) /\ c <= Len(assessed)
  BY <1>1, <1>2, SilentFinite
<1>4. PICK s \in Nat : s = MessagesOf(assessed)
  BY <1>1, SumWalk DEF SumsUpTo
<1> DEFINE known == Len(users) - Cardinality(Unknown)
           average == MessagesOf(assessed) \div known
<1>5. /\ known > 0
      /\ assessed' = [i \in DOMAIN assessed |->
                        IF i \in Unknown THEN [msgs |-> average, sized |-> TRUE] ELSE assessed[i]]
      /\ total' = total + Added(average)
  BY DEF Extrapolate
<1>6. known \in Nat
  BY <1>1, <1>3
<1>7. average \in Nat
  <2>1. PICK k \in Nat : k = known /\ k > 0
    BY <1>5, <1>6
  <2>2. s \div k \in Nat
    BY <2>1
  <2> QED
    BY <2>1, <2>2, <1>4
<1>8. assessed' = Filled(assessed, average)
  BY <1>2, <1>5 DEF Filled
<1>9. total' = total + Cardinality(Silent(assessed)) * average
  BY <1>2, <1>5 DEF Added
<1> QED
  BY <1>7, <1>8, <1>9

\* The steps of an assessment keep the types.
LEMMA AssessmentTypes ==
  ASSUME TypeOK, AssessUser \/ Extrapolate
  PROVE  TypeOK'
<1> USE DEF report, choice, listing
<1>1. CASE AssessUser
  <2>1. assessed' \in Seq(Lines) /\ total' \in Nat
    BY <1>1, AssessUserNotes, NoteTyped
  <2> QED
    BY <1>1, <2>1 DEF TypeOK, AssessUser, Lines
<1>2. CASE Extrapolate
  <2>1. assessed' \in Seq(Lines) /\ total' \in Nat
    <3>1. CASE UNCHANGED <<assessed, total>>
      BY <3>1 DEF TypeOK, Lines
    <3>2. CASE ~UNCHANGED <<assessed, total>>
      <4>1. PICK m \in Nat : /\ assessed' = Filled(assessed, m)
                             /\ total' = total + Cardinality(Silent(assessed)) * m
        BY <1>2, <3>2, ExtrapolateFills
      <4>2. assessed \in Seq(Lines)
        BY DEF TypeOK, Lines
      <4>3. PICK c \in Nat : c = Cardinality(Silent(assessed))
        BY <4>2, SilentFinite
      <4>4. c * m \in Nat /\ total \in Nat
        BY DEF TypeOK
      <4>5. PICK ls \in Seq(Lines) : ls = assessed
        BY <4>2
      <4>6. Filled(ls, m) \in Seq(Lines)
        BY FilledTotal
      <4> QED
        BY <4>1, <4>3, <4>4, <4>5, <4>6
    <3> QED
      BY <3>1, <3>2
  <2> QED
    BY <1>2, <2>1 DEF TypeOK, Extrapolate, Lines
<1> QED
  BY <1>1, <1>2

\* The numbers typed, sorted and without duplicates, name users of the list.
LEMMA SortedTyped ==
  ASSUME NEW us \in Seq(Users), NEW valid
  PROVE  LET sorted == Kept([i \in DOMAIN us |-> i], valid)
         IN /\ sorted \in Seq(DOMAIN us)
            /\ ToSet(sorted) = DOMAIN us \intersect valid
            /\ [k \in DOMAIN sorted |-> us[sorted[k]]] \in Seq(Users)
            /\ ToSet([k \in DOMAIN sorted |-> us[sorted[k]]])
                 = {us[p] : p \in DOMAIN us \intersect valid}
<1>1. PICK ps \in Seq(DOMAIN us) : ps = [i \in DOMAIN us |-> i]
  <2>1. DOMAIN us = 1 .. Len(us) /\ Len(us) \in Nat
    OBVIOUS
  <2>2. [i \in 1 .. Len(us) |-> i] \in Seq(1 .. Len(us))
    BY <2>1
  <2> QED
    BY <2>1, <2>2, Zenon
<1>2. DOMAIN us = 1 .. Len(us) /\ Len(us) \in Nat
  OBVIOUS
<1>3. ToSet(ps) = DOMAIN us
  BY <1>1, <1>2 DEF ToSet
<1>4. PICK sorted \in Seq(DOMAIN us) :
        sorted = Kept(ps, valid) /\ ToSet(sorted) = DOMAIN us \intersect valid
  BY <1>3, KeptSet
<1> DEFINE chosen == [k \in DOMAIN sorted |-> us[sorted[k]]]
<1>5. Len(sorted) \in Nat /\ DOMAIN sorted = 1 .. Len(sorted)
  OBVIOUS
<1>6. \A k \in 1 .. Len(sorted) : sorted[k] \in DOMAIN us /\ us[sorted[k]] \in Users
  BY <1>2
<1>7. chosen \in Seq(Users)
  BY <1>5, <1>6
<1>8. ToSet(chosen) = {us[p] : p \in ToSet(sorted)}
  BY DEF ToSet
<1>9. sorted = Kept([i \in DOMAIN us |-> i], valid)
  BY <1>1, <1>4
<1> QED
  BY <1>4, <1>7, <1>8, <1>9

\* A selection changes the phase and who is selected, and nothing else.
LEMMA SelectTyped ==
  ASSUME TypeOK, NEW us \in Seq(Users), Select(us)
  PROVE  /\ pc' = "confirm" /\ selected' \in Seq(Users)
         /\ UNCHANGED <<opts, dir, stage, eps, start, collected, users, assessed, total, shown,
                        active, owed, steady, changes>>
BY DEF Select, listing, report

\* Whichever way they are chosen, those selected are users.
LEMMA ChoiceTypes ==
  ASSUME TypeOK, SelectByFlags \/ SelectByMenu \/ SelectByNumber
  PROVE  /\ \E us \in Seq(Users) : Select(us)
         /\ picks' \subseteq Nat
         /\ pc = "select"
<1>1. \A names : Asked(names) \in Seq(Users)
  BY KeptSet DEF Asked, TypeOK
<1>2. \A n \in Nat : First(n) \in Seq(Users)
  BY FirstTyped DEF First, TypeOK
<1>3. users \in Seq(Users) /\ picks \subseteq Nat
  BY DEF TypeOK
<1>4. \A us \in Seq(Users) : OrAll(us) \in Seq(Users)
  BY <1>3 DEF OrAll
<1>5. CASE SelectByFlags
  <2>1. opts.pilot \in Nat
    BY OptionsAssumption DEF TypeOK
  <2>2. \/ Select(OrAll(Asked(opts.users))) \/ Select(Asked(opts.file))
        \/ Select(First(opts.pilot)) \/ Select(users)
    BY <1>5 DEF SelectByFlags
  <2>3. \E us \in Seq(Users) : Select(us)
    BY <2>1, <2>2, <1>1, <1>2, <1>3, <1>4, Zenon
  <2>4. UNCHANGED picks
    BY <1>5 DEF SelectByFlags
  <2> QED
    BY <2>3, <2>4, <1>3 DEF Select
<1>6. CASE SelectByMenu
  <2>1. \/ Select(users) \/ Select(First(1)) \/ Select(First(5))
        \/ \E names \in SUBSET Users : Select(OrAll(Asked(names)))
    BY <1>6 DEF SelectByMenu
  <2>2. \E us \in Seq(Users) : Select(us)
    BY <2>1, <1>1, <1>2, <1>3, <1>4, 1 \in Nat, 5 \in Nat, Zenon
  <2>3. UNCHANGED picks
    BY <1>6 DEF SelectByMenu
  <2> QED
    BY <2>2, <2>3, <1>3 DEF Select
<1>7. CASE SelectByNumber
  <2>1. PICK ps \in SUBSET (1 .. Len(shown)) : picks' = ps
    BY <1>7, Zenon DEF SelectByNumber
  <2>2. picks' \subseteq Nat
    BY <2>1
  <2> DEFINE valid == {Position(p) : p \in picks'}
             sorted == Kept([i \in DOMAIN users |-> i], valid)
             chosen == [k \in DOMAIN sorted |-> users[sorted[k]]]
  <2>3. Select(OrAll(chosen))
    BY <1>7 DEF SelectByNumber
  <2>4. chosen \in Seq(Users)
    <3>1. PICK us \in Seq(Users) : us = users
      BY <1>3
    <3>2. PICK v : v = valid
      OBVIOUS
    <3> HIDE DEF valid
    <3> QED
      BY <3>1, <3>2, SortedTyped
  <2> HIDE DEF chosen
  <2>5. OrAll(chosen) \in Seq(Users)
    BY <2>4, <1>4
  <2>6. \E us \in Seq(Users) : Select(us)
    BY <2>3, <2>5, Zenon
  <2> QED
    BY <2>2, <2>6 DEF Select
<1> QED
  BY <1>5, <1>6, <1>7

\* The stage after a stage is one of the later ones.
LEMMA NextStageTyped ==
  ASSUME NextStage, pc \in {"provision", "calendar", "contacts", "mailbox"}
  PROVE  pc' \in ToSet(Stages) \ {"provision"}
<1>1. /\ DOMAIN Stages = 1 .. 5 /\ Len(Stages) = 5
      /\ Stages = <<"provision", "calendar", "contacts", "mailbox", "done">>
  BY DEF Stages
<1>2. \E i \in 2 .. Len(Stages) : Stages[i - 1] = pc
  BY <1>1
<1>3. PICK i \in 2 .. Len(Stages) : pc' = Stages[i]
  BY <1>2 DEF NextStage
<1>4. pc' \in ToSet(Stages)
  BY <1>1, <1>3 DEF ToSet
<1>5. pc' # "provision"
  BY <1>1, <1>3
<1> QED
  BY <1>4, <1>5

\* The names of the stages.
LEMMA StagesAre == ToSet(Stages) = {"provision", "calendar", "contacts", "mailbox", "done"}
<1>1. DOMAIN Stages = 1 .. 5 /\ Stages = <<"provision", "calendar", "contacts", "mailbox", "done">>
  BY DEF Stages
<1> QED
  BY <1>1 DEF ToSet

\* The types hold: whatever changes in the directory, pages, lines, totals and
\* selections are what the program takes them for.
THEOREM TypeCorrect == Spec => []TypeOK
<1>1. Init => TypeOK
  BY DirAssumption, ChangesAssumption DEF Init, TypeOK
<1>2. TypeOK /\ [Next]_vars => TypeOK'
  <2> SUFFICES ASSUME TypeOK, [Next]_vars PROVE TypeOK'
    OBVIOUS
  <2> USE DEF report, choice, listing, Terminal
  <2>1. CASE Join
    <3>1. dir' \in Seq(Users)
      BY <2>1, InsertTyped DEF Join, TypeOK
    <3>2. steady' \in BOOLEAN
      BY <2>1, FALSE \in BOOLEAN, Zenon DEF Join, Change
    <3>3. changes' \in 0 .. MaxChanges
      BY <2>1, ChangesAssumption DEF Join, Change, TypeOK
    <3> QED
      BY <2>1, <3>1, <3>2, <3>3 DEF Join, Change, TypeOK
  <2>2. CASE Leave
    <3>1. dir' \in Seq(Users)
      BY <2>2, RemoveTyped DEF Leave, TypeOK
    <3>2. steady' \in BOOLEAN
      BY <2>2, FALSE \in BOOLEAN, Zenon DEF Leave, Change
    <3>3. changes' \in 0 .. MaxChanges
      BY <2>2, ChangesAssumption DEF Leave, Change, TypeOK
    <3> QED
      BY <2>2, <3>1, <3>2, <3>3 DEF Leave, Change, TypeOK
  <2>3. CASE Fail \/ Preflight \/ Connect
    BY <2>3 DEF Fail, Preflight, Connect, TypeOK
  <2>4. CASE FindOrg
    <3>1. eps' \in Seq(Endpoints)
      BY <2>4, CandidatesTyped, EndpointsAssumption DEF FindOrg
    <3>2. steady' \in BOOLEAN
      BY <2>4, FALSE \in BOOLEAN, Zenon DEF FindOrg, TypeOK
    <3>3. owed' \subseteq Users
      BY <2>4 DEF FindOrg, TypeOK, ToSet
    <3>4. /\ pc' = "page" /\ start' = 1 /\ collected' = <<>>
          /\ UNCHANGED <<opts, dir, stage, users, report, choice, changes>>
      BY <2>4 DEF FindOrg
    <3> QED
      BY <3>1, <3>2, <3>3, <3>4 DEF TypeOK
  <2>5. CASE Page \/ PageError \/ NoEndpointLeft
    BY <2>5, ListingTypes
  <2>6. CASE AssessUser \/ Extrapolate
    BY <2>6, AssessmentTypes
  <2>7. CASE SelectByFlags \/ SelectByMenu \/ SelectByNumber
    <3>1. PICK us \in Seq(Users) : Select(us)
      BY <2>7, ChoiceTypes
    <3>2. picks' \subseteq Nat
      BY <2>7, ChoiceTypes
    <3> QED
      BY <3>1, <3>2, SelectTyped DEF TypeOK
  <2>8. CASE Confirm
    <3>1. pc' \in ToSet(Stages) \union Terminal
      BY <2>8, StagesAre DEF Confirm, Stages
    <3> QED
      BY <2>8, <3>1 DEF Confirm, TypeOK
  <2>9. CASE Provision
    <3>1. active' \in Seq(Users)
      BY <2>9, KeptSet DEF Provision, TypeOK
    <3>2. pc' \in ToSet(Stages)
      BY <2>9, NextStageTyped DEF Provision
    <3> QED
      BY <2>9, <3>1, <3>2 DEF Provision, TypeOK
  <2>10. CASE RunStage
    <3>1. pc' \in ToSet(Stages)
      BY <2>10, NextStageTyped DEF RunStage
    <3> QED
      BY <2>10, <3>1 DEF RunStage, TypeOK
  <2>11. CASE UNCHANGED vars
    BY <2>11 DEF vars, TypeOK
  <2> QED
    BY <2>1, <2>2, <2>3, <2>4, <2>5, <2>6, <2>7, <2>8, <2>9, <2>10, <2>11
       DEF Next, Work, Discover, Prompt, Terminated
<1> QED
  BY <1>1, <1>2, PTL DEF Spec

-----------------------------------------------------------------------------
\* The total of the report is the sum of its lines, after every user and after the
\* extrapolation.
THEOREM TotalsCorrect == Spec => []TotalsAgree
<1>1. Init => TotalsAgree
  BY SumEmpty DEF Init, TotalsAgree
<1>2. TypeOK /\ TotalsAgree /\ [Next]_vars => TotalsAgree'
  <2> SUFFICES ASSUME TypeOK, TotalsAgree, [Next]_vars PROVE TotalsAgree'
    OBVIOUS
  <2>1. assessed \in Seq(Lines)
    BY DEF TypeOK, Lines
  <2>2. CASE AssessUser
    <3>1. PICK n \in Nat, b \in BOOLEAN : Note(n, b)
      BY <2>2, AssessUserNotes
    <3>2. [msgs |-> n, sized |-> b] \in Lines
      BY DEF Lines
    <3>3. MessagesOf(Append(assessed, [msgs |-> n, sized |-> b])) = MessagesOf(assessed) + n
      BY <2>1, <3>2, SumAppend
    <3> QED
      BY <3>1, <3>3 DEF Note, TotalsAgree
  <2>3. CASE Extrapolate
    <3>1. CASE UNCHANGED <<assessed, total>>
      BY <3>1 DEF TotalsAgree
    <3>2. CASE ~UNCHANGED <<assessed, total>>
      <4>1. PICK m \in Nat : /\ assessed' = Filled(assessed, m)
                             /\ total' = total + Cardinality(Silent(assessed)) * m
        BY <2>3, <3>2, ExtrapolateFills
      <4>2. PICK ls \in Seq(Lines) : ls = assessed
        BY <2>1
      <4>3. MessagesOf(Filled(ls, m)) = MessagesOf(ls) + Cardinality(Silent(ls)) * m
        BY FilledTotal
      <4> QED
        BY <4>1, <4>2, <4>3 DEF TotalsAgree
    <3> QED
      BY <3>1, <3>2
  <2>4. CASE UNCHANGED <<assessed, total>>
    BY <2>4 DEF TotalsAgree
  <2>5. \/ AssessUser \/ Extrapolate \/ UNCHANGED <<assessed, total>>
    BY DEF Next, Work, Discover, Prompt, Terminated, vars, Join, Leave, Change, Fail, Preflight, Connect,
      FindOrg, Page, PageError, NoEndpointLeft, SelectByFlags, SelectByMenu, SelectByNumber,
      Select, Confirm, Provision, RunStage, report
  <2> QED
    BY <2>2, <2>3, <2>4, <2>5
<1> QED
  BY <1>1, <1>2, TypeCorrect, PTL DEF Spec

-----------------------------------------------------------------------------
(***************************************************************************)
(* While the pages of an endpoint are turned, those read so far are its    *)
(* own, and who is owed is among them or still ahead: somebody who joins   *)
(* can only move the others to later places of the listing, somebody who   *)
(* leaves lifts the promise.                                               *)
(***************************************************************************)
All(e) == Kept(dir, Shows[e])

Ahead(e, u) == \E k \in DOMAIN All(e) : k >= start /\ All(e)[k] = u

Turning ==
  pc = "page" /\ eps # <<>> =>
    /\ ToSet(collected) \subseteq Shows[Head(eps)]
    /\ \A u \in (owed \intersect Shows[Head(eps)]) \ Nameless :
         u \in ToSet(collected) \/ Ahead(Head(eps), u)

ListingInv == owed \subseteq ToSet(dir) /\ Turning /\ ListingWhole

\* Whoever is in the directory and shown by an endpoint is somewhere on its pages.
LEMMA Shown ==
  ASSUME TypeOK, NEW e, NEW u \in ToSet(dir) \intersect Shows[e]
  PROVE  \E k \in DOMAIN All(e) : k >= 1 /\ All(e)[k] = u
<1>1. PICK all \in Seq(Users) : all = All(e) /\ ToSet(all) = ToSet(dir) \intersect Shows[e]
  BY KeptSet DEF TypeOK, All
<1>2. PICK k \in DOMAIN all : all[k] = u
  BY <1>1 DEF ToSet
<1>3. k >= 1
  OBVIOUS
<1> QED
  BY <1>1, <1>2, <1>3

\* A listing that is begun, with any endpoint.
LEMMA Begun ==
  ASSUME TypeOK, owed' \subseteq ToSet(dir), start' = 1, collected' = <<>>, dir' = dir
  PROVE  Turning'
<1> SUFFICES ASSUME NEW e, e = Head(eps)', NEW u \in (owed' \intersect Shows[e]) \ Nameless
             PROVE  Ahead(e, u)'
  BY DEF Turning, ToSet
<1>1. PICK k \in DOMAIN All(e) : k >= 1 /\ All(e)[k] = u
  BY Shown
<1>2. All(e)' = All(e)
  BY DEF All
<1> QED
  BY <1>1, <1>2 DEF Ahead

\* A concatenation holds what its parts hold.
LEMMA ToSetConcat ==
  ASSUME NEW X, NEW s \in Seq(X), NEW t \in Seq(X)
  PROVE  ToSet(s \o t) = ToSet(s) \union ToSet(t)
<1> DEFINE w == s \o t
<1>1. /\ w \in Seq(X) /\ Len(w) = Len(s) + Len(t) /\ Len(s) \in Nat /\ Len(t) \in Nat
      /\ DOMAIN w = 1 .. Len(s) + Len(t) /\ DOMAIN s = 1 .. Len(s) /\ DOMAIN t = 1 .. Len(t)
  OBVIOUS
<1>2. \A i \in 1 .. Len(s) : w[i] = s[i]
  OBVIOUS
<1>3. \A i \in 1 .. Len(t) : w[Len(s) + i] = t[i]
  OBVIOUS
<1> HIDE DEF w
<1>4. ASSUME NEW i \in DOMAIN w PROVE w[i] \in ToSet(s) \union ToSet(t)
  <2>1. CASE i \in 1 .. Len(s)
    BY <2>1, <1>1, <1>2 DEF ToSet
  <2>2. CASE i \notin 1 .. Len(s)
    <3>1. i - Len(s) \in 1 .. Len(t) /\ Len(s) + (i - Len(s)) = i
      BY <2>2, <1>1
    <3> QED
      BY <3>1, <1>1, <1>3 DEF ToSet
  <2> QED
    BY <2>1, <2>2
<1>5. ASSUME NEW i \in DOMAIN s PROVE s[i] \in ToSet(w)
  <2>1. i \in DOMAIN w
    BY <1>1
  <2> QED
    BY <2>1, <1>1, <1>2 DEF ToSet
<1>6. ASSUME NEW i \in DOMAIN t PROVE t[i] \in ToSet(w)
  <2>1. Len(s) + i \in DOMAIN w
    BY <1>1
  <2> QED
    BY <2>1, <1>1, <1>3 DEF ToSet
<1>7. /\ ToSet(w) = {w[i] : i \in DOMAIN w} /\ ToSet(s) = {s[i] : i \in DOMAIN s}
      /\ ToSet(t) = {t[i] : i \in DOMAIN t}
  BY DEF ToSet
<1>8. ToSet(w) = ToSet(s) \union ToSet(t)
  BY <1>4, <1>5, <1>6, <1>7
<1> QED
  BY <1>8 DEF w

\* What is read of a page: those at its places who have an address. Nobody is
\* ahead after the last page.
LEMMA PageReads ==
  ASSUME TypeOK, Turning, pc = "page", eps # <<>>
  PROVE  LET e == Head(eps)
             page == PageAt(e, start)
             read == collected \o Addressed(page)
         IN /\ read \in Seq(Users)
            /\ ToSet(read) \subseteq Shows[e]
            /\ \A u \in (owed \intersect Shows[e]) \ Nameless :
                 \/ u \in ToSet(read)
                 \/ \E k \in DOMAIN All(e) : Len(page) = Limit /\ k >= start + Limit /\ All(e)[k] = u
<1> DEFINE e == Head(eps)
<1>1. PICK all \in Seq(Users) : all = All(e) /\ ToSet(all) = ToSet(dir) \intersect Shows[e]
  BY KeptSet DEF TypeOK, All
<1>2. PICK last : last = Min({start + Limit - 1, Len(all)})
  OBVIOUS
<1>3. PICK page \in Seq(Users) : page = SubSeq(all, start, last)
  <2>1. SubSeq(all, start, last) \in Seq(Users)
    BY <1>2, PageIs DEF TypeOK
  <2> QED
    BY <2>1
<1>4. page = PageAt(e, start)
  BY <1>1, <1>2, <1>3 DEF PageAt, All
<1>5. /\ last \in Nat /\ last <= Len(all)
      /\ ToSet(page) = {all[k] : k \in start .. last}
      /\ Len(page) = Limit <=> start + Limit - 1 <= Len(all)
      /\ start + Limit - 1 <= Len(all) => last = start + Limit - 1
      /\ start + Limit - 1 > Len(all) => last = Len(all)
  BY <1>2, <1>3, PageIs DEF TypeOK
<1>6. PICK new \in Seq(Users) : new = Addressed(page) /\ ToSet(new) = ToSet(page) \ Nameless
  <2>1. /\ Addressed(page) \in Seq(Users)
        /\ ToSet(Addressed(page)) = ToSet(page) \intersect (Users \ Nameless)
    BY KeptSet DEF Addressed
  <2>2. ToSet(page) \subseteq Users
    BY DEF ToSet
  <2> QED
    BY <2>1, <2>2
<1>7. /\ collected \o new \in Seq(Users)
      /\ ToSet(collected \o new) = ToSet(collected) \union ToSet(new)
  BY ToSetConcat, ConcatProperties DEF TypeOK
<1>8. Len(all) \in Nat /\ start \in Nat \ {0} /\ Limit \in Nat \ {0} /\ DOMAIN all = 1 .. Len(all)
  BY LimitsAssumption DEF TypeOK
<1>9. last \in Nat /\ last <= Len(all)
  BY <1>5
<1>10. ToSet(page) \subseteq Shows[e]
  <2>1. \A k \in start .. last : k \in 1 .. Len(all)
    BY <1>9, <1>8
  <2>2. \A k \in start .. last : all[k] \in ToSet(all)
    BY <2>1, <1>8 DEF ToSet
  <2> QED
    BY <2>2, <1>1, <1>5
<1>11. ToSet(collected \o new) \subseteq Shows[e]
  BY <1>6, <1>7, <1>10 DEF Turning
<1>12. ASSUME NEW u \in (owed \intersect Shows[e]) \ Nameless, u \notin ToSet(collected \o new)
       PROVE  \E k \in DOMAIN all : Len(page) = Limit /\ k >= start + Limit /\ all[k] = u
  <2>1. PICK k \in DOMAIN all : k >= start /\ all[k] = u
    BY <1>12, <1>1, <1>7 DEF Turning, Ahead
  <2>2. k \notin start .. last
    BY <2>1, <1>5, <1>6, <1>7, <1>12
  <2>3. k \in Nat /\ k > last /\ k <= Len(all)
    BY <2>1, <2>2, <1>9, <1>8
  <2>4. start + Limit - 1 <= Len(all) /\ last = start + Limit - 1
    <3>1. PICK n \in Nat, m \in Nat : n = Len(all) /\ m = start + Limit - 1
      <4>1. Len(all) \in Nat /\ start + Limit - 1 \in Nat
        BY <1>8
      <4> QED
        BY <4>1, Zenon
    <3>2. last # n
      BY <2>3, <1>9, <3>1
    <3>3. m <= n => last = m
      BY <1>5, <3>1
    <3>4. m > n => last = n
      BY <1>5, <3>1
    <3>5. m <= n
      BY <3>2, <3>4
    <3> QED
      BY <3>1, <3>3, <3>5
  <2> QED
    BY <2>1, <2>3, <2>4, <1>5, <1>8
<1> QED
  BY <1>1, <1>4, <1>6, <1>7, <1>11, <1>12

\* One page: who is owed and not yet read is still ahead, on this page or a later one.
LEMMA TurningStep ==
  ASSUME TypeOK, Turning, owed \subseteq ToSet(dir), Page
  PROVE  Turning' /\ ListingWhole'
<1> USE DEF report, choice
<1> DEFINE e == Head(eps)
           page == PageAt(e, start)
           read == collected \o Addressed(page)
<1>1. pc = "page" /\ eps # <<>> /\ UNCHANGED <<opts, dir, owed>>
  BY DEF Page
<1>2. /\ read \in Seq(Users)
      /\ ToSet(read) \subseteq Shows[e]
      /\ \A u \in (owed \intersect Shows[e]) \ Nameless :
           \/ u \in ToSet(read)
           \/ \E k \in DOMAIN All(e) : Len(page) = Limit /\ k >= start + Limit /\ All(e)[k] = u
  BY <1>1, PageReads
<1>3. \/ /\ Len(page) = Limit
         /\ start' = start + Limit /\ collected' = read
         /\ UNCHANGED <<eps, pc, stage, users>>
      \/ /\ Len(page) < Limit /\ read # <<>>
         /\ Listed(read)
         /\ UNCHANGED <<eps, start, collected>>
      \/ NextEndpoint(<<>>)
  BY DEF Page
<1>4. All(e)' = All(e') /\ (eps' = eps => e' = e) /\ (e' = e => All(e)' = All(e))
  BY <1>1 DEF All
<1> HIDE DEF e, page, read
<1>5. CASE start' = start + Limit /\ collected' = read /\ UNCHANGED <<eps, pc, stage, users>>
  <2>1. e' = e
    BY <1>5, <1>4
  <2>2. ASSUME NEW u \in (owed \intersect Shows[e]) \ Nameless, u \notin ToSet(read)
        PROVE  Ahead(e, u)'
    <3>1. PICK k \in DOMAIN All(e) : k >= start + Limit /\ All(e)[k] = u
      BY <1>2, <2>2
    <3> QED
      BY <3>1, <1>4, <1>5, <2>1 DEF Ahead
  <2>3. Turning'
    BY <2>1, <2>2, <1>1, <1>2, <1>5 DEF Turning, e
  <2>4. ListingWhole'
    BY <1>1, <1>5 DEF ListingWhole
  <2> QED
    BY <2>3, <2>4
<1>6. CASE Len(page) < Limit /\ read # <<>> /\ Listed(read) /\ UNCHANGED <<eps, start, collected>>
  <2>1. pc' # "page" /\ users' = read
    BY <1>6 DEF Listed, TypeOK
  <2>2. Turning'
    BY <2>1 DEF Turning
  <2>3. e' = e /\ Len(page) # Limit
    BY <1>4, <1>6, LimitsAssumption
  <2>4. (owed \intersect Shows[e]) \ Nameless \subseteq ToSet(read)
    BY <2>3, <1>2
  <2>5. ListingWhole'
    BY <2>1, <2>3, <2>4, <1>1, <1>2 DEF ListingWhole, e
  <2> QED
    BY <2>2, <2>5
<1>7. CASE NextEndpoint(<<>>)
  <2>1. start' = 1 /\ collected' = <<>> /\ pc' = pc
    BY <1>7 DEF NextEndpoint
  <2>2. Turning'
    BY <2>1, <1>1, Begun
  <2>3. ListingWhole'
    BY <2>1, <1>1 DEF ListingWhole
  <2> QED
    BY <2>2, <2>3
<1> QED
  BY <1>3, <1>5, <1>6, <1>7

\* Whoever joins leaves everybody who is ahead ahead.
LEMMA TurningJoin ==
  ASSUME TypeOK, Turning, Join
  PROVE  Turning'
<1>1. UNCHANGED <<pc, eps, start, collected, owed>>
  BY DEF Join, Change, listing
<1>2. PICK v \in Users \ ToSet(dir), i \in 1 .. Len(dir) + 1 : dir' = InsertAt(dir, i, v)
  BY DEF Join
<1> SUFFICES ASSUME NEW e, NEW u, Ahead(e, u) PROVE Ahead(e, u)'
  BY <1>1 DEF Turning
<1>3. PICK s \in Seq(Users) : s = dir
  BY DEF TypeOK
<1>4. PICK k \in DOMAIN Kept(s, Shows[e]) : k >= start /\ Kept(s, Shows[e])[k] = u
  BY <1>3 DEF Ahead, All
<1>5. PICK j \in DOMAIN Kept(InsertAt(s, i, v), Shows[e]) :
        j >= k /\ Kept(InsertAt(s, i, v), Shows[e])[j] = Kept(s, Shows[e])[k]
  <2>1. v \in Users /\ i \in 1 .. Len(s) + 1
    BY <1>3
  <2> QED
    BY <2>1, KeptInsert
<1>6. j >= start
  <2>1. Kept(s, Shows[e]) \in Seq(Users)
    BY KeptSet
  <2>2. InsertAt(s, i, v) \in Seq(Users)
    BY <1>3, InsertTyped
  <2>3. Kept(InsertAt(s, i, v), Shows[e]) \in Seq(Users)
    BY <2>2, KeptSet
  <2>4. k \in Nat /\ j \in Nat /\ start \in Nat
    BY <2>1, <2>3 DEF TypeOK
  <2> QED
    BY <2>4, <1>4, <1>5
<1>7. dir' = InsertAt(s, i, v) /\ start' = start
  BY <1>1, <1>2, <1>3
<1> QED
  BY <1>4, <1>5, <1>6, <1>7 DEF Ahead, All

\* A listing that found anybody is that of one endpoint, complete, and nothing of
\* another that failed on the way; for any directory, endpoints, page size and changes.
THEOREM ListingsWhole == Spec => []ListingWhole
<1>1. Init => ListingInv
  BY DEF Init, ListingInv, Turning, ListingWhole
<1>2. TypeOK /\ ListingInv /\ [Next]_vars => ListingInv'
  <2> SUFFICES ASSUME TypeOK, ListingInv, [Next]_vars PROVE ListingInv'
    OBVIOUS
  <2> USE DEF report, choice, listing, ListingInv, Terminal
  <2>1. CASE Join
    <3>1. ToSet(dir) \subseteq ToSet(dir') /\ owed' = owed
      BY <2>1, InsertTyped DEF Join, TypeOK
    <3>2. ListingWhole'
      BY <2>1 DEF Join, Change, ListingWhole
    <3> QED
      BY <2>1, <3>1, <3>2, TurningJoin
  <2>2. CASE Leave
    <3>1. /\ owed' = {} /\ UNCHANGED <<pc, eps, start, collected, users>>
      BY <2>2 DEF Leave, Change
    <3> QED
      BY <3>1 DEF Turning, ListingWhole
  <2>3. CASE FindOrg
    <3>1. owed' = ToSet(dir) /\ dir' = dir /\ start' = 1 /\ collected' = <<>> /\ pc' = "page"
      BY <2>3 DEF FindOrg
    <3>2. Turning'
      BY <3>1, Begun
    <3> QED
      BY <3>1, <3>2 DEF ListingWhole
  <2>4. CASE Page
    <3>1. UNCHANGED <<dir, owed>>
      BY <2>4 DEF Page
    <3> QED
      BY <2>4, <3>1, TurningStep
  <2>5. CASE PageError
    <3>1. UNCHANGED <<dir, owed, pc>> /\ start' = 1 /\ collected' = <<>> /\ pc = "page"
      BY <2>5 DEF PageError, NextEndpoint, KeptOnError
    <3>2. Turning'
      BY <3>1, Begun
    <3> QED
      BY <3>1, <3>2 DEF ListingWhole
  <2>6. CASE NoEndpointLeft
    <3>1. UNCHANGED <<dir, owed>> /\ users' = <<>> /\ pc' # "page"
      BY <2>6 DEF NoEndpointLeft, Listed, TypeOK
    <3> QED
      BY <3>1 DEF Turning, ListingWhole
  <2>7. CASE \/ Extrapolate \/ Fail \/ Preflight \/ Connect
             \/ SelectByFlags \/ SelectByMenu \/ SelectByNumber
    <3>1. UNCHANGED <<dir, owed, users, eps>> /\ pc' \in {"org", "failed", "connect", "confirm"}
      BY <2>7 DEF Extrapolate, Fail, Preflight, Connect, SelectByFlags, SelectByMenu,
        SelectByNumber, Select
    <3> QED
      BY <3>1 DEF Turning, ListingWhole
  <2>8. CASE AssessUser \/ UNCHANGED vars
    BY <2>8 DEF AssessUser, vars, Turning, ListingWhole, Ahead, All
  <2>9. CASE Confirm \/ Provision \/ RunStage
    <3>1. UNCHANGED <<dir, owed, users, eps>>
      BY <2>9 DEF Confirm, Provision, RunStage
    <3>2. pc' \in ToSet(Stages) \union Terminal
      BY <2>9, NextStageTyped, StagesAre DEF Confirm, Provision, RunStage, Stages
    <3> QED
      BY <3>1, <3>2, StagesAre DEF Turning, ListingWhole
  <2> QED
    BY <2>1, <2>2, <2>3, <2>4, <2>5, <2>6, <2>7, <2>8, <2>9 DEF Next, Work, Discover, Prompt, Terminated
<1> QED
  BY <1>1, <1>2, TypeCorrect, PTL DEF Spec, ListingInv

-----------------------------------------------------------------------------
(***************************************************************************)
(* As long as the organisation stays as it was and no request fails, a     *)
(* listing has one possible outcome, so that the listing the numbers are   *)
(* chosen from is the one whose table was printed: the first candidate     *)
(* that shows anybody with an address decides, page after page.            *)
(***************************************************************************)
Candidates == Scoped \o Plain
Whole(e) == Addressed(Kept(Dir0, Shows[e]))

IsAnswer(us) ==
  \/ \E d \in 1 .. Len(Candidates) :
       /\ us = Whole(Candidates[d]) /\ us # <<>>
       /\ \A i \in 1 .. d - 1 : Whole(Candidates[i]) = <<>>
  \/ us = <<>> /\ \A i \in 1 .. Len(Candidates) : Whole(Candidates[i]) = <<>>

\* The candidates that were passed over show nobody.
Passed ==
  pc = "page" => \E d \in 0 .. Len(Candidates) :
                   /\ eps = SubSeq(Candidates, d + 1, Len(Candidates))
                   /\ \A i \in 1 .. d : Whole(Candidates[i]) = <<>>

SoFar ==
  pc = "page" /\ eps # <<>> =>
    /\ start <= Len(All(Head(eps))) + 1
    /\ collected = Addressed(SubSeq(All(Head(eps)), 1, start - 1))

Listings ==
  /\ stage # "report" \/ pc = "assess" => IsAnswer(users)
  /\ stage # "report" => IsAnswer(shown)

Meant == picks # {} => ToSet(selected) = {shown[p] : p \in picks}

Phases ==
  /\ pc \in {"preflight", "connect", "assess"} => stage = "report"
  /\ pc = "select" => stage = "select"
  /\ picks # {} => pc \in {"confirm"} \union ToSet(Stages) \union Terminal

SteadyInv == Phases /\ (steady => dir = Dir0 /\ Passed /\ SoFar /\ Listings /\ Meant)

\* An unchanging directory has one answer: every listing that starts over gives it.
LEMMA OneAnswer ==
  ASSUME NEW s, NEW t, IsAnswer(s), IsAnswer(t)
  PROVE  s = t
<1>0. Len(Candidates) \in Nat
  BY CandidatesTyped DEF Candidates
<1>1. CASE s = <<>> /\ \A i \in 1 .. Len(Candidates) : Whole(Candidates[i]) = <<>>
  BY <1>1 DEF IsAnswer
<1>2. CASE t = <<>> /\ \A i \in 1 .. Len(Candidates) : Whole(Candidates[i]) = <<>>
  BY <1>2 DEF IsAnswer
<1>3. ASSUME NEW d \in 1 .. Len(Candidates), s = Whole(Candidates[d]), s # <<>>,
             \A i \in 1 .. d - 1 : Whole(Candidates[i]) = <<>>,
             NEW c \in 1 .. Len(Candidates), t = Whole(Candidates[c]), t # <<>>,
             \A i \in 1 .. c - 1 : Whole(Candidates[i]) = <<>>
      PROVE  s = t
  <2>1. ~(c < d)
    <3> SUFFICES ASSUME c < d PROVE FALSE
      OBVIOUS
    <3>1. c \in 1 .. d - 1
      BY <1>0
    <3> QED
      BY <3>1, <1>3
  <2>2. ~(d < c)
    <3> SUFFICES ASSUME d < c PROVE FALSE
      OBVIOUS
    <3>1. d \in 1 .. c - 1
      BY <1>0
    <3> QED
      BY <3>1, <1>3
  <2>3. c = d
    BY <1>0, <2>1, <2>2
  <2> QED
    BY <1>3, <2>3
<1> QED
  BY <1>1, <1>2, <1>3 DEF IsAnswer

\* One more page of a listing that nothing disturbed
LEMMA SteadyPage ==
  ASSUME TypeOK, pc = "page", eps # <<>>, dir = Dir0, SoFar
  PROVE  LET e == Head(eps)
             page == PageAt(e, start)
             read == collected \o Addressed(page)
         IN /\ Len(page) = Limit => /\ start + Limit <= Len(All(e)) + 1
                                    /\ read = Addressed(SubSeq(All(e), 1, (start + Limit) - 1))
            /\ Len(page) < Limit => read = Whole(e)
<1> DEFINE e == Head(eps)
<1>1. PICK all \in Seq(Users) : all = All(e)
  BY KeptSet DEF TypeOK, All
<1>2. PICK s \in Nat \ {0} : s = start
  BY DEF TypeOK
<1>3. PICK last : last = Min({s + Limit - 1, Len(all)})
  OBVIOUS
<1>4. /\ last \in Nat /\ last <= Len(all)
      /\ SubSeq(all, s, last) \in Seq(Users)
      /\ Len(SubSeq(all, s, last)) = Limit <=> s + Limit - 1 <= Len(all)
      /\ s + Limit - 1 <= Len(all) => last = s + Limit - 1
      /\ s + Limit - 1 > Len(all) => last = Len(all)
  BY <1>3, PageIs
<1>5. PICK n \in Nat, m \in Nat : n = Len(all) /\ m = s + Limit - 1
  <2>1. Len(all) \in Nat /\ s + Limit - 1 \in Nat
    BY LimitsAssumption
  <2> QED
    BY <2>1, Zenon
<1>6. PICK page \in Seq(Users) : page = SubSeq(all, s, last)
  BY <1>4, Zenon
<1>7. page = PageAt(e, start)
  BY <1>1, <1>2, <1>3, <1>6 DEF PageAt, All
<1>8. PICK before \in Seq(Users) : before = SubSeq(all, 1, s - 1) /\ s - 1 <= n
  <2>1. s <= n + 1
    BY <1>1, <1>2, <1>5 DEF SoFar
  <2>2. s - 1 \in Nat /\ s - 1 <= Len(all)
    BY <2>1, <1>5
  <2>3. SubSeq(all, 1, s - 1) \in Seq(Users)
    BY <2>2, SubSeqIs
  <2> QED
    BY <2>2, <2>3, <1>5
<1>9. collected = Addressed(before)
  BY <1>1, <1>2, <1>8 DEF SoFar
<1>10. s - 1 <= last /\ (m <= n => last = m) /\ (m > n => last = n)
  <2>1. (m <= n => last = m) /\ (m > n => last = n)
    BY <1>4, <1>5
  <2>2. s - 1 <= m
    BY <1>5, LimitsAssumption
  <2> QED
    BY <2>1, <2>2, <1>8
<1>11. before \o page = SubSeq(all, 1, last)
  <2>1. /\ 1 \in 1 .. Len(all) + 1 /\ s - 1 \in 1 - 1 .. Len(all)
        /\ last \in s - 1 .. Len(all) /\ (s - 1) + 1 = s
    BY <1>4, <1>5, <1>8, <1>10
  <2>2. SubSeq(all, 1, s - 1) \o SubSeq(all, (s - 1) + 1, last) = SubSeq(all, 1, last)
    BY <2>1, ConcatAdjacentSubSeq
  <2> QED
    BY <2>1, <2>2, <1>6, <1>8
<1>12. collected \o Addressed(page) = Addressed(SubSeq(all, 1, last))
  <2>1. Kept(before \o page, Users \ Nameless) =
          Kept(before, Users \ Nameless) \o Kept(page, Users \ Nameless)
    <3>1. \A S : \A t \in Seq(Users) : Kept(before \o t, S) = Kept(before, S) \o Kept(t, S)
      BY KeptConcat
    <3> QED
      BY <3>1
  <2> QED
    BY <2>1, <1>9, <1>11 DEF Addressed
<1>13. ASSUME Len(page) = Limit
       PROVE  s + Limit <= n + 1 /\ last = (s + Limit) - 1
  <2>1. m <= n
    BY <1>4, <1>5, <1>6, <1>13
  <2> QED
    BY <2>1, <1>5, <1>10, LimitsAssumption
<1>14. ASSUME Len(page) < Limit
       PROVE  collected \o Addressed(page) = Whole(e)
  <2>1. Len(page) # Limit
    BY <1>14, LimitsAssumption
  <2>2. ~(m <= n)
    BY <2>1, <1>4, <1>5, <1>6
  <2>3. last = n
    BY <2>2, <1>10
  <2>4. SubSeq(all, 1, last) = all
    BY <2>3, <1>5, SubSeqFull
  <2> QED
    BY <2>4, <1>1, <1>12 DEF Whole, All
<1> QED
  BY <1>1, <1>2, <1>5, <1>7, <1>12, <1>13, <1>14

\* A listing that has read nothing yet
LEMMA SoFarBegins ==
  ASSUME TypeOK, dir' = dir, start' = 1, collected' = <<>>
  PROVE  SoFar'
<1>1. PICK all \in Seq(Users) : all = All(Head(eps'))
  BY KeptSet DEF TypeOK, All
<1>2. All(Head(eps))' = all
  BY <1>1 DEF All
<1>3. SubSeq(all, 1, 0) = <<>> /\ Len(all) \in Nat
  BY SubSeqEmpty
<1>4. Addressed(<<>>) = <<>>
  BY KeptEmpty DEF Addressed
<1>5. 1 <= Len(all) + 1 /\ 1 - 1 = 0
  BY <1>3
<1> QED
  BY <1>2, <1>3, <1>4, <1>5 DEF SoFar

\* The current candidate is the one after those that were passed over.
LEMMA CurrentCandidate ==
  ASSUME NEW d \in 0 .. Len(Candidates), NEW rest,
         rest = SubSeq(Candidates, d + 1, Len(Candidates))
  PROVE  /\ rest = <<>> => d = Len(Candidates)
         /\ rest # <<>> => /\ d + 1 \in 1 .. Len(Candidates)
                           /\ Head(rest) = Candidates[d + 1]
                           /\ Tail(rest) = SubSeq(Candidates, (d + 1) + 1, Len(Candidates))
<1>1. PICK c \in Seq(Endpoints) : c = Candidates
  BY CandidatesTyped DEF Candidates
<1>2. Len(c) \in Nat /\ d \in Nat /\ d <= Len(c)
  BY <1>1
<1>3. CASE d = Len(c)
  <2>1. SubSeq(c, d + 1, Len(c)) = <<>>
    BY <1>2, <1>3, SubSeqEmpty
  <2> QED
    BY <2>1, <1>1, <1>3
<1>4. CASE d # Len(c)
  <2>1. d + 1 \in 1 .. Len(c) /\ Len(c) \in d + 1 .. Len(c)
    BY <1>2, <1>4
  <2>2. /\ Head(SubSeq(c, d + 1, Len(c))) = c[d + 1]
        /\ Tail(SubSeq(c, d + 1, Len(c))) = SubSeq(c, (d + 1) + 1, Len(c))
    BY <2>1, HeadTailOfSubSeq
  <2>3. SubSeq(c, d + 1, Len(c)) # <<>>
    <3>1. Len(SubSeq(c, d + 1, Len(c))) = Len(c) - (d + 1) + 1
      BY <2>1
    <3>2. Len(c) - (d + 1) + 1 # 0
      BY <2>1, <1>2
    <3>3. Len(<<>>) = 0
      OBVIOUS
    <3> QED
      BY <3>1, <3>2, <3>3, Zenon
  <2> QED
    BY <1>1, <2>1, <2>2, <2>3
<1> QED
  BY <1>3, <1>4

\* A listing that ends with the answer keeps the list, and the numbers, as they were.
LEMMA ListedAnswer ==
  ASSUME Phases, pc = "page", NEW us, IsAnswer(us), Listed(us), Listings,
         stage \in {"report", "pilot", "select"},
         UNCHANGED <<shown, picks, selected>>
  PROVE  Phases' /\ Listings' /\ pc' # "page" /\ Meant'
<1>1. picks = {}
  BY StagesAre DEF Phases, Terminal
<1>2. /\ users' = us
      /\ \/ stage = "report" /\ pc' = "assess" /\ stage' = "report"
         \/ stage = "pilot" /\ pc' = "org" /\ stage' = "select"
         \/ stage = "select" /\ pc' = "select" /\ stage' = "select"
  BY DEF Listed
<1> QED
  BY <1>1, <1>2 DEF Phases, Listings, Meant

\* While the directory does not change, a page brings the listing nearer the answer.
LEMMA SteadyPageStep ==
  ASSUME TypeOK, SteadyInv, Page
  PROVE  SteadyInv'
<1> USE DEF report, choice
<1>1. /\ pc = "page" /\ eps # <<>>
      /\ UNCHANGED <<opts, dir, owed, steady, shown, picks, selected>>
  BY DEF Page
<1>2. picks = {}
  BY <1>1, StagesAre DEF SteadyInv, Phases, Terminal
<1> DEFINE e == Head(eps)
           page == PageAt(e, start)
           read == collected \o Addressed(page)
<1>3. \/ /\ Len(page) = Limit
         /\ start' = start + Limit /\ collected' = read
         /\ UNCHANGED <<eps, pc, stage, users>>
      \/ /\ Len(page) < Limit /\ read # <<>>
         /\ Listed(read)
         /\ UNCHANGED <<eps, start, collected>>
      \/ Len(page) < Limit /\ read = <<>> /\ NextEndpoint(<<>>)
  BY DEF Page
<1>4. steady => dir = Dir0 /\ Passed /\ SoFar /\ Listings /\ Meant
  BY DEF SteadyInv
<1>5. steady => /\ Len(page) = Limit => /\ start + Limit <= Len(All(e)) + 1
                                        /\ read = Addressed(SubSeq(All(e), 1, (start + Limit) - 1))
                /\ Len(page) < Limit => read = Whole(e)
  BY <1>1, <1>4, SteadyPage
<1>6. PICK d : steady => /\ d \in 0 .. Len(Candidates)
                         /\ eps = SubSeq(Candidates, d + 1, Len(Candidates))
                         /\ \A i \in 1 .. d : Whole(Candidates[i]) = <<>>
  BY <1>1, <1>4 DEF Passed
<1>7. steady => /\ d + 1 \in 1 .. Len(Candidates) /\ e = Candidates[d + 1]
                /\ Tail(eps) = SubSeq(Candidates, (d + 1) + 1, Len(Candidates))
  BY <1>1, <1>6, CurrentCandidate
<1> HIDE DEF e, page, read
<1>8. CASE start' = start + Limit /\ collected' = read /\ Len(page) = Limit
           /\ UNCHANGED <<eps, pc, stage, users>>
  <2>1. Phases' /\ Meant' /\ (steady => Passed' /\ Listings')
    BY <1>1, <1>2, <1>4, <1>8 DEF SteadyInv, Phases, Meant, Passed, Listings
  <2>2. All(Head(eps))' = All(e)
    BY <1>1, <1>8 DEF All, e
  <2>3. steady => SoFar'
    BY <1>5, <1>8, <2>2 DEF SoFar
  <2> QED
    BY <1>1, <1>4, <2>1, <2>3 DEF SteadyInv
<1>9. CASE Len(page) < Limit /\ read # <<>> /\ Listed(read)
  <2>1. CASE steady
    <3>1. read = Whole(Candidates[d + 1]) /\ d + 1 \in 1 .. Len(Candidates)
      BY <1>5, <1>7, <1>9, <2>1
    <3>2. (d + 1) - 1 = d
      BY <1>6, <2>1
    <3>3. IsAnswer(read)
      BY <1>6, <1>9, <2>1, <3>1, <3>2 DEF IsAnswer
    <3>4. Phases' /\ Listings' /\ pc' # "page" /\ Meant'
      BY <1>1, <1>4, <1>9, <2>1, <3>3, ListedAnswer DEF SteadyInv, TypeOK
    <3> QED
      BY <1>1, <1>4, <2>1, <3>4 DEF SteadyInv, Passed, SoFar
  <2>2. CASE ~steady
    <3>1. Phases'
      BY <1>1, <1>2, <1>9 DEF Phases, Listed, TypeOK
    <3> QED
      BY <1>1, <2>2, <3>1 DEF SteadyInv
  <2> QED
    BY <2>1, <2>2
<1>10. CASE Len(page) < Limit /\ read = <<>> /\ NextEndpoint(<<>>)
  <2>1. eps' = Tail(eps) /\ start' = 1 /\ collected' = <<>> /\ UNCHANGED <<pc, stage, users>>
    BY <1>10 DEF NextEndpoint, OtherEndpoints
  <2>2. Phases' /\ Meant' /\ (steady => Listings')
    BY <1>1, <1>2, <1>4, <2>1 DEF SteadyInv, Phases, Meant, Listings
  <2>3. SoFar'
    BY <1>1, <2>1, SoFarBegins
  <2>4. ASSUME steady PROVE Passed'
    <3>1. d \in Nat /\ d + 1 \in 0 .. Len(Candidates)
      BY <1>6, <1>7, <2>4
    <3>2. Whole(Candidates[d + 1]) = <<>>
      BY <1>5, <1>7, <1>10, <2>4
    <3>3. \A i \in 1 .. d + 1 : Whole(Candidates[i]) = <<>>
      BY <1>6, <2>4, <3>1, <3>2
    <3>4. eps' = SubSeq(Candidates, (d + 1) + 1, Len(Candidates))
      BY <1>7, <2>1, <2>4
    <3> QED
      BY <3>1, <3>3, <3>4 DEF Passed
  <2> QED
    BY <1>1, <1>4, <2>2, <2>3, <2>4 DEF SteadyInv
<1> QED
  BY <1>3, <1>8, <1>9, <1>10

\* Numbers are read against a list that is the one shown.
LEMMA SteadyChoice ==
  ASSUME TypeOK, SteadyInv, SelectByNumber, steady
  PROVE  Meant'
<1>1. pc = "select" /\ UNCHANGED <<shown, users>>
  BY DEF SelectByNumber, Select, report
<1>2. users = shown
  BY <1>1, OneAnswer DEF SteadyInv, Phases, Listings
<1>3. PICK ps \in SUBSET (1 .. Len(shown)) : picks' = ps
  BY Zenon DEF SelectByNumber
<1>4. PICK us \in Seq(Users) : us = users
  BY DEF TypeOK
<1> DEFINE valid == {Position(p) : p \in ps}
           sorted == Kept([i \in DOMAIN us |-> i], valid)
           chosen == [k \in DOMAIN sorted |-> us[sorted[k]]]
<1>5. Select(OrAll(chosen))
  BY <1>3, <1>4 DEF SelectByNumber
<1>6. valid = ps
  BY DEF Position
<1>7. DOMAIN us \intersect ps = ps
  <2>1. DOMAIN us = 1 .. Len(us) /\ us = shown
    BY <1>2, <1>4
  <2>2. ps \subseteq 1 .. Len(us)
    BY <2>1
  <2> QED
    BY <2>1, <2>2
<1>8. ToSet(chosen) = {us[p] : p \in DOMAIN us \intersect valid}
  <2>1. PICK v : v = valid
    OBVIOUS
  <2> HIDE DEF valid
  <2> QED
    BY <2>1, SortedTyped
<1>9. ToSet(chosen) = {us[p] : p \in ps}
  BY <1>6, <1>7, <1>8
<1> HIDE DEF chosen
<1>10. ASSUME ps # {} PROVE chosen # <<>>
  <2>1. PICK p \in ps : us[p] \in ToSet(chosen)
    BY <1>9, <1>10
  <2>2. ToSet(<<>>) = {}
    BY DEF ToSet
  <2> QED
    BY <2>1, <2>2
<1>11. ASSUME ps # {} PROVE selected' = chosen
  BY <1>5, <1>10, <1>11 DEF Select, OrAll
<1> QED
  BY <1>1, <1>2, <1>3, <1>4, <1>9, <1>11 DEF Meant

\* The numbers mean, in the menu, the users they stood beside in the printed table:
\* for any organisation, candidates and page size, while nothing changes or fails.
THEOREM NumbersMean == Spec => []NumbersMeanWhatWasShown
<1>1. Init => SteadyInv
  BY DEF Init, SteadyInv, Phases, Passed, SoFar, Listings, Meant
<1>2. TypeOK /\ SteadyInv /\ [Next]_vars => SteadyInv'
  <2> SUFFICES ASSUME TypeOK, SteadyInv, [Next]_vars PROVE SteadyInv'
    OBVIOUS
  <2> USE DEF report, choice, listing, Terminal
  <2>1. CASE Join \/ Leave
    <3>1. steady' = FALSE /\ UNCHANGED <<pc, stage, picks>>
      BY <2>1 DEF Join, Leave, Change
    <3> QED
      BY <3>1 DEF SteadyInv, Phases
  <2>2. CASE Fail \/ Preflight \/ Connect
    <3>1. /\ UNCHANGED <<dir, stage, users, shown, picks, selected, steady>>
          /\ \/ pc' = "failed"
             \/ pc' = "connect" /\ pc = "preflight"
             \/ pc' = "org" /\ pc = "connect"
      BY <2>2 DEF Fail, Preflight, Connect
    <3> QED
      BY <3>1, StagesAre DEF SteadyInv, Phases, Passed, SoFar, Listings, Meant
  <2>3. CASE FindOrg
    <3>1. /\ pc = "org" /\ pc' = "page" /\ start' = 1 /\ collected' = <<>>
          /\ UNCHANGED <<dir, stage, users, shown, picks, selected>>
      BY <2>3 DEF FindOrg
    <3>2. picks = {} /\ Phases'
      BY <3>1, StagesAre DEF SteadyInv, Phases
    <3>3. SoFar'
      BY <3>1, SoFarBegins
    <3>4. \/ eps' = Candidates /\ steady' = steady
          \/ ~steady'
      BY <2>3 DEF FindOrg, Candidates
    <3>5. ASSUME eps' = Candidates PROVE Passed'
      <4>1. PICK c \in Seq(Endpoints) : c = Candidates
        BY CandidatesTyped DEF Candidates
      <4>2. SubSeq(c, 0 + 1, Len(c)) = c /\ 0 \in 0 .. Len(c)
        BY SubSeqFull
      <4>3. \A i \in 1 .. 0 : Whole(Candidates[i]) = <<>>
        OBVIOUS
      <4> QED
        BY <3>5, <4>1, <4>2, <4>3 DEF Passed
    <3> QED
      BY <3>1, <3>2, <3>3, <3>4, <3>5 DEF SteadyInv, Listings, Meant
  <2>4. CASE Page
    BY <2>4, SteadyPageStep
  <2>5. CASE PageError
    <3>1. steady' = FALSE /\ UNCHANGED <<pc, stage, picks>>
      BY <2>5 DEF PageError, NextEndpoint
    <3> QED
      BY <3>1 DEF SteadyInv, Phases
  <2>6. CASE NoEndpointLeft
    <3>1. /\ pc = "page" /\ eps = <<>> /\ Listed(<<>>)
          /\ UNCHANGED <<dir, shown, picks, selected, steady>>
      BY <2>6 DEF NoEndpointLeft
    <3>2. CASE steady
      <4>1. PICK d \in 0 .. Len(Candidates) : /\ eps = SubSeq(Candidates, d + 1, Len(Candidates))
                                              /\ \A i \in 1 .. d : Whole(Candidates[i]) = <<>>
        BY <3>1, <3>2 DEF SteadyInv, Passed
      <4>2. d = Len(Candidates)
        BY <3>1, <4>1, CurrentCandidate
      <4>3. IsAnswer(<<>>)
        BY <4>1, <4>2 DEF IsAnswer
      <4>4. Phases' /\ Listings' /\ pc' # "page" /\ Meant'
        BY <3>1, <3>2, <4>3, ListedAnswer DEF SteadyInv, TypeOK
      <4> QED
        BY <3>1, <4>4 DEF SteadyInv, Passed, SoFar
    <3>3. CASE ~steady
      <4>1. picks = {}
        BY <3>1, StagesAre DEF SteadyInv, Phases
      <4> QED
        BY <3>1, <3>3, <4>1 DEF SteadyInv, Phases, Listed, TypeOK
    <3> QED
      BY <3>2, <3>3
  <2>7. CASE AssessUser
    <3>1. pc = "assess" /\ UNCHANGED <<dir, pc, stage, users, shown, picks, selected, steady>>
      BY <2>7 DEF AssessUser
    <3> QED
      BY <3>1 DEF SteadyInv, Phases, Passed, SoFar, Listings, Meant
  <2>8. CASE Extrapolate
    <3>1. /\ pc = "assess" /\ pc' = "org" /\ stage' = "pilot" /\ shown' = users
          /\ UNCHANGED <<dir, users, picks, selected, steady>>
      BY <2>8 DEF Extrapolate
    <3>2. picks = {}
      BY <3>1, StagesAre DEF SteadyInv, Phases
    <3> QED
      BY <3>1, <3>2 DEF SteadyInv, Phases, Passed, SoFar, Listings, Meant
  <2>9. CASE SelectByFlags \/ SelectByMenu \/ SelectByNumber
    <3>1. /\ pc = "select" /\ pc' = "confirm"
          /\ UNCHANGED <<dir, stage, users, shown, steady>>
      BY <2>9 DEF SelectByFlags, SelectByMenu, SelectByNumber, Select
    <3>2. picks = {} /\ Phases'
      BY <3>1, StagesAre DEF SteadyInv, Phases
    <3>3. steady => Meant'
      <4>1. CASE SelectByNumber
        BY <4>1, SteadyChoice
      <4>2. CASE SelectByFlags \/ SelectByMenu
        BY <3>2, <4>2 DEF SelectByFlags, SelectByMenu, Meant
      <4> QED
        BY <2>9, <4>1, <4>2
    <3> QED
      BY <3>1, <3>2, <3>3 DEF SteadyInv, Passed, SoFar, Listings
  <2>10. CASE Confirm \/ Provision \/ RunStage
    <3>1. UNCHANGED <<dir, stage, users, shown, picks, selected, steady>>
      BY <2>10 DEF Confirm, Provision, RunStage
    <3>2. pc' \in ToSet(Stages) \union Terminal
      BY <2>10, NextStageTyped, StagesAre DEF Confirm, Provision, RunStage, Stages
    <3> QED
      BY <3>1, <3>2, StagesAre DEF SteadyInv, Phases, Passed, SoFar, Listings, Meant
  <2>11. CASE UNCHANGED vars
    BY <2>11 DEF vars, SteadyInv, Phases, Passed, SoFar, Listings, Meant, All
  <2> QED
    BY <2>1, <2>2, <2>3, <2>4, <2>5, <2>6, <2>7, <2>8, <2>9, <2>10, <2>11
       DEF Next, Work, Discover, Prompt, Terminated
<1>3. SteadyInv => NumbersMeanWhatWasShown
  BY DEF SteadyInv, Meant, NumbersMeanWhatWasShown
<1> QED
  BY <1>1, <1>2, <1>3, TypeCorrect, PTL DEF Spec

=============================================================================
