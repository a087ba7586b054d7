---------------------------- MODULE ListsProofs ----------------------------
(***************************************************************************)
(* Filter, for every list and set.  The proofs are inductions: a property  *)
(* of a number or a list is the set of those that have it, so that the     *)
(* least-element theorem of the library can be used.  At the end, what is  *)
(* left to do as sets that get smaller.                                    *)
(***************************************************************************)
EXTENDS Lists, FiniteSets, WellFoundedInduction, SequenceTheorems, FiniteSetTheorems, TLAPS

\* Every non-empty set of naturals has a least element.
LEMMA LeastNatural ==
    ASSUME NEW T \in SUBSET Nat, T # {}
    PROVE  \E x \in T : \A y \in T : x <= y
<1>1. IsWellFoundedOn(OpToRel(<, Nat), Nat)
  BY NatLessThanWellFounded
<1>2. PICK x \in T : \A y \in T : ~ (<<y, x>> \in OpToRel(<, Nat))
  BY <1>1, WFMin
<1>3. \A y \in T : ~ (y < x)
  BY <1>2 DEF OpToRel
<1> QED
  BY <1>3

\* Every non-empty set of naturals with a bound has a greatest element.
LEMMA GreatestNatural ==
    ASSUME NEW n \in Nat, NEW T \in SUBSET (0 .. n), T # {}
    PROVE  \E x \in T : \A y \in T : y <= x
<1> DEFINE Below == { n - y : y \in T }
<1>1. Below \in SUBSET Nat /\ Below # {}
  <2>1. \A y \in T : n - y \in Nat
    OBVIOUS
  <2>2. PICK y \in T : TRUE
    OBVIOUS
  <2>3. n - y \in Below
    OBVIOUS
  <2>4. \A w \in Below : w \in Nat
    BY <2>1
  <2> QED
    BY <2>3, <2>4
<1>2. PICK z \in Below : \A w \in Below : z <= w
  <2> HIDE DEF Below
  <2> QED
    BY <1>1, LeastNatural
<1>3. PICK x \in T : z = n - x
  BY <1>2
<1>4. \A y \in T : n - x <= n - y
  BY <1>2, <1>3
<1> QED
  BY <1>3, <1>4

\* A set with 0, and with n + 1 whenever it has n, has every natural number.
LEMMA NaturalsByInduction ==
    ASSUME NEW G, 0 \in G, \A n \in Nat : n \in G => n + 1 \in G
    PROVE  Nat \subseteq G
<1>1. SUFFICES ASSUME Nat \ G # {} PROVE FALSE
  OBVIOUS
<1>2. PICK x \in Nat \ G : \A y \in Nat \ G : x <= y
  BY <1>1, LeastNatural
<1>3. x # 0 /\ x - 1 \in Nat /\ x - 1 \in G /\ x - 1 + 1 = x
  BY <1>2
<1> QED
  BY <1>2, <1>3

\* A set with the empty list, and with each list a member is extended to, has
\* every list.
LEMMA ListsByInduction ==
    ASSUME NEW T, NEW G, <<>> \in G,
           \A s \in Seq(T), x \in T : s \in G => Append(s, x) \in G
    PROVE  Seq(T) \subseteq G
<1> DEFINE Sizes == { n \in Nat : \A s \in Seq(T) : Len(s) = n => s \in G }
<1>1. 0 \in Sizes
  BY EmptySeq
<1>2. ASSUME NEW n \in Nat, n \in Sizes
      PROVE  n + 1 \in Sizes
  <2>1. ASSUME NEW s \in Seq(T), Len(s) = n + 1
        PROVE  s \in G
    <3> DEFINE front == [i \in 1 .. n |-> s[i]]
    <3>1. front \in Seq(T) /\ Len(front) = n /\ s[n + 1] \in T
      BY <2>1
    <3>2. Append(front, s[n + 1]) = s
      BY <2>1
    <3>3. front \in G
      BY <1>2, <3>1
    <3> QED
      BY <3>1, <3>2, <3>3
  <2> QED
    BY <2>1
<1>3. Nat \subseteq Sizes
  <2> HIDE DEF Sizes
  <2> QED
    BY <1>1, <1>2, NaturalsByInduction
<1> QED
  BY <1>3

-----------------------------------------------------------------------------
(***************************************************************************)
(* The recursion defines a function, and the same one for every list that  *)
(* begins in the same way.                                                 *)
(***************************************************************************)
Entry(f, s, S, n) ==
    IF n = 0 THEN <<>>
    ELSE IF s[n] \in S THEN Append(f[n - 1], s[n]) ELSE f[n - 1]

Filters(f, s, S, m) == f = [n \in 0 .. m |-> Entry(f, s, S, n)]

LEMMA EntryLooksBack ==
    ASSUME NEW f, NEW g, NEW s, NEW S, NEW n \in Nat, n = 0 \/ f[n - 1] = g[n - 1]
    PROVE  Entry(f, s, S, n) = Entry(g, s, S, n)
BY DEF Entry

LEMMA FilteringExists ==
    ASSUME NEW s, NEW S, NEW m \in Nat
    PROVE  \E f : Filters(f, s, S, m)
<1> DEFINE G == { n \in Nat : \E f : Filters(f, s, S, n) }
<1>1. 0 \in G
  <2>1. Filters([n \in 0 .. 0 |-> <<>>], s, S, 0)
    BY DEF Filters, Entry
  <2> QED
    BY <2>1
<1>2. ASSUME NEW n \in Nat, n \in G
      PROVE  n + 1 \in G
  <2>1. PICK f : Filters(f, s, S, n)
    BY <1>2
  <2> DEFINE g == [k \in 0 .. n + 1 |-> IF k = n + 1 THEN Entry(f, s, S, k) ELSE f[k]]
  <2>2. \A k \in 0 .. n : g[k] = f[k]
    OBVIOUS
  <2>3. \A k \in 0 .. n : f[k] = Entry(f, s, S, k)
    BY <2>1 DEF Filters
  <2>4. \A k \in 0 .. n + 1 : g[k] = Entry(f, s, S, k)
    <3>1. g[n + 1] = Entry(f, s, S, n + 1)
      OBVIOUS
    <3>2. \A k \in 0 .. n + 1 : k \in 0 .. n \/ k = n + 1
      OBVIOUS
    <3> HIDE DEF g
    <3> QED
      BY <2>2, <2>3, <3>1, <3>2
  <2>5. \A k \in 0 .. n + 1 : Entry(g, s, S, k) = Entry(f, s, S, k)
    <3>1. \A k \in 0 .. n + 1 : k \in Nat /\ (k = 0 \/ k - 1 \in 0 .. n)
      OBVIOUS
    <3> HIDE DEF g
    <3> QED
      BY <2>2, <3>1, EntryLooksBack
  <2>6. g = [k \in 0 .. n + 1 |-> g[k]]
    OBVIOUS
  <2>7. Filters(g, s, S, n + 1)
    <3> HIDE DEF g
    <3> QED
      BY <2>4, <2>5, <2>6 DEF Filters
  <2> QED
    BY <2>7
<1>3. Nat \subseteq G
  <2> HIDE DEF G
  <2> QED
    BY <1>1, <1>2, NaturalsByInduction
<1> QED
  BY <1>3

LEMMA FilterIsFiltering ==
    ASSUME NEW T, NEW s \in Seq(T), NEW S
    PROVE  \E f : Filters(f, s, S, Len(s)) /\ Filter(s, S) = f[Len(s)]
<1>1. PICK g : Filters(g, s, S, Len(s))
  BY FilteringExists, LenProperties
<1> DEFINE f == CHOOSE h : Filters(h, s, S, Len(s))
<1>2. Filters(f, s, S, Len(s))
  BY <1>1
<1>3. Filter(s, S) = f[Len(s)]
  BY DEF Filter, Filters, Entry
<1> QED
  BY <1>2, <1>3

LEMMA FilteringIsUnique ==
    ASSUME NEW f, NEW g, NEW s, NEW t, NEW S, NEW m \in Nat, NEW n \in Nat, m <= n,
           Filters(f, s, S, m), Filters(g, t, S, n), \A k \in 1 .. m : s[k] = t[k]
    PROVE  f[m] = g[m]
<1> DEFINE G == { k \in Nat : k <= m => f[k] = g[k] }
<1>1. \A k \in 0 .. m : f[k] = Entry(f, s, S, k)
  BY DEF Filters
<1>2. \A k \in 0 .. m : g[k] = Entry(g, t, S, k)
  BY DEF Filters
<1>3. 0 \in G
  BY <1>1, <1>2 DEF Entry
<1>4. ASSUME NEW k \in Nat, k \in G
      PROVE  k + 1 \in G
  <2>1. SUFFICES ASSUME k + 1 <= m PROVE f[k + 1] = g[k + 1]
    OBVIOUS
  <2>2. f[k] = g[k] /\ k + 1 \in 0 .. m /\ k + 1 \in 1 .. m /\ k + 1 # 0 /\ k + 1 - 1 = k
    BY <1>4, <2>1
  <2>3. s[k + 1] = t[k + 1]
    BY <2>2
  <2>4. f[k + 1] = Entry(f, s, S, k + 1) /\ g[k + 1] = Entry(g, t, S, k + 1)
    BY <1>1, <1>2, <2>2
  <2> QED
    BY <2>2, <2>3, <2>4 DEF Entry
<1>5. Nat \subseteq G
  <2> HIDE DEF G
  <2> QED
    BY <1>3, <1>4, NaturalsByInduction
<1> QED
  BY <1>5

-----------------------------------------------------------------------------
(***************************************************************************)
(* The two equations of Filter, and what follows from them.                *)
(***************************************************************************)
LEMMA FilterOfEmpty == \A S : Filter(<<>>, S) = <<>>
<1> SUFFICES ASSUME NEW S PROVE Filter(<<>>, S) = <<>>
  OBVIOUS
<1>1. <<>> \in Seq({}) /\ Len(<<>>) = 0
  BY EmptySeq
<1>2. PICK f : Filters(f, <<>>, S, 0) /\ Filter(<<>>, S) = f[0]
  BY <1>1, FilterIsFiltering
<1> QED
  BY <1>2 DEF Filters, Entry

LEMMA FilterOfAppend ==
    ASSUME NEW T, NEW s \in Seq(T), NEW x \in T, NEW S
    PROVE  Filter(Append(s, x), S) =
               IF x \in S THEN Append(Filter(s, S), x) ELSE Filter(s, S)
<1> DEFINE n == Len(s)
           t == Append(s, x)
<1>1. /\ n \in Nat /\ t \in Seq(T) /\ Len(t) = n + 1 /\ t[n + 1] = x
      /\ \A k \in 1 .. n : t[k] = s[k]
      /\ n + 1 \in Nat /\ n <= n + 1
  BY AppendProperties, LenProperties
<1>2. PICK f : Filters(f, s, S, n) /\ Filter(s, S) = f[n]
  BY FilterIsFiltering
<1>3. PICK g : Filters(g, t, S, n + 1) /\ Filter(t, S) = g[n + 1]
  BY <1>1, FilterIsFiltering
<1>4. f[n] = g[n]
  <2> HIDE DEF n, t
  <2> QED
    BY <1>1, <1>2, <1>3, FilteringIsUnique
<1>5. g[n + 1] = Entry(g, t, S, n + 1)
  BY <1>1, <1>3 DEF Filters
<1>6. n + 1 # 0 /\ n + 1 - 1 = n
  BY <1>1
<1> HIDE DEF n, t
<1>7. g[n + 1] = IF x \in S THEN Append(g[n], x) ELSE g[n]
  BY <1>1, <1>5, <1>6 DEF Entry
<1> QED
  BY <1>2, <1>3, <1>4, <1>7 DEF n, t

-----------------------------------------------------------------------------
(***************************************************************************)
(* What is in a filtered list.                                             *)
(***************************************************************************)
EntriesOf(s) == { s[p] : p \in DOMAIN s }

NoRepetition(s) == \A p, q \in DOMAIN s : s[p] = s[q] => p = q

LEMMA EntriesOfAppend ==
    ASSUME NEW T, NEW s \in Seq(T), NEW x \in T
    PROVE  EntriesOf(Append(s, x)) = EntriesOf(s) \cup {x}
<1> DEFINE t == Append(s, x)
<1>1. /\ t \in Seq(T) /\ Len(t) = Len(s) + 1 /\ t[Len(s) + 1] = x
      /\ \A k \in 1 .. Len(s) : t[k] = s[k]
  BY AppendProperties, LenProperties
<1>2. DOMAIN s = 1 .. Len(s) /\ DOMAIN t = 1 .. Len(s) + 1 /\ Len(s) \in Nat
  BY <1>1, LenProperties
<1> HIDE DEF t
<1>3. EntriesOf(t) = EntriesOf(s) \cup {x}
  BY <1>1, <1>2 DEF EntriesOf
<1> QED
  BY <1>3 DEF t

LEMMA EntryOfAppend ==
    ASSUME NEW T, NEW s \in Seq(T), NEW x \in T, NEW p \in DOMAIN Append(s, x)
    PROVE  Append(s, x)[p] = x \/ (p \in DOMAIN s /\ Append(s, x)[p] = s[p])
<1>1. /\ Append(s, x) \in Seq(T) /\ Len(Append(s, x)) = Len(s) + 1
      /\ \A k \in 1 .. Len(s) : Append(s, x)[k] = s[k]
      /\ Append(s, x)[Len(s) + 1] = x
  BY AppendProperties
<1>2. p \in 1 .. Len(s) + 1 /\ Len(s) \in Nat /\ DOMAIN s = 1 .. Len(s)
  BY <1>1, LenProperties
<1>3. p \in 1 .. Len(s) \/ p = Len(s) + 1
  BY <1>2
<1> QED
  BY <1>1, <1>2, <1>3

LEMMA RepetitionInAppend ==
    ASSUME NEW T, NEW s \in Seq(T), NEW x \in T
    PROVE  NoRepetition(Append(s, x)) <=> NoRepetition(s) /\ x \notin EntriesOf(s)
<1> DEFINE t == Append(s, x)
<1>1. /\ t \in Seq(T) /\ Len(t) = Len(s) + 1 /\ t[Len(s) + 1] = x
      /\ \A k \in 1 .. Len(s) : t[k] = s[k]
  BY AppendProperties, LenProperties
<1>2. DOMAIN s = 1 .. Len(s) /\ DOMAIN t = 1 .. Len(s) + 1 /\ Len(s) \in Nat
  BY <1>1, LenProperties
<1> HIDE DEF t
<1>3. NoRepetition(t) => NoRepetition(s) /\ x \notin EntriesOf(s)
  BY <1>1, <1>2 DEF NoRepetition, EntriesOf
<1>4. NoRepetition(s) /\ x \notin EntriesOf(s) => NoRepetition(t)
  BY <1>1, <1>2 DEF NoRepetition, EntriesOf
<1> QED
  BY <1>3, <1>4 DEF t

\* Without its head, a list that repeats nothing repeats nothing, and the head
\* is gone from it.
LEMMA TailOfList ==
    ASSUME NEW T, NEW s \in Seq(T), s # <<>>, NoRepetition(s)
    PROVE  /\ Head(s) \in T /\ Head(s) \in EntriesOf(s) /\ Tail(s) \in Seq(T)
           /\ NoRepetition(Tail(s))
           /\ \A p \in DOMAIN Tail(s) : Tail(s)[p] # Head(s) /\ Tail(s)[p] \in EntriesOf(s)
<1> DEFINE t == Tail(s)
<1>1. /\ t \in Seq(T) /\ Len(t) = Len(s) - 1 /\ Head(s) \in T
      /\ \A p \in 1 .. Len(t) : t[p] = s[p + 1]
  BY HeadTailProperties
<1>2. /\ Len(s) \in Nat /\ Len(s) # 0 /\ DOMAIN s = 1 .. Len(s) /\ DOMAIN t = 1 .. Len(s) - 1
      /\ Head(s) = s[1]
  BY <1>1, EmptySeq, LenProperties
<1>3. 1 \in DOMAIN s /\ \A p \in DOMAIN t : p + 1 \in DOMAIN s /\ p + 1 # 1 /\ p \in Nat
  BY <1>2
<1> HIDE DEF t
<1>4. \A p \in DOMAIN t : t[p] = s[p + 1]
  BY <1>1, <1>2
<1>5. NoRepetition(t)
  <2>1. ASSUME NEW p \in DOMAIN t, NEW q \in DOMAIN t, t[p] = t[q]
        PROVE  p = q
    <3>1. p + 1 = q + 1
      BY <1>3, <1>4, <2>1 DEF NoRepetition
    <3> QED
      BY <1>3, <3>1
  <2> QED
    BY <2>1 DEF NoRepetition
<1>6. \A p \in DOMAIN t : t[p] # Head(s) /\ t[p] \in EntriesOf(s)
  BY <1>2, <1>3, <1>4 DEF NoRepetition, EntriesOf
<1>7. Head(s) \in EntriesOf(s)
  BY <1>2, <1>3 DEF EntriesOf
<1> QED
  BY <1>1, <1>5, <1>6, <1>7 DEF t

\* The filtered list is a list of entries of the set.
LEMMA FilterIsList ==
    ASSUME NEW T, NEW S
    PROVE  \A s \in Seq(T) : Filter(s, S) \in Seq(T \cap S)
<1> DEFINE G == { s \in Seq(T) : Filter(s, S) \in Seq(T \cap S) }
<1>1. <<>> \in G
  BY FilterOfEmpty, EmptySeq
<1>2. ASSUME NEW s \in Seq(T), NEW x \in T, s \in G
      PROVE  Append(s, x) \in G
  <2>1. Append(s, x) \in Seq(T)
    BY AppendProperties
  <2>2. CASE x \in S
    <3>1. Append(Filter(s, S), x) \in Seq(T \cap S)
      BY <1>2, <2>2, AppendProperties
    <3>2. Filter(Append(s, x), S) = Append(Filter(s, S), x)
      BY <2>2, FilterOfAppend
    <3> QED
      BY <2>1, <3>1, <3>2
  <2>3. CASE x \notin S
    BY <1>2, <2>1, <2>3, FilterOfAppend
  <2> QED
    BY <2>2, <2>3
<1>3. Seq(T) \subseteq G
  <2> HIDE DEF G
  <2> QED
    BY <1>1, <1>2, ListsByInduction
<1> QED
  BY <1>3

\* Nothing is lost when the set has every entry.
LEMMA FilterOfAll ==
    ASSUME NEW T, NEW S, T \subseteq S
    PROVE  \A s \in Seq(T) : Filter(s, S) = s
<1> DEFINE G == { s \in Seq(T) : Filter(s, S) = s }
<1>1. <<>> \in G
  BY FilterOfEmpty, EmptySeq
<1>2. ASSUME NEW s \in Seq(T), NEW x \in T, s \in G
      PROVE  Append(s, x) \in G
  BY <1>2, FilterOfAppend, AppendProperties
<1>3. Seq(T) \subseteq G
  <2> HIDE DEF G
  <2> QED
    BY <1>1, <1>2, ListsByInduction
<1> QED
  BY <1>3

\* It has the entries that are in the set, and repeats none that was not
\* repeated.
LEMMA FilterSelects ==
    ASSUME NEW T, NEW S
    PROVE  \A s \in Seq(T) : /\ EntriesOf(Filter(s, S)) = EntriesOf(s) \cap S
                             /\ NoRepetition(s) => NoRepetition(Filter(s, S))
<1> DEFINE G == { s \in Seq(T) : /\ EntriesOf(Filter(s, S)) = EntriesOf(s) \cap S
                                 /\ NoRepetition(s) => NoRepetition(Filter(s, S)) }
<1>1. <<>> \in G
  <2>1. <<>> \in Seq(T) /\ Filter(<<>>, S) = <<>>
    BY FilterOfEmpty, EmptySeq
  <2>2. EntriesOf(<<>>) = {} /\ NoRepetition(<<>>)
    BY DEF EntriesOf, NoRepetition
  <2> QED
    BY <2>1, <2>2
<1>2. ASSUME NEW s \in Seq(T), NEW x \in T, s \in G
      PROVE  Append(s, x) \in G
  <2>1. Append(s, x) \in Seq(T) /\ Filter(s, S) \in Seq(T \cap S)
    BY AppendProperties, FilterIsList
  <2>2. /\ EntriesOf(Append(s, x)) = EntriesOf(s) \cup {x}
        /\ NoRepetition(Append(s, x)) <=> NoRepetition(s) /\ x \notin EntriesOf(s)
    BY EntriesOfAppend, RepetitionInAppend
  <2>3. CASE x \in S
    <3>1. /\ EntriesOf(Append(Filter(s, S), x)) = EntriesOf(Filter(s, S)) \cup {x}
          /\ NoRepetition(Append(Filter(s, S), x))
                <=> NoRepetition(Filter(s, S)) /\ x \notin EntriesOf(Filter(s, S))
      BY <2>1, <2>3, EntriesOfAppend, RepetitionInAppend
    <3>2. Filter(Append(s, x), S) = Append(Filter(s, S), x)
      BY <2>3, FilterOfAppend
    <3> QED
      BY <1>2, <2>1, <2>2, <2>3, <3>1, <3>2
  <2>4. CASE x \notin S
    <3>1. Filter(Append(s, x), S) = Filter(s, S)
      BY <2>4, FilterOfAppend
    <3> QED
      BY <1>2, <2>1, <2>2, <2>4, <3>1
  <2> QED
    BY <2>3, <2>4
<1>3. Seq(T) \subseteq G
  <2> HIDE DEF G
  <2> QED
    BY <1>1, <1>2, ListsByInduction
<1> QED
  BY <1>3

\* A list without repetitions is as long as the set of its entries is large.
LEMMA LengthIsCardinality ==
    ASSUME NEW T
    PROVE  \A s \in Seq(T) : NoRepetition(s) =>
              IsFiniteSet(EntriesOf(s)) /\ Len(s) = Cardinality(EntriesOf(s))
<1> DEFINE G == { s \in Seq(T) : NoRepetition(s) =>
                     IsFiniteSet(EntriesOf(s)) /\ Len(s) = Cardinality(EntriesOf(s)) }
<1>1. <<>> \in G
  <2>1. EntriesOf(<<>>) = {}
    BY DEF EntriesOf
  <2> QED
    BY <2>1, EmptySeq, FS_EmptySet
<1>2. ASSUME NEW s \in Seq(T), NEW x \in T, s \in G
      PROVE  Append(s, x) \in G
  <2>1. Append(s, x) \in Seq(T) /\ Len(Append(s, x)) = Len(s) + 1
    BY AppendProperties
  <2>2. /\ EntriesOf(Append(s, x)) = EntriesOf(s) \cup {x}
        /\ NoRepetition(Append(s, x)) => NoRepetition(s) /\ x \notin EntriesOf(s)
    BY EntriesOfAppend, RepetitionInAppend
  <2>3. SUFFICES ASSUME NoRepetition(Append(s, x))
                 PROVE  /\ IsFiniteSet(EntriesOf(s) \cup {x})
                        /\ Cardinality(EntriesOf(s) \cup {x}) = Len(s) + 1
    BY <2>1, <2>2
  <2> QED
    BY <1>2, <2>2, <2>3, FS_AddElement
<1>3. Seq(T) \subseteq G
  <2> HIDE DEF G
  <2> QED
    BY <1>1, <1>2, ListsByInduction
<1> QED
  BY <1>3

-----------------------------------------------------------------------------
(***************************************************************************)
(* What is left to do, as a record (a function) of finite sets.  A step    *)
(* that adds to none of them and takes from one lowers a natural number,   *)
(* and no behaviour has infinitely many such steps.                        *)
(***************************************************************************)
AllFinite(w) == IsFiniteSet(DOMAIN w) /\ \A f \in DOMAIN w : IsFiniteSet(w[f])

Shrinks(w, v) ==
    /\ DOMAIN v = DOMAIN w
    /\ \A f \in DOMAIN w : v[f] \subseteq w[f]
    /\ \E f \in DOMAIN w : v[f] # w[f]

Parts(w) == UNION { {f} \X w[f] : f \in DOMAIN w }

\* How much is left.
Left(w) == Cardinality(Parts(w))

LEMMA NamesAreFinite == \A a, b, c, d, e, f, g : IsFiniteSet({a, b, c, d, e, f, g})
<1> TAKE a, b, c, d, e, f, g
<1>1. IsFiniteSet(({a} \cup {b}) \cup {c})
  BY FS_Singleton, FS_AddElement
<1>2. IsFiniteSet((((({a} \cup {b}) \cup {c}) \cup {d}) \cup {e}) \cup {f})
  BY <1>1, FS_AddElement
<1>3. IsFiniteSet(((((({a} \cup {b}) \cup {c}) \cup {d}) \cup {e}) \cup {f}) \cup {g})
  BY <1>2, FS_AddElement
<1>4. {a, b, c, d, e, f, g} = ((((({a} \cup {b}) \cup {c}) \cup {d}) \cup {e}) \cup {f}) \cup {g}
  OBVIOUS
<1> QED
  BY <1>3, <1>4

LEMMA IntervalsAreFinite ==
    ASSUME NEW m \in Nat, NEW n \in Nat
    PROVE  IsFiniteSet(m .. n) /\ (m = 1 => Cardinality(m .. n) = n)
<1>1. IsFiniteSet(m .. n) /\ Cardinality(m .. n) = IF m > n THEN 0 ELSE n - m + 1
  BY FS_Interval
<1> QED
  BY <1>1

LEMMA PartsAreFinite ==
    ASSUME NEW w, AllFinite(w)
    PROVE  IsFiniteSet(Parts(w)) /\ Left(w) \in Nat
<1> DEFINE all   == { {f} \X w[f] : f \in DOMAIN w }
           toAll == [f \in DOMAIN w |-> {f} \X w[f]]
<1>1. toAll \in Surjection(DOMAIN w, all)
  BY DEF Surjection
<1>2. IsFiniteSet(all)
  <2> HIDE DEF all, toAll
  <2> QED
    BY <1>1, FS_Surjection DEF AllFinite
<1>3. \A T \in all : IsFiniteSet(T)
  <2> SUFFICES ASSUME NEW f \in DOMAIN w PROVE IsFiniteSet({f} \X w[f])
    OBVIOUS
  <2> QED
    BY FS_Singleton, FS_Product DEF AllFinite
<1>4. IsFiniteSet(Parts(w))
  <2>1. Parts(w) = UNION all
    BY DEF Parts
  <2> HIDE DEF all
  <2> QED
    BY <1>2, <1>3, <2>1, FS_UNION
<1> QED
  BY <1>4, FS_CardinalityType DEF Left

LEMMA ShrinkingLeavesLess ==
    ASSUME NEW w, NEW v, AllFinite(w), Shrinks(w, v)
    PROVE  Left(w) \in Nat /\ Left(v) \in Nat /\ Left(v) < Left(w)
<1>1. PICK f \in DOMAIN w : v[f] # w[f]
  BY DEF Shrinks
<1>2. PICK x \in w[f] : x \notin v[f]
  BY <1>1 DEF Shrinks
<1>3. Parts(v) \in SUBSET Parts(w)
  BY DEF Parts, Shrinks
<1>4. <<f, x>> \in Parts(w) /\ <<f, x>> \notin Parts(v)
  BY <1>2 DEF Parts
<1>5. IsFiniteSet(Parts(w)) /\ Left(w) \in Nat
  BY PartsAreFinite
<1>6. IsFiniteSet(Parts(v)) /\ Left(v) <= Left(w) /\ Left(v) # Left(w)
  BY <1>3, <1>4, <1>5, FS_Subset DEF Left
<1>7. Left(v) \in Nat
  BY <1>6, FS_CardinalityType DEF Left
<1> QED
  BY <1>5, <1>6, <1>7
=============================================================================
