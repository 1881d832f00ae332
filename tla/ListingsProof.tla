--------------------------- MODULE ListingsProof ----------------------------
(***************************************************************************)
(* What the loops and the deque operations do to sequences that list a     *)
(* set, each element once: the facts that the invariants of the ready      *)
(* deque rest on, in Scheduler and in RoundRobin.                          *)
(***************************************************************************)
EXTENDS Listings, FiniteSetTheorems, SequenceTheorems, FunctionTheorems, TLAPS

\* q lists the elements of S, which are in T, each of them once.
ListsIn(T, q, S) == q \in Seq(T) /\ IsInjective(q) /\ Range(q) = S

\* A listing of a set has each element once.
LEMMA OrdersList ==
    ASSUME NEW S, IsFiniteSet(S), NEW w \in Orders(S)
    PROVE  w \in Seq(S) /\ IsInjective(w) /\ Range(w) = S
<1>1. Cardinality(S) \in Nat
  BY FS_CardinalityType
<1>2. w \in [1 .. Cardinality(S) -> S] /\ IsInjective(w)
      /\ \A x \in S : \E i \in 1 .. Cardinality(S) : w[i] = x
  BY DEF Orders, Bijection, Injection, Surjection
<1>3. w \in Seq(S)
  BY <1>1, <1>2, SeqDef
<1>4. Range(w) = S
  BY <1>2 DEF Range
<1>5. QED
  BY <1>2, <1>3, <1>4

\* So has an ascending one (the visiting order of the containers).
LEMMA AscendingLists ==
    ASSUME NEW S, IsFiniteSet(S), NEW w \in Ascending(S)
    PROVE  w \in Seq(S) /\ IsInjective(w) /\ Range(w) = S
BY OrdersList DEF Ascending

\* One more element behind a listing (push_back).
LEMMA AppendListing ==
    ASSUME NEW T, NEW q, NEW S, ListsIn(T, q, S), NEW e \in T, e \notin S
    PROVE  ListsIn(T, Append(q, e), S \cup {e})
<1> DEFINE a == Append(q, e)
<1>1. /\ q \in Seq(T) /\ Len(q) \in Nat /\ DOMAIN q = 1 .. Len(q)
      /\ \A i \in DOMAIN q : q[i] \in S
      /\ \A x \in S : \E i \in DOMAIN q : q[i] = x
  BY LenProperties DEF ListsIn, Range
<1>2. /\ a \in Seq(T) /\ Len(a) = Len(q) + 1
      /\ \A i \in 1 .. Len(q) : a[i] = q[i]
      /\ a[Len(q) + 1] = e
  BY <1>1, AppendProperties
<1>3. DOMAIN a = 1 .. Len(q) + 1
  BY <1>2, LenProperties
<1>4. IsInjective(a)
  <2> SUFFICES ASSUME NEW i \in DOMAIN a, NEW j \in DOMAIN a, a[i] = a[j]
               PROVE  i = j
    BY DEF IsInjective
  <2>1. CASE i \in 1 .. Len(q) /\ j \in 1 .. Len(q)
    BY <2>1, <1>1, <1>2 DEF ListsIn, IsInjective
  <2>2. CASE i = Len(q) + 1 \/ j = Len(q) + 1
    BY <2>2, <1>1, <1>2, <1>3
  <2>3. QED
    BY <2>1, <2>2, <1>1, <1>3
<1>5. Range(a) = S \cup {e}
  <2>1. ASSUME NEW i \in DOMAIN a PROVE a[i] \in S \cup {e}
    BY <1>1, <1>2, <1>3
  <2>2. ASSUME NEW x \in S PROVE \E i \in DOMAIN a : a[i] = x
    BY <1>1, <1>2, <1>3
  <2>3. \E i \in DOMAIN a : a[i] = e
    BY <1>1, <1>2, <1>3
  <2>4. QED
    BY <2>1, <2>2, <2>3 DEF Range
<1>6. QED
  BY <1>2, <1>4, <1>5 DEF ListsIn

\* Two listings with nothing in common (the deque, and the threads that wake up).
LEMMA ConcatListings ==
    ASSUME NEW T, NEW q, NEW S, ListsIn(T, q, S), NEW w, NEW W, ListsIn(T, w, W), S \cap W = {}
    PROVE  ListsIn(T, q \o w, S \cup W)
<1> DEFINE c == q \o w
<1>1. /\ q \in Seq(T) /\ Len(q) \in Nat /\ DOMAIN q = 1 .. Len(q)
      /\ w \in Seq(T) /\ Len(w) \in Nat /\ DOMAIN w = 1 .. Len(w)
  BY LenProperties DEF ListsIn
<1>2. /\ c \in Seq(T) /\ Len(c) = Len(q) + Len(w)
      /\ \A i \in 1 .. Len(q) + Len(w) :
            c[i] = IF i <= Len(q) THEN q[i] ELSE w[i - Len(q)]
  BY <1>1, ConcatProperties
<1>3. DOMAIN c = 1 .. Len(q) + Len(w)
  BY <1>2, LenProperties
<1>4. Range(c) = S \cup W
  BY <1>1, RangeConcatenation DEF ListsIn
<1>5. /\ \A i \in DOMAIN q : q[i] \in S
      /\ \A i \in DOMAIN w : w[i] \in W
  BY DEF ListsIn, Range
<1>6. IsInjective(c)
  <2> SUFFICES ASSUME NEW i \in DOMAIN c, NEW j \in DOMAIN c, c[i] = c[j]
               PROVE  i = j
    BY DEF IsInjective
  <2>1. CASE i <= Len(q) /\ j <= Len(q)
    BY <2>1, <1>1, <1>2, <1>3 DEF ListsIn, IsInjective
  <2>2. CASE ~(i <= Len(q)) /\ ~(j <= Len(q))
    <3>1. i - Len(q) \in DOMAIN w /\ j - Len(q) \in DOMAIN w
          /\ w[i - Len(q)] = w[j - Len(q)]
      BY <2>2, <1>1, <1>2, <1>3
    <3>2. i - Len(q) = j - Len(q)
      BY <3>1 DEF ListsIn, IsInjective
    <3>3. QED
      BY <3>2, <1>1, <1>3
  <2>3. CASE i <= Len(q) /\ ~(j <= Len(q))
    <3>1. c[i] \in S /\ c[j] \in W
      BY <2>3, <1>1, <1>2, <1>3, <1>5
    <3>2. QED
      BY <3>1
  <2>4. CASE ~(i <= Len(q)) /\ j <= Len(q)
    <3>1. c[j] \in S /\ c[i] \in W
      BY <2>4, <1>1, <1>2, <1>3, <1>5
    <3>2. QED
      BY <3>1
  <2>5. QED
    BY <2>1, <2>2, <2>3, <2>4
<1>7. QED
  BY <1>2, <1>4, <1>6 DEF ListsIn

\* The front of a listing, and the rest.
LEMMA TailListing ==
    ASSUME NEW T, NEW q, NEW S, ListsIn(T, q, S), S # {}
    PROVE  Head(q) \in S /\ ListsIn(T, Tail(q), S \ {Head(q)})
<1> DEFINE t == Tail(q)
<1>1. /\ q \in Seq(T) /\ Len(q) \in Nat /\ DOMAIN q = 1 .. Len(q)
      /\ \A i \in DOMAIN q : q[i] \in S
      /\ \A x \in S : \E i \in DOMAIN q : q[i] = x
  BY LenProperties DEF ListsIn, Range
<1>2. Len(q) # 0 /\ q # <<>>
  BY <1>1
<1>3. /\ t \in Seq(T) /\ Len(t) = Len(q) - 1
      /\ \A i \in 1 .. Len(t) : t[i] = q[i + 1]
  BY <1>1, <1>2, HeadTailProperties
<1>4. Head(q) = q[1] /\ 1 \in DOMAIN q
  BY <1>1, <1>2
<1>5. DOMAIN t = 1 .. Len(q) - 1
  BY <1>3, LenProperties
<1>6. \A i, j \in DOMAIN q : q[i] = q[j] => i = j
  BY DEF ListsIn, IsInjective
<1>7. IsInjective(t)
  <2> SUFFICES ASSUME NEW i \in DOMAIN t, NEW j \in DOMAIN t, t[i] = t[j]
               PROVE  i = j
    BY DEF IsInjective
  <2>1. i + 1 \in DOMAIN q /\ j + 1 \in DOMAIN q /\ q[i + 1] = q[j + 1]
    BY <1>1, <1>3, <1>5
  <2>2. i + 1 = j + 1
    BY <2>1, <1>6
  <2>3. QED
    BY <2>2, <1>1, <1>5
<1>8. Range(t) = S \ {Head(q)}
  <2>1. ASSUME NEW i \in DOMAIN t PROVE t[i] \in S \ {Head(q)}
    <3>1. i + 1 \in DOMAIN q /\ t[i] = q[i + 1] /\ i + 1 # 1
      BY <1>1, <1>3, <1>5
    <3>2. QED
      BY <3>1, <1>1, <1>4, <1>6
  <2>2. ASSUME NEW x \in S \ {Head(q)} PROVE \E i \in DOMAIN t : t[i] = x
    <3>1. PICK k \in DOMAIN q : q[k] = x
      BY <1>1
    <3>2. k # 1 /\ k - 1 \in DOMAIN t /\ t[k - 1] = q[k]
      BY <3>1, <1>1, <1>3, <1>4, <1>5
    <3>3. QED
      BY <3>1, <3>2
  <2>3. QED
    BY <2>1, <2>2 DEF Range
<1>9. QED
  BY <1>1, <1>3, <1>4, <1>7, <1>8 DEF ListsIn

\* The elements of a listing at some of its positions (erase).
LEMMA KeptListing ==
    ASSUME NEW T, NEW q, NEW S, ListsIn(T, q, S),
           NEW P \in SUBSET DOMAIN q, NEW kept \in Ascending(P)
    PROVE  ListsIn(T, [j \in DOMAIN kept |-> q[kept[j]]], {q[i] : i \in P})
<1> DEFINE r == [j \in DOMAIN kept |-> q[kept[j]]]
<1>1. /\ q \in Seq(T) /\ Len(q) \in Nat /\ DOMAIN q = 1 .. Len(q)
      /\ \A i \in DOMAIN q : q[i] \in T
      /\ \A i, j \in DOMAIN q : q[i] = q[j] => i = j
  BY LenProperties, ElementOfSeq DEF ListsIn, IsInjective
<1>2. IsFiniteSet(P)
  <2>1. IsFiniteSet(1 .. Len(q))
    BY <1>1, FS_Interval
  <2>2. QED
    BY <1>1, <2>1, FS_Subset
<1>3. kept \in Seq(P) /\ IsInjective(kept) /\ Range(kept) = P
  BY <1>2, AscendingLists
<1>4. /\ Len(kept) \in Nat /\ DOMAIN kept = 1 .. Len(kept)
      /\ \A j \in DOMAIN kept : kept[j] \in P
      /\ \A i \in P : \E j \in DOMAIN kept : kept[j] = i
      /\ \A i, j \in DOMAIN kept : kept[i] = kept[j] => i = j
  BY <1>3, LenProperties DEF Range, IsInjective
<1>5. r \in Seq(T)
  <2>1. r \in [1 .. Len(kept) -> T]
    BY <1>1, <1>4
  <2>2. QED
    BY <2>1, <1>4, SeqDef
<1>6. IsInjective(r)
  <2> SUFFICES ASSUME NEW i \in DOMAIN r, NEW j \in DOMAIN r, r[i] = r[j]
               PROVE  i = j
    BY DEF IsInjective
  <2>1. kept[i] \in DOMAIN q /\ kept[j] \in DOMAIN q /\ q[kept[i]] = q[kept[j]]
    BY <1>4
  <2>2. kept[i] = kept[j]
    BY <2>1, <1>1
  <2>3. QED
    BY <2>2, <1>4
<1>7. Range(r) = {q[i] : i \in P}
  BY <1>4 DEF Range
<1>8. QED
  BY <1>5, <1>6, <1>7 DEF ListsIn

=============================================================================
