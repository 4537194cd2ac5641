-------------------------- MODULE SelectionProofs ---------------------------
(***************************************************************************)
(* What filtering a sequence computes, and other facts about sequences     *)
(* that the proofs about the hub and the batch import use.                 *)
(*                                                                         *)
(* They are proved by induction: the set of the numbers for which a claim  *)
(* fails has no least member.  (The induction theorems of the library take *)
(* the claim as an operator, which the provers cannot instantiate; its     *)
(* theorem about least members of sets takes none.)                        *)
(***************************************************************************)
EXTENDS Selection, Integers, FiniteSets, SequencesExt, FiniteSetTheorems,
        WellFoundedInduction, TLAPS

-----------------------------------------------------------------------------
(* Induction. *)

\* A set that contains 0 and, up to n, the successors of its members contains
\* every number up to n.
LEMMA Induction ==
  ASSUME NEW S, NEW n \in Nat, 0 \in S, \A i \in 0 .. n - 1 : i \in S => i + 1 \in S
  PROVE  \A i \in 0 .. n : i \in S
<1> DEFINE Fails == {i \in 0 .. n : i \notin S}
           Less == OpToRel(<, Nat)
<1> SUFFICES ASSUME Fails # {} PROVE FALSE  OBVIOUS
<1>1. \A x, y \in Nat : <<x, y>> \in Less <=> x < y  BY DEF OpToRel
<1>2. PICK least \in Fails : \A i \in Fails : <<i, least>> \notin Less
  <2>1. IsWellFoundedOn(Less, Nat)  BY NatLessThanWellFounded
  <2>2. Fails \subseteq Nat  OBVIOUS
  <2> HIDE DEF Fails, Less
  <2> QED BY <2>1, <2>2, WFMin
<1>3. least # 0  OBVIOUS
<1>4. least - 1 \in 0 .. n - 1 /\ least - 1 \notin S  BY <1>3
<1>5. least - 1 \in Fails /\ <<least - 1, least>> \in Less
  <2> HIDE DEF Less
  <2> QED BY <1>1, <1>4
<1> QED BY <1>2, <1>5

\* The recursion has a solution on every prefix, so that on all of s the
\* function is one.
LEMMA KeptEquation ==
  ASSUME NEW X, NEW s \in Seq(X), NEW T
  PROVE  KeptOfPrefix(s, T) = [i \in 0 .. Len(s) |->
           IF i = 0 THEN <<>>
           ELSE IF s[i] \in T THEN Append(KeptOfPrefix(s, T)[i - 1], s[i])
                ELSE KeptOfPrefix(s, T)[i - 1]]
<1> DEFINE Body(f, i) == IF i = 0 THEN <<>>
                         ELSE IF s[i] \in T THEN Append(f[i - 1], s[i]) ELSE f[i - 1]
           Solved == {n \in Nat : \E f : f = [i \in 0 .. n |-> Body(f, i)]}
<1>1. Len(s) \in Nat  OBVIOUS
<1>2. 0 \in Solved
  <2> DEFINE f == [i \in 0 .. 0 |-> <<>>]
  <2>1. f = [i \in 0 .. 0 |-> Body(f, i)]  OBVIOUS
  <2> QED BY <2>1
<1>3. ASSUME NEW n \in 0 .. Len(s) - 1, n \in Solved PROVE n + 1 \in Solved
  <2>1. PICK f : f = [i \in 0 .. n |-> Body(f, i)]  BY <1>3
  <2> DEFINE g == [i \in 0 .. n + 1 |-> IF i = n + 1 THEN Body(f, n + 1) ELSE f[i]]
  <2>2. ASSUME NEW i \in 0 .. n + 1 PROVE g[i] = Body(g, i)
    <3>1. CASE i = n + 1
      <4>1. g[i - 1] = f[i - 1]  BY <3>1
      <4> QED BY <3>1, <4>1
    <3>2. CASE i = 0  BY <3>2, <2>1
    <3>3. CASE i \in 1 .. n
      <4>1. g[i - 1] = f[i - 1] /\ g[i] = f[i]  BY <3>3
      <4>2. f[i] = Body(f, i)
        <5>1. i \in 0 .. n  BY <3>3
        <5> HIDE DEF Body
        <5> QED BY <2>1, <5>1
      <4> HIDE DEF g
      <4> QED BY <3>3, <4>1, <4>2
    <3> QED BY <3>1, <3>2, <3>3
  <2>3. g = [i \in 0 .. n + 1 |-> Body(g, i)]
    <3> HIDE DEF Body
    <3>1. DOMAIN g = 0 .. n + 1  OBVIOUS
    <3> QED BY <2>2, <3>1
  <2>4. n + 1 \in Nat  OBVIOUS
  <2> QED BY <2>3, <2>4
<1>4. Len(s) \in Solved
  <2> HIDE DEF Solved
  <2>1. \A i \in 0 .. Len(s) - 1 : i \in Solved => i + 1 \in Solved  BY <1>3
  <2>2. \A i \in 0 .. Len(s) : i \in Solved  BY <1>1, <1>2, <2>1, Induction
  <2> QED BY <1>1, <2>2
<1>5. \E f : f = [i \in 0 .. Len(s) |-> Body(f, i)]  BY <1>4
<1> QED BY <1>5 DEF KeptOfPrefix

\* The recursion, step by step.
LEMMA KeptSteps ==
  ASSUME NEW X, NEW s \in Seq(X), NEW T
  PROVE  /\ KeptOfPrefix(s, T)[0] = <<>>
         /\ \A i \in 1 .. Len(s) : KeptOfPrefix(s, T)[i] =
              IF s[i] \in T THEN Append(KeptOfPrefix(s, T)[i - 1], s[i])
              ELSE KeptOfPrefix(s, T)[i - 1]
<1> DEFINE K == KeptOfPrefix(s, T)
<1>1. K = [i \in 0 .. Len(s) |->
             IF i = 0 THEN <<>>
             ELSE IF s[i] \in T THEN Append(K[i - 1], s[i]) ELSE K[i - 1]]
  BY KeptEquation
<1>2. Len(s) \in Nat  OBVIOUS
<1> HIDE DEF K
<1>3. K[0] = <<>>  BY <1>1, <1>2
<1>4. ASSUME NEW i \in 1 .. Len(s)
      PROVE  K[i] = IF s[i] \in T THEN Append(K[i - 1], s[i]) ELSE K[i - 1]
  <2>1. i \in 0 .. Len(s) /\ i # 0  BY <1>2
  <2> QED BY <1>1, <2>1
<1> QED BY <1>3, <1>4 DEF K

-----------------------------------------------------------------------------
(* The elements of a sequence. *)

LEMMA EmptyElements == ToSet(<<>>) = {} /\ IsInjective(<<>>)
<1>1. DOMAIN <<>> = {}  OBVIOUS
<1> QED BY <1>1 DEF ToSet, IsInjective

LEMMA AppendElements ==
  ASSUME NEW X, NEW s \in Seq(X), NEW e \in X
  PROVE  /\ Append(s, e) \in Seq(X)
         /\ ToSet(Append(s, e)) = ToSet(s) \cup {e}
         /\ (IsInjective(s) /\ e \notin ToSet(s)) => IsInjective(Append(s, e))
<1> DEFINE r == Append(s, e)
<1>1. /\ r \in Seq(X) /\ DOMAIN s = 1 .. Len(s) /\ DOMAIN r = 1 .. Len(s) + 1
      /\ Len(s) \in Nat /\ r[Len(s) + 1] = e /\ \A i \in 1 .. Len(s) : r[i] = s[i]
  OBVIOUS
<1> HIDE DEF r
<1>2. ToSet(r) = ToSet(s) \cup {e}
  <2>1. ASSUME NEW x \in ToSet(r) PROVE x \in ToSet(s) \cup {e}
    <3>1. PICK i \in 1 .. Len(s) + 1 : x = r[i]  BY <1>1, <2>1 DEF ToSet
    <3>2. CASE i = Len(s) + 1  BY <1>1, <3>1, <3>2
    <3>3. CASE i \in 1 .. Len(s)  BY <1>1, <3>1, <3>3 DEF ToSet
    <3> QED BY <1>1, <3>2, <3>3
  <2>2. e \in ToSet(r)
    <3>1. Len(s) + 1 \in DOMAIN r  BY <1>1
    <3> QED BY <1>1, <3>1 DEF ToSet
  <2>3. ASSUME NEW x \in ToSet(s) PROVE x \in ToSet(r)
    <3>1. PICK i \in 1 .. Len(s) : x = s[i]  BY <1>1, <2>3 DEF ToSet
    <3>2. i \in DOMAIN r  BY <1>1
    <3> QED BY <1>1, <3>1, <3>2 DEF ToSet
  <2> QED BY <2>1, <2>2, <2>3
<1>3. ASSUME IsInjective(s), e \notin ToSet(s),
             NEW a \in DOMAIN r, NEW b \in DOMAIN r, r[a] = r[b]
      PROVE  a = b
  <2>1. \A i \in 1 .. Len(s) : s[i] # e  BY <1>1, <1>3 DEF ToSet
  <2> QED BY <1>1, <1>3, <2>1 DEF IsInjective
<1> QED BY <1>1, <1>2, <1>3 DEF IsInjective, r

-----------------------------------------------------------------------------
(* What is kept. *)

LEMMA KeptEmpty == \A T : Kept(<<>>, T) = <<>>
<1> TAKE T
<1>1. <<>> \in Seq({}) /\ Len(<<>>) = 0  OBVIOUS
<1> DEFINE e == <<>>
<1>2. KeptOfPrefix(e, T)[0] = <<>>
  <2>1. e \in Seq({})  BY <1>1
  <2> HIDE DEF e
  <2> QED BY <2>1, KeptSteps
<1> QED BY <1>1, <1>2 DEF Kept

\* The kept elements are those of s that are in T; none of them is repeated
\* if s repeats none.
LEMMA KeptFacts ==
  ASSUME NEW X, NEW s \in Seq(X), NEW T
  PROVE  /\ Kept(s, T) \in Seq(X)
         /\ ToSet(Kept(s, T)) = ToSet(s) \cap T
         /\ IsInjective(s) => IsInjective(Kept(s, T))
<1> DEFINE K == KeptOfPrefix(s, T)
           Good == {i \in 0 .. Len(s) :
                      /\ K[i] \in Seq(X)
                      /\ ToSet(K[i]) = {s[j] : j \in 1 .. i} \cap T
                      /\ IsInjective(s) => IsInjective(K[i])}
<1>1. Len(s) \in Nat /\ DOMAIN s = 1 .. Len(s)  OBVIOUS
<1>2. K[0] = <<>> /\ \A i \in 1 .. Len(s) : K[i] =
        IF s[i] \in T THEN Append(K[i - 1], s[i]) ELSE K[i - 1]
  BY KeptSteps
<1> HIDE DEF K
<1>3. 0 \in Good
  <2>1. {s[j] : j \in 1 .. 0} = {}  OBVIOUS
  <2>2. K[0] = <<>> /\ <<>> \in Seq(X)  BY <1>2
  <2>3. ToSet(K[0]) = {s[j] : j \in 1 .. 0} \cap T /\ IsInjective(K[0])
    BY <2>1, <2>2, EmptyElements
  <2>4. 0 \in 0 .. Len(s) /\ K[0] \in Seq(X)  BY <1>1, <2>2
  <2> QED BY <2>3, <2>4, Zenon
<1>4. ASSUME NEW i \in 0 .. Len(s) - 1, i \in Good PROVE i + 1 \in Good
  <2>1. i + 1 \in 1 .. Len(s) /\ s[i + 1] \in X /\ i + 1 - 1 = i  OBVIOUS
  <2>2. K[i] \in Seq(X) /\ ToSet(K[i]) = {s[j] : j \in 1 .. i} \cap T
        /\ (IsInjective(s) => IsInjective(K[i]))
    BY <1>4
  <2>3. {s[j] : j \in 1 .. i + 1} = {s[j] : j \in 1 .. i} \cup {s[i + 1]}  OBVIOUS
  <2>4. CASE s[i + 1] \notin T
    <3>1. K[i + 1] = K[i]  BY <1>2, <2>1, <2>4
    <3> QED BY <2>1, <2>2, <2>3, <2>4, <3>1
  <2>5. CASE s[i + 1] \in T
    <3>1. K[i + 1] = Append(K[i], s[i + 1])
      <4> HIDE DEF Good
      <4>1. K[i + 1] = IF s[i + 1] \in T THEN Append(K[i + 1 - 1], s[i + 1])
                       ELSE K[i + 1 - 1]
        BY <1>2, <2>1
      <4> QED BY <2>1, <2>5, <4>1
    <3>2. /\ K[i + 1] \in Seq(X)
          /\ ToSet(K[i + 1]) = ToSet(K[i]) \cup {s[i + 1]}
          /\ (IsInjective(K[i]) /\ s[i + 1] \notin ToSet(K[i])) => IsInjective(K[i + 1])
      BY <2>1, <2>2, <3>1, AppendElements
    <3>3. IsInjective(s) => s[i + 1] \notin {s[j] : j \in 1 .. i}
      BY <1>1, <2>1 DEF IsInjective
    <3>4. IsInjective(s) => IsInjective(K[i + 1])  BY <2>2, <3>2, <3>3
    <3>5. ToSet(K[i + 1]) = {s[j] : j \in 1 .. i + 1} \cap T  BY <2>2, <2>3, <2>5, <3>2
    <3> QED BY <2>1, <3>2, <3>4, <3>5
  <2> QED BY <2>4, <2>5
<1>5. Len(s) \in Good
  <2> HIDE DEF Good
  <2>1. \A i \in 0 .. Len(s) - 1 : i \in Good => i + 1 \in Good  BY <1>4
  <2>2. \A i \in 0 .. Len(s) : i \in Good  BY <1>1, <1>3, <2>1, Induction
  <2> QED BY <1>1, <2>2
<1>6. ToSet(s) = {s[j] : j \in 1 .. Len(s)}  BY <1>1 DEF ToSet
<1> QED BY <1>5, <1>6 DEF Kept, K

\* Filters that agree on the elements of s keep the same.
LEMMA KeptSame ==
  ASSUME NEW X, NEW s \in Seq(X), NEW T, NEW U, \A i \in DOMAIN s : s[i] \in T <=> s[i] \in U
  PROVE  Kept(s, T) = Kept(s, U)
<1> DEFINE K == KeptOfPrefix(s, T)
           L == KeptOfPrefix(s, U)
           Same == {i \in 0 .. Len(s) : K[i] = L[i]}
<1>1. Len(s) \in Nat /\ DOMAIN s = 1 .. Len(s)  OBVIOUS
<1>2. K[0] = <<>> /\ \A i \in 1 .. Len(s) : K[i] =
        IF s[i] \in T THEN Append(K[i - 1], s[i]) ELSE K[i - 1]
  BY KeptSteps
<1>3. L[0] = <<>> /\ \A i \in 1 .. Len(s) : L[i] =
        IF s[i] \in U THEN Append(L[i - 1], s[i]) ELSE L[i - 1]
  BY KeptSteps
<1> HIDE DEF K, L
<1>4. 0 \in Same  BY <1>1, <1>2, <1>3
<1>5. ASSUME NEW i \in 0 .. Len(s) - 1, i \in Same PROVE i + 1 \in Same
  <2>1. i + 1 \in 1 .. Len(s) /\ i + 1 - 1 = i  OBVIOUS
  <2> QED BY <1>1, <1>2, <1>3, <1>5, <2>1
<1>6. Len(s) \in Same
  <2> HIDE DEF Same
  <2>1. \A i \in 0 .. Len(s) - 1 : i \in Same => i + 1 \in Same  BY <1>5
  <2>2. \A i \in 0 .. Len(s) : i \in Same  BY <1>1, <1>4, <2>1, Induction
  <2> QED BY <1>1, <2>2
<1> QED BY <1>6 DEF Kept, K, L

\* Filtering an extended sequence.
LEMMA KeptAppend ==
  ASSUME NEW X, NEW s \in Seq(X), NEW e \in X, NEW T
  PROVE  Kept(Append(s, e), T) = IF e \in T THEN Append(Kept(s, T), e) ELSE Kept(s, T)
<1> DEFINE r == Append(s, e)
           K == KeptOfPrefix(s, T)
           L == KeptOfPrefix(r, T)
           Same == {i \in 0 .. Len(s) : K[i] = L[i]}
<1>1. r \in Seq(X) /\ Len(s) \in Nat /\ Len(r) = Len(s) + 1 /\ r[Len(r)] = e
      /\ \A i \in 1 .. Len(s) : r[i] = s[i]
  OBVIOUS
<1>2. K[0] = <<>> /\ \A i \in 1 .. Len(s) : K[i] =
        IF s[i] \in T THEN Append(K[i - 1], s[i]) ELSE K[i - 1]
  BY KeptSteps
<1> HIDE DEF r
<1>3. L[0] = <<>> /\ \A i \in 1 .. Len(r) : L[i] =
        IF r[i] \in T THEN Append(L[i - 1], r[i]) ELSE L[i - 1]
  BY <1>1, KeptSteps
<1> HIDE DEF K, L
<1>4. 0 \in Same  BY <1>1, <1>2, <1>3
<1>5. ASSUME NEW i \in 0 .. Len(s) - 1, i \in Same PROVE i + 1 \in Same
  <2>1. i + 1 \in 1 .. Len(s) /\ i + 1 \in 1 .. Len(r) /\ i + 1 - 1 = i  BY <1>1
  <2> QED BY <1>1, <1>2, <1>3, <1>5, <2>1
<1>6. Len(s) \in Same
  <2> HIDE DEF Same
  <2>1. \A i \in 0 .. Len(s) - 1 : i \in Same => i + 1 \in Same  BY <1>5
  <2>2. \A i \in 0 .. Len(s) : i \in Same  BY <1>1, <1>4, <2>1, Induction
  <2> QED BY <1>1, <2>2
<1>7. L[Len(r)] = IF e \in T THEN Append(L[Len(s)], e) ELSE L[Len(s)]
  <2>1. Len(r) \in 1 .. Len(r) /\ Len(r) - 1 = Len(s)  BY <1>1
  <2> QED BY <1>1, <1>3, <2>1
<1> QED BY <1>6, <1>7 DEF Kept, K, L, r

-----------------------------------------------------------------------------
(* Sequences that repeat nothing. *)

\* Such a sequence is as long as it has elements.
LEMMA InjectiveLength ==
  ASSUME NEW X, NEW s \in Seq(X), IsInjective(s)
  PROVE  IsFiniteSet(ToSet(s)) /\ Cardinality(ToSet(s)) = Len(s)
<1>1. Len(s) \in Nat /\ DOMAIN s = 1 .. Len(s) /\ s = [i \in 1 .. Len(s) |-> s[i]]  OBVIOUS
<1>2. s \in Bijection(1 .. Len(s), ToSet(s))
  BY <1>1 DEF ToSet, IsInjective, Bijection, Injection, Surjection
<1>3. ExistsBijection(1 .. Len(s), ToSet(s))  BY <1>2 DEF ExistsBijection
<1>4. IsFiniteSet(1 .. Len(s)) /\ Cardinality(1 .. Len(s)) = Len(s)
  <2>1. 1 \in Int /\ Len(s) \in Int  BY <1>1
  <2>2. /\ IsFiniteSet(1 .. Len(s))
        /\ Cardinality(1 .. Len(s)) = IF 1 > Len(s) THEN 0 ELSE Len(s) - 1 + 1
    BY <2>1, FS_Interval
  <2> QED BY <1>1, <2>2
<1> QED BY <1>3, <1>4, FS_Bijection

\* Taking the first element off.
LEMMA TailElements ==
  ASSUME NEW X, NEW s \in Seq(X), s # <<>>, IsInjective(s)
  PROVE  /\ Head(s) \in X /\ Head(s) \in ToSet(s)
         /\ Tail(s) \in Seq(X) /\ IsInjective(Tail(s))
         /\ ToSet(Tail(s)) = ToSet(s) \ {Head(s)}
<1> DEFINE r == Tail(s)
<1>1. /\ Len(s) \in Nat /\ Len(s) > 0 /\ DOMAIN s = 1 .. Len(s) /\ r \in Seq(X)
      /\ DOMAIN r = 1 .. Len(s) - 1 /\ \A i \in 1 .. Len(s) - 1 : r[i] = s[i + 1]
      /\ Head(s) = s[1] /\ s[1] \in X
  OBVIOUS
<1> HIDE DEF r
<1>2. Head(s) \in ToSet(s)  BY <1>1 DEF ToSet
<1>3. IsInjective(r)
  <2>1. ASSUME NEW a \in DOMAIN r, NEW b \in DOMAIN r, r[a] = r[b] PROVE a = b
    <3>1. a + 1 \in DOMAIN s /\ b + 1 \in DOMAIN s /\ s[a + 1] = s[b + 1]  BY <1>1, <2>1
    <3>2. a + 1 = b + 1  BY <3>1 DEF IsInjective
    <3> QED BY <1>1, <3>2
  <2> QED BY <2>1 DEF IsInjective
<1>4. ASSUME NEW x \in ToSet(r) PROVE x \in ToSet(s) \ {Head(s)}
  <2>1. PICK i \in 1 .. Len(s) - 1 : x = s[i + 1]  BY <1>1 DEF ToSet
  <2>2. i + 1 \in DOMAIN s /\ 1 \in DOMAIN s /\ i + 1 # 1  BY <1>1
  <2>3. s[i + 1] # s[1]  BY <2>2 DEF IsInjective
  <2> QED BY <1>1, <2>1, <2>2, <2>3 DEF ToSet
<1>5. ASSUME NEW x \in ToSet(s) \ {Head(s)} PROVE x \in ToSet(r)
  <2>1. PICK i \in 1 .. Len(s) : x = s[i]  BY <1>1 DEF ToSet
  <2>2. i - 1 \in 1 .. Len(s) - 1 /\ i - 1 + 1 = i  BY <1>1, <1>5, <2>1
  <2>3. i - 1 \in DOMAIN r /\ r[i - 1] = x  BY <1>1, <2>1, <2>2
  <2> QED BY <2>3 DEF ToSet
<1> QED BY <1>1, <1>2, <1>3, <1>4, <1>5 DEF r

\* Putting two together.
LEMMA ConcatElements ==
  ASSUME NEW X, NEW s \in Seq(X), NEW r \in Seq(X)
  PROVE  /\ s \o r \in Seq(X)
         /\ ToSet(s \o r) = ToSet(s) \cup ToSet(r)
         /\ (IsInjective(s) /\ IsInjective(r) /\ ToSet(s) \cap ToSet(r) = {})
              => IsInjective(s \o r)
<1> DEFINE c == s \o r
<1>1. /\ Len(s) \in Nat /\ Len(r) \in Nat /\ DOMAIN s = 1 .. Len(s) /\ DOMAIN r = 1 .. Len(r)
      /\ c \in Seq(X) /\ DOMAIN c = 1 .. Len(s) + Len(r)
      /\ \A i \in 1 .. Len(s) : c[i] = s[i]
      /\ \A i \in Len(s) + 1 .. Len(s) + Len(r) : c[i] = r[i - Len(s)]
  OBVIOUS
<1> HIDE DEF c
<1>2. ASSUME NEW x \in ToSet(c) PROVE x \in ToSet(s) \cup ToSet(r)
  <2>1. PICK i \in 1 .. Len(s) + Len(r) : x = c[i]  BY <1>1 DEF ToSet
  <2>2. CASE i \in 1 .. Len(s)  BY <1>1, <2>1, <2>2 DEF ToSet
  <2>3. CASE i \in Len(s) + 1 .. Len(s) + Len(r)
    <3>1. i - Len(s) \in DOMAIN r /\ x = r[i - Len(s)]  BY <1>1, <2>1, <2>3
    <3> QED BY <3>1 DEF ToSet
  <2> QED BY <1>1, <2>2, <2>3
<1>3. ASSUME NEW x \in ToSet(s) PROVE x \in ToSet(c)
  <2>1. PICK i \in 1 .. Len(s) : x = s[i]  BY <1>1 DEF ToSet
  <2>2. i \in DOMAIN c /\ c[i] = x  BY <1>1, <2>1
  <2> QED BY <2>2 DEF ToSet
<1>4. ASSUME NEW x \in ToSet(r) PROVE x \in ToSet(c)
  <2>1. PICK i \in 1 .. Len(r) : x = r[i]  BY <1>1 DEF ToSet
  <2>2. PICK k \in Len(s) + 1 .. Len(s) + Len(r) : k - Len(s) = i
    <3>1. Len(s) + i \in Len(s) + 1 .. Len(s) + Len(r) /\ Len(s) + i - Len(s) = i  BY <1>1
    <3> QED BY <3>1
  <2>3. c[k] = r[i] /\ k \in DOMAIN c  BY <1>1, <2>2
  <2> QED BY <2>1, <2>3 DEF ToSet
<1>5. ASSUME IsInjective(s), IsInjective(r), ToSet(s) \cap ToSet(r) = {},
             NEW a \in DOMAIN c, NEW b \in DOMAIN c, c[a] = c[b]
      PROVE  a = b
  <2>1. \A i \in 1 .. Len(s), j \in 1 .. Len(r) : s[i] # r[j]  BY <1>1, <1>5 DEF ToSet
  <2>2. CASE a \in 1 .. Len(s) /\ b \in 1 .. Len(s)
    BY <1>1, <1>5, <2>2 DEF IsInjective
  <2>3. ASSUME NEW i \in DOMAIN c, i \notin 1 .. Len(s)
        PROVE  \E j \in DOMAIN r : i = Len(s) + j /\ c[i] = r[j]
    <3>1. i \in Len(s) + 1 .. Len(s) + Len(r)  BY <1>1, <2>3
    <3>2. PICK j \in 1 .. Len(r) : j = i - Len(s) /\ i = Len(s) + j
      <4>1. i - Len(s) \in 1 .. Len(r) /\ i = Len(s) + (i - Len(s))  BY <1>1, <3>1
      <4> QED BY <4>1
    <3> QED BY <1>1, <3>1, <3>2
  <2>4. CASE a \notin 1 .. Len(s) /\ b \notin 1 .. Len(s)
    <3>1. PICK j \in DOMAIN r : a = Len(s) + j /\ c[a] = r[j]  BY <2>4, <2>3
    <3>2. PICK k \in DOMAIN r : b = Len(s) + k /\ c[b] = r[k]  BY <2>4, <2>3
    <3>3. j = k  BY <1>5, <3>1, <3>2 DEF IsInjective
    <3> QED BY <3>1, <3>2, <3>3
  <2>5. CASE a \in 1 .. Len(s) /\ b \notin 1 .. Len(s)
    <3>1. PICK k \in DOMAIN r : c[b] = r[k]  BY <2>5, <2>3
    <3>2. c[a] = s[a] /\ k \in 1 .. Len(r)  BY <1>1, <2>5
    <3> QED BY <1>5, <2>1, <2>5, <3>1, <3>2
  <2>6. CASE a \notin 1 .. Len(s) /\ b \in 1 .. Len(s)
    <3>1. PICK k \in DOMAIN r : c[a] = r[k]  BY <2>6, <2>3
    <3>2. c[b] = s[b] /\ k \in 1 .. Len(r)  BY <1>1, <2>6
    <3> QED BY <1>5, <2>1, <2>6, <3>1, <3>2
  <2> QED BY <2>2, <2>4, <2>5, <2>6
<1> QED BY <1>1, <1>2, <1>3, <1>4, <1>5 DEF IsInjective, c

-----------------------------------------------------------------------------
(* Positions of a sequence. *)

Positions(n) == [i \in 1 .. n |-> i]

LEMMA PositionsGrow ==
  ASSUME NEW n \in Nat
  PROVE  /\ Positions(n) \in Seq(1 .. n) /\ Positions(n) \in Seq(Nat)
         /\ Positions(n + 1) = Append(Positions(n), n + 1)
<1>1. Positions(n) \in Seq(1 .. n) /\ Positions(n) \in Seq(Nat) /\ Len(Positions(n)) = n
  BY DEF Positions
<1>2. Positions(n + 1) = Append(Positions(n), n + 1)
  <2> DEFINE s == Positions(n)
             r == Positions(n + 1)
  <2>1. r \in Seq(Nat) /\ Len(r) = n + 1 /\ \A i \in 1 .. n + 1 : r[i] = i  BY DEF Positions
  <2>2. s \in Seq(Nat) /\ Len(s) = n /\ \A i \in 1 .. n : s[i] = i  BY <1>1 DEF Positions
  <2> HIDE DEF s, r
  <2>3. Append(s, n + 1) \in Seq(Nat) /\ Len(Append(s, n + 1)) = n + 1
        /\ \A i \in 1 .. n + 1 : Append(s, n + 1)[i] = i
    BY <2>2
  <2>4. r = Append(s, n + 1)  BY <2>1, <2>3
  <2> QED BY <2>4 DEF s, r
<1> QED BY <1>1, <1>2

\* One more position.
LEMMA KeptPosition ==
  ASSUME NEW n \in Nat, NEW T
  PROVE  Kept(Positions(n + 1), T) =
           IF n + 1 \in T THEN Append(Kept(Positions(n), T), n + 1) ELSE Kept(Positions(n), T)
<1>1. Positions(n) \in Seq(Nat) /\ Positions(n + 1) = Append(Positions(n), n + 1)
  BY PositionsGrow, Zenon
<1>2. Kept(Append(Positions(n), n + 1), T) =
        IF n + 1 \in T THEN Append(Kept(Positions(n), T), n + 1) ELSE Kept(Positions(n), T)
  <2> DEFINE s == Positions(n)
             e == n + 1
  <2>1. s \in Seq(Nat) /\ e \in Nat  BY <1>1
  <2> HIDE DEF s, e
  <2>2. Kept(Append(s, e), T) = IF e \in T THEN Append(Kept(s, T), e) ELSE Kept(s, T)
    BY <2>1, KeptAppend
  <2> QED BY <2>2 DEF s, e
<1> QED BY <1>1, <1>2, Zenon

\* The position kept last is the greatest of those that are kept.
LEMMA KeptLast ==
  ASSUME NEW n \in Nat, NEW T, NEW k \in 1 .. n, k \in T
  PROVE  LET kept == Kept(Positions(n), T) IN kept # <<>> /\ k <= kept[Len(kept)]
<1> DEFINE K(i) == Kept(Positions(i), T)
           Good == {i \in 0 .. n : \A m \in 1 .. i : m \in T => K(i) # <<>> /\ m <= K(i)[Len(K(i))]}
<1>1. \A i \in 0 .. n : K(i) \in Seq(Nat)
  BY PositionsGrow, KeptFacts
<1>2. \A i \in 0 .. n - 1 : K(i + 1) = IF i + 1 \in T THEN Append(K(i), i + 1) ELSE K(i)
  BY KeptPosition
<1> HIDE DEF K
<1>3. 0 \in Good  OBVIOUS
<1>4. ASSUME NEW i \in 0 .. n - 1, i \in Good PROVE i + 1 \in Good
  <2>1. i \in 0 .. n /\ i + 1 \in 0 .. n  OBVIOUS
  <2>2. \A m \in 1 .. i : m \in T => K(i) # <<>> /\ m <= K(i)[Len(K(i))]  BY <1>4
  <2>3. CASE i + 1 \in T
    <3>1. K(i + 1) = Append(K(i), i + 1)  BY <1>2, <2>3
    <3>2. K(i + 1) # <<>> /\ K(i + 1)[Len(K(i + 1))] = i + 1
      BY <1>1, <2>1, <3>1
    <3> QED BY <2>1, <3>2
  <2>4. CASE i + 1 \notin T
    <3>1. K(i + 1) = K(i)  BY <1>2, <2>4
    <3>2. \A m \in 1 .. i + 1 : m \in T => m \in 1 .. i  BY <2>4
    <3> QED BY <2>1, <2>2, <3>1, <3>2
  <2> QED BY <2>3, <2>4
<1>5. n \in Good
  <2> HIDE DEF Good
  <2>1. \A i \in 0 .. n - 1 : i \in Good => i + 1 \in Good  BY <1>4
  <2>2. \A i \in 0 .. n : i \in Good  BY <1>3, <2>1, Induction
  <2> QED BY <2>2
<1> QED BY <1>5 DEF K
=============================================================================
