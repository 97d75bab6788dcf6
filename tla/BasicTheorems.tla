--------------------------- MODULE BasicTheorems ----------------------------
(***************************************************************************)
(* Facts on data that the proofs about the components share: what pushing  *)
(* on and popping off the state stacks of the contexts does, and sums over *)
(* finite sets.                                                            *)
(***************************************************************************)
EXTENDS Integers, Sequences, SequencesExt, SequenceTheorems,
        FiniteSets, FiniteSetsExt, FiniteSetTheorems, WellFoundedInduction, TLAPS

-----------------------------------------------------------------------------
(* Stacks *)

\* PushState: the pushed state is on top of the unchanged stack.
LEMMA PushProperties ==
    ASSUME NEW S, NEW s \in Seq(S), NEW e \in S
    PROVE  /\ Append(s, e) \in Seq(S)
           /\ Len(s) \in Nat
           /\ Len(Append(s, e)) = Len(s) + 1
           /\ \A k \in 1 .. Len(s) : Append(s, e)[k] = s[k]
           /\ Append(s, e)[Len(s) + 1] = e
BY AppendProperties, LenProperties

\* PopSetActiveState and PopDiscard: only the top of the stack is removed.
LEMMA PopProperties ==
    ASSUME NEW S, NEW s \in Seq(S), s # <<>>
    PROVE  /\ Len(s) \in Nat \ {0}
           /\ Front(s) \in Seq(S)
           /\ Len(Front(s)) = Len(s) - 1
           /\ \A k \in 1 .. Len(s) - 1 : Front(s)[k] = s[k]
           /\ Last(s) = s[Len(s)] /\ Last(s) \in S
<1>1. Len(s) \in Nat \ {0} /\ \A k \in 1 .. Len(s) : s[k] \in S
    BY EmptySeq, LenProperties
<1>2. \A k \in 1 .. Len(s) - 1 : s[k] \in S
    BY <1>1
<1> DEFINE n == Len(s) - 1
           t == SubSeq(s, 1, n)
<1>3. n \in Int /\ n >= 0
    BY <1>1
<1>4. /\ t \in Seq(S)
      /\ Len(t) = IF 1 <= n THEN n - 1 + 1 ELSE 0
      /\ \A i \in 1 .. n - 1 + 1 : t[i] = s[1 + i - 1]
    BY <1>2, <1>3, SubSeqProperties
<1>5. Front(s) = t
    BY DEF Front
<1>6. Len(t) = n /\ \A k \in 1 .. n : t[k] = s[k]
    <2> HIDE DEF t, n
    <2>1. Len(t) = n
        BY <1>3, <1>4
    <2>2. ASSUME NEW k \in 1 .. n PROVE t[k] = s[k]
        <3>1. k \in 1 .. n - 1 + 1 /\ 1 + k - 1 = k
            BY <1>3
        <3> QED BY <3>1, <1>4, Zenon
    <2> QED BY <2>1, <2>2
<1>7. Last(s) = s[Len(s)] /\ Last(s) \in S
    BY <1>1 DEF Last
<1> QED BY <1>1, <1>4, <1>5, <1>6, <1>7

\* A stack, whatever it holds.
IsStack(s) == \E S : s \in Seq(S)

\* PushProperties and PopProperties without the set of the elements.
LEMMA StackPush ==
    ASSUME NEW s, NEW e, IsStack(s)
    PROVE  /\ IsStack(Append(s, e))
           /\ Len(s) \in Nat /\ DOMAIN s = 1 .. Len(s)
           /\ Len(Append(s, e)) = Len(s) + 1
           /\ DOMAIN Append(s, e) = 1 .. Len(s) + 1
           /\ \A k \in 1 .. Len(s) : Append(s, e)[k] = s[k]
           /\ Append(s, e)[Len(s) + 1] = e
<1>1. PICK S : s \in Seq(S)
    BY DEF IsStack
<1>2. s \in Seq(S \cup {e})
    BY <1>1
<1>3. /\ Append(s, e) \in Seq(S \cup {e})
      /\ Len(s) \in Nat
      /\ Len(Append(s, e)) = Len(s) + 1
      /\ \A k \in 1 .. Len(s) : Append(s, e)[k] = s[k]
      /\ Append(s, e)[Len(s) + 1] = e
    BY <1>2, PushProperties
<1>4. DOMAIN s = 1 .. Len(s) /\ DOMAIN Append(s, e) = 1 .. Len(Append(s, e))
    BY <1>1, <1>3, LenProperties
<1> QED BY <1>3, <1>4 DEF IsStack

\* The same for PopProperties: only the top is gone.
LEMMA StackPop ==
    ASSUME NEW s, IsStack(s), s # <<>>
    PROVE  /\ IsStack(Front(s))
           /\ Len(s) \in Nat \ {0} /\ DOMAIN s = 1 .. Len(s)
           /\ Len(Front(s)) = Len(s) - 1
           /\ DOMAIN Front(s) = 1 .. Len(s) - 1
           /\ \A k \in 1 .. Len(s) - 1 : Front(s)[k] = s[k]
           /\ Last(s) = s[Len(s)]
<1>1. PICK S : s \in Seq(S)
    BY DEF IsStack
<1>2. /\ Len(s) \in Nat \ {0}
      /\ Front(s) \in Seq(S)
      /\ Len(Front(s)) = Len(s) - 1
      /\ \A k \in 1 .. Len(s) - 1 : Front(s)[k] = s[k]
      /\ Last(s) = s[Len(s)]
    BY <1>1, PopProperties
<1>3. DOMAIN s = 1 .. Len(s) /\ DOMAIN Front(s) = 1 .. Len(Front(s))
    BY <1>1, <1>2, LenProperties
<1> QED BY <1>2, <1>3 DEF IsStack

\* The length tells an empty stack from the others.
LEMMA StackEmpty ==
    /\ IsStack(<<>>) /\ Len(<<>>) = 0
    /\ \A s : IsStack(s) =>
        /\ Len(s) \in Nat /\ DOMAIN s = 1 .. Len(s)
        /\ s = <<>> <=> Len(s) = 0
BY EmptySeq, LenProperties DEF IsStack

\* A stack holds at most as many different instances as it is long.
LEMMA StackCardinality ==
    ASSUME NEW S, NEW s \in Seq(S)
    PROVE  LET T == {s[k] : k \in DOMAIN s}
           IN  IsFiniteSet(T) /\ Cardinality(T) \in Nat /\ Cardinality(T) <= Len(s)
<1> DEFINE T == {s[k] : k \in DOMAIN s}
<1>1. Len(s) \in Nat /\ DOMAIN s = 1 .. Len(s) /\ s \in [1 .. Len(s) -> S]
    BY LenProperties
<1>2. s \in Surjection(1 .. Len(s), T)
    BY <1>1 DEF Surjection
<1>3. IsFiniteSet(1 .. Len(s)) /\ Cardinality(1 .. Len(s)) = Len(s)
    BY <1>1, FS_Interval
<1> HIDE DEF T
<1>4. IsFiniteSet(T) /\ Cardinality(T) <= Cardinality(1 .. Len(s))
    BY <1>2, <1>3, FS_Surjection
<1>5. Cardinality(T) \in Nat
    BY <1>4, FS_CardinalityType
<1> QED BY <1>3, <1>4, <1>5 DEF T

-----------------------------------------------------------------------------
(* Counting the frames of given kinds on a stack of calls *)

CountOf(s, kinds) == Cardinality({i \in DOMAIN s : s[i].kind \in kinds})

\* Nothing is counted on an empty stack.
LEMMA CountEmpty ==
    ASSUME NEW kinds PROVE CountOf(<<>>, kinds) = 0
<1>1. {i \in DOMAIN <<>> : <<>>[i].kind \in kinds} = {}
    OBVIOUS
<1> QED BY <1>1, FS_EmptySet DEF CountOf

\* A pushed frame is counted when it is of one of the kinds.
LEMMA CountPush ==
    ASSUME NEW s, NEW e, NEW kinds, IsStack(s)
    PROVE  /\ CountOf(s, kinds) \in Nat
           /\ CountOf(Append(s, e), kinds) =
                CountOf(s, kinds) + IF e.kind \in kinds THEN 1 ELSE 0
<1> DEFINE n == Len(s)
           A == {i \in DOMAIN s : s[i].kind \in kinds}
           B == {i \in DOMAIN Append(s, e) : Append(s, e)[i].kind \in kinds}
<1>1. /\ n \in Nat /\ DOMAIN s = 1 .. n /\ DOMAIN Append(s, e) = 1 .. n + 1
      /\ \A k \in 1 .. n : Append(s, e)[k] = s[k]
      /\ Append(s, e)[n + 1] = e
    BY StackPush
<1>2. IsFiniteSet(1 .. n)
    BY <1>1, FS_Interval
<1>3. IsFiniteSet(A)
    BY <1>1, <1>2, FS_Subset
<1>4. B = IF e.kind \in kinds THEN A \cup {n + 1} ELSE A
    BY <1>1
<1>5. n + 1 \notin A
    BY <1>1
<1> HIDE DEF A, B
<1>6. Cardinality(A) \in Nat
    BY <1>3, FS_CardinalityType
<1>7. Cardinality(A \cup {n + 1}) = Cardinality(A) + 1
    BY <1>3, <1>5, FS_AddElement
<1>8. Cardinality(B) = Cardinality(A) + IF e.kind \in kinds THEN 1 ELSE 0
    BY <1>4, <1>6, <1>7
<1> QED BY <1>6, <1>8 DEF A, B, CountOf

\* A popped frame was.
LEMMA CountPop ==
    ASSUME NEW s, NEW kinds, IsStack(s), s # <<>>
    PROVE  /\ CountOf(Front(s), kinds) \in Nat
           /\ CountOf(s, kinds) =
                CountOf(Front(s), kinds) + IF Last(s).kind \in kinds THEN 1 ELSE 0
<1> DEFINE n == Len(s)
           A == {i \in DOMAIN Front(s) : Front(s)[i].kind \in kinds}
           B == {i \in DOMAIN s : s[i].kind \in kinds}
<1>1. /\ n \in Nat \ {0} /\ DOMAIN s = 1 .. n /\ DOMAIN Front(s) = 1 .. n - 1
      /\ \A k \in 1 .. n - 1 : Front(s)[k] = s[k]
      /\ Last(s) = s[n]
    BY StackPop
<1>2. IsFiniteSet(1 .. n - 1)
    BY <1>1, FS_Interval
<1>3. IsFiniteSet(A)
    BY <1>1, <1>2, FS_Subset
<1>4. B = IF Last(s).kind \in kinds THEN A \cup {n} ELSE A
    BY <1>1
<1>5. n \notin A
    BY <1>1
<1> HIDE DEF A, B
<1>6. Cardinality(A) \in Nat
    BY <1>3, FS_CardinalityType
<1>7. Cardinality(A \cup {n}) = Cardinality(A) + 1
    BY <1>3, <1>5, FS_AddElement
<1>8. Cardinality(B) = Cardinality(A) + IF Last(s).kind \in kinds THEN 1 ELSE 0
    BY <1>4, <1>6, <1>7
<1> QED BY <1>6, <1>8 DEF A, B, CountOf

-----------------------------------------------------------------------------
(* Sums, as MapThenSumSet computes them: by a recursion on sets that takes *)
(* an element of its own choice at each step.  That the recursion has one  *)
(* solution, in whichever order the elements are taken, is shown with a    *)
(* least counterexample: a set of least cardinality at which two solutions *)
(* differ.                                                                 *)

\* Sums are what a function that follows this recursion returns.
Sums(iter, f, S) ==
    iter = [s \in SUBSET S |->
              IF s = {} THEN 0
              ELSE LET x == CHOOSE y \in s : TRUE IN f[x] + iter[s \ {x}]]

\* Every set of natural numbers that is not empty has a least one.
LEMMA LeastNatural ==
  ASSUME NEW T \in SUBSET Nat, T # {}
  PROVE  \E n \in T : \A m \in T : n <= m
<1>1. PICK n \in T : \A m \in T : ~(<<m, n>> \in OpToRel(<, Nat))
  BY NatLessThanWellFounded, WFMin
<1>2. \A m \in T : ~(m < n)
  BY <1>1 DEF OpToRel
<1>. QED  BY <1>2

\* A set of subsets of a finite set that is not empty has one of least cardinality.
LEMMA LeastSubset ==
  ASSUME NEW S, IsFiniteSet(S), NEW T \in SUBSET (SUBSET S), T # {}
  PROVE  \E s \in T : \A x \in s : s \ {x} \notin T
<1>. DEFINE N == {Cardinality(s) : s \in T}
<1>1. \A s \in T : IsFiniteSet(s) /\ Cardinality(s) \in Nat
  BY FS_Subset, FS_CardinalityType
<1>2. N \in SUBSET Nat /\ N # {}
  BY <1>1
<1>3. PICK n \in N : \A m \in N : n <= m
  BY <1>2, LeastNatural
<1>4. PICK s \in T : Cardinality(s) = n
  OBVIOUS
<1>5. ASSUME NEW x \in s, s \ {x} \in T PROVE FALSE
  <2>1. Cardinality(s \ {x}) = Cardinality(s) - 1
    BY <1>1, <1>4, FS_RemoveElement
  <2>2. Cardinality(s \ {x}) \in N BY <1>5
  <2>3. n \in Nat /\ n <= Cardinality(s \ {x})
    BY <1>2, <1>3, <2>2
  <2>. QED  BY ONLY <1>4, <2>1, <2>3
<1>. QED  BY <1>5

\* Up to a cardinality there is a function that follows the recursion.
SumsUpTo(n, f, S) ==
    \E g \in [SUBSET S -> Int] : \A s \in SUBSET S : Cardinality(s) <= n =>
        g[s] = IF s = {} THEN 0
               ELSE f[CHOOSE y \in s : TRUE] + g[s \ {CHOOSE y \in s : TRUE}]

\* A function on a finite set has sums.
LEMMA SumsExist ==
  ASSUME NEW S, IsFiniteSet(S), NEW f \in [S -> Int]
  PROVE  \E iter \in [SUBSET S -> Int] : Sums(iter, f, S)
<1>1. \A s \in SUBSET S :
        IsFiniteSet(s) /\ Cardinality(s) \in Nat /\ Cardinality(s) <= Cardinality(S)
  BY FS_Subset, FS_CardinalityType
<1>2. SumsUpTo(0, f, S)
  <2>. DEFINE g == [s \in SUBSET S |-> 0]
  <2>1. \A s \in SUBSET S : Cardinality(s) <= 0 => s = {}
    BY <1>1, FS_EmptySet
  <2>2. g \in [SUBSET S -> Int] OBVIOUS
  <2>3. \A s \in SUBSET S : g[s] = 0 OBVIOUS
  <2>. HIDE DEF g
  <2>. QED  BY <2>1, <2>2, <2>3 DEF SumsUpTo
<1>3. ASSUME NEW n \in Nat, SumsUpTo(n, f, S) PROVE SumsUpTo(n + 1, f, S)
  <2>1. PICK g \in [SUBSET S -> Int] : \A s \in SUBSET S : Cardinality(s) <= n =>
          g[s] = IF s = {} THEN 0
                 ELSE f[CHOOSE y \in s : TRUE] + g[s \ {CHOOSE y \in s : TRUE}]
    BY <1>3 DEF SumsUpTo
  <2>. DEFINE c(s) == CHOOSE y \in s : TRUE
              h == [s \in SUBSET S |-> IF Cardinality(s) <= n THEN g[s]
                                       ELSE f[c(s)] + g[s \ {c(s)}]]
  <2>2. \A s \in SUBSET S : s # {} => c(s) \in s
    OBVIOUS
  <2>3. \A s \in SUBSET S : s # {} =>
          /\ s \ {c(s)} \in SUBSET S
          /\ Cardinality(s \ {c(s)}) = Cardinality(s) - 1
    BY <1>1, <2>2, FS_RemoveElement
  <2>4. \A s \in SUBSET S : ~(Cardinality(s) <= n) => s # {}
    <3>1. Cardinality({}) <= n BY FS_EmptySet
    <3>. QED BY <3>1
  <2>5. h \in [SUBSET S -> Int]
    <3>1. ASSUME NEW s \in SUBSET S
          PROVE  (IF Cardinality(s) <= n THEN g[s] ELSE f[c(s)] + g[s \ {c(s)}]) \in Int
      <4>1. CASE Cardinality(s) <= n BY <4>1
      <4>2. CASE ~(Cardinality(s) <= n)
        <5>1. c(s) \in S /\ s \ {c(s)} \in SUBSET S BY <2>2, <2>3, <2>4, <4>2
        <5>. QED BY <4>2, <5>1
      <4>. QED BY <4>1, <4>2
    <3>. QED BY <3>1
  <2>6. \A s \in SUBSET S : h[s] = IF Cardinality(s) <= n THEN g[s]
                                   ELSE f[c(s)] + g[s \ {c(s)}]
    OBVIOUS
  <2>7. ASSUME NEW s \in SUBSET S, Cardinality(s) <= n + 1
        PROVE  h[s] = IF s = {} THEN 0 ELSE f[c(s)] + h[s \ {c(s)}]
    <3>. HIDE DEF h, c
    <3>1. CASE s = {}
      <4>1. Cardinality(s) <= n BY <3>1, FS_EmptySet
      <4>2. h[s] = g[s] BY <2>6, <4>1
      <4>3. g[s] = 0 BY <2>1, <3>1, <4>1
      <4>. QED BY <3>1, <4>2, <4>3
    <3>2. CASE s # {}
      <4>1. h[s \ {c(s)}] = g[s \ {c(s)}]
        <5>1. /\ s \ {c(s)} \in SUBSET S
              /\ Cardinality(s \ {c(s)}) = Cardinality(s) - 1
          BY <2>3, <3>2
        <5>2. Cardinality(s \ {c(s)}) <= n
          <6>1. Cardinality(s) \in Nat BY <1>1
          <6>. QED BY ONLY <2>7, <5>1, <6>1, n \in Nat
        <5>. QED BY <2>6, <5>1, <5>2
      <4>2. h[s] = f[c(s)] + g[s \ {c(s)}]
        BY <2>1, <2>6, <3>2 DEF c
      <4>. QED BY <3>2, <4>1, <4>2
    <3>. QED BY <3>1, <3>2
  <2>. HIDE DEF h
  <2>. QED  BY <2>5, <2>7 DEF SumsUpTo
<1>4. SumsUpTo(Cardinality(S), f, S)
  <2>. DEFINE T == {n \in Nat : ~SumsUpTo(n, f, S)}
  <2>1. SUFFICES T = {} BY FS_CardinalityType
  <2>2. SUFFICES ASSUME T # {} PROVE FALSE OBVIOUS
  <2>3. PICK n \in T : \A m \in T : n <= m BY <2>2, LeastNatural
  <2>4. n # 0 BY <1>2
  <2>5. n - 1 \in Nat /\ n - 1 \notin T BY <2>3, <2>4
  <2>. QED BY <1>3, <2>5
<1>5. PICK g \in [SUBSET S -> Int] : \A s \in SUBSET S : Cardinality(s) <= Cardinality(S) =>
          g[s] = IF s = {} THEN 0
                 ELSE f[CHOOSE y \in s : TRUE] + g[s \ {CHOOSE y \in s : TRUE}]
  BY <1>4 DEF SumsUpTo
<1>6. Sums(g, f, S)
  BY <1>1, <1>5 DEF Sums
<1>. QED  BY <1>6

\* Two such functions agree on every set on which their terms agree.
LEMMA SumsUnique ==
  ASSUME NEW S, NEW f, NEW iter, Sums(iter, f, S),
         NEW T, NEW g, NEW jter, Sums(jter, g, T),
         NEW U, IsFiniteSet(U), U \subseteq S, U \subseteq T,
         \A x \in U : f[x] = g[x]
  PROVE  iter[U] = jter[U]
<1>. DEFINE Bad == {s \in SUBSET U : iter[s] # jter[s]}
<1>1. SUFFICES ASSUME Bad # {} PROVE FALSE OBVIOUS
<1>2. PICK s \in Bad : \A x \in s : s \ {x} \notin Bad BY <1>1, LeastSubset
<1>3. s \in SUBSET S /\ s \in SUBSET T OBVIOUS
<1>. DEFINE c == CHOOSE y \in s : TRUE
<1>4. iter[s] = IF s = {} THEN 0 ELSE f[c] + iter[s \ {c}] BY <1>3 DEF Sums
<1>5. jter[s] = IF s = {} THEN 0 ELSE g[c] + jter[s \ {c}] BY <1>3 DEF Sums
<1>6. s # {} BY <1>4, <1>5
<1>7. c \in s BY <1>6
<1>. HIDE DEF c
<1>8. iter[s \ {c}] = jter[s \ {c}] BY <1>2, <1>7
<1>9. f[c] = g[c] BY <1>7
<1>. QED BY <1>4, <1>5, <1>8, <1>9

\* The order in which the elements are taken does not matter.
AnyOrder(iter, f, S) ==
    \A s \in SUBSET S : \A x \in s : iter[s] = f[x] + iter[s \ {x}]

\* The sum does not depend on which element is taken first.
LEMMA SumsAnyOrder ==
  ASSUME NEW S, IsFiniteSet(S), NEW f \in [S -> Int],
         NEW iter \in [SUBSET S -> Int], Sums(iter, f, S)
  PROVE  AnyOrder(iter, f, S)
<1>. DEFINE Bad == {s \in SUBSET S : \E x \in s : iter[s] # f[x] + iter[s \ {x}]}
<1>1. SUFFICES ASSUME Bad # {} PROVE FALSE BY DEF AnyOrder
<1>2. PICK s \in Bad : \A x \in s : s \ {x} \notin Bad BY <1>1, LeastSubset
<1>3. PICK x \in s : iter[s] # f[x] + iter[s \ {x}] OBVIOUS
<1>. DEFINE c == CHOOSE y \in s : TRUE
<1>4. c \in s BY <1>3
<1>5. iter[s] = f[c] + iter[s \ {c}] BY <1>3 DEF Sums
<1>. HIDE DEF c
<1>6. c # x BY <1>3, <1>5
<1>7. iter[s \ {c}] = f[x] + iter[(s \ {c}) \ {x}]
  <2>1. x \in s \ {c} BY <1>6
  <2>. QED BY <1>2, <1>4, <2>1
<1>8. iter[s \ {x}] = f[c] + iter[(s \ {x}) \ {c}]
  <2>1. c \in s \ {x} BY <1>4, <1>6
  <2>. QED BY <1>2, <1>3, <2>1
<1>9. (s \ {c}) \ {x} = (s \ {x}) \ {c} OBVIOUS
<1>10. /\ f[x] \in Int /\ f[c] \in Int
       /\ iter[s] \in Int /\ iter[s \ {x}] \in Int /\ iter[s \ {c}] \in Int
       /\ iter[(s \ {c}) \ {x}] \in Int
  BY <1>4
<1>11. iter[s] = f[c] + (f[x] + iter[(s \ {c}) \ {x}])
  BY ONLY <1>5, <1>7
<1>12. iter[s] # f[x] + (f[c] + iter[(s \ {c}) \ {x}])
  BY ONLY <1>3, <1>8, <1>9
<1>. QED BY ONLY <1>10, <1>11, <1>12

-----------------------------------------------------------------------------
(* The sum of the values of a function *)

SumOf(f) == MapThenSumSet(LAMBDA x : f[x], DOMAIN f)

\* MapThenSumSet returns what the recursion returns for its set.
LEMMA SumOfIs ==
  ASSUME NEW S, IsFiniteSet(S), NEW f \in [S -> Int]
  PROVE  \E iter \in [SUBSET S -> Int] : Sums(iter, f, S) /\ SumOf(f) = iter[S]
<1>. DEFINE Rec(it) == it = [s \in SUBSET S |->
                 IF s = {} THEN 0
                 ELSE LET x == CHOOSE y \in s : TRUE IN f[x] + it[s \ {x}]]
            iter == CHOOSE it : Rec(it)
<1>1. DOMAIN f = S OBVIOUS
<1>2. SumOf(f) = iter[S]
  BY <1>1, Zenon DEF SumOf, MapThenSumSet, MapThenFoldSet
<1>3. PICK it \in [SUBSET S -> Int] : Sums(it, f, S)
  BY SumsExist
<1>4. Rec(it) BY <1>3 DEF Sums
<1>. HIDE DEF Rec
<1>5. Rec(iter) BY <1>4
<1>6. Sums(iter, f, S) BY <1>5 DEF Rec, Sums
<1>. HIDE DEF iter
<1>7. iter = [s \in SUBSET S |-> iter[s]] BY <1>6 DEF Sums
<1>8. \A s \in SUBSET S : iter[s] = it[s]
  <2>. TAKE s \in SUBSET S
  <2>1. IsFiniteSet(s) BY FS_Subset
  <2>. QED BY <1>3, <1>6, <2>1, SumsUnique
<1>9. iter \in [SUBSET S -> Int] BY <1>7, <1>8
<1>. QED BY <1>2, <1>6, <1>9

\* A sum of integers is an integer.
LEMMA SumOfType ==
  ASSUME NEW S, IsFiniteSet(S), NEW f \in [S -> Int]
  PROVE  SumOf(f) \in Int
<1>1. PICK iter \in [SUBSET S -> Int] : Sums(iter, f, S) /\ SumOf(f) = iter[S]
  BY SumOfIs
<1>2. iter[S] \in Int OBVIOUS
<1>. QED BY <1>1, <1>2

\* A sum changes by as much as one of its terms.
LEMMA SumOfUpdate ==
  ASSUME NEW S, IsFiniteSet(S), NEW f \in [S -> Int], NEW x \in S, NEW d \in Int
  PROVE  SumOf([f EXCEPT ![x] = d]) = (SumOf(f) - f[x]) + d
<1>. DEFINE g == [f EXCEPT ![x] = d]
<1>1. g \in [S -> Int] /\ g[x] = d /\ \A y \in S \ {x} : g[y] = f[y]
  OBVIOUS
<1>. HIDE DEF g
<1>2. PICK iter \in [SUBSET S -> Int] : Sums(iter, f, S) /\ SumOf(f) = iter[S]
  BY SumOfIs
<1>3. PICK jter \in [SUBSET S -> Int] : Sums(jter, g, S) /\ SumOf(g) = jter[S]
  BY <1>1, SumOfIs
<1>4. iter[S] = f[x] + iter[S \ {x}]
  <2>1. AnyOrder(iter, f, S) BY <1>2, SumsAnyOrder
  <2>. QED BY <2>1 DEF AnyOrder
<1>5. jter[S] = g[x] + jter[S \ {x}]
  <2>1. AnyOrder(jter, g, S) BY <1>1, <1>3, SumsAnyOrder
  <2>. QED BY <2>1 DEF AnyOrder
<1>6. iter[S \ {x}] = jter[S \ {x}]
  <2>1. IsFiniteSet(S \ {x}) BY FS_RemoveElement
  <2>. QED BY <1>1, <1>2, <1>3, <2>1, SumsUnique
<1>7. iter[S] \in Int /\ iter[S \ {x}] \in Int /\ f[x] \in Int
  OBVIOUS
<1>8. SumOf(g) = d + iter[S \ {x}] /\ SumOf(f) = f[x] + iter[S \ {x}]
  BY ONLY <1>1, <1>2, <1>3, <1>4, <1>5, <1>6
<1>9. SumOf(g) = (SumOf(f) - f[x]) + d
  BY ONLY <1>7, <1>8, d \in Int
<1>. QED BY <1>9 DEF g

\* Terms that are zero can be left out.
LEMMA SumOfPart ==
  ASSUME NEW S, IsFiniteSet(S), NEW f \in [S -> Int], NEW T \in SUBSET S,
         \A x \in S \ T : f[x] = 0
  PROVE  SumOf([x \in T |-> f[x]]) = SumOf(f)
<1>. DEFINE g == [x \in T |-> f[x]]
<1>1. IsFiniteSet(T) BY FS_Subset
<1>2. PICK iter \in [SUBSET S -> Int] : Sums(iter, f, S) /\ SumOf(f) = iter[S]
  BY SumOfIs
<1>3. g \in [T -> Int] /\ \A x \in T : g[x] = f[x] OBVIOUS
<1>. HIDE DEF g
<1>4. PICK jter \in [SUBSET T -> Int] : Sums(jter, g, T) /\ SumOf(g) = jter[T]
  BY <1>1, <1>3, SumOfIs
<1>5. iter[T] = jter[T] BY <1>1, <1>2, <1>3, <1>4, SumsUnique
<1>6. iter[S] = iter[T]
  <2>. DEFINE Bad == {s \in SUBSET S : T \subseteq s /\ iter[s] # iter[T]}
  <2>1. SUFFICES ASSUME Bad # {} PROVE FALSE OBVIOUS
  <2>2. PICK s \in Bad : \A x \in s : s \ {x} \notin Bad
    <3>1. Bad \in SUBSET (SUBSET S) OBVIOUS
    <3>. HIDE DEF Bad
    <3>. QED BY <2>1, <3>1, LeastSubset
  <2>3. PICK x \in s : x \notin T OBVIOUS
  <2>4. iter[s] = f[x] + iter[s \ {x}]
    <3>1. AnyOrder(iter, f, S) BY <1>2, SumsAnyOrder
    <3>. QED BY <2>3, <3>1 DEF AnyOrder
  <2>5. f[x] = 0 /\ iter[s \ {x}] \in Int BY <2>3
  <2>6. iter[s \ {x}] = iter[T] BY <2>2, <2>3
  <2>7. iter[s] = iter[T] BY ONLY <2>4, <2>5, <2>6
  <2>. QED BY <2>7
<1>. QED BY <1>2, <1>4, <1>5, <1>6 DEF g

\* A sum of zeros is zero.
LEMMA SumOfZero ==
  ASSUME NEW S, IsFiniteSet(S), NEW f \in [S -> Int], \A x \in S : f[x] = 0
  PROVE  SumOf(f) = 0
<1>. DEFINE g == [x \in {} |-> f[x]]
<1>1. SumOf(g) = SumOf(f) BY SumOfPart
<1>2. g \in [{} -> Int] OBVIOUS
<1>. HIDE DEF g
<1>3. PICK iter \in [SUBSET {} -> Int] : Sums(iter, g, {}) /\ SumOf(g) = iter[{}]
  BY <1>2, FS_EmptySet, SumOfIs
<1>4. iter[{}] = 0 BY <1>3 DEF Sums
<1>. QED BY <1>1, <1>3, <1>4

\* Sums can be added term by term.
LEMMA SumOfPlus ==
  ASSUME NEW S, IsFiniteSet(S), NEW f \in [S -> Int], NEW g \in [S -> Int],
         NEW h \in [S -> Int], \A x \in S : h[x] = f[x] + g[x]
  PROVE  SumOf(h) = SumOf(f) + SumOf(g)
<1>1. PICK fs \in [SUBSET S -> Int] : Sums(fs, f, S) /\ SumOf(f) = fs[S]
  BY SumOfIs
<1>2. PICK gs \in [SUBSET S -> Int] : Sums(gs, g, S) /\ SumOf(g) = gs[S]
  BY SumOfIs
<1>3. PICK hs \in [SUBSET S -> Int] : Sums(hs, h, S) /\ SumOf(h) = hs[S]
  BY SumOfIs
<1>. DEFINE Bad == {s \in SUBSET S : hs[s] # fs[s] + gs[s]}
<1>4. ASSUME Bad # {} PROVE FALSE
  <2>1. PICK s \in Bad : \A x \in s : s \ {x} \notin Bad
    <3>1. Bad \in SUBSET (SUBSET S) OBVIOUS
    <3>. HIDE DEF Bad
    <3>. QED BY <1>4, <3>1, LeastSubset
  <2>. DEFINE c == CHOOSE y \in s : TRUE
  <2>2. fs[s] = IF s = {} THEN 0 ELSE f[c] + fs[s \ {c}] BY <1>1 DEF Sums
  <2>3. gs[s] = IF s = {} THEN 0 ELSE g[c] + gs[s \ {c}] BY <1>2 DEF Sums
  <2>4. hs[s] = IF s = {} THEN 0 ELSE h[c] + hs[s \ {c}] BY <1>3 DEF Sums
  <2>5. s # {} BY <2>2, <2>3, <2>4
  <2>6. c \in s BY <2>5
  <2>. HIDE DEF c
  <2>7. hs[s \ {c}] = fs[s \ {c}] + gs[s \ {c}] BY <2>1, <2>6
  <2>8. h[c] = f[c] + g[c] /\ f[c] \in Int /\ g[c] \in Int BY <2>6
  <2>9. fs[s \ {c}] \in Int /\ gs[s \ {c}] \in Int BY <2>6
  <2>10. hs[s] = fs[s] + gs[s] BY ONLY <2>2, <2>3, <2>4, <2>5, <2>7, <2>8, <2>9
  <2>. QED BY <2>10
<1>5. S \in SUBSET S /\ S \notin Bad BY <1>4
<1>. QED BY <1>1, <1>2, <1>3, <1>5

\* A sum without one of its terms.
LEMMA SumOfRemove ==
  ASSUME NEW S, IsFiniteSet(S), NEW f \in [S -> Int], NEW x \in S
  PROVE  SumOf(f) = f[x] + SumOf([y \in S \ {x} |-> f[y]])
<1>. DEFINE g == [f EXCEPT ![x] = 0]
<1>0. 0 \in Int OBVIOUS
<1>1. SumOf(g) = (SumOf(f) - f[x]) + 0 BY <1>0, SumOfUpdate
<1>2. g \in [S -> Int] /\ g[x] = 0 /\ \A y \in S \ {x} : g[y] = f[y] OBVIOUS
<1>. HIDE DEF g
<1>3. SumOf([y \in S \ {x} |-> g[y]]) = SumOf(g)
  <2>1. \A y \in S \ (S \ {x}) : g[y] = 0 BY <1>2
  <2>2. S \ {x} \in SUBSET S OBVIOUS
  <2>. QED BY <1>2, <2>1, <2>2, SumOfPart
<1>4. [y \in S \ {x} |-> g[y]] = [y \in S \ {x} |-> f[y]] BY <1>2
<1>5. SumOf(f) \in Int /\ f[x] \in Int BY SumOfType
<1>. QED BY ONLY <1>1, <1>3, <1>4, <1>5

\* A sum of natural numbers is one, and none of its terms is larger.
LEMMA SumOfNatural ==
  ASSUME NEW S, IsFiniteSet(S), NEW f \in [S -> Nat]
  PROVE  SumOf(f) \in Nat /\ \A x \in S : f[x] <= SumOf(f)
<1>1. f \in [S -> Int] OBVIOUS
<1>2. PICK fs \in [SUBSET S -> Int] : Sums(fs, f, S) /\ SumOf(f) = fs[S]
  BY <1>1, SumOfIs
<1>. DEFINE Bad == {s \in SUBSET S : fs[s] \notin Nat}
<1>3. ASSUME Bad # {} PROVE FALSE
  <2>1. PICK s \in Bad : \A x \in s : s \ {x} \notin Bad
    <3>1. Bad \in SUBSET (SUBSET S) OBVIOUS
    <3>. HIDE DEF Bad
    <3>. QED BY <1>3, <3>1, LeastSubset
  <2>. DEFINE c == CHOOSE y \in s : TRUE
  <2>2. fs[s] = IF s = {} THEN 0 ELSE f[c] + fs[s \ {c}] BY <1>2 DEF Sums
  <2>3. s # {} BY <2>1, <2>2
  <2>4. c \in s BY <2>3
  <2>. HIDE DEF c
  <2>5. fs[s \ {c}] \in Nat /\ f[c] \in Nat BY <2>1, <2>4
  <2>6. fs[s] \in Nat BY ONLY <2>2, <2>3, <2>5
  <2>. QED BY <2>6
<1>4. \A s \in SUBSET S : fs[s] \in Nat BY <1>3
<1>5. ASSUME NEW x \in S PROVE f[x] <= SumOf(f)
  <2>1. AnyOrder(fs, f, S) BY <1>1, <1>2, SumsAnyOrder
  <2>2. fs[S] = f[x] + fs[S \ {x}] BY <2>1 DEF AnyOrder
  <2>3. fs[S \ {x}] \in Nat /\ f[x] \in Nat BY <1>4
  <2>. QED BY ONLY <1>2, <2>2, <2>3
<1>. QED BY <1>2, <1>4, <1>5

\* The sum of a term that does not change.
LEMMA SumOfConstant ==
  ASSUME NEW S, IsFiniteSet(S), NEW c \in Nat
  PROVE  SumOf([x \in S |-> c]) = c * Cardinality(S)
<1>. DEFINE f == [x \in S |-> c]
<1>1. f \in [S -> Int] /\ \A x \in S : f[x] = c OBVIOUS
<1>. HIDE DEF f
<1>2. PICK fs \in [SUBSET S -> Int] : Sums(fs, f, S) /\ SumOf(f) = fs[S]
  BY <1>1, SumOfIs
<1>. DEFINE Bad == {s \in SUBSET S : fs[s] # c * Cardinality(s)}
<1>3. ASSUME Bad # {} PROVE FALSE
  <2>1. PICK s \in Bad : \A x \in s : s \ {x} \notin Bad
    <3>1. Bad \in SUBSET (SUBSET S) OBVIOUS
    <3>. HIDE DEF Bad
    <3>. QED BY <1>3, <3>1, LeastSubset
  <2>. DEFINE d == CHOOSE y \in s : TRUE
  <2>2. fs[s] = IF s = {} THEN 0 ELSE f[d] + fs[s \ {d}] BY <1>2 DEF Sums
  <2>3. s # {}
    <3>1. s = {} => fs[s] = 0 /\ Cardinality(s) = 0 BY <2>2, FS_EmptySet
    <3>2. c * 0 = 0 BY ONLY c \in Nat
    <3>. QED BY <2>1, <3>1, <3>2
  <2>4. d \in s BY <2>3
  <2>. HIDE DEF d
  <2>5. fs[s \ {d}] = c * Cardinality(s \ {d}) /\ f[d] = c BY <1>1, <2>1, <2>4
  <2>6. IsFiniteSet(s) BY FS_Subset
  <2>7. Cardinality(s \ {d}) = Cardinality(s) - 1 /\ Cardinality(s) \in Nat
    BY <2>4, <2>6, FS_RemoveElement, FS_CardinalityType
  <2>8. \A n \in Nat : c + c * (n - 1) = c * n BY ONLY c \in Nat
  <2>9. fs[s] = c * Cardinality(s) BY ONLY <2>2, <2>3, <2>5, <2>7, <2>8
  <2>. QED BY <2>9
<1>4. S \in SUBSET S /\ S \notin Bad BY <1>3
<1>. QED BY <1>2, <1>4 DEF f

\* When each term leaves room for what the rest may be, so does the sum of the rest.
LEMMA SumOfTail ==
  ASSUME NEW n \in Nat, NEW g \in [1 .. n -> Int], NEW h \in [1 .. n -> Int],
         \A i \in 1 .. n : i < n => g[i] + h[i + 1] <= h[i],
         \A i \in 1 .. n : i = n => g[i] <= h[i]
  PROVE  \A i \in 1 .. n : SumOf([k \in i .. n |-> g[k]]) <= h[i]
<1>. DEFINE T(i) == SumOf([k \in i .. n |-> g[k]])
            Bad == {j \in Nat : j < n /\ ~(T(n - j) <= h[n - j])}
<1>1. ASSUME NEW i \in 1 .. n
      PROVE  T(i) \in Int /\ T(i) = g[i] + T(i + 1) /\ T(i + 1) \in Int
  <2>. DEFINE f == [k \in i .. n |-> g[k]]
  <2>1. IsFiniteSet(i .. n) /\ IsFiniteSet(i + 1 .. n)
    <3>1. i \in Int /\ i + 1 \in Int /\ n \in Int OBVIOUS
    <3>. QED BY <3>1, FS_Interval
  <2>2. f \in [i .. n -> Int] /\ i \in i .. n /\ f[i] = g[i] OBVIOUS
  <2>3. (i .. n) \ {i} = i + 1 .. n OBVIOUS
  <2>4. [k \in (i .. n) \ {i} |-> f[k]] = [k \in i + 1 .. n |-> g[k]] BY <2>3
  <2>5. [k \in i + 1 .. n |-> g[k]] \in [i + 1 .. n -> Int] OBVIOUS
  <2>6. T(i + 1) \in Int BY <2>1, <2>5, SumOfType
  <2>. HIDE DEF f
  <2>7. SumOf(f) \in Int BY <2>1, <2>2, SumOfType
  <2>8. SumOf(f) = f[i] + SumOf([k \in (i .. n) \ {i} |-> f[k]]) BY <2>1, <2>2, SumOfRemove
  <2>. QED BY <2>2, <2>4, <2>6, <2>7, <2>8 DEF f
<1>2. T(n + 1) = 0
  <2>. DEFINE f == [k \in n + 1 .. n |-> g[k]]
  <2>1. n + 1 .. n = {} OBVIOUS
  <2>2. f \in [n + 1 .. n -> Int] /\ \A k \in n + 1 .. n : f[k] = 0 BY <2>1
  <2>3. IsFiniteSet(n + 1 .. n) BY FS_Interval
  <2>. HIDE DEF f
  <2>4. SumOf(f) = 0 BY <2>2, <2>3, SumOfZero
  <2>. QED BY <2>4 DEF f
<1>. HIDE DEF T
<1>3. ASSUME Bad # {} PROVE FALSE
  <2>1. PICK j \in Bad : \A m \in Bad : j <= m
    <3>1. Bad \in SUBSET Nat OBVIOUS
    <3>. HIDE DEF Bad
    <3>. QED BY <1>3, <3>1, LeastNatural
  <2>2. j \in Nat /\ j < n /\ ~(T(n - j) <= h[n - j]) BY <2>1
  <2>3. PICK i \in 1 .. n : i = n - j BY <2>2
  <2>4. ~(T(i) <= h[i]) BY <2>2, <2>3
  <2>5. CASE i = n
    <3>1. T(i) = g[i] + 0 /\ g[i] <= h[i] /\ g[i] \in Int BY <1>1, <1>2, <2>5
    <3>. QED BY <2>4, <3>1
  <2>6. CASE i < n
    <3>1. j - 1 \in Nat /\ j - 1 < n /\ n - (j - 1) = i + 1 BY <2>2, <2>3, <2>6
    <3>2. j - 1 \notin Bad
      <4>1. ~(j <= j - 1) BY <2>2
      <4>. HIDE DEF Bad
      <4>. QED BY <2>1, <4>1
    <3>3. T(i + 1) <= h[i + 1] BY <3>1, <3>2
    <3>4. i + 1 \in 1 .. n BY <2>6
    <3>5. g[i] \in Int /\ h[i] \in Int /\ h[i + 1] \in Int BY <3>4
    <3>6. g[i] + h[i + 1] <= h[i] BY <2>6
    <3>7. T(i) = g[i] + T(i + 1) /\ T(i + 1) \in Int BY <1>1
    <3>8. T(i) <= h[i] BY ONLY <3>3, <3>5, <3>6, <3>7
    <3>. QED BY <2>4, <3>8
  <2>. QED BY <2>5, <2>6
<1>4. ASSUME NEW i \in 1 .. n PROVE T(i) <= h[i]
  <2>1. n - i \in Nat /\ n - i < n /\ n - (n - i) = i OBVIOUS
  <2>2. n - i \notin Bad BY <1>3
  <2>. QED BY <2>1, <2>2
<1>. QED BY <1>4 DEF T
=============================================================================
