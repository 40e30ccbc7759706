------------------------------ MODULE FiniteSums ------------------------------
(***************************************************************************)
(* What the proofs about budgets need of SumFunctionOnSet, the sum of the  *)
(* values of a function over a finite set: the sum over no element, what   *)
(* an element adds, and that it is an integer. The sum is a recursive      *)
(* function on the subsets of the set, that takes away a chosen element at *)
(* a time. That there is such a function, and that the choice does not     *)
(* matter, is shown by least counterexamples in the size of the subset.    *)
(***************************************************************************)
EXTENDS Functions, FiniteSetTheorems, TLAPS

Chosen(s) == CHOOSE x \in s : TRUE

\* g is the recursive function that the sum of f over S is taken from.
IsSum(g, f, S) ==
    g = [s \in SUBSET S |-> IF s = {} THEN 0 ELSE f[Chosen(s)] + g[s \ {Chosen(s)}]]

\* A set of naturals has a least element.
LEMMA LeastNatural ==
    ASSUME NEW T \in SUBSET Nat, T # {}
    PROVE  \E n \in T : \A k \in T : n <= k
<1> DEFINE R == OpToRel(<, Nat)
<1>1. PICK n \in T : \A k \in T : ~ (<<k, n>> \in R)
    <2> HIDE DEF R
    <2>1. IsWellFoundedOn(R, Nat)
        BY Zenon, NatLessThanWellFounded DEF R
    <2> QED
        BY Zenon, <2>1, WFMin
<1>2. R = {ss \in Nat \X Nat : ss[1] < ss[2]}
    BY Zenon DEF OpToRel
<1> HIDE DEF R
<1>3. ASSUME NEW k \in T PROVE n <= k
    <2>1. <<k, n>> \in Nat \X Nat /\ (k < n => <<k, n>> \in R)
        BY Zenon, <1>2
    <2> QED
        BY <1>1, <2>1
<1> QED
    BY Zenon, <1>3

\* A subset that is not empty is larger than what is left without an element.
LEMMA SmallerSubset ==
    ASSUME NEW S, IsFiniteSet(S), NEW s \in SUBSET S, NEW x \in s
    PROVE  /\ Cardinality(s) \in Nat /\ Cardinality(s \ {x}) \in Nat
           /\ Cardinality(s \ {x}) = Cardinality(s) - 1
           /\ s \ {x} \in SUBSET S
<1>1. IsFiniteSet(s)
    BY Zenon, FS_Subset
<1> QED
    BY Zenon, <1>1, FS_RemoveElement, FS_CardinalityType

\* The recursive function exists.
LEMMA SumExists ==
    ASSUME NEW S, IsFiniteSet(S), NEW f
    PROVE  \E g : IsSum(g, f, S)
<1> DEFINE Upto(n) == {s \in SUBSET S : Cardinality(s) <= n}
           Rec(g, n) == g = [s \in Upto(n) |->
                              IF s = {} THEN 0 ELSE f[Chosen(s)] + g[s \ {Chosen(s)}]]
           Bad == {n \in Nat : ~ \E g : Rec(g, n)}
<1>1. Bad = {}
    <2> SUFFICES ASSUME Bad # {} PROVE FALSE
        BY Zenon
    <2>1. PICK n \in Bad : \A k \in Bad : n <= k
        BY Zenon, LeastNatural
    <2>2. CASE n = 0
        <3> DEFINE g == [s \in Upto(0) |-> 0]
        <3>1. \A s \in Upto(0) : s = {}
            BY FS_Subset, FS_EmptySet, FS_CardinalityType
        <3>2. Rec(g, 0)
            BY Zenon, <3>1
        <3>3. \E h : Rec(h, n)
            BY <2>2, <3>2, Zenon
        <3> QED
            BY <2>1, <3>3, Zenon
    <2>3. CASE n # 0
        <3>1. n - 1 \in Nat /\ n - 1 \notin Bad
            <4>1. n \in Nat
                BY Zenon
            <4> HIDE DEF Bad
            <4> QED
                BY <2>1, <2>3, <4>1
        <3>2. PICK h : Rec(h, n - 1)
            BY Zenon, <3>1
        <3> DEFINE g == [s \in Upto(n) |->
                          IF s = {} THEN 0 ELSE f[Chosen(s)] + h[s \ {Chosen(s)}]]
        <3>3. ASSUME NEW s \in Upto(n), s # {}
              PROVE  g[s \ {Chosen(s)}] = h[s \ {Chosen(s)}]
            <4> DEFINE r == s \ {Chosen(s)}
            <4>1. Chosen(s) \in s
                BY Zenon, <3>3 DEF Chosen
            <4>2. r \in Upto(n - 1) /\ r \in Upto(n)
                BY <4>1, SmallerSubset
            <4> HIDE DEF r
            <4>3. h[r] = IF r = {} THEN 0 ELSE f[Chosen(r)] + h[r \ {Chosen(r)}]
                BY <3>2, <4>2, Zenon
            <4>4. g[r] = IF r = {} THEN 0 ELSE f[Chosen(r)] + h[r \ {Chosen(r)}]
                BY <4>2, Zenon
            <4>5. g[r] = h[r]
                BY Zenon, <4>3, <4>4
            <4> QED
                BY Zenon, <4>5 DEF r
        <3>4. Rec(g, n)
            BY Zenon, <3>3
        <3> QED
            BY Zenon, <2>1, <3>4
    <2> QED
        BY Zenon, <2>2, <2>3
<1>2. Cardinality(S) \in Nat /\ Upto(Cardinality(S)) = SUBSET S
    BY Zenon, FS_CardinalityType, FS_Subset
<1>3. PICK g : Rec(g, Cardinality(S))
    BY Zenon, <1>1, <1>2
<1>4. IsSum(g, f, S)
    BY <1>2, <1>3, Zenon DEF IsSum
<1> QED
    BY Zenon, <1>4

\* The sum is the value of a recursive function at the set itself.
LEMMA SumIsSum ==
    ASSUME NEW S, IsFiniteSet(S), NEW f
    PROVE  \E g : IsSum(g, f, S) /\ SumFunctionOnSet(f, S) = g[S]
<1> DEFINE g == CHOOSE g : IsSum(g, f, S)
<1>1. IsSum(g, f, S)
    BY SumExists, Zenon
<1>2. SumFunctionOnSet(f, S) = g[S]
    BY Zenon DEF SumFunctionOnSet, FoldFunctionOnSet, MapThenFoldSet, IsSum, Chosen
<1> QED
    BY <1>1, <1>2, Zenon

\* Whichever element is taken away first, the sum is the same.
LEMMA AnyElementFirst ==
    ASSUME NEW S, IsFiniteSet(S), NEW f, \A x \in S : f[x] \in Int, NEW g, IsSum(g, f, S)
    PROVE  /\ g[{}] = 0
           /\ \A s \in SUBSET S : g[s] \in Int /\ \A x \in s : g[s] = f[x] + g[s \ {x}]
<1> DEFINE Wrong(s) == ~(g[s] \in Int /\ \A x \in s : g[s] = f[x] + g[s \ {x}])
           Sizes == {n \in Nat : \E s \in SUBSET S : Cardinality(s) = n /\ Wrong(s)}
<1>1. \A s \in SUBSET S : g[s] = IF s = {} THEN 0 ELSE f[Chosen(s)] + g[s \ {Chosen(s)}]
    BY Zenon DEF IsSum
<1>2. g[{}] = 0
    BY Zenon, <1>1
<1>3. Sizes = {}
    <2> SUFFICES ASSUME Sizes # {} PROVE FALSE
        BY Zenon
    <2>1. PICK n \in Sizes : \A k \in Sizes : n <= k
        BY Zenon, LeastNatural
    <2>2. PICK s \in SUBSET S : Cardinality(s) = n /\ Wrong(s)
        BY Zenon, <2>1
    <2>3. ASSUME NEW t \in SUBSET S, Cardinality(t) \in Nat, Cardinality(t) < n PROVE ~Wrong(t)
        <3>1. n \in Nat
            BY Zenon
        <3>2. Wrong(t) => Cardinality(t) \in Sizes
            BY <2>3, Zenon
        <3> HIDE DEF Wrong, Sizes
        <3> QED
            BY <2>1, <2>3, <3>1, <3>2
    <2>0. ASSUME NEW y \in s
          PROVE  /\ s \ {y} \in SUBSET S /\ Cardinality(s \ {y}) \in Nat
                 /\ Cardinality(s \ {y}) < n /\ ~Wrong(s \ {y})
        <3>1. n \in Nat
            BY Zenon
        <3> HIDE DEF Wrong, Sizes
        <3>2. /\ Cardinality(s \ {y}) \in Nat /\ s \ {y} \in SUBSET S
              /\ Cardinality(s \ {y}) < n
            BY <2>2, <2>0, <3>1, SmallerSubset
        <3> QED
            BY Zenon, <2>3, <3>2
    <2>4. s # {}
        BY <1>2, <2>2
    <2> DEFINE c == Chosen(s)
    <2>5. c \in s /\ c \in S
        BY Zenon, <2>4 DEF Chosen
    <2>6. g[s] = f[c] + g[s \ {c}]
        BY Zenon, <1>1, <2>4
    <2>7. g[s \ {c}] \in Int /\ f[c] \in Int
        BY Zenon, <2>0, <2>5
    <2> HIDE DEF c
    <2>8. ASSUME NEW x \in s PROVE g[s] = f[x] + g[s \ {x}]
        <3>1. CASE x = c
            BY Zenon, <2>6, <3>1
        <3>2. CASE x # c
            <4>1. g[s \ {c}] = f[x] + g[(s \ {c}) \ {x}]
                BY Zenon, <2>0, <2>5, <3>2
            <4>2. g[s \ {x}] = f[c] + g[(s \ {x}) \ {c}]
                BY Zenon, <2>0, <2>5, <3>2
            <4>3. (s \ {c}) \ {x} = (s \ {x}) \ {c}
                BY Zenon
            <4>4. g[(s \ {c}) \ {x}] \in Int
                <5> DEFINE r == (s \ {c}) \ {x}
                <5>1. x \in s \ {c} /\ s \ {c} \in SUBSET S
                    BY Zenon, <2>5, <3>2
                <5>2. r \in SUBSET S /\ Cardinality(r) \in Nat /\ Cardinality(r) < n
                    <6>1. n \in Nat /\ Cardinality(s \ {c}) \in Nat /\ Cardinality(s \ {c}) < n
                        BY Zenon, <2>0, <2>5
                    <6> HIDE DEF Wrong, Sizes
                    <6> QED
                        BY <5>1, <6>1, SmallerSubset
                <5>3. ~Wrong(r)
                    BY Zenon, <2>3, <5>2
                <5> QED
                    BY Zenon, <5>3
            <4>5. f[x] \in Int
                BY Zenon
            <4>6. g[s \ {x}] = f[c] + g[(s \ {c}) \ {x}]
                BY Zenon, <4>2, <4>3
            <4> HIDE DEF Wrong, Sizes
            <4> QED
                BY <2>6, <2>7, <4>1, <4>4, <4>5, <4>6
        <3> QED
            BY Zenon, <3>1, <3>2
    <2>9. g[s] \in Int
        BY <2>6, <2>7
    <2> QED
        BY Zenon, <2>2, <2>8, <2>9
<1>4. ASSUME NEW s \in SUBSET S PROVE ~Wrong(s)
    BY Zenon, <1>3, FS_Subset, FS_CardinalityType
<1> QED
    BY Zenon, <1>2, <1>4

-----------------------------------------------------------------------------
\* The recursive functions of two sets agree on the sets that both are for.
LEMMA SumsAgree ==
    ASSUME NEW S, NEW T, IsFiniteSet(S), T \subseteq S, NEW f, \A x \in S : f[x] \in Int,
           NEW e, \A x \in T : e[x] = f[x],
           NEW g, IsSum(g, f, S), NEW h, IsSum(h, e, T)
    PROVE  \A s \in SUBSET T : g[s] = h[s]
<1> DEFINE Sizes == {n \in Nat : \E s \in SUBSET T : Cardinality(s) = n /\ g[s] # h[s]}
<1>1. IsFiniteSet(T)
    BY Zenon, FS_Subset
<1>2. Sizes = {}
    <2> SUFFICES ASSUME Sizes # {} PROVE FALSE
        BY Zenon
    <2>1. PICK n \in Sizes : \A k \in Sizes : n <= k
        BY Zenon, LeastNatural
    <2>2. PICK s \in SUBSET T : Cardinality(s) = n /\ g[s] # h[s]
        BY Zenon, <2>1
    <2>3. g[{}] = 0 /\ h[{}] = 0
        BY Zenon, <1>1, AnyElementFirst
    <2>4. PICK x \in s : TRUE
        BY Zenon, <2>2, <2>3
    <2>5. g[s] = f[x] + g[s \ {x}] /\ h[s] = e[x] + h[s \ {x}]
        <3>1. s \in SUBSET S
            BY Zenon
        <3>2. g[s] = f[x] + g[s \ {x}]
            BY <3>1, AnyElementFirst
        <3>3. \A y \in T : e[y] \in Int
            BY Zenon
        <3>4. h[s] = e[x] + h[s \ {x}]
            BY <1>1, <3>3, AnyElementFirst
        <3> QED
            BY Zenon, <3>2, <3>4
    <2>6. /\ Cardinality(s \ {x}) \in Nat /\ s \ {x} \in SUBSET T /\ n \in Nat
          /\ ~(n <= Cardinality(s \ {x}))
        BY <1>1, <2>2, SmallerSubset
    <2>7. g[s \ {x}] = h[s \ {x}]
        BY Zenon, <2>1, <2>6
    <2> QED
        BY Zenon, <2>2, <2>5, <2>7
<1>3. ASSUME NEW s \in SUBSET T PROVE g[s] = h[s]
    BY Zenon, <1>1, <1>2, FS_Subset, FS_CardinalityType
<1> QED
    BY Zenon, <1>3

\* The sum over no element.
LEMMA SumEmpty == \A f : SumFunctionOnSet(f, {}) = 0
<1> SUFFICES ASSUME NEW f PROVE SumFunctionOnSet(f, {}) = 0
    BY Zenon
<1>1. IsFiniteSet({}) /\ \A x \in {} : f[x] \in Int
    BY Zenon, FS_EmptySet
<1>2. PICK g : IsSum(g, f, {}) /\ SumFunctionOnSet(f, {}) = g[{}]
    BY Zenon, <1>1, SumIsSum
<1> QED
    BY Zenon, <1>1, <1>2, AnyElementFirst

\* A sum of integers is one.
LEMMA SumType ==
    ASSUME NEW S, IsFiniteSet(S), NEW f, \A x \in S : f[x] \in Int
    PROVE  SumFunctionOnSet(f, S) \in Int
<1>1. PICK g : IsSum(g, f, S) /\ SumFunctionOnSet(f, S) = g[S]
    BY Zenon, SumIsSum
<1> QED
    BY <1>1, AnyElementFirst

\* Sums of the same values are the same.
LEMMA SumEqual ==
    ASSUME NEW S, IsFiniteSet(S), NEW f, \A x \in S : f[x] \in Int,
           NEW e, \A x \in S : e[x] = f[x]
    PROVE  SumFunctionOnSet(e, S) = SumFunctionOnSet(f, S)
<1>1. PICK g : IsSum(g, f, S) /\ SumFunctionOnSet(f, S) = g[S]
    BY Zenon, SumIsSum
<1>2. PICK h : IsSum(h, e, S) /\ SumFunctionOnSet(e, S) = h[S]
    BY Zenon, SumIsSum
<1>3. \A s \in SUBSET S : g[s] = h[s]
    BY <1>1, <1>2, SumsAgree
<1> QED
    BY Zenon, <1>1, <1>2, <1>3

\* What an element adds to a sum.
LEMMA SumAdd ==
    ASSUME NEW S, IsFiniteSet(S), NEW x, x \notin S,
           NEW f, \A y \in S \cup {x} : f[y] \in Int,
           NEW e, \A y \in S : e[y] = f[y]
    PROVE  SumFunctionOnSet(f, S \cup {x}) = SumFunctionOnSet(e, S) + f[x]
<1> DEFINE T == S \cup {x}
<1>1. IsFiniteSet(T) /\ S \subseteq T /\ T \ {x} = S /\ x \in T
    BY Zenon, FS_AddElement
<1> HIDE DEF T
<1>2. \A y \in T : f[y] \in Int
    BY Zenon DEF T
<1>3. PICK g : IsSum(g, f, T) /\ SumFunctionOnSet(f, T) = g[T]
    BY Zenon, <1>1, SumIsSum
<1>4. PICK h : IsSum(h, e, S) /\ SumFunctionOnSet(e, S) = h[S]
    BY Zenon, SumIsSum
<1>5. g[S] = h[S]
    BY <1>1, <1>2, <1>3, <1>4, SumsAgree
<1>6. g[T] = f[x] + g[T \ {x}] /\ g[T \ {x}] \in Int
    BY <1>1, <1>2, <1>3, AnyElementFirst
<1>7. SumFunctionOnSet(f, T) = SumFunctionOnSet(e, S) + f[x]
    <2>1. f[x] \in Int
        BY Zenon, <1>1, <1>2
    <2>2. g[T] = f[x] + g[S] /\ g[S] \in Int
        BY Zenon, <1>1, <1>6
    <2>3. g[T] = g[S] + f[x]
        BY <2>1, <2>2
    <2> QED
        BY Zenon, <1>3, <1>4, <1>5, <2>3
<1> QED
    BY Zenon, <1>7 DEF T

\* A sum of naturals is one.
LEMMA SumNat ==
    ASSUME NEW S, IsFiniteSet(S), NEW f, \A x \in S : f[x] \in Nat
    PROVE  SumFunctionOnSet(f, S) \in Nat
<1>1. PICK g : IsSum(g, f, S) /\ SumFunctionOnSet(f, S) = g[S]
    BY Zenon, SumIsSum
<1>2. \A x \in S : f[x] \in Int
    OBVIOUS
<1>3. g[{}] = 0 /\ \A s \in SUBSET S : \A x \in s : g[s] = f[x] + g[s \ {x}]
    <2>1. g[{}] = 0
        BY Zenon, <1>1, <1>2, AnyElementFirst
    <2>2. ASSUME NEW s \in SUBSET S, NEW x \in s PROVE g[s] = f[x] + g[s \ {x}]
        BY <1>1, <1>2, AnyElementFirst
    <2> QED
        BY Zenon, <2>1, <2>2
<1> DEFINE Sizes == {n \in Nat : \E s \in SUBSET S : Cardinality(s) = n /\ g[s] \notin Nat}
<1>4. Sizes = {}
    <2> SUFFICES ASSUME Sizes # {} PROVE FALSE
        BY Zenon
    <2>1. PICK n \in Sizes : \A k \in Sizes : n <= k
        BY Zenon, LeastNatural
    <2>2. PICK s \in SUBSET S : Cardinality(s) = n /\ g[s] \notin Nat
        BY Zenon, <2>1
    <2>3. 0 \in Nat
        BY Zenon
    <2>4. s # {}
        BY <1>3, <2>2, <2>3, Zenon
    <2> PICK x \in s : TRUE
        BY Zenon, <2>4
    <2>5. g[s] = f[x] + g[s \ {x}]
        BY Zenon, <1>3
    <2>6. /\ Cardinality(s \ {x}) \in Nat /\ s \ {x} \in SUBSET S /\ n \in Nat
          /\ ~(n <= Cardinality(s \ {x}))
        BY <2>2, SmallerSubset
    <2>7. g[s \ {x}] \in Nat
        BY Zenon, <2>1, <2>6
    <2> QED
        BY <2>2, <2>5, <2>7
<1>5. Cardinality(S) \in Nat
    BY Zenon, FS_CardinalityType
<1> QED
    BY Zenon, <1>1, <1>4, <1>5

===============================================================================
