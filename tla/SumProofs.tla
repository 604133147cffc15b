------------------------------- MODULE SumProofs -------------------------------
(***************************************************************************)
(* Sums of a function's values over a finite set (SumFunctionOnSet of the  *)
(* community modules), as the bridge's accounts use them.  The sum is a    *)
(* fold that takes the elements in an order of its own choice; the lemmas  *)
(* here say that the order does not matter and what one change does to it. *)
(*                                                                         *)
(* Induction is over a SET of the subsets for which something holds, so    *)
(* that nothing of second order has to be instantiated.                    *)
(***************************************************************************)
EXTENDS Functions, FiniteSetTheorems, WellFoundedInduction, TLAPS

(* A nonempty set of naturals has a least element.                         *)
LEMMA LeastNatural ==
  ASSUME NEW T \in SUBSET Nat, T # {}
  PROVE  \E n \in T : \A k \in T : n <= k
<1> DEFINE R == {ss \in Nat \X Nat : ss[1] < ss[2]}
<1>1. IsWellFoundedOn(R, Nat)
  BY NatLessThanWellFounded DEF OpToRel
<1>2. PICK n \in T : \A k \in T : ~(<<k, n>> \in R)
  BY <1>1, WFMin
<1>3. ASSUME NEW k \in T PROVE n <= k
  <2>1. k \in Nat /\ n \in Nat
    OBVIOUS
  <2>2. ~(k < n)
    BY <1>2, <2>1, Zenon
  <2> QED
    BY <2>1, <2>2
<1> QED
  BY <1>3

(* Removing an element of a finite set.                                    *)
LEMMA OneLess ==
  ASSUME NEW S, IsFiniteSet(S), NEW x \in S
  PROVE  /\ IsFiniteSet(S \ {x}) /\ Cardinality(S) \in Nat \ {0}
         /\ Cardinality(S \ {x}) = Cardinality(S) - 1
<1>1. Cardinality(S) \in Nat /\ Cardinality(S) # 0
  BY FS_CardinalityType, FS_EmptySet
<1> QED
  BY <1>1, FS_RemoveElement

(* Induction over the subsets of a finite set.                             *)
LEMMA SubsetInduction ==
  ASSUME NEW S, IsFiniteSet(S), NEW P,
         \A s \in SUBSET S : (\A x \in s : s \ {x} \in P) => s \in P
  PROVE  \A s \in SUBSET S : s \in P
<1> DEFINE Bad == {s \in SUBSET S : s \notin P}
           T   == {n \in Nat : \E s \in Bad : Cardinality(s) = n}
<1> SUFFICES ASSUME Bad # {} PROVE FALSE
  OBVIOUS
<1>1. \A s \in SUBSET S : IsFiniteSet(s) /\ Cardinality(s) \in Nat
  BY FS_Subset, FS_CardinalityType
<1>2. T # {}
  BY <1>1
<1>3. PICK n \in T : \A k \in T : n <= k
  <2> HIDE DEF T
  <2>1. T \in SUBSET Nat
    BY DEF T
  <2> QED
    BY <1>2, <2>1, LeastNatural
<1>4. PICK s \in Bad : Cardinality(s) = n
  OBVIOUS
<1>5. ASSUME NEW x \in s PROVE s \ {x} \in P
  <2>1. Cardinality(s \ {x}) = n - 1 /\ Cardinality(s \ {x}) \in Nat /\ n \in Nat
    BY <1>1, <1>4, OneLess
  <2>2. SUFFICES ASSUME s \ {x} \notin P PROVE FALSE
    OBVIOUS
  <2>3. n - 1 \in T
    BY <2>1, <2>2
  <2>4. n <= n - 1
    BY <1>3, <2>3
  <2> QED
    BY <2>1, <2>4
<1> QED
  BY <1>4, <1>5

-----------------------------------------------------------------------------
(* The recursive function behind the fold, on a collection D of sets.      *)
IsSum(f, D, it) ==
  it = [s \in D |-> IF s = {} THEN 0
                    ELSE LET x == CHOOSE y \in s : TRUE IN f[x] + it[s \ {x}]]

LEMMA SumIsChosen ==
  ASSUME NEW f, NEW S
  PROVE  SumFunctionOnSet(f, S) = (CHOOSE it : IsSum(f, SUBSET S, it))[S]
BY DEF SumFunctionOnSet, FoldFunctionOnSet, MapThenFoldSet, IsSum

(* It exists, built up by the number of elements.                          *)
LEMMA SumExists ==
  ASSUME NEW f, NEW S, IsFiniteSet(S)
  PROVE  \E it : IsSum(f, SUBSET S, it)
<1> DEFINE L(n) == {s \in SUBSET S : Cardinality(s) <= n}
           T    == {n \in Nat : ~ \E it : IsSum(f, L(n), it)}
<1>1. \A s \in SUBSET S : /\ IsFiniteSet(s) /\ Cardinality(s) \in Nat
                          /\ Cardinality(s) <= Cardinality(S)
  BY FS_Subset, FS_CardinalityType
<1>2. SUFFICES T = {}
  <2>1. Cardinality(S) \in Nat /\ L(Cardinality(S)) = SUBSET S
    BY <1>1
  <2> QED
    BY <2>1
<1>3. SUFFICES ASSUME T # {} PROVE FALSE
  OBVIOUS
<1>4. PICK n \in T : \A k \in T : n <= k
  <2> HIDE DEF T
  <2>1. T \in SUBSET Nat
    BY DEF T
  <2> QED
    BY <1>3, <2>1, LeastNatural
<1>5. n \in Nat
  OBVIOUS
<1>6. \A s \in SUBSET S : s # {} => /\ (CHOOSE y \in s : TRUE) \in s
                                    /\ s \ {CHOOSE y \in s : TRUE} \in SUBSET S
                                    /\ Cardinality(s) \in Nat \ {0}
                                    /\ Cardinality(s \ {CHOOSE y \in s : TRUE}) = Cardinality(s) - 1
  BY <1>1, OneLess
<1>7. CASE n = 0
  <2> DEFINE it == [s \in L(0) |-> 0]
  <2>1. \A s \in L(0) : s = {}
    BY <1>1, FS_EmptySet
  <2>2. IsSum(f, L(0), it)
    BY <2>1 DEF IsSum
  <2> QED
    BY <1>7, <2>2
<1>8. CASE n # 0
  <2>1. n - 1 \in Nat /\ n - 1 \notin T
    <3> HIDE DEF T
    <3>1. n - 1 \in Nat /\ ~(n <= n - 1)
      BY <1>5, <1>8
    <3> QED
      BY <1>4, <3>1
  <2>2. PICK g : IsSum(f, L(n - 1), g)
    BY <2>1
  <2> DEFINE c(s) == CHOOSE y \in s : TRUE
  <2>3. PICK it : it = [s \in L(n) |-> IF s = {} THEN 0 ELSE f[c(s)] + g[s \ {c(s)}]]
    OBVIOUS
  <2>4. ASSUME NEW s \in L(n - 1) PROVE it[s] = g[s]
    <3>1. s \in L(n)
      BY <1>1, <1>5
    <3>2. g[s] = IF s = {} THEN 0 ELSE f[c(s)] + g[s \ {c(s)}]
      BY <2>2 DEF IsSum
    <3> QED
      BY <2>3, <3>1, <3>2
  <2>5. ASSUME NEW s \in L(n), s # {} PROVE s \ {c(s)} \in L(n - 1)
    <3>1. Cardinality(s) <= n /\ Cardinality(s) \in Nat \ {0}
          /\ s \ {c(s)} \in SUBSET S /\ Cardinality(s \ {c(s)}) = Cardinality(s) - 1
      BY <1>6, <2>5
    <3> QED
      BY <1>5, <3>1
  <2>6. it = [s \in L(n) |-> IF s = {} THEN 0 ELSE f[c(s)] + it[s \ {c(s)}]]
    <3> DEFINE old(s) == IF s = {} THEN 0 ELSE f[c(s)] + g[s \ {c(s)}]
               new(s) == IF s = {} THEN 0 ELSE f[c(s)] + it[s \ {c(s)}]
    <3> HIDE DEF L
    <3>1. \A s \in L(n) : s # {} => it[s \ {c(s)}] = g[s \ {c(s)}]
      BY <2>4, <2>5
    <3>2. \A s \in L(n) : old(s) = new(s)
      BY <3>1
    <3>3. it = [s \in L(n) |-> old(s)]
      BY <2>3
    <3> HIDE DEF old, new
    <3>4. it = [s \in L(n) |-> new(s)]
      BY <3>2, <3>3
    <3> QED
      BY <3>4 DEF new
  <2>7. IsSum(f, L(n), it)
    BY <2>6 DEF IsSum
  <2> QED
    BY <2>7
<1> QED
  BY <1>7, <1>8

(* The sum over a part of S is what the function for S says of that part.  *)
LEMMA SumOfPart ==
  ASSUME NEW f, NEW S, IsFiniteSet(S), NEW it, IsSum(f, SUBSET S, it), NEW part \in SUBSET S
  PROVE  SumFunctionOnSet(f, part) = it[part]
<1>1. IsFiniteSet(part)
  BY FS_Subset
<1>2. PICK own : own = CHOOSE x : IsSum(f, SUBSET part, x)
  OBVIOUS
<1>3. IsSum(f, SUBSET part, own)
  BY <1>1, <1>2, SumExists
<1> DEFINE P == {s \in SUBSET part : own[s] = it[s]}
<1>4. ASSUME NEW s \in SUBSET part, \A x \in s : s \ {x} \in P
      PROVE  s \in P
  <2>1. own[s] = IF s = {} THEN 0
                 ELSE f[CHOOSE y \in s : TRUE] + own[s \ {CHOOSE y \in s : TRUE}]
    BY <1>3 DEF IsSum
  <2>2. it[s] = IF s = {} THEN 0
                ELSE f[CHOOSE y \in s : TRUE] + it[s \ {CHOOSE y \in s : TRUE}]
    BY DEF IsSum
  <2>3. s # {} => own[s \ {CHOOSE y \in s : TRUE}] = it[s \ {CHOOSE y \in s : TRUE}]
    <3>1. s # {} => (CHOOSE y \in s : TRUE) \in s
      OBVIOUS
    <3> QED
      BY <1>4, <3>1
  <2>4. own[s] = it[s]
    BY <2>1, <2>2, <2>3
  <2> QED
    BY <2>4
<1>5. part \in P
  <2> HIDE DEF P
  <2>1. \A s \in SUBSET part : (\A x \in s : s \ {x} \in P) => s \in P
    BY <1>4
  <2> QED
    BY <1>1, <2>1, SubsetInduction
<1>6. SumFunctionOnSet(f, part) = own[part]
  BY <1>2, SumIsChosen
<1> QED
  BY <1>5, <1>6

(* The sum over no elements, and over some: of one and of the others.      *)
LEMMA SumUnfold ==
  ASSUME NEW f, NEW S, IsFiniteSet(S)
  PROVE  SumFunctionOnSet(f, S) =
           IF S = {} THEN 0
           ELSE f[CHOOSE y \in S : TRUE] + SumFunctionOnSet(f, S \ {CHOOSE y \in S : TRUE})
<1>1. PICK it : IsSum(f, SUBSET S, it)
  BY SumExists
<1>2. \A part \in SUBSET S : SumFunctionOnSet(f, part) = it[part]
  BY <1>1, SumOfPart
<1>3. it[S] = IF S = {} THEN 0
              ELSE f[CHOOSE y \in S : TRUE] + it[S \ {CHOOSE y \in S : TRUE}]
  BY <1>1 DEF IsSum
<1> QED
  BY <1>2, <1>3

-----------------------------------------------------------------------------
(* Nothing adds up to nothing. *)
LEMMA SumEmpty ==
  ASSUME NEW f
  PROVE  SumFunctionOnSet(f, {}) = 0
<1>1. IsFiniteSet({})
  BY FS_EmptySet
<1> QED
  BY <1>1, SumUnfold

(* A sum of naturals is a natural. *)
LEMMA SumNat ==
  ASSUME NEW S, IsFiniteSet(S), NEW f, \A x \in S : f[x] \in Nat
  PROVE  SumFunctionOnSet(f, S) \in Nat
<1> DEFINE P == {s \in SUBSET S : SumFunctionOnSet(f, s) \in Nat}
<1>1. ASSUME NEW s \in SUBSET S, \A x \in s : s \ {x} \in P
      PROVE  s \in P
  <2>1. IsFiniteSet(s)
    BY FS_Subset
  <2>2. CASE s = {}
    BY <2>2, SumEmpty
  <2>3. CASE s # {}
    <3>1. PICK c \in s : SumFunctionOnSet(f, s) = f[c] + SumFunctionOnSet(f, s \ {c})
      BY <2>1, <2>3, SumUnfold
    <3>2. f[c] \in Nat /\ SumFunctionOnSet(f, s \ {c}) \in Nat
      BY <1>1
    <3> QED
      BY <3>1, <3>2
  <2> QED
    BY <2>2, <2>3
<1>2. S \in P
  <2> HIDE DEF P
  <2>1. \A s \in SUBSET S : (\A x \in s : s \ {x} \in P) => s \in P
    BY <1>1
  <2>2. \A s \in SUBSET S : s \in P
    BY <2>1, SubsetInduction
  <2> QED
    BY <2>2
<1> QED
  BY <1>2

(* Any element can be taken out first. *)
LEMMA SumRemove ==
  ASSUME NEW S, IsFiniteSet(S), NEW f, \A x \in S : f[x] \in Nat, NEW a \in S
  PROVE  /\ SumFunctionOnSet(f, S) = f[a] + SumFunctionOnSet(f, S \ {a})
         /\ SumFunctionOnSet(f, S \ {a}) \in Nat
<1> DEFINE P == {s \in SUBSET S : \A x \in s :
                   SumFunctionOnSet(f, s) = f[x] + SumFunctionOnSet(f, s \ {x})}
<1>1. \A s \in SUBSET S : IsFiniteSet(s) /\ SumFunctionOnSet(f, s) \in Nat
  <2>1. \A s \in SUBSET S : IsFiniteSet(s)
    BY FS_Subset
  <2>2. ASSUME NEW s \in SUBSET S PROVE SumFunctionOnSet(f, s) \in Nat
    BY <2>1, SumNat
  <2> QED
    BY <2>1, <2>2
<1>2. ASSUME NEW s \in SUBSET S, \A x \in s : s \ {x} \in P, NEW x \in s
      PROVE  SumFunctionOnSet(f, s) = f[x] + SumFunctionOnSet(f, s \ {x})
  <2>1. PICK c \in s : SumFunctionOnSet(f, s) = f[c] + SumFunctionOnSet(f, s \ {c})
    BY <1>1, SumUnfold
  <2>2. CASE x = c
    BY <2>1, <2>2
  <2>3. CASE x # c
    <3>1. SumFunctionOnSet(f, s \ {c}) = f[x] + SumFunctionOnSet(f, (s \ {c}) \ {x})
      BY <1>2, <2>3
    <3>2. SumFunctionOnSet(f, s \ {x}) = f[c] + SumFunctionOnSet(f, (s \ {x}) \ {c})
      BY <1>2, <2>3
    <3>3. (s \ {c}) \ {x} = (s \ {x}) \ {c}
      OBVIOUS
    <3>4. f[x] \in Nat /\ f[c] \in Nat /\ SumFunctionOnSet(f, (s \ {c}) \ {x}) \in Nat
      BY <1>1
    <3>5. ASSUME NEW i \in Nat, NEW j \in Nat, NEW k \in Nat PROVE i + (j + k) = j + (i + k)
      OBVIOUS
    <3>6. f[c] + (f[x] + SumFunctionOnSet(f, (s \ {c}) \ {x}))
            = f[x] + (f[c] + SumFunctionOnSet(f, (s \ {c}) \ {x}))
      <4> HIDE DEF P
      <4> QED
        BY <3>4, <3>5
    <3> QED
      BY <2>1, <3>1, <3>2, <3>3, <3>6, Zenon
  <2> QED
    BY <2>2, <2>3
<1>3. S \in P
  <2>1. \A s \in SUBSET S : (\A x \in s : s \ {x} \in P) => s \in P
    BY <1>2
  <2> HIDE DEF P
  <2>2. \A s \in SUBSET S : s \in P
    BY <2>1, SubsetInduction
  <2> QED
    BY <2>2
<1> QED
  BY <1>1, <1>3

(* Adding an element. *)
LEMMA SumAdd ==
  ASSUME NEW S, IsFiniteSet(S), NEW a, a \notin S, NEW f, \A x \in S \cup {a} : f[x] \in Nat
  PROVE  SumFunctionOnSet(f, S \cup {a}) = SumFunctionOnSet(f, S) + f[a]
<1>1. IsFiniteSet(S \cup {a}) /\ (S \cup {a}) \ {a} = S
  BY FS_AddElement
<1>2. SumFunctionOnSet(f, S \cup {a}) = f[a] + SumFunctionOnSet(f, S)
  BY <1>1, SumRemove
<1>3. f[a] \in Nat /\ SumFunctionOnSet(f, S) \in Nat
  BY SumNat
<1> QED
  BY <1>2, <1>3

(* Only the values on the set count. *)
LEMMA SumSame ==
  ASSUME NEW S, IsFiniteSet(S), NEW f, NEW g, \A x \in S : f[x] = g[x]
  PROVE  SumFunctionOnSet(f, S) = SumFunctionOnSet(g, S)
<1> DEFINE P == {s \in SUBSET S : SumFunctionOnSet(f, s) = SumFunctionOnSet(g, s)}
<1>1. ASSUME NEW s \in SUBSET S, \A x \in s : s \ {x} \in P
      PROVE  SumFunctionOnSet(f, s) = SumFunctionOnSet(g, s)
  <2>1. IsFiniteSet(s)
    BY FS_Subset
  <2>2. CASE s = {}
    BY <2>2, SumEmpty
  <2>3. CASE s # {}
    <3>1. PICK c \in s : /\ SumFunctionOnSet(f, s) = f[c] + SumFunctionOnSet(f, s \ {c})
                         /\ SumFunctionOnSet(g, s) = g[c] + SumFunctionOnSet(g, s \ {c})
      BY <2>1, <2>3, SumUnfold
    <3>2. SumFunctionOnSet(f, s \ {c}) = SumFunctionOnSet(g, s \ {c}) /\ f[c] = g[c]
      BY <1>1
    <3> QED
      BY <3>1, <3>2
  <2> QED
    BY <2>2, <2>3
<1>2. S \in P
  <2>1. \A s \in SUBSET S : (\A x \in s : s \ {x} \in P) => s \in P
    BY <1>1
  <2> HIDE DEF P
  <2>2. \A s \in SUBSET S : s \in P
    BY <2>1, SubsetInduction
  <2> QED
    BY <2>2
<1> QED
  BY <1>2

(* One value changes and the others stay. *)
LEMMA SumChange ==
  ASSUME NEW S, IsFiniteSet(S), NEW a \in S, NEW f, NEW g,
         \A x \in S : f[x] \in Nat /\ g[x] \in Nat /\ (x # a => g[x] = f[x])
  PROVE  SumFunctionOnSet(g, S) + f[a] = SumFunctionOnSet(f, S) + g[a]
<1>1. IsFiniteSet(S \ {a})
  BY FS_Subset
<1>2. SumFunctionOnSet(f, S \ {a}) = SumFunctionOnSet(g, S \ {a})
  BY <1>1, SumSame
<1>3. /\ SumFunctionOnSet(f, S) = f[a] + SumFunctionOnSet(f, S \ {a})
      /\ SumFunctionOnSet(g, S) = g[a] + SumFunctionOnSet(g, S \ {a})
      /\ SumFunctionOnSet(f, S \ {a}) \in Nat
  BY SumRemove
<1>4. f[a] \in Nat /\ g[a] \in Nat
  OBVIOUS
<1> QED
  BY <1>2, <1>3, <1>4

(* No summand exceeds the sum. *)
LEMMA SumBounds ==
  ASSUME NEW S, IsFiniteSet(S), NEW f, \A x \in S : f[x] \in Nat, NEW a \in S
  PROVE  f[a] <= SumFunctionOnSet(f, S)
<1>1. /\ SumFunctionOnSet(f, S) = f[a] + SumFunctionOnSet(f, S \ {a})
      /\ SumFunctionOnSet(f, S \ {a}) \in Nat
  BY SumRemove
<1>2. f[a] \in Nat
  OBVIOUS
<1> QED
  BY <1>1, <1>2

(* The same value on a part of the set and nothing elsewhere.              *)
LEMMA SumOfEqual ==
  ASSUME NEW S, IsFiniteSet(S), NEW part, NEW k \in Nat, NEW f,
         \A x \in S : f[x] = IF x \in part THEN k ELSE 0
  PROVE  /\ SumFunctionOnSet(f, S) = k * Cardinality(S \cap part)
         /\ Cardinality(S \cap part) \in Nat
<1> DEFINE P == {s \in SUBSET S : SumFunctionOnSet(f, s) = k * Cardinality(s \cap part)}
<1>1. \A s \in SUBSET S : /\ IsFiniteSet(s) /\ IsFiniteSet(s \cap part)
                          /\ Cardinality(s \cap part) \in Nat
  <2>1. \A s \in SUBSET S : s \cap part \in SUBSET S
    OBVIOUS
  <2> QED
    BY <2>1, FS_Subset, FS_CardinalityType
<1>2. ASSUME NEW s \in SUBSET S, \A x \in s : s \ {x} \in P
      PROVE  SumFunctionOnSet(f, s) = k * Cardinality(s \cap part)
  <2>1. CASE s = {}
    <3>1. Cardinality(s \cap part) = 0
      BY <1>1, <2>1, FS_EmptySet
    <3>2. k * 0 = 0
      OBVIOUS
    <3> QED
      BY <2>1, <3>1, <3>2, SumEmpty
  <2>2. CASE s # {}
    <3>1. PICK c \in s : SumFunctionOnSet(f, s) = f[c] + SumFunctionOnSet(f, s \ {c})
      BY <1>1, <2>2, SumUnfold
    <3>2. SumFunctionOnSet(f, s \ {c}) = k * Cardinality((s \ {c}) \cap part)
      BY <1>2
    <3>3. CASE c \in part
      <4>1. c \in s \cap part /\ (s \ {c}) \cap part = (s \cap part) \ {c}
        BY <3>3
      <4>2. /\ Cardinality(s \cap part) \in Nat \ {0}
            /\ Cardinality((s \ {c}) \cap part) = Cardinality(s \cap part) - 1
        BY <1>1, <4>1, OneLess
      <4>3. \A n \in Nat \ {0} : k + k * (n - 1) = k * n
        BY SMT
      <4>4. f[c] = k
        BY <3>3
      <4> HIDE DEF P
      <4>5. k + k * (Cardinality(s \cap part) - 1) = k * Cardinality(s \cap part)
        BY <4>2, <4>3
      <4> QED
        BY <3>1, <3>2, <4>2, <4>4, <4>5
    <3>4. CASE c \notin part
      <4>1. (s \ {c}) \cap part = s \cap part
        BY <3>4
      <4>2. f[c] = 0
        BY <3>4
      <4>3. \A n \in Nat : k * n \in Nat
        BY SMT
      <4>4. k * Cardinality(s \cap part) \in Nat
        BY <1>1, <4>3
      <4> HIDE DEF P
      <4>5. 0 + k * Cardinality(s \cap part) = k * Cardinality(s \cap part)
        BY <4>4
      <4> QED
        BY <3>1, <3>2, <4>1, <4>2, <4>5, Zenon
    <3> QED
      BY <3>3, <3>4
  <2> QED
    BY <2>1, <2>2
<1>3. S \in P
  <2>1. \A s \in SUBSET S : (\A x \in s : s \ {x} \in P) => s \in P
    BY <1>2
  <2> HIDE DEF P
  <2>2. \A s \in SUBSET S : s \in P
    BY <2>1, SubsetInduction
  <2> QED
    BY <2>2
<1> QED
  BY <1>1, <1>3

Gains(f, g, S, a, v) ==
  \A x \in S : f[x] \in Nat /\ g[x] = IF x = a THEN f[x] + v ELSE f[x]

(* One value grows. *)
LEMMA SumGain ==
  ASSUME NEW S, IsFiniteSet(S), NEW a \in S, NEW v \in Nat, NEW f, NEW g, Gains(f, g, S, a, v)
  PROVE  /\ SumFunctionOnSet(g, S) = SumFunctionOnSet(f, S) + v
         /\ SumFunctionOnSet(f, S) \in Nat
<1>1. \A x \in S : f[x] \in Nat /\ g[x] \in Nat /\ (x # a => g[x] = f[x])
  BY DEF Gains
<1>2. SumFunctionOnSet(g, S) + f[a] = SumFunctionOnSet(f, S) + g[a]
  BY <1>1, SumChange
<1>3. f[a] \in Nat /\ g[a] = f[a] + v
  BY DEF Gains
<1>4. SumFunctionOnSet(f, S) \in Nat /\ SumFunctionOnSet(g, S) \in Nat
  BY <1>1, SumNat
<1> QED
  BY <1>2, <1>3, <1>4

(* Two values grow, which may be the same one. *)
TwoGains(f, g, S, a, v, b, w) ==
  \A x \in S : /\ f[x] \in Nat
               /\ g[x] = f[x] + ((IF x = a THEN v ELSE 0) + (IF x = b THEN w ELSE 0))

LEMMA SumTwoGains ==
  ASSUME NEW S, IsFiniteSet(S), NEW a \in S, NEW b \in S, NEW v \in Nat, NEW w \in Nat,
         NEW f, NEW g, TwoGains(f, g, S, a, v, b, w)
  PROVE  /\ SumFunctionOnSet(g, S) = SumFunctionOnSet(f, S) + (v + w)
         /\ SumFunctionOnSet(f, S) \in Nat
<1> DEFINE h == [x \in S |-> IF x = a THEN f[x] + v ELSE f[x]]
<1>1. /\ SumFunctionOnSet(h, S) = SumFunctionOnSet(f, S) + v
      /\ SumFunctionOnSet(f, S) \in Nat
  <2>1. Gains(f, h, S, a, v)
    BY DEF TwoGains, Gains
  <2> HIDE DEF h
  <2> QED
    BY <2>1, SumGain
<1>2. SumFunctionOnSet(g, S) = SumFunctionOnSet(h, S) + w
  <2>1. Gains(h, g, S, b, w)
    BY DEF TwoGains, Gains
  <2> HIDE DEF h
  <2> QED
    BY <2>1, SumGain
<1> HIDE DEF h
<1> QED
  BY <1>1, <1>2
=============================================================================
