--------------------------- MODULE DataTheorems ---------------------------
(***************************************************************************)
(* Lemmas about data that several components need: what sums over finite   *)
(* sets compute, and what the operations on a linked list do to the keys   *)
(* it holds.                                                               *)
(*                                                                         *)
(* SumFunctionOnSet is a recursive function over the subsets of its set: a *)
(* set is well-founded under strict inclusion, so that a property of all   *)
(* its subsets is a set of subsets that holds whatever follows from the    *)
(* smaller ones.  That form of induction takes no operator as a parameter. *)
(***************************************************************************)
EXTENDS Integers, Sequences, FiniteSets, Functions, LinkedList, FiniteSetTheorems,
        WellFoundedInduction, TLAPS

\* Every subset is good that is good if all its proper subsets are.
LEMMA SubsetInduction ==
    ASSUME NEW S, IsFiniteSet(S), NEW Good \in SUBSET SUBSET S,
           \A T \in SUBSET S : (\A U \in SUBSET T : U # T => U \in Good) => T \in Good
    PROVE  Good = SUBSET S
  <1> DEFINE Bad == (SUBSET S) \ Good
             FS == FiniteSubsetsOf(S)
             R == StrictSubsetOrdering(S)
  <1>1. IsWellFoundedOn(R, FS) BY FS_StrictSubsetOrderingWellFounded
  <1>2. Bad \subseteq FS BY FS_Subset DEF FiniteSubsetsOf
  <1>3. ASSUME Bad # {} PROVE FALSE
    <2> HIDE DEF FS, R, Bad
    <2>1. PICK x \in Bad : \A y \in Bad : <<y, x>> \notin R
      BY <1>1, <1>2, <1>3, WFMin
    <2> USE DEF R, Bad
    <2>2. QED BY <2>1 DEF StrictSubsetOrdering
  <1>4. QED BY <1>3

\* The element the sum takes first.
Chosen(s) == CHOOSE x \in s : TRUE

\* g is the function the sum of f over S recurses through.
Walk(f, S, g) ==
    g = [s \in SUBSET S |-> IF s = {} THEN 0
                            ELSE f[Chosen(s)] + g[s \ {Chosen(s)}]]

\* The fold behind the library's sum, with the operators it is given.
LEMMA SumIsWalk ==
    ASSUME NEW f, NEW S
    PROVE  SumFunctionOnSet(f, S) = (CHOOSE g : Walk(f, S, g))[S]
  BY DEF SumFunctionOnSet, FoldFunctionOnSet, MapThenFoldSet, Walk, Chosen

\* An element is chosen from every set that has one.
LEMMA ChosenIn ==
    ASSUME NEW S, S # {}
    PROVE  Chosen(S) \in S
  BY DEF Chosen

\* The recursion defines at most one function.
LEMMA WalkUnique ==
    ASSUME NEW f, NEW S, IsFiniteSet(S), NEW g, NEW h, Walk(f, S, g), Walk(f, S, h)
    PROVE  g = h
  <1> DEFINE Good == {T \in SUBSET S : g[T] = h[T]}
  <1>1. ASSUME NEW T \in SUBSET S, \A U \in SUBSET T : U # T => U \in Good
        PROVE  T \in Good
    <2>1. CASE T = {} BY <2>1 DEF Walk
    <2>2. CASE T # {}
      <3>1. Chosen(T) \in T BY <2>2, ChosenIn
      <3>2. g[T \ {Chosen(T)}] = h[T \ {Chosen(T)}] BY <1>1, <3>1
      <3>3. QED BY <2>2, <3>2 DEF Walk
    <2>3. QED BY <2>1, <2>2
  <1>2. Good \in SUBSET SUBSET S OBVIOUS
  <1> HIDE DEF Good
  <1>3. Good = SUBSET S BY <1>1, <1>2, SubsetInduction
  <1> USE DEF Good
  <1>4. \A T \in SUBSET S : g[T] = h[T] BY <1>3
  <1>5. QED BY <1>4 DEF Walk

\* The sum with its first element taken out.
Unfolded(f, T) ==
    IF T = {} THEN 0
    ELSE f[Chosen(T)] + SumFunctionOnSet(f, T \ {Chosen(T)})

\* The recursion does define a function, and the sum is its value.
LEMMA SumUnfolds ==
    ASSUME NEW f, NEW S, IsFiniteSet(S)
    PROVE  SumFunctionOnSet(f, S) = Unfolded(f, S)
  <1> DEFINE Good == {T \in SUBSET S : SumFunctionOnSet(f, T) = Unfolded(f, T)}
  <1>1. ASSUME NEW T \in SUBSET S, \A U \in SUBSET T : U # T => U \in Good
        PROVE  T \in Good
    <2> DEFINE G == [s \in SUBSET T |-> Unfolded(f, s)]
    <2>1. ASSUME NEW s \in SUBSET T, s # {}
          PROVE  Unfolded(f, s) = f[Chosen(s)] + G[s \ {Chosen(s)}]
      <3>1. Chosen(s) \in s BY <2>1, ChosenIn
      <3>2. s \ {Chosen(s)} \in Good BY <1>1, <3>1
      <3>3. QED BY <2>1, <3>2 DEF Unfolded
    <2>2. Unfolded(f, {}) = 0 BY DEF Unfolded
    <2>3. G = [s \in SUBSET T |-> IF s = {} THEN 0 ELSE f[Chosen(s)] + G[s \ {Chosen(s)}]]
      BY <2>1, <2>2
    <2>4. Walk(f, T, G) BY <2>3 DEF Walk
    <2> HIDE DEF G
    <2>5. Walk(f, T, CHOOSE g : Walk(f, T, g)) BY <2>4
    <2>6. (CHOOSE g : Walk(f, T, g)) = G BY <2>4, <2>5, WalkUnique, FS_Subset
    <2> USE DEF G
    <2>7. G[T] = Unfolded(f, T) OBVIOUS
    <2>8. QED BY <2>6, <2>7, SumIsWalk
  <1>2. Good \in SUBSET SUBSET S OBVIOUS
  <1> HIDE DEF Good
  <1>3. Good = SUBSET S BY <1>1, <1>2, SubsetInduction
  <1> USE DEF Good
  <1>4. QED BY <1>3

\* A sum of nothing.
LEMMA SumEmpty ==
    ASSUME NEW f
    PROVE  SumFunctionOnSet(f, {}) = 0
  BY SumUnfolds, FS_EmptySet DEF Unfolded

\* A sum of integers is an integer.
LEMMA SumType ==
    ASSUME NEW S, IsFiniteSet(S), NEW f, \A x \in S : f[x] \in Int
    PROVE  SumFunctionOnSet(f, S) \in Int
  <1> DEFINE Good == {T \in SUBSET S : SumFunctionOnSet(f, T) \in Int}
  <1>1. ASSUME NEW T \in SUBSET S, \A U \in SUBSET T : U # T => U \in Good
        PROVE  T \in Good
    <2>0. IsFiniteSet(T) BY FS_Subset
    <2>1. CASE T = {} BY <2>1, SumEmpty
    <2>2. CASE T # {}
      <3>1. Chosen(T) \in T BY <2>2, ChosenIn
      <3>2. SumFunctionOnSet(f, T \ {Chosen(T)}) \in Int BY <1>1, <3>1
      <3>3. QED BY <2>0, <2>2, <3>1, <3>2, SumUnfolds DEF Unfolded
    <2>3. QED BY <2>1, <2>2
  <1>2. Good \in SUBSET SUBSET S OBVIOUS
  <1> HIDE DEF Good
  <1>3. Good = SUBSET S BY <1>1, <1>2, SubsetInduction
  <1> USE DEF Good
  <1>4. QED BY <1>3

\* Any element can be taken out of the sum, not only the chosen one.
LEMMA SumTake ==
    ASSUME NEW S, IsFiniteSet(S), NEW f, \A x \in S : f[x] \in Int, NEW x \in S
    PROVE  SumFunctionOnSet(f, S) = f[x] + SumFunctionOnSet(f, S \ {x})
  <1> DEFINE Good == {T \in SUBSET S : \A y \in T :
                         SumFunctionOnSet(f, T) = f[y] + SumFunctionOnSet(f, T \ {y})}
  <1>1. ASSUME NEW T \in SUBSET S, \A U \in SUBSET T : U # T => U \in Good
        PROVE  T \in Good
    <2>0. IsFiniteSet(T) BY FS_Subset
    <2> SUFFICES ASSUME NEW y \in T
                 PROVE  SumFunctionOnSet(f, T) = f[y] + SumFunctionOnSet(f, T \ {y})
      OBVIOUS
    <2> DEFINE c == Chosen(T)
    <2>1. c \in T BY ChosenIn
    <2>2. SumFunctionOnSet(f, T) = f[c] + SumFunctionOnSet(f, T \ {c})
      BY <2>0, SumUnfolds DEF Unfolded
    <2> HIDE DEF c
    <2>3. CASE y = c BY <2>2, <2>3
    <2>4. CASE y # c
      <3>1. T \ {c} \in Good /\ T \ {y} \in Good BY <1>1, <2>1
      <3>2. /\ SumFunctionOnSet(f, T \ {c}) = f[y] + SumFunctionOnSet(f, (T \ {c}) \ {y})
            /\ SumFunctionOnSet(f, T \ {y}) = f[c] + SumFunctionOnSet(f, (T \ {y}) \ {c})
        BY <3>1, <2>1, <2>4
      <3>3. (T \ {c}) \ {y} = (T \ {y}) \ {c} OBVIOUS
      <3>4. SumFunctionOnSet(f, (T \ {c}) \ {y}) \in Int BY SumType, <2>0, FS_Subset
      <3>5. f[c] \in Int /\ f[y] \in Int BY <2>1
      <3> DEFINE u == SumFunctionOnSet(f, (T \ {c}) \ {y})
      <3> HIDE DEF u
      <3>6. SumFunctionOnSet(f, T) = f[c] + (f[y] + u) /\ SumFunctionOnSet(f, T \ {y}) = f[c] + u
        BY <2>2, <3>2, <3>3 DEF u
      <3>7. u \in Int BY <3>4 DEF u
      <3>8. QED BY <3>5, <3>6, <3>7
    <2>5. QED BY <2>3, <2>4
  <1>2. Good \in SUBSET SUBSET S OBVIOUS
  <1> HIDE DEF Good
  <1>3. Good = SUBSET S BY <1>1, <1>2, SubsetInduction
  <1> USE DEF Good
  <1>4. QED BY <1>3

\* Every subset is good if the empty set is and adding an element keeps it so.
LEMMA GrowingInduction ==
    ASSUME NEW S, IsFiniteSet(S), NEW Good \in SUBSET SUBSET S, {} \in Good,
           \A T \in Good : \A x \in S \ T : T \cup {x} \in Good
    PROVE  Good = SUBSET S
  <1>1. ASSUME NEW T \in SUBSET S, \A U \in SUBSET T : U # T => U \in Good
        PROVE  T \in Good
    <2>1. CASE T # {}
      <3>1. PICK x \in T : TRUE BY <2>1
      <3>2. T \ {x} \in Good /\ x \in S \ (T \ {x}) BY <1>1, <3>1
      <3>3. (T \ {x}) \cup {x} \in Good BY <3>2
      <3>4. QED BY <3>3
    <2>2. QED BY <2>1
  <1>2. QED BY <1>1, SubsetInduction

\* An element more.
LEMMA SumAdd ==
    ASSUME NEW T, IsFiniteSet(T), NEW x, x \notin T, NEW f, \A y \in T \cup {x} : f[y] \in Int
    PROVE  SumFunctionOnSet(f, T \cup {x}) = f[x] + SumFunctionOnSet(f, T)
  <1>1. IsFiniteSet(T \cup {x}) BY FS_AddElement
  <1>2. (T \cup {x}) \ {x} = T OBVIOUS
  <1>3. QED BY <1>1, <1>2, SumTake

\* The sum of a sum.
LEMMA SumPlus ==
    ASSUME NEW S, IsFiniteSet(S), NEW f, NEW g, NEW h,
           \A x \in S : f[x] \in Int /\ g[x] \in Int /\ h[x] = f[x] + g[x]
    PROVE  SumFunctionOnSet(h, S) = SumFunctionOnSet(f, S) + SumFunctionOnSet(g, S)
  <1> DEFINE Good == {T \in SUBSET S :
                         SumFunctionOnSet(h, T) =
                            SumFunctionOnSet(f, T) + SumFunctionOnSet(g, T)}
  <1>1. {} \in Good BY SumEmpty
  <1>2. ASSUME NEW T \in Good, NEW x \in S \ T PROVE T \cup {x} \in Good
    <2>1. IsFiniteSet(T) /\ T \subseteq S BY FS_Subset
    <2>2. \A y \in T \cup {x} : f[y] \in Int /\ g[y] \in Int /\ h[y] \in Int BY <2>1
    <2>3. /\ SumFunctionOnSet(f, T \cup {x}) = f[x] + SumFunctionOnSet(f, T)
          /\ SumFunctionOnSet(g, T \cup {x}) = g[x] + SumFunctionOnSet(g, T)
          /\ SumFunctionOnSet(h, T \cup {x}) = h[x] + SumFunctionOnSet(h, T)
      BY <2>1, <2>2, SumAdd
    <2>4. /\ SumFunctionOnSet(f, T) \in Int /\ SumFunctionOnSet(g, T) \in Int
      BY <2>1, <2>2, SumType
    <2>5. SumFunctionOnSet(h, T) = SumFunctionOnSet(f, T) + SumFunctionOnSet(g, T) OBVIOUS
    <2>6. SumFunctionOnSet(h, T \cup {x}) = SumFunctionOnSet(f, T \cup {x}) + SumFunctionOnSet(g, T \cup {x})
      BY <2>2, <2>3, <2>4, <2>5
    <2>7. QED BY <2>6
  <1>3. Good \in SUBSET SUBSET S OBVIOUS
  <1> HIDE DEF Good
  <1>4. Good = SUBSET S BY <1>1, <1>2, <1>3, GrowingInduction
  <1> USE DEF Good
  <1>5. QED BY <1>4

\* A sum of smaller numbers is smaller.
LEMMA SumLeq ==
    ASSUME NEW S, IsFiniteSet(S), NEW f, NEW g,
           \A x \in S : f[x] \in Int /\ g[x] \in Int /\ f[x] <= g[x]
    PROVE  SumFunctionOnSet(f, S) <= SumFunctionOnSet(g, S)
  <1> DEFINE Good == {T \in SUBSET S :
                         SumFunctionOnSet(f, T) <= SumFunctionOnSet(g, T)}
  <1>1. {} \in Good BY SumEmpty
  <1>2. ASSUME NEW T \in Good, NEW x \in S \ T PROVE T \cup {x} \in Good
    <2>1. IsFiniteSet(T) /\ T \subseteq S BY FS_Subset
    <2>2. \A y \in T \cup {x} : f[y] \in Int /\ g[y] \in Int BY <2>1
    <2>3. /\ SumFunctionOnSet(f, T \cup {x}) = f[x] + SumFunctionOnSet(f, T)
          /\ SumFunctionOnSet(g, T \cup {x}) = g[x] + SumFunctionOnSet(g, T)
      BY <2>1, <2>2, SumAdd
    <2>4. /\ SumFunctionOnSet(f, T) \in Int /\ SumFunctionOnSet(g, T) \in Int
      BY <2>1, <2>2, SumType
    <2>5. SumFunctionOnSet(f, T) <= SumFunctionOnSet(g, T) /\ f[x] <= g[x] OBVIOUS
    <2>6. SumFunctionOnSet(f, T \cup {x}) <= SumFunctionOnSet(g, T \cup {x})
      BY <2>2, <2>3, <2>4, <2>5
    <2>7. QED BY <2>6
  <1>3. Good \in SUBSET SUBSET S OBVIOUS
  <1> HIDE DEF Good
  <1>4. Good = SUBSET S BY <1>1, <1>2, <1>3, GrowingInduction
  <1> USE DEF Good
  <1>5. QED BY <1>4

\* Only the values on the set count.
LEMMA SumAgree ==
    ASSUME NEW S, IsFiniteSet(S), NEW f, NEW g, \A x \in S : f[x] \in Int /\ f[x] = g[x]
    PROVE  SumFunctionOnSet(f, S) = SumFunctionOnSet(g, S)
  <1>1. SumFunctionOnSet(f, S) \in Int /\ SumFunctionOnSet(g, S) \in Int BY SumType
  <1>2. SumFunctionOnSet(f, S) <= SumFunctionOnSet(g, S) BY SumLeq
  <1>3. SumFunctionOnSet(g, S) <= SumFunctionOnSet(f, S) BY SumLeq
  <1>4. QED BY <1>1, <1>2, <1>3

\* One value changed.
LEMMA SumChange ==
    ASSUME NEW S, IsFiniteSet(S), NEW x \in S, NEW f, NEW g, g[x] \in Int,
           \A y \in S : f[y] \in Int, \A y \in S \ {x} : g[y] = f[y]
    PROVE  SumFunctionOnSet(g, S) = SumFunctionOnSet(f, S) - f[x] + g[x]
  <1>0. IsFiniteSet(S \ {x}) BY FS_Subset
  <1>1. SumFunctionOnSet(g, S \ {x}) = SumFunctionOnSet(f, S \ {x}) BY <1>0, SumAgree
  <1>2. SumFunctionOnSet(f, S) = f[x] + SumFunctionOnSet(f, S \ {x}) BY SumTake
  <1>3. \A y \in S : g[y] \in Int OBVIOUS
  <1>4. SumFunctionOnSet(g, S) = g[x] + SumFunctionOnSet(g, S \ {x}) BY <1>3, SumTake
  <1>5. SumFunctionOnSet(f, S \ {x}) \in Int BY <1>0, SumType
  <1>6. f[x] \in Int OBVIOUS
  <1>7. QED BY <1>1, <1>2, <1>4, <1>5, <1>6

\* The sum over two disjoint sets.
LEMMA SumUnion ==
    ASSUME NEW S, IsFiniteSet(S), NEW f, NEW R, IsFiniteSet(R), R \cap S = {},
           \A x \in R \cup S : f[x] \in Int
    PROVE  SumFunctionOnSet(f, R \cup S) = SumFunctionOnSet(f, R) + SumFunctionOnSet(f, S)
  <1> DEFINE Good == {T \in SUBSET S :
                         SumFunctionOnSet(f, R \cup T) =
                            SumFunctionOnSet(f, R) + SumFunctionOnSet(f, T)}
  <1>0. SumFunctionOnSet(f, R) \in Int BY SumType
  <1>1. {} \in Good
    <2>1. R \cup {} = R OBVIOUS
    <2>2. QED BY <2>1, SumEmpty, <1>0
  <1>2. ASSUME NEW T \in Good, NEW x \in S \ T PROVE T \cup {x} \in Good
    <2>1. IsFiniteSet(T) /\ T \subseteq S BY FS_Subset
    <2>2. IsFiniteSet(R \cup T) /\ x \notin R \cup T BY <2>1, FS_Union
    <2>3. /\ SumFunctionOnSet(f, T \cup {x}) = f[x] + SumFunctionOnSet(f, T)
          /\ SumFunctionOnSet(f, (R \cup T) \cup {x}) = f[x] + SumFunctionOnSet(f, R \cup T)
      BY <2>1, <2>2, SumAdd
    <2>4. SumFunctionOnSet(f, T) \in Int BY <2>1, SumType
    <2>5. SumFunctionOnSet(f, R \cup T) = SumFunctionOnSet(f, R) + SumFunctionOnSet(f, T) OBVIOUS
    <2>6. R \cup (T \cup {x}) = (R \cup T) \cup {x} /\ f[x] \in Int OBVIOUS
    <2>7. SumFunctionOnSet(f, R \cup (T \cup {x})) = SumFunctionOnSet(f, R) + SumFunctionOnSet(f, T \cup {x})
      <3>1. \A a, b, c \in Int : a + (b + c) = b + (a + c) OBVIOUS
      <3>2. SumFunctionOnSet(f, R \cup (T \cup {x})) = SumFunctionOnSet(f, (R \cup T) \cup {x})
        BY <2>6, Zenon
      <3>3. QED BY <2>3, <2>4, <2>5, <2>6, <1>0, <3>1, <3>2
    <2>8. QED BY <2>7
  <1>3. Good \in SUBSET SUBSET S OBVIOUS
  <1> HIDE DEF Good
  <1>4. Good = SUBSET S BY <1>1, <1>2, <1>3, GrowingInduction
  <1> USE DEF Good
  <1>5. QED BY <1>4

\* A sum of zeros.
LEMMA SumZero ==
    ASSUME NEW S, IsFiniteSet(S), NEW f, \A x \in S : f[x] = 0
    PROVE  SumFunctionOnSet(f, S) = 0
  <1>1. \A x \in S : f[x] \in Int /\ f[x] = f[x] + f[x] OBVIOUS
  <1>2. SumFunctionOnSet(f, S) = SumFunctionOnSet(f, S) + SumFunctionOnSet(f, S) BY <1>1, SumPlus
  <1>3. SumFunctionOnSet(f, S) \in Int BY <1>1, SumType
  <1>4. \A a \in Int : a = a + a => a = 0 OBVIOUS
  <1>5. QED BY <1>2, <1>3, <1>4

\* A sum of natural numbers is one.
LEMMA SumNat ==
    ASSUME NEW S, IsFiniteSet(S), NEW f, \A x \in S : f[x] \in Nat
    PROVE  SumFunctionOnSet(f, S) \in Nat
  <1> DEFINE z == [x \in S |-> 0]
  <1>1. SumFunctionOnSet(z, S) = 0 BY SumZero
  <1>2. SumFunctionOnSet(z, S) <= SumFunctionOnSet(f, S) BY SumLeq
  <1>3. SumFunctionOnSet(f, S) \in Int BY SumType
  <1>4. QED BY <1>1, <1>2, <1>3

\* A part of the set has a part of the sum.
LEMMA SumSubset ==
    ASSUME NEW S, IsFiniteSet(S), NEW T \in SUBSET S, NEW f, \A x \in S : f[x] \in Nat
    PROVE  SumFunctionOnSet(f, T) <= SumFunctionOnSet(f, S)
  <1>1. IsFiniteSet(T) /\ IsFiniteSet(S \ T) BY FS_Subset
  <1>2. T \cup (S \ T) = S /\ T \cap (S \ T) = {} OBVIOUS
  <1>3. SumFunctionOnSet(f, T \cup (S \ T)) = SumFunctionOnSet(f, T) + SumFunctionOnSet(f, S \ T)
    BY <1>1, SumUnion
  <1>4. SumFunctionOnSet(f, T) \in Nat /\ SumFunctionOnSet(f, S \ T) \in Nat BY <1>1, SumNat
  <1>5. SumFunctionOnSet(f, S) = SumFunctionOnSet(f, T) + SumFunctionOnSet(f, S \ T)
    BY <1>2, <1>3, Zenon
  <1>6. QED BY <1>4, <1>5

\* No element has more than the sum.
LEMMA SumMember ==
    ASSUME NEW S, IsFiniteSet(S), NEW x \in S, NEW f, \A y \in S : f[y] \in Nat
    PROVE  f[x] <= SumFunctionOnSet(f, S)
  <1>1. SumFunctionOnSet(f, S) = f[x] + SumFunctionOnSet(f, S \ {x}) BY SumTake
  <1>2. SumFunctionOnSet(f, S \ {x}) \in Nat BY FS_Subset, SumNat
  <1>3. QED BY <1>1, <1>2

\* A sum can be taken over the images under an injection instead.
LEMMA SumImage ==
    ASSUME NEW S, IsFiniteSet(S), NEW m, NEW f, NEW g,
           \A x, y \in S : m[x] = m[y] => x = y,
           \A x \in S : g[x] \in Int /\ f[m[x]] = g[x]
    PROVE  /\ IsFiniteSet({m[x] : x \in S})
        /\ SumFunctionOnSet(f, {m[x] : x \in S}) = SumFunctionOnSet(g, S)
  <1> DEFINE Im(T) == {m[x] : x \in T}
             Good == {T \in SUBSET S :
                         /\ IsFiniteSet(Im(T))
                         /\ SumFunctionOnSet(f, Im(T)) = SumFunctionOnSet(g, T)}
  <1>1. {} \in Good
    <2>1. Im({}) = {} OBVIOUS
    <2>2. QED BY <2>1, SumEmpty, FS_EmptySet
  <1>2. ASSUME NEW T \in Good, NEW x \in S \ T PROVE T \cup {x} \in Good
    <2>1. IsFiniteSet(T) /\ T \subseteq S BY FS_Subset
    <2>2. Im(T \cup {x}) = Im(T) \cup {m[x]} OBVIOUS
    <2>3. m[x] \notin Im(T) BY <2>1
    <2>4. IsFiniteSet(Im(T)) /\ SumFunctionOnSet(f, Im(T)) = SumFunctionOnSet(g, T) OBVIOUS
    <2>5. \A y \in Im(T) \cup {m[x]} : f[y] \in Int BY <2>1
    <2> HIDE DEF Im
    <2>6. SumFunctionOnSet(f, Im(T) \cup {m[x]}) = f[m[x]] + SumFunctionOnSet(f, Im(T))
      BY <2>3, <2>4, <2>5, SumAdd
    <2>7. SumFunctionOnSet(g, T \cup {x}) = g[x] + SumFunctionOnSet(g, T)
      BY <2>1, SumAdd
    <2>8. IsFiniteSet(Im(T \cup {x}))
      <3>1. IsFiniteSet(Im(T) \cup {m[x]}) BY <2>4, FS_AddElement
      <3>2. QED BY <2>2, <3>1
    <2>9. f[m[x]] = g[x] OBVIOUS
    <2>10. QED BY <2>2, <2>4, <2>6, <2>7, <2>8, <2>9
  <1>3. Good \in SUBSET SUBSET S OBVIOUS
  <1> HIDE DEF Good
  <1>4. Good = SUBSET S BY <1>1, <1>2, <1>3, GrowingInduction
  <1> USE DEF Good
  <1>5. QED BY <1>4

\* A sum of equal numbers is a product.
LEMMA SumSame ==
    ASSUME NEW S, IsFiniteSet(S), NEW n \in Int, NEW f, \A x \in S : f[x] = n
    PROVE  SumFunctionOnSet(f, S) = n * Cardinality(S)
  <1> DEFINE Good == {T \in SUBSET S : SumFunctionOnSet(f, T) = n * Cardinality(T)}
  <1>1. {} \in Good BY SumEmpty, FS_EmptySet
  <1>2. ASSUME NEW T \in Good, NEW x \in S \ T PROVE T \cup {x} \in Good
    <2>1. IsFiniteSet(T) /\ T \subseteq S BY FS_Subset
    <2>2. SumFunctionOnSet(f, T \cup {x}) = f[x] + SumFunctionOnSet(f, T)
      <3>1. \A y \in T \cup {x} : f[y] \in Int BY <2>1
      <3>2. QED BY <2>1, <3>1, SumAdd
    <2>3. Cardinality(T \cup {x}) = Cardinality(T) + 1 BY <2>1, FS_AddElement
    <2>4. Cardinality(T) \in Nat BY <2>1, FS_CardinalityType
    <2>5. \A c \in Nat : n * (c + 1) = n + n * c OBVIOUS
    <2>6. n * Cardinality(T \cup {x}) = n + n * Cardinality(T) BY <2>3, <2>4, <2>5
    <2>7. SumFunctionOnSet(f, T \cup {x}) = n * Cardinality(T \cup {x}) BY <2>2, <2>6
    <2>8. QED BY <2>7
  <1>3. Good \in SUBSET SUBSET S OBVIOUS
  <1> HIDE DEF Good
  <1>4. Good = SUBSET S BY <1>1, <1>2, <1>3, GrowingInduction
  <1> USE DEF Good
  <1>5. QED BY <1>4

\* A finite set of numbers has a greatest one.
LEMMA FiniteHasMax ==
    ASSUME NEW S, IsFiniteSet(S), S \subseteq Int, S # {}
    PROVE  \E m \in S : \A j \in S : j <= m
  <1> DEFINE Good == {T \in SUBSET S : T = {} \/ \E m \in T : \A j \in T : j <= m}
  <1>1. {} \in Good OBVIOUS
  <1>2. ASSUME NEW T \in Good, NEW x \in S \ T PROVE T \cup {x} \in Good
    <2>1. CASE T = {}
      <3>1. T \cup {x} = {x} /\ x <= x BY <2>1
      <3>2. QED BY <3>1
    <2>2. CASE T # {}
      <3>1. PICK m \in T : \A j \in T : j <= m BY <2>2
      <3>2. CASE x <= m BY <3>1, <3>2
      <3>3. CASE m <= x
        <4>1. \A j \in T : j <= x BY <3>1, <3>3
        <4>2. QED BY <4>1
      <3>4. QED BY <3>2, <3>3
    <2>3. QED BY <2>1, <2>2
  <1>3. Good \in SUBSET SUBSET S OBVIOUS
  <1> HIDE DEF Good
  <1>4. Good = SUBSET S BY <1>1, <1>2, <1>3, GrowingInduction
  <1> USE DEF Good
  <1>5. QED BY <1>4

\* The sum of a multiple.
LEMMA SumTimes ==
    ASSUME NEW S, IsFiniteSet(S), NEW n \in Int, NEW f, NEW g,
           \A x \in S : f[x] \in Int /\ g[x] = n * f[x]
    PROVE  SumFunctionOnSet(g, S) = n * SumFunctionOnSet(f, S)
  <1> DEFINE Good == {T \in SUBSET S : SumFunctionOnSet(g, T) = n * SumFunctionOnSet(f, T)}
  <1>1. {} \in Good BY SumEmpty
  <1>2. ASSUME NEW T \in Good, NEW x \in S \ T PROVE T \cup {x} \in Good
    <2>1. IsFiniteSet(T) /\ T \subseteq S BY FS_Subset
    <2>2. \A y \in T \cup {x} : f[y] \in Int /\ g[y] \in Int BY <2>1
    <2>3. /\ SumFunctionOnSet(f, T \cup {x}) = f[x] + SumFunctionOnSet(f, T)
          /\ SumFunctionOnSet(g, T \cup {x}) = g[x] + SumFunctionOnSet(g, T)
      BY <2>1, <2>2, SumAdd
    <2>4. SumFunctionOnSet(f, T) \in Int BY <2>1, <2>2, SumType
    <2>5. \A a, b \in Int : n * (a + b) = n * a + n * b OBVIOUS
    <2>6. SumFunctionOnSet(g, T) = n * SumFunctionOnSet(f, T) OBVIOUS
    <2>7. f[x] \in Int /\ g[x] = n * f[x] OBVIOUS
    <2>8. SumFunctionOnSet(g, T \cup {x}) = n * SumFunctionOnSet(f, T \cup {x})
      BY <2>3, <2>4, <2>5, <2>6, <2>7
    <2>9. QED BY <2>8
  <1>3. Good \in SUBSET SUBSET S OBVIOUS
  <1> HIDE DEF Good
  <1>4. Good = SUBSET S BY <1>1, <1>2, <1>3, GrowingInduction
  <1> USE DEF Good
  <1>5. QED BY <1>4

-----------------------------------------------------------------------------
(***************************************************************************)
(* What linked lists hold.  A list is chained along f: from the sentinel   *)
(* at 0 through its n keys to the empty key at n + 1.                      *)
(***************************************************************************)
\* The pointers of a key.
ListNode(keys, head, nil) == [prev : keys \cup {head, nil}, next : keys \cup {head, nil}]

Chained(list, n, f, keys, head, nil) ==
  /\ list \in [keys \cup {head} -> ListNode(keys, head, nil)]
  /\ f \in [0 .. n + 1 -> keys \cup {head, nil}]
  /\ f[0] = head /\ f[n + 1] = nil
  /\ \A i \in 1 .. n : f[i] \in keys
  /\ \A i, j \in 1 .. n : f[i] = f[j] => i = j
  /\ \A i \in 0 .. n : list[f[i]].next = f[i + 1]
  /\ \A i \in 1 .. n : list[f[i]].prev = f[i - 1]
  /\ list[head].prev = nil
  /\ \A k \in keys : (\A i \in 1 .. n : f[i] # k) =>
       list[k].prev = nil /\ list[k].next = nil

\* The order with a key put in front, and with one left out.
InFront(f, n, x) ==
  [i \in 0 .. n + 2 |-> IF i = 0 THEN f[0] ELSE IF i = 1 THEN x ELSE f[i - 1]]

LeftOut(f, n, j) == [i \in 0 .. n |-> IF i < j THEN f[i] ELSE f[i + 1]]

\* linked_list_insert and linked_list_remove take a key for absent if it has
\* no prev pointer: a key in the list has one.
LEMMA ChainedKeys ==
  ASSUME NEW keys, NEW head, NEW nil, head \notin keys, nil \notin keys, head # nil,
         NEW list, NEW n \in Nat, NEW f, Chained(list, n, f, keys, head, nil),
         NEW k \in keys
  PROVE  list[k].prev # nil <=> \E i \in 1 .. n : f[i] = k
  <1>1. ASSUME NEW i \in 1 .. n, f[i] = k PROVE list[k].prev # nil
    <2>1. i - 1 = 0 \/ i - 1 \in 1 .. n OBVIOUS
    <2>2. f[i - 1] # nil BY <2>1 DEF Chained
    <2>3. QED BY <1>1, <2>2 DEF Chained
  <1>2. ASSUME \A i \in 1 .. n : f[i] # k PROVE list[k].prev = nil
    BY <1>2 DEF Chained
  <1>3. QED BY <1>1, <1>2

\* An empty list is chained along nothing.
LEMMA EmptyChained ==
  ASSUME NEW keys, NEW head, NEW nil, head \notin keys, nil \notin keys, head # nil
  PROVE  Chained(EmptyList(keys \cup {head}, nil), 0,
                 [i \in 0 .. 1 |-> IF i = 0 THEN head ELSE nil], keys, head, nil)
  BY DEF Chained, EmptyList, ListNode

\* linked_list_insert puts a new key in front.
LEMMA InsertChains ==
  ASSUME NEW keys, NEW head, NEW nil, head \notin keys, nil \notin keys, head # nil,
         NEW list, NEW n \in Nat, NEW f, Chained(list, n, f, keys, head, nil),
         NEW x \in keys, list[x].prev = nil
  PROVE  Chained(LinkedListInsert(list, x, head, nil), n + 1, InFront(f, n, x),
                 keys, head, nil)
  <1> DEFINE g == InFront(f, n, x)
             second == list[head].next
             pushed == [list EXCEPT ![x] = [prev |-> head, next |-> second],
                                    ![head].next = x]
             new == LinkedListInsert(list, x, head, nil)
  <1>1. new = IF second # nil THEN [pushed EXCEPT ![second].prev = x] ELSE pushed
    BY DEF LinkedListInsert
  <1>2. second = f[1] BY DEF Chained
  <1>3. \A i \in 1 .. n : f[i] # x BY ChainedKeys
  <1>4. x # head OBVIOUS
  <1>5. /\ list \in [keys \cup {head} -> ListNode(keys, head, nil)]
        /\ second \in keys \cup {head, nil} /\ list[x].prev = nil /\ list[x].next = nil
        /\ f[0] = head /\ f[n + 1] = nil
    BY <1>3 DEF Chained, ListNode
  <1>6. second # nil => n >= 1 /\ second \in keys /\ second # x
    BY <1>2, <1>3 DEF Chained
  <1>7. /\ new \in [keys \cup {head} -> ListNode(keys, head, nil)]
        /\ new[head].next = x /\ new[head].prev = list[head].prev
        /\ new[x].prev = head /\ new[x].next = second
        /\ second # nil => new[second].prev = x /\ new[second].next = list[second].next
        /\ \A k \in keys \ {x, second} : new[k] = list[k]
    <2>1. /\ pushed \in [keys \cup {head} -> ListNode(keys, head, nil)]
          /\ pushed[head].next = x /\ pushed[head].prev = list[head].prev
          /\ pushed[x].prev = head /\ pushed[x].next = second
          /\ \A k \in keys \ {x} : pushed[k] = list[k]
      BY <1>4, <1>5 DEF ListNode
    <2> HIDE DEF pushed, second, new
    <2>2. CASE second # nil
      <3>1. new = [pushed EXCEPT ![second].prev = x] BY <1>1, <2>2
      <3>2. QED BY <1>4, <1>6, <2>1, <2>2, <3>1 DEF ListNode
    <2>3. CASE second = nil BY <1>1, <2>1, <2>3
    <2>4. QED BY <2>2, <2>3
  <1>8. /\ g \in [0 .. n + 2 -> keys \cup {head, nil}]
        /\ g[0] = head /\ g[1] = x
        /\ \A i \in 2 .. n + 2 : g[i] = f[i - 1]
    <2>1. \A i \in 0 .. n + 1 : f[i] \in keys \cup {head, nil} BY DEF Chained
    <2>2. QED BY <1>5, <2>1 DEF InFront
  <1> HIDE DEF g, new, second, pushed
  <1>9. g[n + 2] = nil /\ n + 2 = (n + 1) + 1 BY <1>5, <1>8
  <1>10. \A i \in 1 .. n + 1 : g[i] \in keys BY <1>8 DEF Chained
  <1>11. ASSUME NEW i \in 1 .. n + 1, NEW j \in 1 .. n + 1, g[i] = g[j] PROVE i = j
    <2>1. \A m \in 2 .. n + 1 : g[m] = f[m - 1] /\ m - 1 \in 1 .. n BY <1>8
    <2>2. CASE i = 1 \/ j = 1 BY <1>3, <1>8, <1>11, <2>1, <2>2
    <2>3. CASE i # 1 /\ j # 1
      <3>1. i - 1 \in 1 .. n /\ j - 1 \in 1 .. n /\ f[i - 1] = f[j - 1]
        BY <1>11, <2>1, <2>3
      <3>2. i - 1 = j - 1 BY <3>1 DEF Chained
      <3>3. QED BY <3>2
    <2>4. QED BY <2>2, <2>3
  <1>12. ASSUME NEW i \in 0 .. n + 1 PROVE new[g[i]].next = g[i + 1]
    <2>1. CASE i = 0 BY <1>7, <1>8, <2>1
    <2>2. CASE i = 1 BY <1>2, <1>7, <1>8, <2>2
    <2>3. CASE i >= 2
      <3>1. /\ g[i] = f[i - 1] /\ g[i + 1] = f[i] /\ i - 1 \in 1 .. n
            /\ list[f[i - 1]].next = f[i] /\ f[i - 1] \in keys /\ f[i - 1] # x
        BY <1>3, <1>8, <2>3 DEF Chained
      <3>2. new[g[i]].next = list[g[i]].next BY <1>7, <3>1
      <3>3. QED BY <3>1, <3>2
    <2>4. QED BY <2>1, <2>2, <2>3
  <1>13. ASSUME NEW i \in 1 .. n + 1 PROVE new[g[i]].prev = g[i - 1]
    <2>1. CASE i = 1 BY <1>7, <1>8, <2>1
    <2>2. CASE i = 2
      <3>1. g[2] = second /\ second # nil BY <1>2, <1>8, <2>2 DEF Chained
      <3>2. QED BY <1>7, <1>8, <2>2, <3>1
    <2>3. CASE i >= 3
      <3>1. /\ g[i] = f[i - 1] /\ g[i - 1] = f[i - 2] /\ i - 1 \in 1 .. n /\ 1 \in 1 .. n
            /\ list[f[i - 1]].prev = f[(i - 1) - 1] /\ f[i - 1] \in keys /\ f[i - 1] # x
            /\ f[i - 1] # f[1]
        BY <1>3, <1>8, <2>3 DEF Chained
      <3>2. new[g[i]] = list[g[i]] BY <1>2, <1>7, <3>1
      <3>3. QED BY <3>1, <3>2
    <2>4. QED BY <2>1, <2>2, <2>3
  <1>14. ASSUME NEW k \in keys, \A i \in 1 .. n + 1 : g[i] # k
         PROVE  new[k].prev = nil /\ new[k].next = nil
    <2>1. k # x BY <1>8, <1>14
    <2>2. \A i \in 1 .. n : f[i] # k
      <3>1. \A i \in 1 .. n : i + 1 \in 1 .. n + 1 /\ g[i + 1] = f[i] BY <1>8
      <3>2. QED BY <1>14, <3>1
    <2>3. k # second BY <1>2, <1>6, <2>2
    <2>4. QED BY <1>7, <2>1, <2>2, <2>3 DEF Chained
  <1>15. new[head].prev = nil BY <1>7 DEF Chained
  <1>16. Chained(new, n + 1, g, keys, head, nil)
    BY <1>7, <1>8, <1>9, <1>10, <1>11, <1>12, <1>13, <1>14, <1>15 DEF Chained
  <1>17. QED BY <1>16 DEF new, g

\* linked_list_remove takes out one key and leaves the others in their order.
LEMMA RemoveChains ==
  ASSUME NEW keys, NEW head, NEW nil, head \notin keys, nil \notin keys, head # nil,
         NEW list, NEW n \in Nat, NEW f, Chained(list, n, f, keys, head, nil),
         NEW j \in 1 .. n
  PROVE  Chained(LinkedListRemove(list, f[j], nil), n - 1, LeftOut(f, n, j),
                 keys, head, nil)
  <1> DEFINE g == LeftOut(f, n, j)
             x == f[j]
             before == list[x].prev
             after == list[x].next
             skipped == [list EXCEPT ![before].next = after]
             joined == IF after # nil THEN [skipped EXCEPT ![after].prev = before]
                       ELSE skipped
             new == LinkedListRemove(list, x, nil)
  <1>1. x \in keys /\ before = f[j - 1] /\ after = f[j + 1] BY DEF Chained
  <1>2. \A i \in 1 .. n : i # j => f[i] # x BY DEF Chained
  <1>3. j - 1 = 0 \/ j - 1 \in 1 .. n OBVIOUS
  <1>4. j + 1 = n + 1 \/ j + 1 \in 1 .. n OBVIOUS
  <1>5. /\ before \in keys \cup {head} /\ before # nil /\ before # x
        /\ after \in keys \cup {nil} /\ after # x
        /\ before # after
    <2>1. f[0] = head /\ f[n + 1] = nil /\ \A i \in 1 .. n : f[i] \in keys BY DEF Chained
    <2>2. before # x /\ after # x BY <1>1, <1>2, <1>3, <1>4, <2>1
    <2>3. before # after
      <3>1. CASE j - 1 \in 1 .. n /\ j + 1 \in 1 .. n
        <4>1. f[j - 1] # f[j + 1] BY <3>1 DEF Chained
        <4>2. QED BY <1>1, <4>1
      <3>2. QED BY <1>1, <1>3, <1>4, <2>1, <3>1
    <2>4. QED BY <1>1, <1>3, <1>4, <2>1, <2>2, <2>3
  <1>6. new = [joined EXCEPT ![x] = [prev |-> nil, next |-> nil]]
    BY <1>5 DEF LinkedListRemove
  <1>7. list \in [keys \cup {head} -> ListNode(keys, head, nil)] BY DEF Chained
  <1>8. /\ new \in [keys \cup {head} -> ListNode(keys, head, nil)]
        /\ new[before].next = after /\ new[before].prev = list[before].prev
        /\ new[x].prev = nil /\ new[x].next = nil
        /\ after # nil => new[after].prev = before /\ new[after].next = list[after].next
        /\ \A k \in (keys \cup {head}) \ {x, before, after} : new[k] = list[k]
    <2> HIDE DEF x, before, after, joined, skipped, new
    <2>1. /\ skipped \in [keys \cup {head} -> ListNode(keys, head, nil)]
          /\ skipped[before].next = after /\ skipped[before].prev = list[before].prev
          /\ \A k \in (keys \cup {head}) \ {before} : skipped[k] = list[k]
      BY <1>5, <1>7 DEF skipped, ListNode
    <2>2. /\ joined \in [keys \cup {head} -> ListNode(keys, head, nil)]
          /\ joined[before] = skipped[before]
          /\ after # nil => joined[after].prev = before /\ joined[after].next = list[after].next
          /\ \A k \in (keys \cup {head}) \ {before, after} : joined[k] = list[k]
      <3>1. CASE after # nil
        <4>1. joined = [skipped EXCEPT ![after].prev = before] BY <3>1 DEF joined
        <4>2. QED BY <1>5, <2>1, <3>1, <4>1 DEF ListNode
      <3>2. CASE after = nil BY <1>5, <2>1, <3>2 DEF joined
      <3>3. QED BY <3>1, <3>2
    <2>3. /\ new \in [keys \cup {head} -> ListNode(keys, head, nil)]
          /\ new[x].prev = nil /\ new[x].next = nil
          /\ \A k \in (keys \cup {head}) \ {x} : new[k] = joined[k]
      BY <1>1, <1>6, <2>2 DEF ListNode
    <2>4. QED BY <1>5, <2>1, <2>2, <2>3
  <1>9. /\ g \in [0 .. n -> keys \cup {head, nil}]
        /\ \A i \in 0 .. j - 1 : g[i] = f[i]
        /\ \A i \in j .. n : g[i] = f[i + 1]
    <2>1. \A i \in 0 .. n + 1 : f[i] \in keys \cup {head, nil} BY DEF Chained
    <2>2. QED BY <2>1 DEF LeftOut
  <1> HIDE DEF g, new, x, before, after, skipped, joined
  <1>10. g[0] = head /\ g[n] = nil /\ n = (n - 1) + 1 /\ n - 1 \in Nat BY <1>9 DEF Chained
  <1>11. ASSUME NEW i \in 1 .. n - 1 PROVE g[i] \in keys \ {x}
    <2>1. CASE i < j
      <3>1. g[i] = f[i] /\ i \in 1 .. n /\ i # j BY <1>9, <2>1
      <3>2. QED BY <1>2, <3>1 DEF Chained
    <2>2. CASE i >= j
      <3>1. g[i] = f[i + 1] /\ i + 1 \in 1 .. n /\ i + 1 # j BY <1>9, <2>2
      <3>2. QED BY <1>2, <3>1 DEF Chained
    <2>3. QED BY <2>1, <2>2
  <1>12. ASSUME NEW i \in 1 .. n - 1, NEW m \in 1 .. n - 1, g[i] = g[m] PROVE i = m
    <2>1. \A p \in 1 .. n - 1 : p < j => g[p] = f[p] /\ p \in 1 .. n BY <1>9
    <2>2. \A p \in 1 .. n - 1 : p >= j => g[p] = f[p + 1] /\ p + 1 \in 1 .. n BY <1>9
    <2>3. \A p, q \in 1 .. n : f[p] = f[q] => p = q BY DEF Chained
    <2>4. CASE i < j /\ m < j BY <1>12, <2>1, <2>3, <2>4
    <2>5. CASE i < j /\ m >= j
      <3>1. f[i] = f[m + 1] /\ i \in 1 .. n /\ m + 1 \in 1 .. n BY <1>12, <2>1, <2>2, <2>5
      <3>2. i = m + 1 BY <2>3, <3>1
      <3>3. QED BY <2>5, <3>2
    <2>6. CASE i >= j /\ m < j
      <3>1. f[i + 1] = f[m] /\ i + 1 \in 1 .. n /\ m \in 1 .. n BY <1>12, <2>1, <2>2, <2>6
      <3>2. i + 1 = m BY <2>3, <3>1
      <3>3. QED BY <2>6, <3>2
    <2>7. CASE i >= j /\ m >= j
      <3>1. f[i + 1] = f[m + 1] /\ i + 1 \in 1 .. n /\ m + 1 \in 1 .. n
        BY <1>12, <2>2, <2>7
      <3>2. i + 1 = m + 1 BY <2>3, <3>1
      <3>3. QED BY <3>2
    <2>8. QED BY <2>4, <2>5, <2>6, <2>7
  <1>13. ASSUME NEW i \in 0 .. n - 1 PROVE new[g[i]].next = g[i + 1]
    <2>1. CASE i = j - 1 BY <1>1, <1>8, <1>9, <2>1
    <2>2. CASE i < j - 1
      <3>1. /\ g[i] = f[i] /\ g[i + 1] = f[i + 1] /\ i \in 0 .. n /\ list[f[i]].next = f[i + 1]
        BY <1>9, <2>2 DEF Chained
      <3>2. f[i] \in keys \cup {head} /\ f[i] # x /\ f[i] # before
        <4>1. CASE i = 0
          <5>1. f[0] = head /\ j - 1 \in 1 .. n /\ f[j - 1] \in keys BY <2>2, <4>1 DEF Chained
          <5>2. QED BY <1>1, <4>1, <5>1
        <4>2. CASE i # 0
          <5>1. i \in 1 .. n /\ j - 1 \in 1 .. n /\ i # j /\ i # j - 1 BY <2>2, <4>2
          <5>2. f[i] \in keys /\ f[i] # f[j - 1] BY <5>1 DEF Chained
          <5>3. QED BY <1>1, <1>2, <5>1, <5>2
        <4>3. QED BY <4>1, <4>2
      <3>3. new[f[i]].next = list[f[i]].next
        BY <1>5, <1>8, <3>2
      <3>4. QED BY <3>1, <3>3
    <2>3. CASE i >= j
      <3>1. /\ g[i] = f[i + 1] /\ g[i + 1] = f[(i + 1) + 1] /\ i + 1 \in 1 .. n
            /\ i + 1 # j /\ list[f[i + 1]].next = f[(i + 1) + 1]
        BY <1>9, <2>3 DEF Chained
      <3>2. f[i + 1] \in keys /\ f[i + 1] # x /\ f[i + 1] # before
        <4>1. f[i + 1] \in keys /\ f[i + 1] # x BY <1>2, <3>1 DEF Chained
        <4>2. CASE j - 1 = 0 BY <1>1, <4>1, <4>2 DEF Chained
        <4>3. CASE j - 1 \in 1 .. n
          <5>1. f[i + 1] # f[j - 1] BY <2>3, <3>1, <4>3 DEF Chained
          <5>2. QED BY <1>1, <4>1, <5>1
        <4>4. QED BY <1>3, <4>2, <4>3
      <3>3. new[f[i + 1]].next = list[f[i + 1]].next BY <1>5, <1>8, <3>2
      <3>4. QED BY <3>1, <3>3
    <2>4. QED BY <2>1, <2>2, <2>3
  <1>14. ASSUME NEW i \in 1 .. n - 1 PROVE new[g[i]].prev = g[i - 1]
    <2>0. g[i] \in keys /\ g[i] # x BY <1>11
    <2>1. CASE i = j
      <3>1. g[i] = after /\ g[i - 1] = before BY <1>1, <1>9, <2>1
      <3>2. QED BY <1>5, <1>8, <2>0, <3>1
    <2>2. CASE i < j
      <3>1. /\ g[i] = f[i] /\ g[i - 1] = f[i - 1] /\ i \in 1 .. n /\ list[f[i]].prev = f[i - 1]
        BY <1>9, <2>2 DEF Chained
      <3>2. f[i] # after
        <4>1. CASE j + 1 = n + 1 BY <1>1, <2>0, <3>1, <4>1 DEF Chained
        <4>2. CASE j + 1 \in 1 .. n
          <5>1. f[i] # f[j + 1] BY <2>2, <3>1, <4>2 DEF Chained
          <5>2. QED BY <1>1, <5>1
        <4>3. QED BY <1>4, <4>1, <4>2
      <3>3. new[f[i]].prev = list[f[i]].prev BY <1>8, <2>0, <3>1, <3>2
      <3>4. QED BY <3>1, <3>3
    <2>3. CASE i > j
      <3>1. /\ g[i] = f[i + 1] /\ g[i - 1] = f[(i + 1) - 1] /\ i + 1 \in 1 .. n
            /\ list[f[i + 1]].prev = f[(i + 1) - 1]
        BY <1>9, <2>3 DEF Chained
      <3>2. f[i + 1] # after
        <4>1. j + 1 \in 1 .. n BY <2>3
        <4>2. f[i + 1] # f[j + 1]
          <5>1. i + 1 # j + 1 BY <2>3
          <5>2. QED BY <3>1, <4>1, <5>1 DEF Chained
        <4>3. QED BY <1>1, <4>2
      <3>3. new[f[i + 1]].prev = list[f[i + 1]].prev BY <1>8, <2>0, <3>1, <3>2
      <3>4. QED BY <3>1, <3>3
    <2>4. QED BY <2>1, <2>2, <2>3
  <1>15. ASSUME NEW k \in keys, \A i \in 1 .. n - 1 : g[i] # k
         PROVE  new[k].prev = nil /\ new[k].next = nil
    <2>1. CASE k = x BY <1>8, <2>1
    <2>2. CASE k # x
      <3>1. ASSUME NEW i \in 1 .. n PROVE f[i] # k
        <4>1. CASE i = j BY <2>2, <4>1 DEF x
        <4>2. CASE i < j
          <5>1. i \in 1 .. n - 1 /\ g[i] = f[i] BY <1>9, <4>2
          <5>2. QED BY <1>15, <5>1
        <4>3. CASE i > j
          <5>1. i - 1 \in 1 .. n - 1 /\ g[i - 1] = f[(i - 1) + 1] /\ (i - 1) + 1 = i
            BY <1>9, <4>3
          <5>2. QED BY <1>15, <5>1
        <4>4. QED BY <4>1, <4>2, <4>3
      <3>2. list[k].prev = nil /\ list[k].next = nil BY <3>1 DEF Chained
      <3>3. k # before /\ k # after
        <4>1. k # f[j - 1] BY <1>3, <3>1 DEF Chained
        <4>2. k # f[j + 1] BY <1>4, <3>1 DEF Chained
        <4>3. QED BY <1>1, <4>1, <4>2
      <3>4. new[k] = list[k] BY <1>8, <2>2, <3>3
      <3>5. QED BY <3>2, <3>4
    <2>3. QED BY <2>1, <2>2
  <1>16. new[head].prev = nil
    <2>1. head # x /\ head # after BY <1>1, <1>5
    <2>2. new[head].prev = list[head].prev BY <1>8, <2>1
    <2>3. QED BY <2>2 DEF Chained
  <1>17. Chained(new, n - 1, g, keys, head, nil)
    <2>1. (n - 1) + 1 = n BY <1>10
    <2>2. QED BY <1>8, <1>9, <1>10, <1>11, <1>12, <1>13, <1>14, <1>15, <1>16, <2>1 DEF Chained
  <1>18. QED BY <1>17 DEF new, g, x

-----------------------------------------------------------------------------
\* A list that holds the keys of S, each once.
ListHolds(list, S, keys, head, nil) ==
  \E n \in Nat : \E f \in [0 .. n + 1 -> keys \cup {head, nil}] :
    /\ Chained(list, n, f, keys, head, nil)
    /\ S = {f[i] : i \in 1 .. n}

\* A fresh list holds nothing.
LEMMA EmptyHolds ==
  ASSUME NEW keys, NEW head, NEW nil, head \notin keys, nil \notin keys, head # nil
  PROVE  ListHolds(EmptyList(keys \cup {head}, nil), {}, keys, head, nil)
  <1> DEFINE f == [i \in 0 .. 1 |-> IF i = 0 THEN head ELSE nil]
  <1>1. Chained(EmptyList(keys \cup {head}, nil), 0, f, keys, head, nil) BY EmptyChained
  <1>2. f \in [0 .. 0 + 1 -> keys \cup {head, nil}] BY <1>1 DEF Chained
  <1>3. {} = {f[i] : i \in 1 .. 0} /\ 0 \in Nat OBVIOUS
  <1> HIDE DEF f
  <1>4. QED BY <1>1, <1>2, <1>3 DEF ListHolds

\* linked_list_insert adds the key, or finds it.
LEMMA InsertHolds ==
  ASSUME NEW keys, NEW head, NEW nil, head \notin keys, nil \notin keys, head # nil,
         NEW list, NEW S, ListHolds(list, S, keys, head, nil), NEW x \in keys
  PROVE  ListHolds(LinkedListInsert(list, x, head, nil), S \cup {x}, keys, head, nil)
  <1>1. PICK n \in Nat : \E f \in [0 .. n + 1 -> keys \cup {head, nil}] :
          Chained(list, n, f, keys, head, nil) /\ S = {f[i] : i \in 1 .. n}
    BY DEF ListHolds
  <1>2. PICK f \in [0 .. n + 1 -> keys \cup {head, nil}] :
          Chained(list, n, f, keys, head, nil) /\ S = {f[i] : i \in 1 .. n}
    BY <1>1
  <1>3. CASE list[x].prev # nil
    <2>1. x \in S BY <1>2, <1>3, ChainedKeys
    <2>2. S \cup {x} = S BY <2>1
    <2>3. LinkedListInsert(list, x, head, nil) = list BY <1>3 DEF LinkedListInsert
    <2>4. QED BY <2>2, <2>3
  <1>4. CASE list[x].prev = nil
    <2> DEFINE g == InFront(f, n, x)
    <2>1. Chained(LinkedListInsert(list, x, head, nil), n + 1, g, keys, head, nil)
      BY <1>2, <1>4, InsertChains
    <2>2. n + 1 \in Nat /\ g[1] = x /\ \A i \in 1 .. n : g[i + 1] = f[i] /\ i + 1 \in 1 .. n + 1
      BY DEF InFront
    <2> HIDE DEF g
    <2>3. S \cup {x} = {g[i] : i \in 1 .. n + 1}
      <3>1. ASSUME NEW k \in S \cup {x} PROVE \E i \in 1 .. n + 1 : g[i] = k
        <4>1. CASE k = x BY <2>2, <4>1
        <4>2. CASE k \in S BY <1>2, <2>2, <4>2
        <4>3. QED BY <4>1, <4>2
      <3>2. ASSUME NEW i \in 1 .. n + 1 PROVE g[i] \in S \cup {x}
        <4>1. CASE i = 1 BY <2>2, <4>1
        <4>2. CASE i # 1
          <5>1. i - 1 \in 1 .. n /\ (i - 1) + 1 = i BY <4>2
          <5>2. QED BY <1>2, <2>2, <5>1
        <4>3. QED BY <4>1, <4>2
      <3>3. QED BY <3>1, <3>2
    <2>4. g \in [0 .. (n + 1) + 1 -> keys \cup {head, nil}] BY <2>1 DEF Chained
    <2>5. QED BY <2>1, <2>2, <2>3, <2>4 DEF ListHolds
  <1>5. QED BY <1>3, <1>4

\* linked_list_remove takes away the key.
LEMMA RemoveHolds ==
  ASSUME NEW keys, NEW head, NEW nil, head \notin keys, nil \notin keys, head # nil,
         NEW list, NEW S, ListHolds(list, S, keys, head, nil), NEW x \in S
  PROVE  ListHolds(LinkedListRemove(list, x, nil), S \ {x}, keys, head, nil)
  <1>1. PICK n \in Nat : \E f \in [0 .. n + 1 -> keys \cup {head, nil}] :
          Chained(list, n, f, keys, head, nil) /\ S = {f[i] : i \in 1 .. n}
    BY DEF ListHolds
  <1>2. PICK f \in [0 .. n + 1 -> keys \cup {head, nil}] :
          Chained(list, n, f, keys, head, nil) /\ S = {f[i] : i \in 1 .. n}
    BY <1>1
  <1>3. PICK j \in 1 .. n : x = f[j] BY <1>2
  <1> DEFINE g == LeftOut(f, n, j)
  <1>4. Chained(LinkedListRemove(list, x, nil), n - 1, g, keys, head, nil)
    BY <1>2, <1>3, RemoveChains
  <1>5. /\ n - 1 \in Nat
        /\ \A i \in 1 .. n : i < j => g[i] = f[i] /\ i \in 1 .. n - 1
        /\ \A i \in 1 .. n : i > j => g[i - 1] = f[i] /\ i - 1 \in 1 .. n - 1
        /\ \A i \in 1 .. n - 1 : (g[i] = f[i] /\ i < j) \/ (g[i] = f[i + 1] /\ i + 1 > j)
    <2>1. \A i \in 0 .. n : g[i] = IF i < j THEN f[i] ELSE f[i + 1] BY DEF LeftOut
    <2> HIDE DEF g
    <2>2. \A i \in 1 .. n : i < j => g[i] = f[i] /\ i \in 1 .. n - 1 BY <2>1
    <2>3. ASSUME NEW i \in 1 .. n, i > j PROVE g[i - 1] = f[i] /\ i - 1 \in 1 .. n - 1
      <3>1. i - 1 \in 0 .. n /\ ~ (i - 1 < j) /\ (i - 1) + 1 = i BY <2>3
      <3>2. QED BY <2>1, <2>3, <3>1
    <2>4. ASSUME NEW i \in 1 .. n - 1
          PROVE  (g[i] = f[i] /\ i < j) \/ (g[i] = f[i + 1] /\ i + 1 > j)
      <3>1. i \in 0 .. n BY <2>4
      <3>3. i \in Int /\ j \in Int OBVIOUS
      <3>4. i < j \/ (~ (i < j) /\ i + 1 > j) BY ONLY <3>3
      <3>2. QED BY <2>1, <3>1, <3>4
    <2>5. n - 1 \in Nat OBVIOUS
    <2>6. QED BY <2>2, <2>3, <2>4, <2>5
  <1> HIDE DEF g
  <1>6. S \ {x} = {g[i] : i \in 1 .. n - 1}
    <2>1. ASSUME NEW k \in S \ {x} PROVE \E i \in 1 .. n - 1 : g[i] = k
      <3>1. PICK i \in 1 .. n : f[i] = k BY <1>2
      <3>2. i < j \/ i > j BY <1>3, <3>1
      <3>3. QED BY <1>5, <3>1, <3>2
    <2>2. ASSUME NEW i \in 1 .. n - 1 PROVE g[i] \in S \ {x}
      <3>1. \A p \in 1 .. n : p # j => f[p] # x /\ f[p] \in S BY <1>2, <1>3 DEF Chained
      <3>2. i \in 1 .. n /\ i + 1 \in 1 .. n OBVIOUS
      <3>3. CASE g[i] = f[i] /\ i < j BY <3>1, <3>2, <3>3
      <3>4. CASE g[i] = f[i + 1] /\ i + 1 > j BY <3>1, <3>2, <3>4
      <3>5. QED BY <1>5, <3>3, <3>4
    <2>3. QED BY <2>1, <2>2
  <1>7. g \in [0 .. (n - 1) + 1 -> keys \cup {head, nil}] BY <1>4 DEF Chained
  <1>8. QED BY <1>4, <1>5, <1>6, <1>7 DEF ListHolds

\* Upwards from 0 to n.
LEMMA UpwardInduction ==
  ASSUME NEW n \in Nat, NEW Good, 0 \in Good, \A i \in 0 .. n - 1 : i \in Good => i + 1 \in Good
  PROVE  \A i \in 0 .. n : i \in Good
  <1> DEFINE Bad == {i \in 0 .. n : i \notin Good}
             Up == {n - i : i \in Bad}
  <1>1. SUFFICES ASSUME Bad # {} PROVE FALSE
    OBVIOUS
  <1>2. IsFiniteSet(0 .. n) BY FS_Interval
  <1>3. Up \subseteq 0 .. n /\ Up # {} BY <1>1
  <1>4. IsFiniteSet(Up) /\ Up \subseteq Int BY <1>2, <1>3, FS_Subset
  <1>5. PICK m \in Up : \A k \in Up : k <= m
    <2> HIDE DEF Up
    <2>1. QED BY <1>3, <1>4, FiniteHasMax
  <1>6. PICK i \in Bad : m = n - i OBVIOUS
  <1>7. i # 0 /\ i - 1 \in 0 .. n - 1 /\ (i - 1) + 1 = i BY <1>6
  <1>8. i - 1 \in Bad BY <1>6, <1>7
  <1>9. n - (i - 1) \in Up BY <1>8
  <1>10. i \in 0 .. n /\ n - (i - 1) <= n - i BY <1>5, <1>6, <1>9
  <1>11. QED BY <1>10

\* There are no more keys in a list than there are keys.
LEMMA ChainedLength ==
  ASSUME NEW keys, NEW head, NEW nil, IsFiniteSet(keys),
         NEW list, NEW n \in Nat, NEW f, Chained(list, n, f, keys, head, nil)
  PROVE  n <= Cardinality(keys)
  <1> DEFINE h == [i \in 1 .. n |-> f[i]]
             S == {f[i] : i \in 1 .. n}
  <1>1. h \in Bijection(1 .. n, S)
    BY DEF Chained, Bijection, Injection, Surjection, IsInjective
  <1>2. IsFiniteSet(1 .. n) /\ Cardinality(1 .. n) = n BY FS_Interval
  <1> HIDE DEF h
  <1>3. Cardinality(S) = n BY <1>1, <1>2, FS_Bijection DEF ExistsBijection
  <1>4. S \subseteq keys BY DEF Chained
  <1>5. QED BY <1>3, <1>4, FS_Subset

\* The first keys of a list.
Prefix(f, m) == [i \in 1 .. m |-> f[i]]

\* One more key read.
LEMMA PrefixGrows ==
  ASSUME NEW keys, NEW f, NEW m \in Nat, \A i \in 1 .. m + 1 : f[i] \in keys
  PROVE  /\ Prefix(f, m) \in Seq(keys) /\ Len(Prefix(f, m)) = m
         /\ m # 0 => Prefix(f, m)[m] = f[m]
         /\ Append(Prefix(f, m), f[m + 1]) = Prefix(f, m + 1)
  <1>1. Prefix(f, m) \in Seq(keys) /\ Len(Prefix(f, m)) = m BY DEF Prefix
  <1>2. Prefix(f, m + 1) \in Seq(keys) /\ Len(Prefix(f, m + 1)) = m + 1 BY DEF Prefix
  <1>3. \A i \in 1 .. m : Prefix(f, m)[i] = f[i] BY DEF Prefix
  <1>4. \A i \in 1 .. m + 1 : Prefix(f, m + 1)[i] = f[i] BY DEF Prefix
  <1>5. f[m + 1] \in keys OBVIOUS
  <1> DEFINE p == Prefix(f, m)
             q == Prefix(f, m + 1)
             longer == Append(p, f[m + 1])
  <1> HIDE DEF p, q
  <1>6. p \in Seq(keys) /\ Len(p) = m /\ q \in Seq(keys) /\ Len(q) = m + 1
    BY <1>1, <1>2 DEF p, q
  <1>7. longer \in Seq(keys) /\ Len(longer) = m + 1 BY <1>5, <1>6
  <1>8. \A i \in 1 .. m + 1 : longer[i] = q[i]
    <2>1. \A i \in 1 .. m : longer[i] = p[i] /\ i \in 1 .. m + 1 BY <1>5, <1>6
    <2>2. longer[m + 1] = f[m + 1] BY <1>5, <1>6
    <2>3. \A i \in 1 .. m + 1 : i \in 1 .. m \/ i = m + 1 OBVIOUS
    <2>4. \A i \in 1 .. m : p[i] = f[i] BY <1>3 DEF p
    <2>5. \A i \in 1 .. m + 1 : q[i] = f[i] BY <1>4 DEF q
    <2> HIDE DEF longer
    <2>6. QED BY <2>1, <2>2, <2>3, <2>4, <2>5
  <1>9. longer = q
    <2> HIDE DEF longer
    <2>1. longer = [i \in 1 .. m + 1 |-> longer[i]] /\ q = [i \in 1 .. m + 1 |-> q[i]]
      BY <1>6, <1>7
    <2>2. QED BY <1>8, <2>1
  <1>10. m # 0 => Prefix(f, m)[m] = f[m] BY <1>3
  <1>11. QED BY <1>1, <1>9, <1>10 DEF p, q, longer

\* w is what a reader that follows the next pointers has seen after so many
\* steps.
WalkOfList(list, head, nil, size, w) ==
  w = [n \in 0 .. size |->
         IF n = 0
         THEN <<>>
         ELSE LET seen == w[n - 1]
                  key  == IF seen = <<>> THEN list[head].next
                          ELSE list[seen[Len(seen)]].next
              IN  IF key = nil \/ Len(seen) < n - 1 THEN seen
                  ELSE Append(seen, key)]

\* Traversal reads the whole walk.
LEMMA TraversalIsWalk ==
  ASSUME NEW list, NEW head, NEW nil, NEW size
  PROVE  Traversal(list, head, nil, size)
           = (CHOOSE w : WalkOfList(list, head, nil, size, w))[size]
  BY DEF Traversal, WalkOfList

\* A reader that makes enough steps sees the whole list in its order.
LEMMA TraversalOfChain ==
  ASSUME NEW keys, NEW head, NEW nil, head \notin keys, nil \notin keys, head # nil,
         NEW list, NEW n \in Nat, NEW f, Chained(list, n, f, keys, head, nil),
         NEW size \in Nat, n <= size
  PROVE  Traversal(list, head, nil, size) = Prefix(f, n)
  <1> DEFINE W == [m \in 0 .. size |-> Prefix(f, IF m <= n THEN m ELSE n)]
             After(seen, m) ==
               LET key == IF seen = <<>> THEN list[head].next
                          ELSE list[seen[Len(seen)]].next
               IN  IF key = nil \/ Len(seen) < m - 1 THEN seen ELSE Append(seen, key)
  <1>0. /\ f[0] = head /\ f[n + 1] = nil
        /\ \A i \in 1 .. n : f[i] \in keys /\ f[i] # nil
        /\ \A i \in 0 .. n : list[f[i]].next = f[i + 1]
    BY DEF Chained
  <1>1. ASSUME NEW m \in 1 .. size
        PROVE  After(W[m - 1], m) = W[m]
    <2> DEFINE seen == W[m - 1]
    <2>1. CASE m <= n
      <3> DEFINE k == m - 1
      <3>1. k \in Nat /\ k \in 0 .. size /\ k <= n /\ m = k + 1 /\ k \in 0 .. n
        BY <2>1
      <3>2. seen = Prefix(f, k) /\ W[m] = Prefix(f, k + 1) BY <2>1, <3>1
      <3> HIDE DEF k, seen, W
      <3>3. \A i \in 1 .. k + 1 : f[i] \in keys BY <1>0, <2>1, <3>1
      <3>4. /\ seen \in Seq(keys) /\ Len(seen) = k
            /\ k # 0 => seen[k] = f[k]
            /\ Append(seen, f[k + 1]) = W[m]
        BY <3>1, <3>2, <3>3, PrefixGrows
      <3>5. seen = <<>> <=> k = 0 BY <3>4
      <3>6. (IF seen = <<>> THEN list[head].next ELSE list[seen[Len(seen)]].next) = f[k + 1]
        BY <1>0, <3>1, <3>4, <3>5
      <3>7. f[k + 1] # nil /\ ~ (Len(seen) < m - 1) BY <1>0, <2>1, <3>1, <3>4
      <3>8. QED BY <3>4, <3>6, <3>7 DEF seen
    <2>2. CASE m > n
      <3>1. seen = Prefix(f, n) /\ W[m] = Prefix(f, n) BY <2>2
      <3> HIDE DEF seen, W
      <3>2. seen = <<>> <=> n = 0 
        BY <3>1 DEF Prefix
      <3>3. Len(seen) = n /\ (n # 0 => seen[n] = f[n])
        <4>1. CASE n = 0 BY <3>2, <4>1
        <4>2. CASE n # 0 BY <3>1, <4>2 DEF Prefix
        <4>3. QED BY <4>1, <4>2
      <3>4. CASE m = n + 1
        <4>1. (IF seen = <<>> THEN list[head].next ELSE list[seen[Len(seen)]].next) = nil
          BY <1>0, <3>2, <3>3
        <4>2. QED BY <3>1, <4>1 DEF seen
      <3>5. CASE m # n + 1
        <4>1. Len(seen) < m - 1 BY <2>2, <3>3, <3>5
        <4>2. QED BY <3>1, <4>1 DEF seen
      <3>6. QED BY <3>4, <3>5
    <2>3. QED BY <2>1, <2>2
  <1>2. W[0] = <<>> /\ DOMAIN W = 0 .. size BY DEF Prefix
  <1>3. \A w : WalkOfList(list, head, nil, size, w) <=>
                 w = [m \in 0 .. size |-> IF m = 0 THEN <<>> ELSE After(w[m - 1], m)]
    BY DEF WalkOfList
  <1>9. W = [m \in 0 .. size |-> W[m]] OBVIOUS
  <1> HIDE DEF W, After
  <1>4. WalkOfList(list, head, nil, size, W)
    <2>1. \A m \in 0 .. size : W[m] = IF m = 0 THEN <<>> ELSE After(W[m - 1], m)
      BY <1>1, <1>2
    <2>2. W = [m \in 0 .. size |-> IF m = 0 THEN <<>> ELSE After(W[m - 1], m)]
      BY <1>9, <2>1
    <2>3. QED BY <1>3, <2>2
  <1> DEFINE walk == CHOOSE w : WalkOfList(list, head, nil, size, w)
  <1>5. WalkOfList(list, head, nil, size, walk) BY <1>4
  <1> HIDE DEF walk
  <1>6. walk = [m \in 0 .. size |-> IF m = 0 THEN <<>> ELSE After(walk[m - 1], m)]
    BY <1>3, <1>5
  <1> DEFINE Good == {m \in 0 .. size : walk[m] = W[m]}
  <1>7. \A m \in 0 .. size : m \in Good
    <2>1. 0 \in Good BY <1>2, <1>6
    <2>2. ASSUME NEW m \in 0 .. size - 1, m \in Good PROVE m + 1 \in Good
      <3>1. m + 1 \in 1 .. size /\ (m + 1) - 1 = m OBVIOUS
      <3>2. walk[m + 1] = After(walk[m], m + 1) BY <1>6, <3>1
      <3>3. W[m + 1] = After(W[m], m + 1) BY <1>1, <3>1
      <3>4. QED BY <2>2, <3>1, <3>2, <3>3
    <2> HIDE DEF Good
    <2>3. QED BY <2>1, <2>2, UpwardInduction
  <1>8. walk[size] = W[size] BY <1>7
  <1>10. W[size] = Prefix(f, n) BY DEF W
  <1>11. QED BY <1>8, <1>10, TraversalIsWalk DEF walk

\* What a reader that follows the list sees, if it makes enough steps.
LEMMA TraversalOfHeld ==
  ASSUME NEW keys, NEW head, NEW nil, head \notin keys, nil \notin keys, head # nil,
         IsFiniteSet(keys), NEW list, NEW S, ListHolds(list, S, keys, head, nil),
         NEW size \in Nat, Cardinality(keys) <= size
  PROVE  LET seen == Traversal(list, head, nil, size)
         IN  /\ seen \in Seq(keys)
             /\ S = {seen[i] : i \in 1 .. Len(seen)}
             /\ \A i, j \in 1 .. Len(seen) : seen[i] = seen[j] => i = j
  <1>1. PICK n \in Nat : \E f \in [0 .. n + 1 -> keys \cup {head, nil}] :
          Chained(list, n, f, keys, head, nil) /\ S = {f[i] : i \in 1 .. n}
    BY DEF ListHolds
  <1>2. PICK f \in [0 .. n + 1 -> keys \cup {head, nil}] :
          Chained(list, n, f, keys, head, nil) /\ S = {f[i] : i \in 1 .. n}
    BY <1>1
  <1>3. Cardinality(keys) \in Nat BY FS_CardinalityType
  <1>4. n <= size BY <1>2, <1>3, ChainedLength
  <1>5. Traversal(list, head, nil, size) = Prefix(f, n) BY <1>2, <1>4, TraversalOfChain
  <1>6. \A i \in 1 .. n : f[i] \in keys BY <1>2 DEF Chained
  <1>7. Prefix(f, n) \in Seq(keys) /\ Len(Prefix(f, n)) = n BY <1>6 DEF Prefix
  <1>8. \A i \in 1 .. n : Prefix(f, n)[i] = f[i] BY DEF Prefix
  <1>9. \A i, j \in 1 .. n : f[i] = f[j] => i = j BY <1>2 DEF Chained
  <1>10. QED BY <1>2, <1>5, <1>7, <1>8, <1>9

\* Every next pointer is undone by a prev pointer, and no key points at the
\* sentinel.
LEMMA HeldBackLinked ==
  ASSUME NEW keys, NEW head, NEW nil, head \notin keys, nil \notin keys, head # nil,
         NEW list, NEW S, ListHolds(list, S, keys, head, nil)
  PROVE  \A k \in DOMAIN list : list[k].next # nil => list[list[k].next].prev = k
  <1>1. PICK n \in Nat : \E f \in [0 .. n + 1 -> keys \cup {head, nil}] :
          Chained(list, n, f, keys, head, nil) /\ S = {f[i] : i \in 1 .. n}
    BY DEF ListHolds
  <1>2. PICK f \in [0 .. n + 1 -> keys \cup {head, nil}] :
          Chained(list, n, f, keys, head, nil) /\ S = {f[i] : i \in 1 .. n}
    BY <1>1
  <1>3. ASSUME NEW k \in keys \cup {head}, list[k].next # nil
        PROVE  list[list[k].next].prev = k
    <2>1. PICK i \in 0 .. n : f[i] = k
      <3>1. CASE k = head BY <1>2, <3>1 DEF Chained
      <3>2. CASE k \in keys
        <4>1. \E i \in 1 .. n : f[i] = k BY <1>2, <1>3, <3>2 DEF Chained
        <4>2. QED BY <4>1
      <3>3. QED BY <3>1, <3>2
    <2>2. list[k].next = f[i + 1] /\ f[n + 1] = nil BY <1>2, <2>1 DEF Chained
    <2>3. i + 1 \in 1 .. n /\ (i + 1) - 1 = i BY <1>3, <2>2
    <2>4. list[f[i + 1]].prev = f[i] BY <1>2, <2>3 DEF Chained
    <2>5. QED BY <2>1, <2>2, <2>4
  <1>4. DOMAIN list = keys \cup {head} BY <1>2 DEF Chained
  <1>5. QED BY <1>3, <1>4
=============================================================================
