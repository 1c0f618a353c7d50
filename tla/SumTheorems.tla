---------------------------- MODULE SumTheorems ----------------------------
(***************************************************************************)
(* Sums over finite sets: SumFunctionOnSet(f, S), the sum of f[x] for x in *)
(* S, as the proofs about money need it.                                   *)
(*                                                                         *)
(* The provers cannot use an induction theorem whose parameter is an       *)
(* operator, so induction is stated for a set of sets: FiniteInduction     *)
(* says that a set G of sets that contains every subset of S whose strict  *)
(* subsets it contains also contains S.  It follows from the well-founded  *)
(* ordering of the finite subsets of S.                                    *)
(***************************************************************************)
EXTENDS Integers, Functions, FiniteSetTheorems, WellFoundedInduction, TLAPS

\* Induction over the subsets of a finite set: G contains S if it contains
\* every subset of S all of whose strict subsets it contains.
LEMMA FiniteInduction ==
  ASSUME NEW S, IsFiniteSet(S), NEW G,
         \A T \in SUBSET S : (\A U \in SUBSET T : U # T => U \in G) => T \in G
  PROVE  S \in G
PROOF
<1> SUFFICES ASSUME S \notin G PROVE FALSE
  OBVIOUS
<1> DEFINE Bad == {T \in SUBSET S : T \notin G}
<1>1. IsWellFoundedOn(StrictSubsetOrdering(S), SUBSET S)
  <2>1. FiniteSubsetsOf(S) = SUBSET S
    BY FS_FiniteSubsetsOfFinite
  <2>2. IsWellFoundedOn(StrictSubsetOrdering(S), FiniteSubsetsOf(S))
    BY FS_StrictSubsetOrderingWellFounded
  <2> QED
    BY <2>1, <2>2
<1>2. Bad # {} /\ Bad \subseteq SUBSET S
  OBVIOUS
<1>3. PICK T \in Bad : \A U \in Bad : <<U, T>> \notin StrictSubsetOrdering(S)
  <2> HIDE DEF Bad
  <2> QED
    BY <1>1, <1>2, WFMin
<1>4. ASSUME NEW U \in SUBSET T, U # T PROVE U \in G
  BY <1>3, <1>4 DEF StrictSubsetOrdering
<1> QED
  BY <1>3, <1>4

---------------------------------------------------------------------------
(* The sum is the value at S of a function that is defined by recursion on *)
(* the subsets of S.                                                       *)

Pick(s) == CHOOSE x \in s : TRUE

IsSum(g, f, S) ==
  g = [s \in SUBSET S |-> IF s = {} THEN 0 ELSE f[Pick(s)] + g[s \ {Pick(s)}]]

TheSum(f, S) == CHOOSE g : IsSum(g, f, S)

LEMMA SumUnfold ==
  ASSUME NEW f, NEW S
  PROVE  SumFunctionOnSet(f, S) = TheSum(f, S)[S]
PROOF
BY DEF SumFunctionOnSet, FoldFunctionOnSet, MapThenFoldSet, TheSum, IsSum, Pick

LEMMA PickIsIn ==
  ASSUME NEW s, s # {}
  PROVE  Pick(s) \in s
PROOF
BY DEF Pick

\* Such a function on a set agrees with that on any part of it.
LEMMA SumsAgree ==
  ASSUME NEW f, NEW g, NEW h, NEW S, NEW U \in SUBSET S, IsFiniteSet(U),
         IsSum(g, f, S), IsSum(h, f, U)
  PROVE  g[U] = h[U]
PROOF
<1> DEFINE G == {V \in SUBSET U : g[V] = h[V]}
<1>1. ASSUME NEW V \in SUBSET U, \A W \in SUBSET V : W # V => W \in G PROVE V \in G
  <2>1. CASE V = {}
    BY <2>1 DEF IsSum
  <2>2. CASE V # {}
    <3>1. /\ g[V] = f[Pick(V)] + g[V \ {Pick(V)}]
          /\ h[V] = f[Pick(V)] + h[V \ {Pick(V)}]
      BY <2>2 DEF IsSum
    <3>2. V \ {Pick(V)} \in G
      BY <1>1, <2>2, PickIsIn
    <3> QED
      BY <3>1, <3>2
  <2> QED
    BY <2>1, <2>2
<1>2. U \in G
  <2> HIDE DEF G
  <2> QED
    BY <1>1, FiniteInduction
<1> QED
  BY <1>2

LEMMA SumExists ==
  ASSUME NEW f, NEW S, IsFiniteSet(S)
  PROVE  IsSum(TheSum(f, S), f, S)
PROOF
<1> DEFINE G == {T \in SUBSET S : \E g : IsSum(g, f, T)}
<1>1. ASSUME NEW T \in SUBSET S, \A U \in SUBSET T : U # T => U \in G PROVE T \in G
  <2> DEFINE rest(s) == s \ {Pick(s)}
             g == [s \in SUBSET T |->
                     IF s = {} THEN 0 ELSE f[Pick(s)] + TheSum(f, rest(s))[rest(s)]]
  <2>1. ASSUME NEW U \in SUBSET T, U # T PROVE IsSum(TheSum(f, U), f, U)
    BY <1>1, <2>1 DEF TheSum
  <2>2. ASSUME NEW U \in SUBSET T, U # T PROVE g[U] = TheSum(f, U)[U]
    <3>1. CASE U = {}
      BY <2>1, <2>2, <3>1 DEF IsSum
    <3>2. CASE U # {}
      <4>1. rest(U) \in SUBSET U /\ rest(U) # T /\ IsFiniteSet(rest(U))
        BY <2>2, <3>2, FS_Subset
      <4>2. TheSum(f, U)[rest(U)] = TheSum(f, rest(U))[rest(U)]
        <5>1. IsSum(TheSum(f, U), f, U) /\ IsSum(TheSum(f, rest(U)), f, rest(U))
          BY <2>1, <2>2, <4>1
        <5>2. rest(U) \in SUBSET U /\ IsFiniteSet(rest(U))
          BY <4>1
        <5> HIDE DEF rest
        <5> QED
          BY <5>1, <5>2, SumsAgree
      <4>3. TheSum(f, U)[U] = f[Pick(U)] + TheSum(f, U)[rest(U)]
        <5>1. IsSum(TheSum(f, U), f, U)
          BY <2>1, <2>2
        <5> QED
          BY <3>2, <5>1 DEF IsSum
      <4> QED
        BY <3>2, <4>2, <4>3
    <3> QED
      BY <3>1, <3>2
  <2>3. ASSUME NEW s \in SUBSET T, s # {} PROVE g[rest(s)] = TheSum(f, rest(s))[rest(s)]
    <3>1. rest(s) \in SUBSET T /\ rest(s) # T
      BY <2>3, PickIsIn
    <3> HIDE DEF g, rest
    <3> QED
      BY <2>2, <3>1
  <2>4. IsSum(g, f, T)
    <3>1. \A s \in SUBSET T :
            g[s] = IF s = {} THEN 0 ELSE f[Pick(s)] + g[s \ {Pick(s)}]
      BY <2>3
    <3>2. g = [s \in SUBSET T |-> g[s]]
      OBVIOUS
    <3> HIDE DEF g
    <3> QED
      BY <3>1, <3>2 DEF IsSum
  <2> QED
    <3> HIDE DEF g
    <3> QED
      BY <2>4
<1>2. S \in G
  <2> HIDE DEF G
  <2> QED
    BY <1>1, FiniteInduction
<1> QED
  BY <1>2 DEF TheSum
---------------------------------------------------------------------------
(* What the proofs use.                                                    *)

THEOREM SumEmpty ==
  ASSUME NEW f
  PROVE  SumFunctionOnSet(f, {}) = 0
PROOF
<1>1. IsSum(TheSum(f, {}), f, {})
  BY FS_EmptySet, SumExists
<1> QED
  BY <1>1, SumUnfold DEF IsSum

\* The element the recursion picks first.
LEMMA SumPick ==
  ASSUME NEW f, NEW S, IsFiniteSet(S), S # {}
  PROVE  SumFunctionOnSet(f, S) = f[Pick(S)] + SumFunctionOnSet(f, S \ {Pick(S)})
PROOF
<1> DEFINE R == S \ {Pick(S)}
<1>1. IsFiniteSet(R) /\ R \in SUBSET S
  BY FS_Subset
<1>2. IsSum(TheSum(f, S), f, S) /\ IsSum(TheSum(f, R), f, R)
  BY <1>1, SumExists
<1>3. TheSum(f, S)[R] = TheSum(f, R)[R]
  <2> HIDE DEF R
  <2> QED
    BY <1>1, <1>2, SumsAgree
<1>4. TheSum(f, S)[S] = f[Pick(S)] + TheSum(f, S)[R]
  <2>1. IsSum(TheSum(f, S), f, S)
    BY <1>2
  <2> QED
    BY <2>1 DEF IsSum
<1> QED
  BY <1>3, <1>4, SumUnfold

THEOREM SumInt ==
  ASSUME NEW f, NEW S, IsFiniteSet(S), \A x \in S : f[x] \in Int
  PROVE  SumFunctionOnSet(f, S) \in Int
PROOF
<1> DEFINE G == {T \in SUBSET S : SumFunctionOnSet(f, T) \in Int}
<1>1. ASSUME NEW T \in SUBSET S, \A U \in SUBSET T : U # T => U \in G PROVE T \in G
  <2>1. CASE T = {}
    BY <2>1, SumEmpty
  <2>2. CASE T # {}
    <3>1. Pick(T) \in T /\ T \ {Pick(T)} \in G
      BY <1>1, <2>2, PickIsIn
    <3>2. SumFunctionOnSet(f, T) = f[Pick(T)] + SumFunctionOnSet(f, T \ {Pick(T)})
      BY <2>2, SumPick, FS_Subset
    <3> QED
      BY <3>1, <3>2
  <2> QED
    BY <2>1, <2>2
<1>2. S \in G
  <2> HIDE DEF G
  <2> QED
    BY <1>1, FiniteInduction
<1> QED
  BY <1>2

THEOREM SumNat ==
  ASSUME NEW f, NEW S, IsFiniteSet(S), \A x \in S : f[x] \in Nat
  PROVE  SumFunctionOnSet(f, S) \in Nat
PROOF
<1> DEFINE G == {T \in SUBSET S : SumFunctionOnSet(f, T) \in Nat}
<1>1. ASSUME NEW T \in SUBSET S, \A U \in SUBSET T : U # T => U \in G PROVE T \in G
  <2>1. CASE T = {}
    BY <2>1, SumEmpty
  <2>2. CASE T # {}
    <3>1. Pick(T) \in T /\ T \ {Pick(T)} \in G
      BY <1>1, <2>2, PickIsIn
    <3>2. SumFunctionOnSet(f, T) = f[Pick(T)] + SumFunctionOnSet(f, T \ {Pick(T)})
      BY <2>2, SumPick, FS_Subset
    <3> QED
      BY <3>1, <3>2
  <2> QED
    BY <2>1, <2>2
<1>2. S \in G
  <2> HIDE DEF G
  <2> QED
    BY <1>1, FiniteInduction
<1> QED
  BY <1>2

\* Any element may be taken out first.
THEOREM SumRemove ==
  ASSUME NEW f, NEW S, IsFiniteSet(S), \A x \in S : f[x] \in Int, NEW x \in S
  PROVE  SumFunctionOnSet(f, S) = f[x] + SumFunctionOnSet(f, S \ {x})
PROOF
<1> DEFINE s(T) == SumFunctionOnSet(f, T)
           G == {T \in SUBSET S : \A y \in T : s(T) = f[y] + s(T \ {y})}
<1>1. ASSUME NEW T \in SUBSET S, \A U \in SUBSET T : U # T => U \in G PROVE T \in G
  <2> SUFFICES ASSUME NEW y \in T PROVE s(T) = f[y] + s(T \ {y})
    OBVIOUS
  <2> DEFINE p == Pick(T)
             R == T \ {p, y}
  <2>1. p \in T /\ s(T) = f[p] + s(T \ {p})
    BY SumPick, PickIsIn, FS_Subset
  <2>2. CASE p # y
    <3>1. T \ {p} \in G /\ y \in T \ {p} /\ (T \ {p}) \ {y} = R
      BY <1>1, <2>1, <2>2
    <3>2. s(T \ {p}) = f[y] + s(R)
      BY <3>1
    <3>3. T \ {y} \in G /\ p \in T \ {y} /\ (T \ {y}) \ {p} = R
      BY <1>1, <2>1, <2>2
    <3>4. s(T \ {y}) = f[p] + s(R)
      BY <3>3
    <3>5. IsFiniteSet(R) /\ \A z \in R : f[z] \in Int
      BY FS_Subset
    <3>6. s(R) \in Int /\ f[p] \in Int /\ f[y] \in Int
      BY <2>1, <3>5, SumInt
    <3> HIDE DEF s, p, R
    <3> QED
      BY <2>1, <3>2, <3>4, <3>6
  <2> QED
    BY <2>1, <2>2
<1>2. S \in G
  <2> HIDE DEF G
  <2> QED
    BY <1>1, FiniteInduction
<1> QED
  BY <1>2

THEOREM SumAdd ==
  ASSUME NEW f, NEW S, IsFiniteSet(S), \A y \in S : f[y] \in Int,
         NEW x, x \notin S, f[x] \in Int
  PROVE  SumFunctionOnSet(f, S \cup {x}) = SumFunctionOnSet(f, S) + f[x]
PROOF
<1>1. IsFiniteSet(S \cup {x}) /\ \A y \in S \cup {x} : f[y] \in Int
  BY FS_AddElement
<1>2. (S \cup {x}) \ {x} = S
  OBVIOUS
<1>3. SumFunctionOnSet(f, S \cup {x}) = f[x] + SumFunctionOnSet(f, S)
  <2>1. SumFunctionOnSet(f, S \cup {x}) = f[x] + SumFunctionOnSet(f, (S \cup {x}) \ {x})
    BY <1>1, SumRemove
  <2> QED
    BY <1>2, <2>1
<1> QED
  BY <1>3, SumInt

\* Equal summands, equal sums.
THEOREM SumSame ==
  ASSUME NEW f, NEW g, NEW S, IsFiniteSet(S), \A x \in S : f[x] = g[x]
  PROVE  SumFunctionOnSet(f, S) = SumFunctionOnSet(g, S)
PROOF
<1> DEFINE G == {T \in SUBSET S : SumFunctionOnSet(f, T) = SumFunctionOnSet(g, T)}
<1>1. ASSUME NEW T \in SUBSET S, \A U \in SUBSET T : U # T => U \in G PROVE T \in G
  <2>1. CASE T = {}
    BY <2>1, SumEmpty
  <2>2. CASE T # {}
    <3>1. Pick(T) \in T /\ T \ {Pick(T)} \in G
      BY <1>1, <2>2, PickIsIn
    <3>2. IsFiniteSet(T)
      BY FS_Subset
    <3>3. /\ SumFunctionOnSet(f, T) = f[Pick(T)] + SumFunctionOnSet(f, T \ {Pick(T)})
          /\ SumFunctionOnSet(g, T) = g[Pick(T)] + SumFunctionOnSet(g, T \ {Pick(T)})
      BY <2>2, <3>2, SumPick
    <3> QED
      BY <3>1, <3>3
  <2> QED
    BY <2>1, <2>2
<1>2. S \in G
  <2> HIDE DEF G
  <2> QED
    BY <1>1, FiniteInduction
<1> QED
  BY <1>2

\* One summand changes.
THEOREM SumChange ==
  ASSUME NEW f, NEW g, NEW S, IsFiniteSet(S), NEW x \in S,
         \A y \in S : f[y] \in Int /\ g[y] \in Int,
         \A y \in S \ {x} : g[y] = f[y]
  PROVE  SumFunctionOnSet(g, S) = SumFunctionOnSet(f, S) - f[x] + g[x]
PROOF
<1> DEFINE R == S \ {x}
<1>1. IsFiniteSet(R)
  BY FS_Subset
<1>2. SumFunctionOnSet(f, R) = SumFunctionOnSet(g, R) /\ SumFunctionOnSet(f, R) \in Int
  <2>1. \A y \in R : f[y] \in Int /\ f[y] = g[y]
    OBVIOUS
  <2> HIDE DEF R
  <2> QED
    BY <1>1, <2>1, SumSame, SumInt
<1>3. /\ SumFunctionOnSet(f, S) = f[x] + SumFunctionOnSet(f, R)
      /\ SumFunctionOnSet(g, S) = g[x] + SumFunctionOnSet(g, R)
  BY SumRemove
<1> QED
  BY <1>2, <1>3

\* A part sums to no more than the whole, if no summand is negative.
THEOREM SumOfPart ==
  ASSUME NEW f, NEW S, IsFiniteSet(S), \A x \in S : f[x] \in Nat,
         NEW T \in SUBSET S
  PROVE  SumFunctionOnSet(f, T) <= SumFunctionOnSet(f, S)
PROOF
<1> DEFINE s(V) == SumFunctionOnSet(f, V)
           G == {V \in SUBSET S : T \subseteq V => s(T) <= s(V)}
<1>1. ASSUME NEW V \in SUBSET S, \A U \in SUBSET V : U # V => U \in G PROVE V \in G
  <2> SUFFICES ASSUME T \subseteq V PROVE s(T) <= s(V)
    OBVIOUS
  <2>0. IsFiniteSet(T) /\ IsFiniteSet(V)
    BY FS_Subset
  <2>1. CASE T = V
    <3>1. s(T) \in Nat
      BY <2>0, SumNat
    <3> QED
      BY <2>1, <3>1
  <2>2. CASE T # V
    <3>1. PICK x \in V : x \notin T
      BY <2>2
    <3>2. V \ {x} \in G /\ T \subseteq V \ {x}
      BY <1>1, <3>1
    <3>3. s(V) = f[x] + s(V \ {x})
      BY <2>0, SumRemove
    <3>4. s(T) \in Nat /\ s(V \ {x}) \in Nat /\ f[x] \in Nat
      <4>1. IsFiniteSet(V \ {x})
        BY FS_Subset
      <4> QED
        BY <2>0, <4>1, SumNat
    <3>5. s(T) <= s(V \ {x})
      BY <3>2
    <3> HIDE DEF s
    <3> QED
      BY <3>3, <3>4, <3>5
  <2> QED
    BY <2>1, <2>2
<1>2. S \in G
  <2> HIDE DEF G
  <2> QED
    BY <1>1, FiniteInduction
<1> QED
  BY <1>2
\* An element joins the set, and only its summand may be new.
THEOREM SumJoin ==
  ASSUME NEW f, NEW g, NEW S, IsFiniteSet(S), \A y \in S : f[y] \in Int,
         NEW x, x \notin S, g[x] \in Int, \A y \in S : g[y] = f[y]
  PROVE  /\ IsFiniteSet(S \cup {x})
         /\ SumFunctionOnSet(g, S \cup {x}) = SumFunctionOnSet(f, S) + g[x]
PROOF
<1>1. SumFunctionOnSet(g, S) = SumFunctionOnSet(f, S)
  BY SumSame
<1>2. SumFunctionOnSet(g, S \cup {x}) = SumFunctionOnSet(g, S) + g[x]
  BY SumAdd
<1> QED
  BY <1>1, <1>2, FS_AddElement

\* An element leaves the set.
THEOREM SumLeave ==
  ASSUME NEW f, NEW g, NEW S, IsFiniteSet(S), \A y \in S : f[y] \in Int,
         NEW x \in S, \A y \in S \ {x} : g[y] = f[y]
  PROVE  /\ IsFiniteSet(S \ {x})
         /\ SumFunctionOnSet(g, S \ {x}) = SumFunctionOnSet(f, S) - f[x]
PROOF
<1> DEFINE R == S \ {x}
<1>1. IsFiniteSet(R) /\ \A y \in R : f[y] \in Int /\ f[y] = g[y]
  BY FS_RemoveElement
<1>2. SumFunctionOnSet(f, R) = SumFunctionOnSet(g, R) /\ SumFunctionOnSet(f, R) \in Int
  <2> HIDE DEF R
  <2> QED
    BY <1>1, SumSame, SumInt
<1>3. SumFunctionOnSet(f, S) = f[x] + SumFunctionOnSet(f, R)
  BY SumRemove
<1>4. f[x] \in Int
  OBVIOUS
<1> QED
  BY <1>1, <1>2, <1>3, <1>4
=============================================================================
