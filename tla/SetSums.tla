------------------------------- MODULE SetSums -------------------------------
(***************************************************************************)
(* The laws of sums over finite sets: SumFunctionOnSet of the community    *)
(* modules adds up a function over a set in an order nobody knows, and     *)
(* these lemmas say that the order does not matter.  Every argument by     *)
(* induction looks at a smallest set of which a law could fail.            *)
(***************************************************************************)
EXTENDS FiniteSetsExt, FiniteSetTheorems, TLAPS

(* The element a sum takes first, and what makes g the function of the       *)
(* partial sums of f over the subsets of S *)
Pick(T) == CHOOSE x \in T : TRUE

Adds(f, S, g) ==
  g = [T \in SUBSET S |-> IF T = {} THEN 0 ELSE f[Pick(T)] + g[T \ {Pick(T)}]]

LEMMA SumDef ==
  ASSUME NEW f, NEW S
  PROVE  SumFunctionOnSet(f, S) = (CHOOSE g : Adds(f, S, g))[S]
BY DEF SumFunctionOnSet, FoldFunctionOnSet, MapThenFoldSet, Adds, Pick

-----------------------------------------------------------------------------
(* A set of subsets of a finite S that holds each subset as soon as it holds *)
(* the smaller ones holds them all. *)
LEMMA SubsetInduction ==
  ASSUME NEW S, IsFiniteSet(S), NEW Good,
         \A T \in SUBSET S : (\A U \in SUBSET T : U # T => U \in Good) => T \in Good
  PROVE  \A T \in SUBSET S : T \in Good
<1> DEFINE Bad == {T \in SUBSET S : T \notin Good}
<1> SUFFICES ASSUME Bad # {} PROVE FALSE
  OBVIOUS
<1>1. IsWellFoundedOn(StrictSubsetOrdering(S), SUBSET S)
  <2>1. IsWellFoundedOn(StrictSubsetOrdering(S), FiniteSubsetsOf(S))
    BY FS_StrictSubsetOrderingWellFounded
  <2>2. FiniteSubsetsOf(S) = SUBSET S
    BY FS_FiniteSubsetsOfFinite
  <2> QED BY <2>1, <2>2
<1>2. Bad \subseteq SUBSET S
  OBVIOUS
<1> HIDE DEF Bad
<1>3. PICK T \in Bad : \A U \in Bad : <<U, T>> \notin StrictSubsetOrdering(S)
  BY <1>1, <1>2, WFMin
<1>4. T \in SUBSET S /\ T \notin Good
  BY <1>3 DEF Bad
<1>5. ASSUME NEW U \in SUBSET T, U # T PROVE U \in Good
  <2>1. U \in SUBSET S
    BY <1>4
  <2>2. <<U, T>> \in StrictSubsetOrdering(S)
    BY <1>4, <1>5, <2>1 DEF StrictSubsetOrdering
  <2> QED BY <1>3, <2>1, <2>2 DEF Bad
<1> QED BY <1>4, <1>5

LEMMA PickIn == ASSUME NEW T, T # {} PROVE Pick(T) \in T
BY DEF Pick

(* Partial sums of functions that agree on a set agree on it, whatever sets  *)
(* they were taken over. *)
LEMMA AddsUnique ==
  ASSUME NEW S, IsFiniteSet(S), NEW A, NEW B, S \subseteq A, S \subseteq B,
         NEW f, NEW e, \A x \in S : f[x] = e[x],
         NEW g, NEW h, Adds(f, A, g), Adds(e, B, h)
  PROVE  g[S] = h[S]
<1> DEFINE Good == {T \in SUBSET S : g[T] = h[T]}
<1>1. ASSUME NEW T \in SUBSET S, \A U \in SUBSET T : U # T => U \in Good
      PROVE  T \in Good
  <2>1. /\ g[T] = IF T = {} THEN 0 ELSE f[Pick(T)] + g[T \ {Pick(T)}]
        /\ h[T] = IF T = {} THEN 0 ELSE e[Pick(T)] + h[T \ {Pick(T)}]
    <3>1. T \in SUBSET A /\ T \in SUBSET B
      OBVIOUS
    <3> QED BY <3>1 DEF Adds
  <2>2. CASE T = {}
    BY <2>1, <2>2
  <2>3. CASE T # {}
    <3>1. Pick(T) \in T
      BY <2>3, PickIn
    <3>2. T \ {Pick(T)} \in SUBSET T /\ T \ {Pick(T)} # T
      BY <3>1
    <3>3. g[T \ {Pick(T)}] = h[T \ {Pick(T)}]
      BY <1>1, <3>2
    <3>4. f[Pick(T)] = e[Pick(T)]
      BY <3>1
    <3> QED BY <2>1, <2>3, <3>3, <3>4
  <2> QED BY <2>2, <2>3
<1> HIDE DEF Good
<1>2. S \in Good
  BY <1>1, SubsetInduction
<1> QED BY <1>2 DEF Good

(* Partial sums over a set are those over a larger one, restricted. *)
LEMMA AddsRestrict ==
  ASSUME NEW f, NEW S, NEW T \in SUBSET S, NEW g, Adds(f, S, g)
  PROVE  Adds(f, T, [U \in SUBSET T |-> g[U]])
<1> DEFINE h == [U \in SUBSET T |-> g[U]]
<1>1. ASSUME NEW U \in SUBSET T
      PROVE  g[U] = IF U = {} THEN 0 ELSE f[Pick(U)] + h[U \ {Pick(U)}]
  <2>1. U \in SUBSET S /\ U \ {Pick(U)} \in SUBSET T
    OBVIOUS
  <2>2. g[U] = IF U = {} THEN 0 ELSE f[Pick(U)] + g[U \ {Pick(U)}]
    BY <2>1 DEF Adds
  <2> QED BY <2>1, <2>2
<1>2. h = [U \in SUBSET T |-> IF U = {} THEN 0 ELSE f[Pick(U)] + h[U \ {Pick(U)}]]
  BY <1>1
<1> QED BY <1>2 DEF Adds

(* The partial sums exist: over S they are those over the smaller sets, and  *)
(* one more. *)
LEMMA AddsExists ==
  ASSUME NEW f, NEW S, IsFiniteSet(S)
  PROVE  \E g : Adds(f, S, g)
<1> DEFINE Good == {T \in SUBSET S : \E g : Adds(f, T, g)}
<1>1. ASSUME NEW T \in SUBSET S, \A U \in SUBSET T : U # T => U \in Good
      PROVE  T \in Good
  <2> DEFINE part(U) == CHOOSE g : Adds(f, U, g)
             last == IF T = {} THEN 0 ELSE f[Pick(T)] + part(T \ {Pick(T)})[T \ {Pick(T)}]
             all == [U \in SUBSET T |-> IF U = T THEN last ELSE part(U)[U]]
  <2>1. \A U \in SUBSET T : U # T => Adds(f, U, part(U))
    BY <1>1
  <2>2. all[T] = last /\ \A U \in SUBSET T : U # T => all[U] = part(U)[U]
    OBVIOUS
  <2> HIDE DEF part
  <2>3. ASSUME NEW U \in SUBSET T
        PROVE  all[U] = IF U = {} THEN 0 ELSE f[Pick(U)] + all[U \ {Pick(U)}]
    <3> DEFINE V == U \ {Pick(U)}
    <3>1. CASE U = {}
      <4>1. CASE T = {}
        BY <2>2, <3>1, <4>1
      <4>2. CASE T # {}
        <5>1. Adds(f, {}, part({}))
          BY <2>1, <4>2
        <5>2. part({})[{}] = 0
          BY <5>1 DEF Adds
        <5> QED BY <2>2, <3>1, <4>2, <5>2
      <4> QED BY <4>1, <4>2
    <3>2. CASE U # {}
      <4>1. Pick(U) \in U /\ V \in SUBSET T /\ V # T /\ V \in SUBSET U /\ V # U
        BY <3>2, PickIn
      <4>2. all[V] = part(V)[V]
        BY <2>2, <4>1
      <4>3. CASE U = T
        BY <2>2, <3>2, <4>2, <4>3
      <4>4. CASE U # T
        <5>1. Adds(f, U, part(U)) /\ Adds(f, V, part(V))
          BY <2>1, <4>1, <4>4
        <5>2. part(U)[U] = f[Pick(U)] + part(U)[V]
          BY <3>2, <5>1 DEF Adds
        <5>3. IsFiniteSet(V)
          BY <4>1, FS_Subset
        <5>4. part(U)[V] = part(V)[V]
          BY <4>1, <5>1, <5>3, AddsUnique
        <5> QED BY <2>2, <3>2, <4>2, <4>4, <5>2, <5>4
      <4> QED BY <4>3, <4>4
    <3> QED BY <3>1, <3>2
  <2> DEFINE step == [U \in SUBSET T |->
                        IF U = {} THEN 0 ELSE f[Pick(U)] + all[U \ {Pick(U)}]]
  <2>4. all = step
    BY <2>3
  <2>5. Adds(f, T, all)
    BY <2>4 DEF Adds
  <2> QED BY <2>5
<1> HIDE DEF Good
<1>2. S \in Good
  BY <1>1, SubsetInduction
<1> QED BY <1>2 DEF Good

-----------------------------------------------------------------------------
(* The sum of a set is a value of its partial sums, *)
LEMMA SumAdds ==
  ASSUME NEW f, NEW S, IsFiniteSet(S), NEW T \in SUBSET S, NEW g, Adds(f, S, g)
  PROVE  SumFunctionOnSet(f, T) = g[T]
<1> DEFINE c == CHOOSE h : Adds(f, T, h)
<1>1. IsFiniteSet(T)
  BY FS_Subset
<1>2. Adds(f, T, c)
  BY <1>1, AddsExists
<1> HIDE DEF c
<1>3. c[T] = g[T]
  BY <1>1, <1>2, AddsUnique
<1> QED BY <1>3, SumDef DEF c

(* so that the element picked first can be taken out of it, *)
LEMMA SumFirst ==
  ASSUME NEW f, NEW S, IsFiniteSet(S)
  PROVE  SumFunctionOnSet(f, S) =
           IF S = {} THEN 0
           ELSE f[Pick(S)] + SumFunctionOnSet(f, S \ {Pick(S)})
<1>1. PICK g : Adds(f, S, g)
  BY AddsExists
<1>2. SumFunctionOnSet(f, S) = g[S] /\ SumFunctionOnSet(f, S \ {Pick(S)}) = g[S \ {Pick(S)}]
  BY <1>1, SumAdds
<1>3. g[S] = IF S = {} THEN 0 ELSE f[Pick(S)] + g[S \ {Pick(S)}]
  BY <1>1 DEF Adds
<1> QED BY <1>2, <1>3

LEMMA SumEmpty == ASSUME NEW f PROVE SumFunctionOnSet(f, {}) = 0
BY SumFirst, FS_EmptySet

(* and that only what is added counts. *)
LEMMA SumSame ==
  ASSUME NEW f, NEW e, NEW S, IsFiniteSet(S), \A x \in S : f[x] = e[x]
  PROVE  SumFunctionOnSet(f, S) = SumFunctionOnSet(e, S)
<1>1. PICK g : Adds(f, S, g)
  BY AddsExists
<1>2. PICK h : Adds(e, S, h)
  BY AddsExists
<1>3. g[S] = h[S]
  BY <1>1, <1>2, AddsUnique
<1> QED BY <1>1, <1>2, <1>3, SumAdds

LEMMA SumZero ==
  ASSUME NEW f, NEW S, IsFiniteSet(S), \A x \in S : f[x] = 0
  PROVE  SumFunctionOnSet(f, S) = 0
<1> DEFINE Good == {T \in SUBSET S : SumFunctionOnSet(f, T) = 0}
<1>1. ASSUME NEW T \in SUBSET S, \A U \in SUBSET T : U # T => U \in Good
      PROVE  T \in Good
  <2>1. CASE T = {}
    BY <2>1, SumEmpty
  <2>2. CASE T # {}
    <3>1. Pick(T) \in T /\ IsFiniteSet(T)
      BY <2>2, PickIn, FS_Subset
    <3>2. SumFunctionOnSet(f, T \ {Pick(T)}) = 0 /\ f[Pick(T)] = 0
      BY <1>1, <3>1
    <3>3. SumFunctionOnSet(f, T) = f[Pick(T)] + SumFunctionOnSet(f, T \ {Pick(T)})
      BY <2>2, <3>1, SumFirst
    <3> QED BY <3>2, <3>3
  <2> QED BY <2>1, <2>2
<1> HIDE DEF Good
<1>2. S \in Good
  BY <1>1, SubsetInduction
<1> QED BY <1>2 DEF Good

(* Sums of integers are integers, and of naturals naturals. *)
LEMMA SumInt ==
  ASSUME NEW f, NEW S, IsFiniteSet(S), \A x \in S : f[x] \in Int
  PROVE  SumFunctionOnSet(f, S) \in Int
<1> DEFINE Good == {T \in SUBSET S : SumFunctionOnSet(f, T) \in Int}
<1>1. ASSUME NEW T \in SUBSET S, \A U \in SUBSET T : U # T => U \in Good
      PROVE  T \in Good
  <2>1. CASE T = {}
    BY <2>1, SumEmpty
  <2>2. CASE T # {}
    <3>1. Pick(T) \in T /\ IsFiniteSet(T)
      BY <2>2, PickIn, FS_Subset
    <3>2. T \ {Pick(T)} \in SUBSET T /\ T \ {Pick(T)} # T
      BY <3>1
    <3>3. SumFunctionOnSet(f, T \ {Pick(T)}) \in Int
      BY <1>1, <3>2
    <3>4. SumFunctionOnSet(f, T) = f[Pick(T)] + SumFunctionOnSet(f, T \ {Pick(T)})
      BY <2>2, <3>1, SumFirst
    <3>5. f[Pick(T)] \in Int
      BY <3>1
    <3> QED BY <3>3, <3>4, <3>5
  <2> QED BY <2>1, <2>2
<1> HIDE DEF Good
<1>2. S \in Good
  BY <1>1, SubsetInduction
<1> QED BY <1>2 DEF Good

LEMMA SumNat ==
  ASSUME NEW f, NEW S, IsFiniteSet(S), \A x \in S : f[x] \in Nat
  PROVE  SumFunctionOnSet(f, S) \in Nat
<1> DEFINE Good == {T \in SUBSET S : SumFunctionOnSet(f, T) \in Nat}
<1>1. ASSUME NEW T \in SUBSET S, \A U \in SUBSET T : U # T => U \in Good
      PROVE  T \in Good
  <2>1. CASE T = {}
    BY <2>1, SumEmpty
  <2>2. CASE T # {}
    <3>1. Pick(T) \in T /\ IsFiniteSet(T)
      BY <2>2, PickIn, FS_Subset
    <3>2. T \ {Pick(T)} \in SUBSET T /\ T \ {Pick(T)} # T
      BY <3>1
    <3>3. SumFunctionOnSet(f, T \ {Pick(T)}) \in Nat
      BY <1>1, <3>2
    <3>4. SumFunctionOnSet(f, T) = f[Pick(T)] + SumFunctionOnSet(f, T \ {Pick(T)})
      BY <2>2, <3>1, SumFirst
    <3>5. f[Pick(T)] \in Nat
      BY <3>1
    <3> QED BY <3>3, <3>4, <3>5
  <2> QED BY <2>1, <2>2
<1> HIDE DEF Good
<1>2. S \in Good
  BY <1>1, SubsetInduction
<1> QED BY <1>2 DEF Good

(* Any element can be taken out of a sum: the order does not matter. *)
LEMMA SumWithout ==
  ASSUME NEW f, NEW S, IsFiniteSet(S), \A y \in S : f[y] \in Int, NEW x \in S
  PROVE  SumFunctionOnSet(f, S) = f[x] + SumFunctionOnSet(f, S \ {x})
<1> DEFINE Good == {T \in SUBSET S : \A z \in T :
                      SumFunctionOnSet(f, T) = f[z] + SumFunctionOnSet(f, T \ {z})}
<1>1. ASSUME NEW T \in SUBSET S, \A U \in SUBSET T : U # T => U \in Good
      PROVE  T \in Good
  <2> SUFFICES ASSUME NEW z \in T
               PROVE  SumFunctionOnSet(f, T) = f[z] + SumFunctionOnSet(f, T \ {z})
    OBVIOUS
  <2>1. Pick(T) \in T /\ IsFiniteSet(T)
    BY PickIn, FS_Subset
  <2>2. PICK c \in T : c = Pick(T)
    BY <2>1
  <2>3. SumFunctionOnSet(f, T) = f[c] + SumFunctionOnSet(f, T \ {c})
    BY <2>1, <2>2, SumFirst
  <2>4. CASE c = z
    BY <2>3, <2>4
  <2>5. CASE c # z
    <3>1. /\ T \ {c} \in SUBSET T /\ T \ {c} # T /\ z \in T \ {c}
          /\ T \ {z} \in SUBSET T /\ T \ {z} # T /\ c \in T \ {z}
          /\ (T \ {c}) \ {z} = (T \ {z}) \ {c}
      BY <2>5
    <3>2. SumFunctionOnSet(f, T \ {c}) = f[z] + SumFunctionOnSet(f, (T \ {c}) \ {z})
      BY <1>1, <3>1
    <3>3. SumFunctionOnSet(f, T \ {z}) = f[c] + SumFunctionOnSet(f, (T \ {z}) \ {c})
      BY <1>1, <3>1
    <3>4. IsFiniteSet((T \ {c}) \ {z})
      BY <2>1, FS_Subset
    <3>5. SumFunctionOnSet(f, (T \ {c}) \ {z}) \in Int /\ f[c] \in Int /\ f[z] \in Int
      BY <3>4, SumInt
    <3>6. SumFunctionOnSet(f, T \ {z}) = f[c] + SumFunctionOnSet(f, (T \ {c}) \ {z})
      BY <3>1, <3>3
    <3> QED BY <2>3, <3>2, <3>5, <3>6
  <2> QED BY <2>4, <2>5
<1> HIDE DEF Good
<1>2. S \in Good
  BY <1>1, SubsetInduction
<1> QED BY <1>2 DEF Good

(* What a sum gains when one of its terms changes. *)
LEMMA SumChanges ==
  ASSUME NEW f, NEW e, NEW S, IsFiniteSet(S), NEW x \in S,
         \A y \in S : f[y] \in Int /\ e[y] \in Int,
         \A y \in S : y # x => e[y] = f[y]
  PROVE  SumFunctionOnSet(e, S) = SumFunctionOnSet(f, S) + e[x] - f[x]
<1>1. IsFiniteSet(S \ {x})
  BY FS_Subset
<1>2. SumFunctionOnSet(f, S \ {x}) = SumFunctionOnSet(e, S \ {x})
  BY <1>1, SumSame
<1>3. SumFunctionOnSet(f, S \ {x}) \in Int
  BY <1>1, SumInt
<1>4. /\ SumFunctionOnSet(f, S) = f[x] + SumFunctionOnSet(f, S \ {x})
      /\ SumFunctionOnSet(e, S) = e[x] + SumFunctionOnSet(e, S \ {x})
  BY SumWithout
<1>5. f[x] \in Int /\ e[x] \in Int
  OBVIOUS
<1> QED BY <1>2, <1>3, <1>4, <1>5

(* The terms of a subset, and nothing of the rest, add up to its sum. *)
LEMMA SumOfPart ==
  ASSUME NEW f, NEW S, IsFiniteSet(S), \A y \in S : f[y] \in Int, NEW P \in SUBSET S
  PROVE  SumFunctionOnSet(f, P) =
           SumFunctionOnSet([y \in S |-> IF y \in P THEN f[y] ELSE 0], S)
<1> DEFINE Only(T) == [y \in S |-> IF y \in T THEN f[y] ELSE 0]
           Good == {T \in SUBSET P : SumFunctionOnSet(f, T) = SumFunctionOnSet(Only(T), S)}
<1>0. IsFiniteSet(P)
  BY FS_Subset
<1>1. ASSUME NEW T \in SUBSET P, \A U \in SUBSET T : U # T => U \in Good
      PROVE  T \in Good
  <2>1. CASE T = {}
    <3>1. \A y \in S : Only(T)[y] = 0
      BY <2>1
    <3> HIDE DEF Only
    <3> QED BY <2>1, <3>1, SumEmpty, SumZero
  <2>2. CASE T # {}
    <3>1. PICK c \in T : TRUE
      BY <2>2
    <3>2. c \in S /\ T \in SUBSET S /\ T \ {c} \in SUBSET T /\ T \ {c} # T
      OBVIOUS
    <3>3. IsFiniteSet(T)
      BY <3>2, FS_Subset
    <3>4. SumFunctionOnSet(f, T \ {c}) = SumFunctionOnSet(Only(T \ {c}), S)
      BY <1>1, <3>2
    <3>5. SumFunctionOnSet(f, T) = f[c] + SumFunctionOnSet(f, T \ {c})
      BY <3>2, <3>3, SumWithout
    <3>6. /\ \A y \in S : Only(T)[y] \in Int /\ Only(T \ {c})[y] \in Int
          /\ \A y \in S : y # c => Only(T)[y] = Only(T \ {c})[y]
          /\ Only(T)[c] = f[c] /\ Only(T \ {c})[c] = 0
      BY <3>2
    <3> HIDE DEF Only
    <3>7. SumFunctionOnSet(Only(T), S) = SumFunctionOnSet(Only(T \ {c}), S)
                                          + Only(T)[c] - Only(T \ {c})[c]
      BY <3>2, <3>6, SumChanges
    <3>8. SumFunctionOnSet(Only(T \ {c}), S) \in Int /\ f[c] \in Int
      BY <3>2, <3>6, SumInt
    <3> QED BY <3>4, <3>5, <3>6, <3>7, <3>8
  <2> QED BY <2>1, <2>2
<1> HIDE DEF Good
<1>2. P \in Good
  BY <1>0, <1>1, SubsetInduction
<1> QED BY <1>2 DEF Good

(* A term of a sum of naturals is at most the sum. *)
LEMMA SumAtLeast ==
  ASSUME NEW f, NEW S, IsFiniteSet(S), \A y \in S : f[y] \in Nat, NEW x \in S
  PROVE  f[x] <= SumFunctionOnSet(f, S)
<1>1. IsFiniteSet(S \ {x})
  BY FS_Subset
<1>2. SumFunctionOnSet(f, S \ {x}) \in Nat
  BY <1>1, SumNat
<1>3. SumFunctionOnSet(f, S) = f[x] + SumFunctionOnSet(f, S \ {x})
  BY SumWithout
<1> QED BY <1>2, <1>3

(* A sum of smaller terms is smaller. *)
LEMMA SumAtMost ==
  ASSUME NEW f, NEW e, NEW S, IsFiniteSet(S),
         \A x \in S : f[x] \in Int /\ e[x] \in Int /\ f[x] <= e[x]
  PROVE  SumFunctionOnSet(f, S) <= SumFunctionOnSet(e, S)
<1> DEFINE Good == {T \in SUBSET S : SumFunctionOnSet(f, T) <= SumFunctionOnSet(e, T)}
<1>1. ASSUME NEW T \in SUBSET S, \A U \in SUBSET T : U # T => U \in Good
      PROVE  T \in Good
  <2>1. CASE T = {}
    BY <2>1, SumEmpty
  <2>2. CASE T # {}
    <3>1. Pick(T) \in T /\ IsFiniteSet(T)
      BY <2>2, PickIn, FS_Subset
    <3>2. PICK c \in T : c = Pick(T)
      BY <3>1
    <3>3. T \ {c} \in SUBSET T /\ T \ {c} # T /\ IsFiniteSet(T \ {c})
      BY <3>1, FS_Subset
    <3>4. SumFunctionOnSet(f, T \ {c}) <= SumFunctionOnSet(e, T \ {c})
      BY <1>1, <3>3
    <3>5. /\ SumFunctionOnSet(f, T) = f[c] + SumFunctionOnSet(f, T \ {c})
          /\ SumFunctionOnSet(e, T) = e[c] + SumFunctionOnSet(e, T \ {c})
      BY <2>2, <3>1, <3>2, SumFirst
    <3>6. SumFunctionOnSet(f, T \ {c}) \in Int /\ SumFunctionOnSet(e, T \ {c}) \in Int
      BY <3>3, SumInt
    <3>7. f[c] \in Int /\ e[c] \in Int /\ f[c] <= e[c]
      OBVIOUS
    <3> QED BY <3>4, <3>5, <3>6, <3>7
  <2> QED BY <2>1, <2>2
<1> HIDE DEF Good
<1>2. S \in Good
  BY <1>1, SubsetInduction
<1> QED BY <1>2 DEF Good

=============================================================================
