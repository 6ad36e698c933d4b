----------------------------- MODULE CashProofs -----------------------------
(***************************************************************************)
(* Proofs about the cash model.  The outlook is a recursive function over  *)
(* the days, and its sums are folds over finite sets, so the first two     *)
(* sections prove what induction needs: a nonempty collection of finite    *)
(* sets has a smallest member, from which induction over the subsets of a  *)
(* finite set and over the days of an interval follow.  Then: what sums    *)
(* are, that no sum leaves the range of a word, what the loop has computed *)
(* after each day (SoFar), and from it the properties of CashModel.        *)
(***************************************************************************)
EXTENDS CashModel, FiniteSetTheorems, TLAPS

-----------------------------------------------------------------------------
(***************************************************************************)
(* Induction.                                                              *)
(***************************************************************************)

(* Of subsets of a finite set one contains no other.                       *)
LEMMA SmallestSet ==
  ASSUME NEW S, IsFiniteSet(S), NEW F \in SUBSET SUBSET S, F # {}
  PROVE  \E U \in F : \A V \in F : V \subseteq U => V = U
<1>1. F \subseteq FiniteSubsetsOf(S)
  BY FS_Subset DEF FiniteSubsetsOf
<1>2. PICK U \in F : \A V \in F : ~ (<<V, U>> \in StrictSubsetOrdering(S))
  BY <1>1, FS_StrictSubsetOrderingWellFounded, WFMin
<1>3. ASSUME NEW V \in F, V \subseteq U, V # U PROVE FALSE
  <2>1. <<V, U>> \in (SUBSET S) \X (SUBSET S)
    OBVIOUS
  <2>2. <<V, U>> \in StrictSubsetOrdering(S)
    BY <2>1, <1>3 DEF StrictSubsetOrdering
  <2> QED BY <2>2, <1>2
<1> QED BY <1>3

(* A collection T of subsets of a finite set S that has the empty set, and *)
(* with a set also that set with one more element, has S.                  *)
LEMMA SubsetInduction ==
  ASSUME NEW S, IsFiniteSet(S), NEW T, {} \in T,
         \A U \in SUBSET S : \A x \in S \ U : U \in T => U \cup {x} \in T
  PROVE  S \in T
<1> SUFFICES ASSUME S \notin T PROVE FALSE
  OBVIOUS
<1>1. ASSUME NEW F, F = {U \in SUBSET S : U \notin T} PROVE FALSE
  <2>1. F \in SUBSET SUBSET S /\ F # {}
    BY <1>1
  <2>2. PICK U \in F : \A V \in F : V \subseteq U => V = U
    BY <2>1, SmallestSet
  <2>3. PICK x : x \in U
    BY <1>1
  <2>4. U \ {x} \in SUBSET S /\ U \ {x} # U /\ x \in S \ (U \ {x})
    BY <1>1, <2>3
  <2>5. U \ {x} \in T
    BY <1>1, <2>2, <2>4
  <2>6. (U \ {x}) \cup {x} \in T
    BY <2>4, <2>5
  <2>7. (U \ {x}) \cup {x} = U
    BY <2>3
  <2> QED BY <1>1, <2>6, <2>7
<1> QED BY <1>1

(* A set of integers with a, and with n also n + 1 as long as that is at   *)
(* most b, has everything from a to b.                                     *)
LEMMA IntervalInduction ==
  ASSUME NEW a \in Int, NEW b \in Int, NEW T, a \in T,
         \A n \in a .. b - 1 : n \in T => n + 1 \in T
  PROVE  \A n \in a .. b : n \in T
<1> SUFFICES ASSUME NEW n \in a .. b, n \notin T PROVE FALSE
  OBVIOUS
<1>1. ASSUME NEW D, D = a .. b, NEW F, F = {a .. k : k \in (a .. b) \ T} PROVE FALSE
  <2>1. IsFiniteSet(D)
    BY <1>1, FS_Interval
  <2>2. \A k \in a .. b : a .. k \in SUBSET D
    BY <1>1
  <2>3. F \in SUBSET SUBSET D
    BY <1>1, <2>2
  <2>4. a .. n \in F
    BY <1>1
  <2>5. F # {}
    BY <2>4
  <2>6. PICK U \in F : \A V \in F : V \subseteq U => V = U
    BY <2>1, <2>3, <2>5, SmallestSet
  <2>7. PICK k \in (a .. b) \ T : U = a .. k
    BY <1>1
  <2>8. k - 1 \in a .. b - 1 /\ k - 1 \in a .. b /\ k - 1 \notin T
    BY <2>7
  <2>9. a .. k - 1 \in F
    BY <1>1, <2>8
  <2>10. a .. k - 1 \subseteq a .. k /\ k \in a .. k /\ k \notin a .. k - 1
    BY <2>7
  <2> QED BY <2>6, <2>7, <2>9, <2>10
<1> QED BY <1>1

-----------------------------------------------------------------------------
(***************************************************************************)
(* Sums over a finite set of indices.  A recursive function is the         *)
(* function that satisfies its equation, if there is one: the first lemma  *)
(* builds one for sets of at most n elements, n = 0, 1, ...                *)
(***************************************************************************)

Chosen(S) == CHOOSE x \in S : TRUE

Term(w, g, s) == IF s = {} THEN 0 ELSE w[Chosen(s)] + g[s \ {Chosen(s)}]

IsSum(g, w, S) == g = [s \in SUBSET S |-> Term(w, g, s)]

LEMMA ChosenElement ==
  ASSUME NEW S, S # {}
  PROVE  Chosen(S) \in S
BY DEF Chosen

LEMMA SumsExist ==
  ASSUME NEW w, NEW S, IsFiniteSet(S)
  PROVE  \E g : IsSum(g, w, S)
<1> DEFINE UpTo(g, n) == \A s \in SUBSET S : Cardinality(s) <= n => g[s] = Term(w, g, s)
           T == {n \in Nat : \E g : UpTo(g, n)}
           N == Cardinality(S)
<1>1. N \in Nat /\ \A s \in SUBSET S : IsFiniteSet(s) /\ Cardinality(s) \in Nat /\ Cardinality(s) <= N
  BY FS_CardinalityType, FS_Subset
<1>2. ASSUME NEW s \in SUBSET S, s # {}
      PROVE  s \ {Chosen(s)} \in SUBSET S /\ Cardinality(s \ {Chosen(s)}) = Cardinality(s) - 1
  BY <1>1, <1>2, ChosenElement, FS_RemoveElement
<1>3. \A s \in SUBSET S : Cardinality(s) = 0 => s = {}
  BY <1>1, FS_EmptySet
<1>4. 0 \in T
  <2>1. UpTo([s \in SUBSET S |-> 0], 0)
    BY <1>1, <1>3 DEF Term
  <2> QED BY <2>1
<1>5. ASSUME NEW n \in Nat, n \in T PROVE n + 1 \in T
  <2>1. PICK g : UpTo(g, n)
    BY <1>5
  <2> DEFINE h == [s \in SUBSET S |-> Term(w, g, s)]
  <2>2. ASSUME NEW s \in SUBSET S, Cardinality(s) <= n PROVE h[s] = g[s]
    BY <2>1, <2>2
  <2>3. ASSUME NEW s \in SUBSET S, Cardinality(s) <= n + 1 PROVE h[s] = Term(w, h, s)
    <3>1. CASE s = {}
      BY <3>1 DEF Term
    <3>2. CASE s # {}
      <4>1. s \ {Chosen(s)} \in SUBSET S /\ Cardinality(s \ {Chosen(s)}) <= n
        BY <1>1, <1>2, <2>3, <3>2
      <4>2. h[s \ {Chosen(s)}] = g[s \ {Chosen(s)}]
        BY <2>2, <4>1
      <4>3. h[s] = Term(w, g, s)
        OBVIOUS
      <4> QED BY <3>2, <4>2, <4>3 DEF Term
    <3> QED BY <3>1, <3>2
  <2>4. UpTo(h, n + 1)
    BY <2>3
  <2> HIDE DEF h
  <2> QED BY <2>4
<1>6. N \in T
  <2> HIDE DEF T
  <2>1. \A n \in 0 .. N - 1 : n \in T => n + 1 \in T
    BY <1>1, <1>5
  <2>2. \A n \in 0 .. N : n \in T
    BY <1>1, <1>4, <2>1, IntervalInduction
  <2> QED BY <1>1, <2>2
<1>7. PICK g : UpTo(g, N)
  BY <1>6
<1> DEFINE h == [s \in SUBSET S |-> Term(w, g, s)]
<1>8. ASSUME NEW s \in SUBSET S PROVE h[s] = g[s]
  BY <1>1, <1>7
<1>9. ASSUME NEW s \in SUBSET S PROVE Term(w, h, s) = Term(w, g, s)
  <2>1. s # {} => h[s \ {Chosen(s)}] = g[s \ {Chosen(s)}]
    BY <1>2, <1>8
  <2> QED BY <2>1 DEF Term
<1>10. h = [s \in SUBSET S |-> Term(w, h, s)]
  BY <1>9
<1> HIDE DEF h
<1> QED BY <1>10 DEF IsSum

(* The fold of the community modules is such a function's value.           *)
LEMMA SumIsFold ==
  ASSUME NEW w, NEW S, IsFiniteSet(S)
  PROVE  \E g : IsSum(g, w, S) /\ SumFunctionOnSet(w, S) = g[S]
<1> DEFINE g == CHOOSE x : x = [s \in SUBSET S |-> Term(w, x, s)]
<1>1. IsSum(g, w, S)
  BY SumsExist DEF IsSum
<1>2. SumFunctionOnSet(w, S) = g[S]
  BY DEF SumFunctionOnSet, FoldFunctionOnSet, MapThenFoldSet, Term, Chosen
<1> HIDE DEF g
<1> QED BY <1>1, <1>2

(* Such functions agree where both are defined.                            *)
LEMMA SumsAgree ==
  ASSUME NEW w, NEW S, IsFiniteSet(S), NEW R \in SUBSET S, NEW g, NEW h,
         IsSum(g, w, S), IsSum(h, w, R)
  PROVE  g[R] = h[R]
<1> SUFFICES ASSUME g[R] # h[R] PROVE FALSE
  OBVIOUS
<1>1. ASSUME NEW F, F = {s \in SUBSET R : g[s] # h[s]} PROVE FALSE
  <2>1. F \in SUBSET SUBSET R /\ F # {} /\ IsFiniteSet(R)
    BY <1>1, FS_Subset
  <2>2. PICK U \in F : \A V \in F : V \subseteq U => V = U
    BY <2>1, SmallestSet
  <2>3. g[U] = Term(w, g, U) /\ h[U] = Term(w, h, U)
    BY <1>1 DEF IsSum
  <2>4. U # {}
    BY <1>1, <2>3 DEF Term
  <2>5. U \ {Chosen(U)} \in SUBSET R /\ U \ {Chosen(U)} # U
    BY <1>1, <2>4, ChosenElement
  <2>6. g[U \ {Chosen(U)}] = h[U \ {Chosen(U)}]
    BY <1>1, <2>2, <2>5
  <2> QED BY <1>1, <2>3, <2>4, <2>6 DEF Term
<1> QED BY <1>1

LEMMA SumEmpty ==
  ASSUME NEW w
  PROVE  SumFunctionOnSet(w, {}) = 0
<1>1. PICK g : IsSum(g, w, {}) /\ SumFunctionOnSet(w, {}) = g[{}]
  BY SumIsFold, FS_EmptySet
<1> QED BY <1>1 DEF IsSum, Term

LEMMA SumChosen ==
  ASSUME NEW w, NEW S, IsFiniteSet(S), S # {}
  PROVE  SumFunctionOnSet(w, S) = w[Chosen(S)] + SumFunctionOnSet(w, S \ {Chosen(S)})
<1>1. PICK g : IsSum(g, w, S) /\ SumFunctionOnSet(w, S) = g[S]
  BY SumIsFold
<1>2. ASSUME NEW R, R = S \ {Chosen(S)} PROVE g[R] = SumFunctionOnSet(w, R)
  <2>1. R \in SUBSET S /\ IsFiniteSet(R)
    BY <1>2, FS_Subset
  <2>2. PICK h : IsSum(h, w, R) /\ SumFunctionOnSet(w, R) = h[R]
    BY <2>1, SumIsFold
  <2> QED BY <1>1, <2>1, <2>2, SumsAgree
<1>3. g[S] = Term(w, g, S)
  BY <1>1 DEF IsSum
<1> QED BY <1>1, <1>2, <1>3 DEF Term

(* Whichever element is taken out first, the sum is the same.              *)
LEMMA SumRemove ==
  ASSUME NEW S, IsFiniteSet(S), NEW w, \A i \in S : w[i] \in Int, NEW x \in S
  PROVE  /\ SumFunctionOnSet(w, S) \in Int
         /\ SumFunctionOnSet(w, S) = w[x] + SumFunctionOnSet(w, S \ {x})
<1> DEFINE Good(U) == /\ SumFunctionOnSet(w, U) \in Int
                      /\ \A i \in U : SumFunctionOnSet(w, U) = w[i] + SumFunctionOnSet(w, U \ {i})
<1> SUFFICES ASSUME ~ Good(S) PROVE FALSE
  OBVIOUS
<1>1. ASSUME NEW F, F = {U \in SUBSET S : ~ Good(U)} PROVE FALSE
  <2>1. F \in SUBSET SUBSET S /\ F # {}
    BY <1>1
  <2>2. PICK U \in F : \A V \in F : V \subseteq U => V = U
    BY <2>1, SmallestSet
  <2>3. U \in SUBSET S /\ IsFiniteSet(U) /\ ~ Good(U)
    BY <1>1, FS_Subset
  <2>4. U # {}
    BY <2>3, SumEmpty
  <2>5. ASSUME NEW V \in SUBSET U, V # U PROVE Good(V)
    BY <1>1, <2>2, <2>3, <2>5
  <2> DEFINE a == Chosen(U)
             s == SumFunctionOnSet(w, U \ {a})
  <2>6. a \in U /\ w[a] \in Int
    BY <2>3, <2>4, ChosenElement
  <2>7. Good(U \ {a})
    BY <2>5, <2>6
  <2>8. SumFunctionOnSet(w, U) = w[a] + s /\ s \in Int
    BY <2>3, <2>4, <2>7, SumChosen
  <2>9. ASSUME NEW i \in U PROVE SumFunctionOnSet(w, U) = w[i] + SumFunctionOnSet(w, U \ {i})
    <3>1. CASE i = a
      BY <2>8, <3>1
    <3>2. CASE i # a
      <4> DEFINE r == SumFunctionOnSet(w, (U \ {a}) \ {i})
      <4>1. Good(U \ {i}) /\ i \in U \ {a} /\ a \in U \ {i} /\ w[i] \in Int
        BY <2>3, <2>5, <2>6, <3>2
      <4>2. Good((U \ {a}) \ {i})
        BY <2>5, <2>6
      <4>3. s = w[i] + r /\ r \in Int
        BY <2>7, <4>1, <4>2
      <4>4. (U \ {i}) \ {a} = (U \ {a}) \ {i}
        OBVIOUS
      <4>5. SumFunctionOnSet(w, U \ {i}) = w[a] + r
        BY <4>1, <4>4
      <4> HIDE DEF a, s, r
      <4> QED BY <2>6, <2>8, <4>1, <4>3, <4>5
    <3> QED BY <3>1, <3>2
  <2> QED BY <2>3, <2>6, <2>8, <2>9
<1> QED BY <1>1

LEMMA SumAdd ==
  ASSUME NEW S, IsFiniteSet(S), NEW w, \A i \in S : w[i] \in Int,
         NEW U \in SUBSET S, NEW x \in S \ U
  PROVE  /\ SumFunctionOnSet(w, U) \in Int
         /\ SumFunctionOnSet(w, U \cup {x}) = w[x] + SumFunctionOnSet(w, U)
<1> DEFINE V == U \cup {x}
<1>1. V \in SUBSET S /\ x \in V /\ V \ {x} = U
  OBVIOUS
<1>2. IsFiniteSet(V) /\ \A i \in V : w[i] \in Int
  BY <1>1, FS_Subset
<1>3. IsFiniteSet(U) /\ \A i \in U : w[i] \in Int
  BY FS_Subset
<1> HIDE DEF V
<1>4. SumFunctionOnSet(w, V) = w[x] + SumFunctionOnSet(w, V \ {x})
  BY <1>1, <1>2, SumRemove
<1>5. SumFunctionOnSet(w, U) \in Int
  <2>1. CASE U = {}
    BY <2>1, SumEmpty
  <2>2. CASE U # {}
    BY <1>3, <2>2, SumRemove
  <2> QED BY <2>1, <2>2
<1> QED BY <1>1, <1>4, <1>5 DEF V

LEMMA SumInt ==
  ASSUME NEW S, IsFiniteSet(S), NEW w, \A i \in S : w[i] \in Int
  PROVE  SumFunctionOnSet(w, S) \in Int
<1>1. CASE S = {}
  BY <1>1, SumEmpty
<1>2. CASE S # {}
  BY <1>2, SumRemove
<1> QED BY <1>1, <1>2

(* A sum over two disjoint sets is the sum of the two sums.                *)
LEMMA SumUnion ==
  ASSUME NEW S, IsFiniteSet(S), NEW w, \A i \in S : w[i] \in Int,
         NEW A \in SUBSET S, NEW B \in SUBSET S, A \cap B = {}
  PROVE  SumFunctionOnSet(w, A \cup B) = SumFunctionOnSet(w, A) + SumFunctionOnSet(w, B)
<1>1. ASSUME NEW T,
             T = {U \in SUBSET B : SumFunctionOnSet(w, A \cup U)
                                     = SumFunctionOnSet(w, A) + SumFunctionOnSet(w, U)}
      PROVE  B \in T
  <2>1. IsFiniteSet(A) /\ IsFiniteSet(B)
    BY FS_Subset
  <2>2. {} \in T
    <3>1. A \cup {} = A /\ SumFunctionOnSet(w, A) \in Int
      BY <2>1, SumInt
    <3> QED BY <1>1, <3>1, SumEmpty
  <2>3. ASSUME NEW U \in SUBSET B, NEW x \in B \ U, U \in T PROVE U \cup {x} \in T
    <3> DEFINE V == A \cup U
               a == SumFunctionOnSet(w, A)
               u == SumFunctionOnSet(w, U)
    <3>1. V \in SUBSET S /\ x \in S \ V /\ U \in SUBSET S /\ x \in S \ U /\ w[x] \in Int
      OBVIOUS
    <3>2. SumFunctionOnSet(w, V \cup {x}) = w[x] + SumFunctionOnSet(w, V)
      <4> HIDE DEF V
      <4> QED BY <3>1, SumAdd
    <3>3. SumFunctionOnSet(w, U \cup {x}) = w[x] + u /\ u \in Int
      BY <3>1, SumAdd
    <3>4. SumFunctionOnSet(w, V) = a + u /\ a \in Int
      BY <1>1, <2>1, <2>3, SumInt
    <3>5. A \cup (U \cup {x}) = V \cup {x}
      OBVIOUS
    <3>6. SumFunctionOnSet(w, A \cup (U \cup {x})) = a + SumFunctionOnSet(w, U \cup {x})
      <4>1. SumFunctionOnSet(w, A \cup (U \cup {x})) = SumFunctionOnSet(w, V \cup {x})
        BY <3>5, Zenon
      <4> HIDE DEF V, a, u
      <4> QED BY <3>1, <3>2, <3>3, <3>4, <4>1
    <3> QED BY <1>1, <3>6
  <2> QED BY <2>1, <2>2, <2>3, SubsetInduction
<1> QED BY <1>1

(* Terms of at most M make at most M times their number.                   *)
LEMMA SumBound ==
  ASSUME NEW S, IsFiniteSet(S), NEW w, NEW M \in Nat,
         \A i \in S : w[i] \in Int /\ -M <= w[i] /\ w[i] <= M
  PROVE  /\ SumFunctionOnSet(w, S) \in Int /\ Cardinality(S) * M \in Nat
         /\ -(Cardinality(S) * M) <= SumFunctionOnSet(w, S)
         /\ SumFunctionOnSet(w, S) <= Cardinality(S) * M
<1> DEFINE Bounded(U) == /\ SumFunctionOnSet(w, U) \in Int /\ Cardinality(U) * M \in Nat
                         /\ -(Cardinality(U) * M) <= SumFunctionOnSet(w, U)
                         /\ SumFunctionOnSet(w, U) <= Cardinality(U) * M
<1>1. ASSUME NEW T, T = {U \in SUBSET S : Bounded(U)} PROVE S \in T
  <2>1. {} \in T
    BY <1>1, SumEmpty, FS_EmptySet
  <2>2. ASSUME NEW U \in SUBSET S, NEW x \in S \ U, U \in T PROVE U \cup {x} \in T
    <3> DEFINE u == SumFunctionOnSet(w, U)
               c == Cardinality(U)
    <3>1. u \in Int /\ SumFunctionOnSet(w, U \cup {x}) = w[x] + u
      BY SumAdd
    <3>2. IsFiniteSet(U) /\ c \in Nat /\ Cardinality(U \cup {x}) = c + 1
      BY FS_Subset, FS_AddElement, FS_CardinalityType
    <3>3. c * M \in Nat /\ -(c * M) <= u /\ u <= c * M
      BY <1>1, <2>2
    <3>4. (c + 1) * M = c * M + M
      <4> HIDE DEF c
      <4> QED BY <3>2
    <3>5. w[x] \in Int /\ -M <= w[x] /\ w[x] <= M
      OBVIOUS
    <3>6. Bounded(U \cup {x})
      <4> DEFINE p == c * M
      <4> HIDE DEF u, c, p
      <4>1. (c + 1) * M \in Nat /\ -((c + 1) * M) <= w[x] + u /\ w[x] + u <= (c + 1) * M
        BY <3>1, <3>3, <3>4, <3>5 DEF p
      <4> QED BY <3>1, <3>2, <4>1
    <3> QED BY <1>1, <3>6
  <2>3. \A U \in SUBSET S : \A x \in S \ U : U \in T => U \cup {x} \in T
    BY <2>2
  <2> QED BY <2>1, <2>3, SubsetInduction
<1>2. S \in {U \in SUBSET S : Bounded(U)}
  BY <1>1, Zenon
<1> QED BY <1>2

(* A sum depends only on its terms, and not on how they are numbered.      *)
LEMMA SumImage ==
  ASSUME NEW R, IsFiniteSet(R), NEW S, IsFiniteSet(S), NEW f \in [R -> S],
         \A i, j \in R : f[i] = f[j] => i = j,
         NEW v, NEW w, \A i \in R : v[i] = w[f[i]], \A k \in S : w[k] \in Int,
         NEW U \in SUBSET R
  PROVE  SumFunctionOnSet(v, U) = SumFunctionOnSet(w, {f[i] : i \in U})
<1>1. ASSUME NEW T,
             T = {V \in SUBSET U : SumFunctionOnSet(v, V) = SumFunctionOnSet(w, {f[i] : i \in V})}
      PROVE  U \in T
  <2>1. {} \in T
    <3>1. {f[i] : i \in {}} = {}
      OBVIOUS
    <3> QED BY <1>1, <3>1, SumEmpty
  <2>2. ASSUME NEW V \in SUBSET U, NEW x \in U \ V, V \in T PROVE V \cup {x} \in T
    <3> DEFINE Y == {f[i] : i \in V}
    <3>1. {f[i] : i \in V \cup {x}} = Y \cup {f[x]} /\ Y \in SUBSET S /\ f[x] \in S \ Y
      OBVIOUS
    <3>2. V \in SUBSET R /\ x \in R \ V /\ \A i \in R : v[i] \in Int
      OBVIOUS
    <3>3. SumFunctionOnSet(v, V \cup {x}) = v[x] + SumFunctionOnSet(v, V)
      BY <3>2, SumAdd
    <3>4. SumFunctionOnSet(w, Y \cup {f[x]}) = w[f[x]] + SumFunctionOnSet(w, Y)
      <4> HIDE DEF Y
      <4> QED BY <3>1, SumAdd
    <3>5. SumFunctionOnSet(v, V \cup {x}) = SumFunctionOnSet(w, {f[i] : i \in V \cup {x}})
      BY <1>1, <2>2, <3>1, <3>2, <3>3, <3>4
    <3> QED BY <1>1, <3>5
  <2>3. \A V \in SUBSET U : \A x \in U \ V : V \in T => V \cup {x} \in T
    BY <2>2
  <2>4. IsFiniteSet(U)
    BY FS_Subset
  <2> QED BY <2>1, <2>3, <2>4, SubsetInduction
<1>2. U \in {V \in SUBSET U : SumFunctionOnSet(v, V) = SumFunctionOnSet(w, {f[i] : i \in V})}
  BY <1>1, Zenon
<1> QED BY <1>2


-----------------------------------------------------------------------------
(***************************************************************************)
(* The walk over the days.                                                 *)
(***************************************************************************)

StartPoint(f) == WithPoint(Empty, f, f.asOf, Wrap(f.opening - f.restricted))

DayStep(f, e, v, d) ==
  IF d \in DOMAIN Net(f, e)
  THEN WithPoint(v, f, d, Wrap(v.cashEnd + Net(f, e)[d]))
  ELSE v

IsWalk(w, f, e) ==
  w = [d \in f.asOf - 1 .. e |-> IF d < f.asOf THEN StartPoint(f) ELSE DayStep(f, e, w[d - 1], d)]

(* The recursive function that Walk names exists.                          *)
LEMMA WalkUnfolds ==
  ASSUME NEW f, NEW e \in Int, f.asOf \in Int, f.asOf <= e
  PROVE  IsWalk(Walk(f, e), f, e)
<1> DEFINE a == f.asOf - 1
           Next1(w, d) == IF d < f.asOf THEN StartPoint(f) ELSE DayStep(f, e, w[d - 1], d)
           UpTo(w, n) == w = [d \in a .. n |-> Next1(w, d)]
           T == {n \in a .. e : \E w : UpTo(w, n)}
<1>1. a \in Int /\ a <= e
  OBVIOUS
<1>2. a \in T
  <2> DEFINE w == [d \in a .. a |-> StartPoint(f)]
  <2>1. UpTo(w, a)
    OBVIOUS
  <2> HIDE DEF w
  <2> QED BY <1>1, <2>1
<1>3. ASSUME NEW n \in a .. e - 1, n \in T PROVE n + 1 \in T
  <2>1. PICK w : UpTo(w, n)
    BY <1>3
  <2> DEFINE x == [d \in a .. n + 1 |-> Next1(w, d)]
  <2>2. ASSUME NEW d \in a .. n PROVE x[d] = w[d]
    BY <2>1
  <2>3. ASSUME NEW d \in a .. n + 1 PROVE x[d] = Next1(x, d)
    <3>1. CASE d < f.asOf
      BY <3>1
    <3>2. CASE ~ (d < f.asOf)
      <4>1. d - 1 \in a .. n
        BY <3>2
      <4>2. x[d - 1] = w[d - 1]
        BY <2>2, <4>1
      <4>3. x[d] = Next1(w, d)
        OBVIOUS
      <4> QED BY <3>2, <4>2, <4>3
    <3> QED BY <3>1, <3>2
  <2>4. UpTo(x, n + 1)
    BY <2>3
  <2>5. n + 1 \in a .. e
    OBVIOUS
  <2> HIDE DEF x
  <2> QED BY <2>4, <2>5
<1>4. e \in T
  <2> HIDE DEF T, a
  <2>1. \A n \in a .. e : n \in T
    BY <1>1, <1>2, <1>3, IntervalInduction
  <2> QED BY <1>1, <2>1
<1>5. PICK w : UpTo(w, e)
  BY <1>4
<1> QED BY <1>5 DEF Walk, IsWalk, StartPoint, DayStep

(* A word keeps an integer that fits it.                                   *)
LEMMA WrapFits ==
  ASSUME NEW n \in Word
  PROVE  Wrap(n) = n
<1> DEFINE a == n + Half
           b == 2 * Half
<1>1. n \in Int /\ a \in Nat /\ b \in Nat /\ a < b /\ b > 0
  BY CashAssumption DEF Word
<1>2. a % b = a
  <2> HIDE DEF a, b
  <2> QED BY <1>1
<1>3. (n + Half) % (2 * Half) = n + Half
  BY <1>2
<1>4. Half \in Int
  BY CashAssumption
<1> QED BY <1>1, <1>3, <1>4 DEF Wrap

(* Validate implies that the sums are over a finite set of integers, due   *)
(* from the as-of day on.                                                  *)
Summable(f) ==
  /\ f.asOf \in Int /\ f.opening \in Int /\ f.restricted \in Int /\ f.buffer \in Int
  /\ IsFiniteSet(DOMAIN f.movements)
  /\ \A i \in DOMAIN f.movements :
       /\ f.movements[i].date \in Int /\ f.asOf <= f.movements[i].date
       /\ Flow(f)[i] \in Int

CountedUpTo(f, d) == {i \in DOMAIN f.movements : Counted(f.movements[i]) /\ f.movements[i].date <= d}

CountedOn(f, d) == {i \in DOMAIN f.movements : Counted(f.movements[i]) /\ f.movements[i].date = d}

(* The cash after a day, as it is defined.                                 *)
CashAt(f, d) == f.opening - f.restricted + SumFunctionOnSet(Flow(f), CountedUpTo(f, d))

(* No value on the way leaves the range of a word.                         *)
Fits(f, e) ==
  /\ \A d \in f.asOf - 1 .. e : CashAt(f, d) \in Word /\ f.buffer - CashAt(f, d) \in Word
  /\ \A d \in f.asOf .. e : SumFunctionOnSet(Flow(f), CountedOn(f, d)) \in Word

LEMMA CashAtIsInt ==
  ASSUME NEW f, Summable(f), NEW d
  PROVE  CashAt(f, d) \in Int
<1>1. CountedUpTo(f, d) \in SUBSET DOMAIN f.movements
  BY DEF CountedUpTo
<1>2. IsFiniteSet(CountedUpTo(f, d)) /\ \A i \in CountedUpTo(f, d) : Flow(f)[i] \in Int
  BY <1>1, FS_Subset DEF Summable
<1>3. SumFunctionOnSet(Flow(f), CountedUpTo(f, d)) \in Int
  BY <1>2, SumInt
<1> QED BY <1>3 DEF CashAt, Summable

LEMMA CashAtStart ==
  ASSUME NEW f, Summable(f)
  PROVE  CashAt(f, f.asOf - 1) = f.opening - f.restricted
<1>1. CountedUpTo(f, f.asOf - 1) = {}
  BY DEF CountedUpTo, Summable
<1> QED BY <1>1, SumEmpty DEF CashAt, Summable

LEMMA CashAtNextDay ==
  ASSUME NEW f, Summable(f), NEW d \in Int
  PROVE  /\ SumFunctionOnSet(Flow(f), CountedOn(f, d)) \in Int
         /\ CashAt(f, d) = CashAt(f, d - 1) + SumFunctionOnSet(Flow(f), CountedOn(f, d))
<1> DEFINE D == DOMAIN f.movements
           A == CountedUpTo(f, d - 1)
           B == CountedOn(f, d)
<1>1. A \in SUBSET D /\ B \in SUBSET D /\ A \cap B = {}
  BY DEF CountedUpTo, CountedOn, Summable
<1>2. CountedUpTo(f, d) = A \cup B
  BY DEF CountedUpTo, CountedOn, Summable
<1>3. IsFiniteSet(D) /\ \A i \in D : Flow(f)[i] \in Int
  BY DEF Summable
<1>4. IsFiniteSet(A) /\ IsFiniteSet(B)
  BY <1>1, <1>3, FS_Subset
<1>5. SumFunctionOnSet(Flow(f), A) \in Int /\ SumFunctionOnSet(Flow(f), B) \in Int
  <2> HIDE DEF A, B, D
  <2> QED BY <1>1, <1>3, <1>4, SumInt
<1>6. SumFunctionOnSet(Flow(f), A \cup B) = SumFunctionOnSet(Flow(f), A) + SumFunctionOnSet(Flow(f), B)
  <2> HIDE DEF A, B, D
  <2> QED BY <1>1, <1>3, SumUnion
<1>7. SumFunctionOnSet(Flow(f), CountedUpTo(f, d)) = SumFunctionOnSet(Flow(f), A \cup B)
  BY <1>2
<1> HIDE DEF A, B
<1>8. CashAt(f, d - 1) = f.opening - f.restricted + SumFunctionOnSet(Flow(f), A)
  BY DEF CashAt, A
<1> QED BY <1>5, <1>6, <1>7, <1>8 DEF CashAt, Summable, B

(* What DayStep does when nothing wraps: a point with the cash of the day, *)
(* or nothing on a day that changes nothing.                               *)
LEMMA DayStepIs ==
  ASSUME NEW f, Summable(f), NEW e \in Int, Fits(f, e), NEW d \in f.asOf .. e,
         NEW v, v.cashEnd = CashAt(f, d - 1)
  PROVE  \/ DayStep(f, e, v, d) = WithPoint(v, f, d, CashAt(f, d))
         \/ DayStep(f, e, v, d) = v /\ CashAt(f, d) = CashAt(f, d - 1)
<1> DEFINE s == SumFunctionOnSet(Flow(f), CountedOn(f, d))
<1>1. d \in Int /\ f.asOf \in Int /\ d \in f.asOf - 1 .. e
  BY DEF Summable
<1>2. s \in Word /\ CashAt(f, d) \in Word
  BY <1>1 DEF Fits
<1>3. s \in Int /\ CashAt(f, d) = CashAt(f, d - 1) + s /\ CashAt(f, d - 1) \in Int
  BY <1>1, CashAtNextDay, CashAtIsInt
<1>4. {i \in DueCounted(f, e) : f.movements[i].date = d} = CountedOn(f, d)
  BY <1>1 DEF DueCounted, Due, CountedOn, Summable
<1>5. CASE d \in DOMAIN Net(f, e)
  <2>1. Net(f, e)[d] = Wrap(SumFunctionOnSet(Flow(f), {i \in DueCounted(f, e) : f.movements[i].date = d}))
    BY <1>5 DEF Net
  <2>2. Net(f, e)[d] = s
    BY <1>2, <1>4, <2>1, WrapFits
  <2>3. Wrap(v.cashEnd + Net(f, e)[d]) = CashAt(f, d)
    BY <1>2, <1>3, <2>2, WrapFits
  <2> QED BY <1>5, <2>3 DEF DayStep
<1>6. CASE d \notin DOMAIN Net(f, e)
  <2>1. CountedOn(f, d) = {}
    <3>1. \A i \in DueCounted(f, e) : f.movements[i].date # d
      BY <1>6 DEF Net
    <3> QED BY <1>4, <3>1
  <2>2. s = 0
    BY <2>1, SumEmpty
  <2> QED BY <1>3, <1>6, <2>2 DEF DayStep
<1> QED BY <1>5, <1>6

(* x is the first day up to d, the as-of day at the earliest, with less    *)
(* than the level, or None.                                                *)
FirstBelow(f, x, level, d) ==
  \/ x = None /\ \A k \in f.asOf - 1 .. d : level <= CashAt(f, k)
  \/ \E k \in f.asOf - 1 .. d :
       /\ CashAt(f, k) < level /\ \A j \in f.asOf - 1 .. k - 1 : level <= CashAt(f, j)
       /\ x = Larger(k, f.asOf)

(* n is the largest gap to the buffer up to d, or zero.                    *)
LargestGap(f, n, d) ==
  /\ n \in Nat
  /\ \A k \in f.asOf - 1 .. d : f.buffer - CashAt(f, k) <= n
  /\ n = 0 \/ \E k \in f.asOf - 1 .. d : n = f.buffer - CashAt(f, k)

OutlookFields == {"cashEnd", "need", "breach", "negative", "points"}

(* The loop invariant of Calculate.                                        *)
SoFar(f, v, d) ==
  /\ DOMAIN v = OutlookFields
  /\ v.cashEnd = CashAt(f, d)
  /\ LargestGap(f, v.need, d)
  /\ FirstBelow(f, v.breach, f.buffer, d)
  /\ FirstBelow(f, v.negative, 0, d)

LEMMA FirstBelowNextDay ==
  ASSUME NEW f, Summable(f), NEW d \in Int, f.asOf <= d, None \notin f.asOf .. d,
         NEW level \in Int, NEW x, FirstBelow(f, x, level, d - 1)
  PROVE  FirstBelow(f, IF CashAt(f, d) < level /\ x = None THEN d ELSE x, level, d)
<1>1. f.asOf \in Int /\ \A k \in Int : CashAt(f, k) \in Int
  BY CashAtIsInt DEF Summable
<1>2. \A k \in f.asOf - 1 .. d : k \in f.asOf - 1 .. d - 1 \/ k = d
  BY <1>1
<1>3. CASE x = None /\ \A k \in f.asOf - 1 .. d - 1 : level <= CashAt(f, k)
  <2>1. CASE CashAt(f, d) < level
    <3>1. d \in f.asOf - 1 .. d /\ d = Larger(d, f.asOf)
      BY <1>1 DEF Larger
    <3> QED BY <1>3, <2>1, <3>1 DEF FirstBelow
  <2>2. CASE ~ (CashAt(f, d) < level)
    <3>1. \A k \in f.asOf - 1 .. d : level <= CashAt(f, k)
      BY <1>1, <1>2, <1>3, <2>2
    <3> QED BY <1>3, <2>2, <3>1 DEF FirstBelow
  <2> QED BY <2>1, <2>2
<1>4. ASSUME NEW k \in f.asOf - 1 .. d - 1, CashAt(f, k) < level,
             \A j \in f.asOf - 1 .. k - 1 : level <= CashAt(f, j), x = Larger(k, f.asOf)
      PROVE  FirstBelow(f, IF CashAt(f, d) < level /\ x = None THEN d ELSE x, level, d)
  <2>1. k \in f.asOf - 1 .. d /\ x \in f.asOf .. d
    BY <1>1, <1>4 DEF Larger
  <2>2. x # None
    BY <2>1
  <2> QED BY <1>4, <2>1, <2>2 DEF FirstBelow
<1> QED BY <1>3, <1>4 DEF FirstBelow

LEMMA LargestGapNextDay ==
  ASSUME NEW f, Summable(f), NEW d \in Int, f.asOf <= d, NEW n, LargestGap(f, n, d - 1)
  PROVE  LargestGap(f, Larger(n, Larger(0, f.buffer - CashAt(f, d))), d)
<1>1. f.asOf \in Int /\ f.buffer \in Int /\ n \in Nat /\ \A k \in Int : CashAt(f, k) \in Int
  BY CashAtIsInt DEF Summable, LargestGap
<1> DEFINE g == f.buffer - CashAt(f, d)
           m == Larger(n, Larger(0, g))
<1>2. m \in Nat /\ n <= m /\ g <= m /\ (m = n \/ m = g)
  BY <1>1 DEF Larger, LargestGap
<1>3. d \in f.asOf - 1 .. d /\ \A k \in f.asOf - 1 .. d : k \in f.asOf - 1 .. d - 1 \/ k = d
  BY <1>1
<1>4. \A k \in f.asOf - 1 .. d : f.buffer - CashAt(f, k) <= m
  <2> SUFFICES ASSUME NEW k \in f.asOf - 1 .. d PROVE f.buffer - CashAt(f, k) <= m
    OBVIOUS
  <2>1. CASE k = d
    BY <1>2, <2>1
  <2>2. CASE k \in f.asOf - 1 .. d - 1
    <3>1. f.buffer - CashAt(f, k) <= n /\ f.buffer - CashAt(f, k) \in Int
      BY <1>1, <2>2 DEF LargestGap
    <3> HIDE DEF m
    <3> QED BY <1>1, <1>2, <3>1
  <2> QED BY <1>3, <2>1, <2>2
<1>5. m = 0 \/ \E k \in f.asOf - 1 .. d : m = f.buffer - CashAt(f, k)
  <2>1. CASE m = g
    BY <1>3, <2>1
  <2>2. CASE m = n
    <3>1. n = 0 \/ \E k \in f.asOf - 1 .. d - 1 : n = f.buffer - CashAt(f, k)
      BY DEF LargestGap
    <3>2. \A k \in f.asOf - 1 .. d - 1 : k \in f.asOf - 1 .. d
      BY <1>1
    <3> HIDE DEF m
    <3> QED BY <2>2, <3>1, <3>2
  <2> HIDE DEF m, g
  <2> QED BY <1>2, <2>1, <2>2
<1> HIDE DEF m
<1>6. LargestGap(f, m, d)
  BY <1>2, <1>4, <1>5 DEF LargestGap
<1> QED BY <1>6 DEF m

LEMMA PointFields ==
  ASSUME NEW f, NEW v, DOMAIN v = OutlookFields, NEW d, NEW cash
  PROVE  LET p == WithPoint(v, f, d, cash)
             gap == Larger(0, Wrap(f.buffer - cash))
         IN /\ DOMAIN p = OutlookFields /\ p.cashEnd = cash /\ p.need = Larger(v.need, gap)
            /\ p.breach = IF gap > 0 /\ v.breach = None THEN d ELSE v.breach
            /\ p.negative = IF cash < 0 /\ v.negative = None THEN d ELSE v.negative
BY DEF WithPoint, OutlookFields

(* A point for the next day, or a day without one, keeps the invariant.    *)
LEMMA PointKeepsSoFar ==
  ASSUME NEW f, Summable(f), NEW d \in Int, f.asOf <= d, None \notin f.asOf .. d,
         f.buffer - CashAt(f, d) \in Word, NEW v, SoFar(f, v, d - 1)
  PROVE  SoFar(f, WithPoint(v, f, d, CashAt(f, d)), d)
<1> DEFINE cash == CashAt(f, d)
           gap == Larger(0, Wrap(f.buffer - cash))
           p == WithPoint(v, f, d, cash)
<1>1. gap = Larger(0, f.buffer - cash)
  BY WrapFits
<1>2. cash \in Int /\ f.buffer \in Int
  BY CashAtIsInt DEF Summable
<1>3. gap > 0 <=> cash < f.buffer
  BY <1>1, <1>2 DEF Larger
<1>4. /\ DOMAIN p = OutlookFields /\ p.cashEnd = cash /\ p.need = Larger(v.need, gap)
      /\ p.breach = IF gap > 0 /\ v.breach = None THEN d ELSE v.breach
      /\ p.negative = IF cash < 0 /\ v.negative = None THEN d ELSE v.negative
  BY PointFields DEF SoFar
<1>5. LargestGap(f, p.need, d)
  BY <1>1, <1>4, LargestGapNextDay DEF SoFar
<1>6. FirstBelow(f, p.breach, f.buffer, d)
  <2>1. FirstBelow(f, IF cash < f.buffer /\ v.breach = None THEN d ELSE v.breach, f.buffer, d)
    BY <1>2, FirstBelowNextDay DEF SoFar
  <2> HIDE DEF gap, cash
  <2> QED BY <1>3, <1>4, <2>1
<1>7. FirstBelow(f, p.negative, 0, d)
  <2>1. FirstBelow(f, IF cash < 0 /\ v.negative = None THEN d ELSE v.negative, 0, d)
    BY <1>2, FirstBelowNextDay DEF SoFar
  <2> QED BY <1>4, <2>1
<1> QED BY <1>4, <1>5, <1>6, <1>7 DEF SoFar

LEMMA QuietDayKeepsSoFar ==
  ASSUME NEW f, Summable(f), NEW d \in Int, f.asOf <= d, CashAt(f, d) = CashAt(f, d - 1),
         NEW v, SoFar(f, v, d - 1)
  PROVE  SoFar(f, v, d)
<1>1. f.asOf \in Int /\ d - 1 \in f.asOf - 1 .. d - 1
  BY DEF Summable
<1>2. \A k \in f.asOf - 1 .. d : k \in f.asOf - 1 .. d - 1 \/ k = d
  BY <1>1
<1>3. \A k \in f.asOf - 1 .. d - 1 : k \in f.asOf - 1 .. d
  BY <1>1
<1>4. LargestGap(f, v.need, d)
  BY <1>1, <1>2, <1>3 DEF SoFar, LargestGap
<1>5. ASSUME NEW x, NEW level, FirstBelow(f, x, level, d - 1) PROVE FirstBelow(f, x, level, d)
  <2>1. CASE x = None /\ \A k \in f.asOf - 1 .. d - 1 : level <= CashAt(f, k)
    BY <1>1, <1>2, <2>1 DEF FirstBelow
  <2>2. CASE \E k \in f.asOf - 1 .. d - 1 :
               /\ CashAt(f, k) < level /\ \A j \in f.asOf - 1 .. k - 1 : level <= CashAt(f, j)
               /\ x = Larger(k, f.asOf)
    BY <1>3, <2>2 DEF FirstBelow
  <2> QED BY <1>5, <2>1, <2>2 DEF FirstBelow
<1> QED BY <1>4, <1>5 DEF SoFar

(* The cash before the first day.                                          *)
LEMMA StartIsSoFar ==
  ASSUME NEW f, Summable(f), CashAt(f, f.asOf - 1) \in Word,
         f.buffer - CashAt(f, f.asOf - 1) \in Word
  PROVE  SoFar(f, StartPoint(f), f.asOf - 1)
<1> DEFINE d == f.asOf - 1
           cash == CashAt(f, d)
           gap == Larger(0, Wrap(f.buffer - cash))
           p == WithPoint(Empty, f, f.asOf, cash)
<1>1. f.asOf \in Int /\ f.buffer \in Int /\ cash \in Int /\ d \in d .. d /\ \A k \in d .. d : k = d
  BY CashAtIsInt DEF Summable
<1>2. StartPoint(f) = p
  BY CashAtStart, WrapFits DEF StartPoint
<1>3. gap = Larger(0, f.buffer - cash)
  BY WrapFits
<1>4. DOMAIN Empty = OutlookFields /\ Empty.need = 0 /\ Empty.breach = None /\ Empty.negative = None
  BY DEF Empty, OutlookFields
<1>5. /\ DOMAIN p = OutlookFields /\ p.cashEnd = cash /\ p.need = Larger(0, gap)
      /\ p.breach = IF gap > 0 THEN f.asOf ELSE None
      /\ p.negative = IF cash < 0 THEN f.asOf ELSE None
  BY <1>4, PointFields
<1>6. LargestGap(f, p.need, d)
  <2>1. p.need \in Nat /\ f.buffer - cash <= p.need /\ (p.need = 0 \/ p.need = f.buffer - cash)
    <3> HIDE DEF p, cash
    <3> QED BY <1>1, <1>3, <1>5 DEF Larger
  <2> QED BY <1>1, <2>1 DEF LargestGap
<1>7. ASSUME NEW level \in Int
      PROVE  FirstBelow(f, IF cash < level THEN f.asOf ELSE None, level, d)
  <2>1. f.asOf = Larger(d, f.asOf) /\ \A j \in d .. d - 1 : FALSE
    BY <1>1 DEF Larger
  <2>2. CASE cash < level
    BY <1>1, <2>1, <2>2 DEF FirstBelow
  <2>3. CASE ~ (cash < level)
    BY <1>1, <2>3 DEF FirstBelow
  <2> QED BY <2>2, <2>3
<1>8. gap > 0 <=> cash < f.buffer
  BY <1>1, <1>3 DEF Larger
<1>9. FirstBelow(f, p.breach, f.buffer, d) /\ FirstBelow(f, p.negative, 0, d)
  <2> HIDE DEF gap, cash, p, d
  <2> QED BY <1>1, <1>5, <1>7, <1>8
<1>10. SoFar(f, p, d)
  <2> HIDE DEF p, cash, d
  <2> QED BY <1>5, <1>6, <1>9 DEF SoFar, cash
<1> QED BY <1>2, <1>10

(* Calculate's loop computes the outlook as it is defined.                 *)
LEMMA PointsAreSoFar ==
  ASSUME NEW f, Summable(f), NEW e \in Int, f.asOf <= e, Fits(f, e), None \notin f.asOf .. e
  PROVE  SoFar(f, Points(f, e), e)
<1> DEFINE a == f.asOf - 1
           w == Walk(f, e)
           T == {d \in a .. e : SoFar(f, w[d], d)}
<1>1. f.asOf \in Int /\ a \in Int /\ a <= e
  BY DEF Summable
<1>2. \A d \in a .. e : w[d] = IF d < f.asOf THEN StartPoint(f) ELSE DayStep(f, e, w[d - 1], d)
  BY <1>1, WalkUnfolds DEF IsWalk
<1>3. a \in T
  <2>1. a \in a .. e /\ a < f.asOf
    BY <1>1
  <2>2. w[a] = StartPoint(f)
    BY <1>2, <2>1
  <2> QED BY <2>1, <2>2, StartIsSoFar DEF Fits
<1>4. ASSUME NEW n \in a .. e - 1, n \in T PROVE n + 1 \in T
  <2> DEFINE d == n + 1
  <2>1. d \in a .. e /\ d \in f.asOf .. e /\ d \in Int /\ f.asOf <= d /\ ~ (d < f.asOf) /\ d - 1 = n
    BY <1>1
  <2>2. None \notin f.asOf .. d
    BY <1>1, <2>1
  <2>3. SoFar(f, w[n], d - 1) /\ w[d] = DayStep(f, e, w[n], d)
    BY <1>2, <1>4, <2>1
  <2>4. f.buffer - CashAt(f, d) \in Word
    BY <2>1 DEF Fits
  <2> HIDE DEF d
  <2>5. CASE w[d] = WithPoint(w[n], f, d, CashAt(f, d))
    BY <2>1, <2>2, <2>3, <2>4, <2>5, PointKeepsSoFar
  <2>6. CASE w[d] = w[n] /\ CashAt(f, d) = CashAt(f, d - 1)
    BY <2>1, <2>3, <2>6, QuietDayKeepsSoFar
  <2>7. w[n].cashEnd = CashAt(f, d - 1)
    BY <2>3 DEF SoFar
  <2>8. SoFar(f, w[d], d)
    BY <2>1, <2>3, <2>5, <2>6, <2>7, DayStepIs
  <2> QED BY <2>1, <2>8 DEF d
<1>5. \A d \in a .. e : d \in T
  <2> HIDE DEF a, T
  <2> QED BY <1>1, <1>3, <1>4, IntervalInduction
<1>6. e \in a .. e
  BY <1>1
<1> QED BY <1>5, <1>6 DEF Points

-----------------------------------------------------------------------------
(***************************************************************************)
(* What Validate accepts stays in the range of a word.                     *)
(***************************************************************************)

(* All that the movements of a forecast can add up to.                     *)
Most == MaxMovements * MaxAmount

LEMMA MostFits ==
  Most \in Nat /\ MaxAmount \in Nat /\ Half \in Nat /\ Most + 2 * MaxAmount < Half
<1>1. MaxMovements \in Nat /\ MaxAmount \in Nat /\ (MaxMovements + 2) * MaxAmount < Half /\ Half \in Nat
  BY CashAssumption
<1>2. (MaxMovements + 2) * MaxAmount = MaxMovements * MaxAmount + 2 * MaxAmount
  BY <1>1
<1>3. MaxMovements * MaxAmount \in Nat
  BY <1>1
<1> QED BY <1>1, <1>2, <1>3 DEF Most

(* Opening cash in the limits is at most MaxAmount either way.             *)
LEMMA OpeningBounded ==
  ASSUME NEW o \in Word, o # None, OpeningInLimits(o)
  PROVE  -MaxAmount <= o /\ o <= MaxAmount
<1>1. o \in Int /\ Half \in Nat /\ MaxAmount \in Nat /\ -Half <= o /\ o < Half
  BY MostFits DEF Word
<1>2. CASE o = -Half
  <2> DEFINE b == 2 * Half
  <2>1. b \in Nat /\ b > 0
    BY <1>1
  <2>2. b % b = 0
    <3> HIDE DEF b
    <3> QED BY <2>1
  <2>3. (-o + Half) % (2 * Half) = 0
    <3>1. -o + Half = b
      BY <1>1, <1>2
    <3> QED BY <2>2, <3>1
  <2>4. Wrap(-o) = -Half
    BY <1>1, <2>3 DEF Wrap
  <2> QED BY <1>1, <1>2, <2>4 DEF OpeningInLimits, InLimits, Larger
<1>3. CASE o # -Half
  <2>1. -o \in Word
    BY <1>1, <1>3 DEF Word
  <2>2. Wrap(-o) = -o
    BY <2>1, WrapFits
  <2> QED BY <1>1, <2>2 DEF OpeningInLimits, InLimits, Larger
<1> QED BY <1>2, <1>3

LEMMA DayIsNumber ==
  ASSUME NEW d \in Days
  PROVE  d \in Nat /\ d # None
BY CashAssumption

(* A part of a stored forecast's movements, at MaxAmount each, makes at    *)
(* most Most.                                                              *)
LEMMA ValidCount ==
  ASSUME NEW f \in Schedule, Validate(f, FALSE), NEW U \in SUBSET DOMAIN f.movements
  PROVE  /\ IsFiniteSet(DOMAIN f.movements) /\ IsFiniteSet(U)
         /\ Cardinality(U) * MaxAmount <= Most
<1> DEFINE D == DOMAIN f.movements
           c == Cardinality(U)
<1>1. f.movements \in Seq(Movement) /\ Len(f.movements) <= MaxMovements
  BY DEF Schedule, Validate
<1>2. D = 1 .. Len(f.movements) /\ Len(f.movements) \in Nat
  BY <1>1
<1>3. IsFiniteSet(1 .. Len(f.movements)) /\ Cardinality(1 .. Len(f.movements)) = Len(f.movements)
  BY <1>2, FS_Interval
<1>4. IsFiniteSet(D) /\ Cardinality(D) <= MaxMovements /\ Cardinality(D) \in Nat
  BY <1>1, <1>2, <1>3
<1>5. IsFiniteSet(U) /\ c \in Nat /\ c <= MaxMovements /\ MaxMovements \in Nat /\ MaxAmount \in Nat
  BY <1>4, FS_Subset, FS_CardinalityType, CashAssumption
<1> HIDE DEF c
<1>6. MaxMovements * MaxAmount = c * MaxAmount + (MaxMovements - c) * MaxAmount
  BY <1>5
<1>7. (MaxMovements - c) * MaxAmount \in Nat /\ c * MaxAmount \in Nat
  BY <1>5
<1>8. c * MaxAmount <= Most
  BY <1>6, <1>7 DEF Most
<1> QED BY <1>4, <1>5, <1>8 DEF c

(* The sums over a stored forecast.                                        *)
LEMMA ValidSums ==
  ASSUME NEW f \in Schedule, Validate(f, FALSE), Known(f)
  PROVE  /\ Summable(f) /\ f.asOf \in Days /\ f.horizon \in Days /\ f.asOf <= f.horizon
         /\ \A i \in DOMAIN f.movements : f.movements[i].amount \in 0 .. MaxAmount
         /\ 0 <= f.buffer /\ f.buffer <= MaxAmount
         /\ -MaxAmount <= f.opening - f.restricted /\ f.opening - f.restricted <= MaxAmount
         /\ \A U \in SUBSET DOMAIN f.movements :
              LET s == SumFunctionOnSet(Flow(f), U)
              IN s \in Int /\ -Most <= s /\ s <= Most
<1> DEFINE D == DOMAIN f.movements
<1>1. /\ f.asOf \in Days /\ f.horizon \in Days /\ f.asOf \in Int /\ f.asOf <= f.horizon
      /\ f.opening \in Word /\ f.restricted \in Word /\ f.buffer \in Word
      /\ f.movements \in Seq(Movement)
  <2>1. /\ f.asOf \in Days /\ f.horizon \in Days /\ f.opening \in Word \cup {None}
        /\ f.restricted \in Word /\ f.buffer \in Word /\ f.movements \in Seq(Movement)
    BY DEF Schedule
  <2>2. f.asOf <= f.horizon /\ f.opening # None
    BY DEF Validate, Known
  <2>3. f.opening \in Word
    BY <2>1, <2>2
  <2>4. f.asOf \in Int
    BY <2>1, DayIsNumber
  <2> QED BY <2>1, <2>2, <2>3, <2>4
<1>2. f.opening \in Int /\ f.restricted \in Int /\ f.buffer \in Int /\ Half \in Nat /\ MaxAmount \in Nat
  BY <1>1, MostFits DEF Word
<1>3. \A i \in D : /\ f.movements[i].date \in Int /\ f.asOf <= f.movements[i].date
                   /\ f.movements[i].amount \in Int
                   /\ 0 <= f.movements[i].amount /\ f.movements[i].amount <= MaxAmount
  <2> SUFFICES ASSUME NEW i \in D
               PROVE  /\ f.movements[i].date \in Int /\ f.asOf <= f.movements[i].date
                      /\ f.movements[i].amount \in Int
                      /\ 0 <= f.movements[i].amount /\ f.movements[i].amount <= MaxAmount
    OBVIOUS
  <2>1. f.movements[i] \in Movement
    BY <1>1
  <2>2. f.movements[i].date \in Int /\ f.movements[i].amount \in Int
    <3>1. f.movements[i].date \in Days /\ f.movements[i].amount \in Word
      BY <2>1 DEF Movement
    <3>2. f.movements[i].date \in Int
      BY <3>1, DayIsNumber
    <3>3. f.movements[i].amount \in Int
      BY <1>2, <3>1 DEF Word
    <3> QED BY <3>2, <3>3
  <2>3. ValidMovement(f, f.movements[i])
    BY DEF Validate
  <2> QED BY <1>1, <1>2, <2>2, <2>3 DEF ValidMovement
<1>4. \A i \in D : Flow(f)[i] \in Int /\ -MaxAmount <= Flow(f)[i] /\ Flow(f)[i] <= MaxAmount
  <2> SUFFICES ASSUME NEW i \in D
               PROVE  Flow(f)[i] \in Int /\ -MaxAmount <= Flow(f)[i] /\ Flow(f)[i] <= MaxAmount
    OBVIOUS
  <2>1. Flow(f)[i] = f.movements[i].amount \/ Flow(f)[i] = -f.movements[i].amount
    BY DEF Flow, Signed
  <2> QED BY <1>2, <1>3, <2>1
<1>5. IsFiniteSet(D)
  BY ValidCount
<1>6. Summable(f)
  BY <1>1, <1>2, <1>3, <1>4, <1>5 DEF Summable
<1>7. ASSUME NEW U \in SUBSET D
      PROVE  LET s == SumFunctionOnSet(Flow(f), U)
             IN s \in Int /\ -Most <= s /\ s <= Most
  <2> DEFINE s == SumFunctionOnSet(Flow(f), U)
             c == Cardinality(U)
  <2>1. IsFiniteSet(U) /\ c * MaxAmount <= Most
    BY ValidCount
  <2>2. \A i \in U : Flow(f)[i] \in Int /\ -MaxAmount <= Flow(f)[i] /\ Flow(f)[i] <= MaxAmount
    BY <1>4
  <2>3. s \in Int /\ c * MaxAmount \in Nat /\ -(c * MaxAmount) <= s /\ s <= c * MaxAmount
    BY <1>2, <2>1, <2>2, SumBound
  <2> HIDE DEF s, c
  <2>4. s \in Int /\ -Most <= s /\ s <= Most
    <3> DEFINE p == c * MaxAmount
    <3> HIDE DEF p
    <3>1. s \in Int /\ p \in Nat /\ -p <= s /\ s <= p /\ p <= Most
      BY <2>1, <2>3 DEF p
    <3> QED BY <3>1, MostFits
  <2> QED BY <2>4 DEF s
<1>8. -MaxAmount <= f.opening /\ f.opening <= MaxAmount
  BY <1>1, OpeningBounded DEF Known, Validate
<1>9. -MaxAmount <= f.opening - f.restricted /\ f.opening - f.restricted <= MaxAmount
  BY <1>2, <1>8 DEF Known, Validate, InLimits, Larger
<1>10. 0 <= f.buffer /\ f.buffer <= MaxAmount
  BY DEF Validate, InLimits
<1>11. \A i \in D : f.movements[i].amount \in 0 .. MaxAmount
  BY <1>2, <1>3
<1> QED BY <1>1, <1>6, <1>7, <1>9, <1>10, <1>11

(* Every sum of the outlook of a stored forecast fits a word, and cash of  *)
(* two days differs by at most Most.                                       *)
LEMMA ValidFits ==
  ASSUME NEW f \in Schedule, Validate(f, FALSE), Known(f), NEW e \in Int
  PROVE  /\ Fits(f, e)
         /\ \A d \in Int : /\ CashAt(f, d) \in Int
                           /\ -(Most + MaxAmount) <= CashAt(f, d)
                           /\ CashAt(f, d) <= Most + MaxAmount
         /\ \A c, d \in Int : CashAt(f, d) - CashAt(f, c) <= Most
<1>1. /\ Summable(f) /\ 0 <= f.buffer /\ f.buffer <= MaxAmount
      /\ -MaxAmount <= f.opening - f.restricted /\ f.opening - f.restricted <= MaxAmount
      /\ \A U \in SUBSET DOMAIN f.movements :
           LET s == SumFunctionOnSet(Flow(f), U)
           IN s \in Int /\ -Most <= s /\ s <= Most
  BY ValidSums
<1>2. f.asOf \in Int /\ f.buffer \in Int /\ f.opening - f.restricted \in Int
  BY <1>1 DEF Summable
<1>3. ASSUME NEW d \in Int
      PROVE  /\ CashAt(f, d) \in Int
             /\ -(Most + MaxAmount) <= CashAt(f, d) /\ CashAt(f, d) <= Most + MaxAmount
             /\ SumFunctionOnSet(Flow(f), CountedOn(f, d)) \in Word
  <2> DEFINE s == SumFunctionOnSet(Flow(f), CountedUpTo(f, d))
             t == SumFunctionOnSet(Flow(f), CountedOn(f, d))
             o == f.opening - f.restricted
  <2>1. CountedUpTo(f, d) \in SUBSET DOMAIN f.movements /\ CountedOn(f, d) \in SUBSET DOMAIN f.movements
    BY DEF CountedUpTo, CountedOn
  <2>2. s \in Int /\ -Most <= s /\ s <= Most /\ t \in Int /\ -Most <= t /\ t <= Most
    BY <1>1, <2>1
  <2>3. CashAt(f, d) = o + s
    BY DEF CashAt
  <2>4. o \in Int /\ -MaxAmount <= o /\ o <= MaxAmount
    BY <1>1, <1>2
  <2> HIDE DEF s, t, o
  <2>5. /\ CashAt(f, d) \in Int
        /\ -(Most + MaxAmount) <= CashAt(f, d) /\ CashAt(f, d) <= Most + MaxAmount
    BY <2>2, <2>3, <2>4, MostFits
  <2>6. t \in Word
    BY <2>2, MostFits DEF Word
  <2> QED BY <2>5, <2>6 DEF t
<1>4. ASSUME NEW c \in Int, NEW d \in Int, c <= d
      PROVE  -Most <= CashAt(f, d) - CashAt(f, c) /\ CashAt(f, d) - CashAt(f, c) <= Most
  <2> DEFINE A == CountedUpTo(f, c)
             B == {i \in CountedUpTo(f, d) : i \notin A}
  <2>1. /\ A \in SUBSET DOMAIN f.movements /\ B \in SUBSET DOMAIN f.movements /\ A \cap B = {}
        /\ CountedUpTo(f, d) = A \cup B
    BY <1>1, <1>4 DEF CountedUpTo, Summable
  <2>2. SumFunctionOnSet(Flow(f), A \cup B)
          = SumFunctionOnSet(Flow(f), A) + SumFunctionOnSet(Flow(f), B)
    <3>1. IsFiniteSet(DOMAIN f.movements) /\ \A i \in DOMAIN f.movements : Flow(f)[i] \in Int
      BY <1>1 DEF Summable
    <3> HIDE DEF A, B
    <3> QED BY <2>1, <3>1, SumUnion
  <2>3. CashAt(f, d) = f.opening - f.restricted + SumFunctionOnSet(Flow(f), A \cup B)
    BY <2>1, Zenon DEF CashAt
  <2>4. CashAt(f, c) = f.opening - f.restricted + SumFunctionOnSet(Flow(f), A)
    BY DEF CashAt
  <2> HIDE DEF A, B
  <2>5. /\ SumFunctionOnSet(Flow(f), A) \in Int /\ SumFunctionOnSet(Flow(f), B) \in Int
        /\ -Most <= SumFunctionOnSet(Flow(f), B) /\ SumFunctionOnSet(Flow(f), B) <= Most
    BY <1>1, <2>1
  <2> QED BY <1>2, <2>2, <2>3, <2>4, <2>5, MostFits
<1>5. ASSUME NEW d \in Int PROVE CashAt(f, d) \in Word /\ f.buffer - CashAt(f, d) \in Word
  BY <1>1, <1>2, <1>3, MostFits DEF Word
<1>6. Fits(f, e)
  BY <1>2, <1>3, <1>5 DEF Fits
<1>7. ASSUME NEW c \in Int, NEW d \in Int PROVE CashAt(f, d) - CashAt(f, c) <= Most
  <2>1. c <= d \/ d <= c
    OBVIOUS
  <2> QED BY <1>3, <1>4, <2>1, MostFits
<1> QED BY <1>3, <1>6, <1>7

LEMMA ClampInside ==
  ASSUME NEW f, f.asOf \in Days, f.horizon \in Days, f.asOf <= f.horizon, NEW e \in Nat \cup {None}
  PROVE  /\ Clamp(f, e) \in Int /\ f.asOf <= Clamp(f, e) /\ Clamp(f, e) <= f.horizon
         /\ None \notin f.asOf .. Clamp(f, e)
<1>1. f.asOf \in Int /\ f.horizon \in Int
  BY DayIsNumber
<1>2. Clamp(f, e) \in Int /\ f.asOf <= Clamp(f, e) /\ Clamp(f, e) <= f.horizon
  BY <1>1 DEF Clamp, Larger
<1>3. f.asOf .. f.horizon \subseteq Days /\ None \notin Days
  BY CashAssumption
<1>4. f.asOf .. Clamp(f, e) \subseteq f.asOf .. f.horizon
  BY <1>1, <1>2
<1> QED BY <1>2, <1>3, <1>4

LEMMA MaxIs ==
  ASSUME NEW S \in SUBSET Int, NEW x \in S, \A y \in S : y <= x
  PROVE  Max(S) = x
<1>1. \A y \in S : x >= y
  OBVIOUS
<1>2. Max(S) \in S /\ \A y \in S : Max(S) >= y
  BY <1>1 DEF Max
<1>3. Max(S) \in Int /\ x \in Int /\ Max(S) >= x /\ x >= Max(S)
  BY <1>1, <1>2
<1> QED BY <1>3

LEMMA MinIs ==
  ASSUME NEW S \in SUBSET Int, NEW x \in S, \A y \in S : x <= y
  PROVE  Min(S) = x
<1>1. Min(S) \in S /\ \A y \in S : Min(S) <= y
  BY DEF Min
<1>2. Min(S) \in Int /\ x \in Int /\ Min(S) <= x /\ x <= Min(S)
  BY <1>1
<1> QED BY <1>2

(* What the run and the proofs call the stored forecast's outlook.         *)
LEMMA OutlookIsSoFar ==
  ASSUME TypeOK, Known(schedule)
  PROVE  LET e == Clamp(schedule, end)
         IN /\ Summable(schedule) /\ Fits(schedule, e) /\ schedule.asOf \in Int
            /\ e \in Int /\ schedule.asOf <= e /\ None \notin schedule.asOf .. e
            /\ SoFar(schedule, Outlook, e)
<1> DEFINE e == Clamp(schedule, end)
<1>1. schedule \in Schedule /\ Validate(schedule, FALSE) /\ end \in Nat \cup {None}
  BY DayIsNumber DEF TypeOK
<1>2. /\ Summable(schedule) /\ schedule.asOf \in Days /\ schedule.horizon \in Days
      /\ schedule.asOf <= schedule.horizon
  BY <1>1, ValidSums
<1>3. e \in Int /\ schedule.asOf <= e /\ None \notin schedule.asOf .. e
  BY <1>1, <1>2, ClampInside
<1>4. Fits(schedule, e)
  BY <1>1, <1>3, ValidFits
<1>5. SoFar(schedule, Outlook, e)
  BY <1>2, <1>3, <1>4, PointsAreSoFar DEF Outlook
<1> QED BY <1>2, <1>3, <1>4, <1>5 DEF Summable

-----------------------------------------------------------------------------
(***************************************************************************)
(* The theorems.                                                           *)
(***************************************************************************)

(* What is stored has the shape of a forecast and passed Validate: no save *)
(* goes around it.                                                         *)
THEOREM CashTypeOK == Spec => []TypeOK
<1>1. Init => TypeOK
  BY CashAssumption DEF Init, TypeOK
<1>2. TypeOK /\ [Next]_vars => TypeOK'
  <2> SUFFICES ASSUME TypeOK, [Next]_vars PROVE TypeOK'
    OBVIOUS
  <2>1. ASSUME NEW m \in Candidates, AddMovement(m) PROVE TypeOK'
    <3> DEFINE f == [schedule EXCEPT !.movements = Append(@, m)]
    <3>1. m \in Movement
      BY CashAssumption
    <3>2. schedule.movements \in Seq(Movement) /\ Append(schedule.movements, m) \in Seq(Movement)
      BY <3>1 DEF TypeOK, Schedule
    <3>3. f \in Schedule
      BY <3>2 DEF TypeOK, Schedule
    <3>4. Validate(f, FALSE) /\ schedule' = f /\ end' = end
      BY <2>1 DEF AddMovement
    <3> HIDE DEF f
    <3> QED BY <3>3, <3>4 DEF TypeOK
  <2>2. ASSUME NEW e \in Days \cup {None}, ChooseEnd(e) PROVE TypeOK'
    BY <2>2 DEF ChooseEnd, TypeOK
  <2>3. CASE UNCHANGED vars
    BY <2>3 DEF vars, TypeOK
  <2> QED BY <2>1, <2>2, <2>3 DEF Next
<1> QED BY <1>1, <1>2, PTL DEF Spec

(* The definition of a level's first breach, in the words of the property. *)
LEMMA FirstBelowIsDefinition ==
  ASSUME Summable(schedule), NEW e \in Int, schedule.asOf <= e, NEW level \in Int,
         NEW x, FirstBelow(schedule, x, level, e)
  PROVE  x = IF StartCash < level
             THEN schedule.asOf
             ELSE FirstDay({d \in schedule.asOf .. e : CashOn(d) < level})
<1> DEFINE f == schedule
           a == schedule.asOf
           D == {d \in a .. e : CashOn(d) < level}
<1>1. a \in Int /\ \A k \in Int : CashAt(f, k) \in Int
  BY CashAtIsInt DEF Summable
<1>2. CashAt(f, a - 1) = StartCash /\ \A k : CashAt(f, k) = CashOn(k)
  BY CashAtStart DEF StartCash, CashOn, CashAt, CountedUpTo
<1>3. CASE x = None /\ \A k \in a - 1 .. e : level <= CashAt(f, k)
  <2>1. a - 1 \in a - 1 .. e /\ \A k \in a .. e : k \in a - 1 .. e
    BY <1>1
  <2>2. ~ (StartCash < level) /\ \A k \in a .. e : ~ (CashOn(k) < level)
    BY <1>1, <1>2, <1>3, <2>1
  <2> QED BY <1>3, <2>2 DEF FirstDay
<1>4. ASSUME NEW k \in a - 1 .. e, CashAt(f, k) < level,
             \A j \in a - 1 .. k - 1 : level <= CashAt(f, j), x = Larger(k, a)
      PROVE  x = IF StartCash < level THEN a ELSE FirstDay(D)
  <2>1. CASE k = a - 1
    BY <1>1, <1>2, <1>4, <2>1 DEF Larger
  <2>2. CASE k # a - 1
    <3>1. k \in a .. e /\ x = k /\ a - 1 \in a - 1 .. k - 1
      BY <1>1, <1>4, <2>2 DEF Larger
    <3>2. ~ (StartCash < level)
      BY <1>1, <1>2, <1>4, <3>1
    <3>3. k \in D
      BY <1>2, <1>4, <3>1
    <3>4. \A j \in D : k <= j
      <4> SUFFICES ASSUME NEW j \in a .. e, CashOn(j) < level, j < k PROVE FALSE
        BY <1>1, <3>1
      <4>1. j \in a - 1 .. k - 1
        BY <1>1
      <4> QED BY <1>1, <1>2, <1>4, <4>1
    <3>5. Min(D) = k
      <4>1. D \in SUBSET Int
        BY <1>1
      <4> HIDE DEF D
      <4> QED BY <3>3, <3>4, <4>1, MinIs
    <3>6. FirstDay(D) = k
      BY <3>3, <3>5 DEF FirstDay
    <3> HIDE DEF D
    <3> QED BY <3>1, <3>2, <3>6
  <2> QED BY <2>1, <2>2
<1> QED BY <1>3, <1>4 DEF FirstBelow

(* The loop over the days that have movements computes need, first breach, *)
(* first negative day and final cash as they are defined over every day of *)
(* the span, for forecasts of any size Validate accepts.                   *)
THEOREM CashOutlookMatchesDefinition == Spec => []OutlookMatchesDefinition
<1>1. TypeOK => OutlookMatchesDefinition
  <2> SUFFICES ASSUME TypeOK, Known(schedule) PROVE OutlookMatchesDefinition
    BY DEF OutlookMatchesDefinition
  <2> DEFINE e == Clamp(schedule, end)
             a == schedule.asOf
             cash == [d \in Span |-> CashOn(d)]
             positions == {StartCash} \cup {cash[d] : d \in Span}
             gaps == {0} \cup {schedule.buffer - x : x \in positions}
  <2>1. /\ Summable(schedule) /\ a \in Int /\ e \in Int /\ a <= e
        /\ SoFar(schedule, Outlook, e)
    BY OutlookIsSoFar
  <2>2. /\ schedule.buffer \in Int /\ \A k \in Int : CashAt(schedule, k) \in Int
        /\ CashAt(schedule, a - 1) = StartCash /\ \A k : CashAt(schedule, k) = CashOn(k)
    BY <2>1, CashAtIsInt, CashAtStart DEF StartCash, CashOn, CashAt, CountedUpTo, Summable
  <2>3. Span = a .. e /\ e \in Span
    BY <2>1 DEF Span
  <2>4. Outlook.cashEnd = cash[e]
    BY <2>1, <2>2, <2>3 DEF SoFar
  <2>5. positions = {CashAt(schedule, k) : k \in a - 1 .. e}
    <3>1. \A k \in a - 1 .. e : k = a - 1 \/ k \in Span
      BY <2>1, <2>3
    <3>2. a - 1 \in a - 1 .. e /\ \A k \in Span : k \in a - 1 .. e
      BY <2>1, <2>3
    <3>3. \A k \in Span : cash[k] = CashAt(schedule, k)
      BY <2>2
    <3> HIDE DEF cash
    <3> QED BY <2>2, <3>1, <3>2, <3>3
  <2>6. Outlook.need = Max(gaps)
    <3> DEFINE n == Outlook.need
    <3>1. LargestGap(schedule, n, e)
      BY <2>1 DEF SoFar
    <3> HIDE DEF n, cash, positions
    <3>2. gaps = {0} \cup {schedule.buffer - CashAt(schedule, k) : k \in a - 1 .. e}
      BY <2>5
    <3> HIDE DEF gaps
    <3>3. gaps \in SUBSET Int
      BY <2>1, <2>2, <3>2
    <3>4. n \in gaps /\ \A y \in gaps : y <= n
      BY <2>1, <2>2, <3>1, <3>2 DEF LargestGap
    <3>5. Max(gaps) = n
      BY <3>3, <3>4, MaxIs
    <3> QED BY <3>5 DEF n
  <2>7. ASSUME NEW level \in Int, NEW x, FirstBelow(schedule, x, level, e)
        PROVE  x = IF StartCash < level
                   THEN schedule.asOf ELSE FirstDay({d \in Span : cash[d] < level})
    <3>1. x = IF StartCash < level
              THEN schedule.asOf ELSE FirstDay({d \in Span : CashOn(d) < level})
      BY <2>1, <2>3, <2>7, FirstBelowIsDefinition
    <3>2. {d \in Span : cash[d] < level} = {d \in Span : CashOn(d) < level}
      OBVIOUS
    <3> QED BY <3>1, <3>2
  <2>8. Outlook.breach = IF StartCash < schedule.buffer
                         THEN schedule.asOf ELSE FirstDay({d \in Span : cash[d] < schedule.buffer})
    BY <2>1, <2>2, <2>7 DEF SoFar
  <2>9. Outlook.negative = IF StartCash < 0
                           THEN schedule.asOf ELSE FirstDay({d \in Span : cash[d] < 0})
    BY <2>1, <2>7 DEF SoFar
  <2> QED BY <2>4, <2>6, <2>8, <2>9 DEF OutlookMatchesDefinition
<1> QED BY <1>1, CashTypeOK, PTL

(* A forecast that may be approved sets no committed financing aside: the  *)
(* evidence Validate then demands is what Counted asks for.                *)
THEOREM CashApprovedCountsCommitted == Spec => []ApprovedCountsCommitted
<1>1. TypeOK => ApprovedCountsCommitted
  <2> SUFFICES ASSUME TypeOK, Validate(schedule, TRUE) PROVE ApprovedCountsCommitted
    BY DEF ApprovedCountsCommitted
  <2> DEFINE f == schedule
             e == Clamp(schedule, end)
             D == DOMAIN f.movements
             P == {i \in D : /\ f.movements[i].kind = "financing"
                             /\ f.movements[i].certainty \in {"conditional", "proposed"}
                             /\ f.movements[i].date <= e}
             Q == {i \in Due(f, e) : f.movements[i].kind = "financing"} \ DueCounted(f, e)
  <2>1. f \in Schedule /\ Validate(f, FALSE) /\ Known(f) /\ Approvable(f)
    BY DEF TypeOK, Validate, Approvable, Known
  <2>2. Q = P
    <3> SUFFICES ASSUME NEW i \in D PROVE i \in Q <=> i \in P
      BY DEF Due
    <3>1. ValidCertainty(f.movements[i])
      BY <2>1 DEF Validate, ValidMovement
    <3>2. f.movements[i].kind = "financing" /\ f.movements[i].certainty = "committed"
            => f.movements[i].evidence
      BY <2>1 DEF Approvable
    <3> HIDE DEF e
    <3>3. CASE f.movements[i].kind = "financing" /\ f.movements[i].date <= e
      <4>1. i \in Q <=> ~ (f.movements[i].certainty = "committed" /\ f.movements[i].evidence)
        BY <3>3 DEF Due, DueCounted, Counted
      <4> QED BY <3>1, <3>2, <3>3, <4>1 DEF ValidCertainty
    <3>4. CASE ~ (f.movements[i].kind = "financing" /\ f.movements[i].date <= e)
      BY <3>4 DEF Due
    <3> QED BY <3>3, <3>4
  <2>3. SumFunctionOnSet(Amounts(f), P) \in Word
    <3>1. /\ IsFiniteSet(D) /\ \A i \in D : f.movements[i].amount \in 0 .. MaxAmount
      BY <2>1, ValidSums DEF Summable
    <3>2. P \in SUBSET D
      OBVIOUS
    <3> HIDE DEF P
    <3>3. IsFiniteSet(P) /\ \A i \in P : /\ Amounts(f)[i] \in Int /\ -MaxAmount <= Amounts(f)[i]
                                         /\ Amounts(f)[i] <= MaxAmount
      BY <3>1, <3>2, FS_Subset, MostFits DEF Amounts
    <3> DEFINE s == SumFunctionOnSet(Amounts(f), P)
               c == Cardinality(P)
    <3>4. s \in Int /\ c * MaxAmount \in Nat /\ -(c * MaxAmount) <= s /\ s <= c * MaxAmount
      BY <3>3, MostFits, SumBound
    <3>5. c * MaxAmount <= Most
      BY <2>1, <3>2, ValidCount
    <3> DEFINE p == c * MaxAmount
    <3>6. p \in Nat /\ s \in Int /\ -p <= s /\ s <= p /\ p <= Most
      BY <3>4, <3>5
    <3> HIDE DEF s, p
    <3>7. s \in Word
      BY <3>6, MostFits DEF Word
    <3> QED BY <3>7 DEF s
  <2>4. Calculate(f, end).proposed = Wrap(SumFunctionOnSet(Amounts(f), Q))
    BY DEF Calculate, Total
  <2> HIDE DEF P, Q
  <2>5. Calculate(f, end).proposed = SumFunctionOnSet(Amounts(f), P)
    BY <2>2, <2>3, <2>4, WrapFits
  <2> QED BY <2>5 DEF ApprovedCountsCommitted, P
<1> QED BY <1>1, CashTypeOK, PTL

(* Looking a day further ahead never makes the need smaller and never      *)
(* moves the first breach: both outlooks are of the same cash.             *)
THEOREM CashLongerOutlookNeedsMore == Spec => []LongerOutlookNeedsMore
<1>1. TypeOK => LongerOutlookNeedsMore
  <2> SUFFICES ASSUME TypeOK, Known(schedule) PROVE LongerOutlookNeedsMore
    BY DEF LongerOutlookNeedsMore
  <2> DEFINE f == schedule
             a == schedule.asOf
             e == Clamp(schedule, end)
             e2 == Clamp(schedule, e + 1)
             near == Outlook
             far == Points(schedule, e2)
  <2>1. /\ Summable(f) /\ a \in Int /\ e \in Int /\ a <= e /\ None \notin a .. e
        /\ SoFar(f, near, e)
    BY OutlookIsSoFar
  <2>2. f \in Schedule /\ Validate(f, FALSE) /\ end \in Nat \cup {None}
    BY DayIsNumber DEF TypeOK
  <2>3. f.asOf \in Days /\ f.horizon \in Days /\ f.asOf <= f.horizon
    BY <2>2, ValidSums
  <2>4. e + 1 \in Nat /\ f.horizon \in Nat /\ a \in Nat
    BY <2>1, <2>3, DayIsNumber
  <2>5. e <= f.horizon
    BY <2>2, <2>3, ClampInside
  <2>6. e2 \in Int /\ a <= e2 /\ None \notin a .. e2
    <3> HIDE DEF e
    <3> QED BY <2>3, <2>4, ClampInside
  <2>7. e <= e2
    <3> HIDE DEF e
    <3> QED BY <2>1, <2>4, <2>5 DEF Clamp, Larger
  <2> HIDE DEF e2, e
  <2>8. SoFar(f, far, e2)
    BY <2>1, <2>2, <2>6, ValidFits, PointsAreSoFar
  <2>9. \A k \in a - 1 .. e : k \in a - 1 .. e2 /\ CashAt(f, k) \in Int
    BY <2>1, <2>6, <2>7, CashAtIsInt
  <2>10. near.need <= far.need
    BY <2>1, <2>8, <2>9 DEF SoFar, LargestGap
  <2>11. near.breach # None => far.breach = near.breach
    <3> SUFFICES ASSUME near.breach # None PROVE far.breach = near.breach
      OBVIOUS
    <3>1. PICK k \in a - 1 .. e : /\ CashAt(f, k) < f.buffer
                                  /\ \A j \in a - 1 .. k - 1 : f.buffer <= CashAt(f, j)
                                  /\ near.breach = Larger(k, a)
      BY <2>1 DEF SoFar, FirstBelow
    <3>2. PICK l \in a - 1 .. e2 : /\ CashAt(f, l) < f.buffer
                                   /\ \A j \in a - 1 .. l - 1 : f.buffer <= CashAt(f, j)
                                   /\ far.breach = Larger(l, a)
      <4>1. ~ (f.buffer <= CashAt(f, k)) /\ k \in a - 1 .. e2
        BY <2>1, <2>9, <3>1 DEF Summable
      <4> QED BY <2>8, <4>1 DEF SoFar, FirstBelow
    <3>3. ~ (f.buffer <= CashAt(f, k)) /\ ~ (f.buffer <= CashAt(f, l))
      BY <2>1, <3>1, <3>2, CashAtIsInt DEF Summable
    <3>4. k = l
      <4>1. ~ (k < l)
        BY <2>1, <2>6, <3>1, <3>2, <3>3
      <4>2. ~ (l < k)
        BY <2>1, <2>6, <3>1, <3>2, <3>3
      <4> QED BY <2>1, <2>6, <4>1, <4>2
    <3> QED BY <3>1, <3>2, <3>4
  <2> HIDE DEF far, near
  <2> QED BY <2>10, <2>11 DEF LongerOutlookNeedsMore, near, far, e, e2
<1> QED BY <1>1, CashTypeOK, PTL

(* More opening cash moves every day's cash by as much, and, up to the     *)
(* need, still fits a word.                                                *)
LEMMA MoreOpeningCash ==
  ASSUME TypeOK, Known(schedule), NEW x \in Nat, x <= Outlook.need
  PROVE  LET f == [schedule EXCEPT !.opening = @ + x]
             e == Clamp(schedule, end)
         IN /\ SoFar(f, Points(f, e), e)
            /\ f.asOf = schedule.asOf /\ f.buffer = schedule.buffer
            /\ \A d \in Int : CashAt(f, d) = CashAt(schedule, d) + x
<1> DEFINE f == [schedule EXCEPT !.opening = @ + x]
           a == schedule.asOf
           e == Clamp(schedule, end)
           n == Outlook.need
<1>1. /\ Summable(schedule) /\ Fits(schedule, e) /\ a \in Int /\ e \in Int /\ a <= e
      /\ None \notin a .. e /\ SoFar(schedule, Outlook, e)
  BY OutlookIsSoFar
<1>2. schedule \in Schedule /\ Validate(schedule, FALSE)
  BY DEF TypeOK
<1>3. /\ f.asOf = a /\ f.buffer = schedule.buffer /\ f.restricted = schedule.restricted
      /\ f.movements = schedule.movements /\ f.opening = schedule.opening + x
  BY <1>2 DEF Schedule
<1> HIDE DEF f, e, n
<1>4. Flow(f) = Flow(schedule) /\ \A d : CountedUpTo(f, d) = CountedUpTo(schedule, d)
                               /\ CountedOn(f, d) = CountedOn(schedule, d)
  BY <1>3 DEF Flow, CountedUpTo, CountedOn
<1>5. Summable(f)
  BY <1>1, <1>3, <1>4 DEF Summable
<1>6. ASSUME NEW d \in Int PROVE CashAt(f, d) = CashAt(schedule, d) + x
  <2> DEFINE s == SumFunctionOnSet(Flow(schedule), CountedUpTo(schedule, d))
             o == schedule.opening - schedule.restricted
  <2>1. CashAt(schedule, d) = o + s /\ CashAt(f, d) = f.opening - f.restricted + s
    BY <1>4 DEF CashAt
  <2>2. f.opening - f.restricted = o + x /\ o \in Int
    BY <1>1, <1>3 DEF Summable
  <2>3. s \in Int
    <3>1. CountedUpTo(schedule, d) \in SUBSET DOMAIN schedule.movements
      BY DEF CountedUpTo
    <3> QED BY <1>2, <3>1, ValidSums
  <2> HIDE DEF s, o
  <2> QED BY <2>1, <2>2, <2>3
<1>7. Fits(f, e)
  <2>1. n \in Nat /\ x <= n /\ (n = 0 \/ \E k \in a - 1 .. e : n = schedule.buffer - CashAt(schedule, k))
    BY <1>1 DEF SoFar, LargestGap, n
  <2>2. schedule.buffer \in Int /\ 0 <= schedule.buffer /\ schedule.buffer <= MaxAmount
    BY <1>1, <1>2, ValidSums DEF Summable
  <2>3. \A d \in Int : /\ CashAt(schedule, d) \in Int
                       /\ -(Most + MaxAmount) <= CashAt(schedule, d)
                       /\ CashAt(schedule, d) <= Most + MaxAmount
    BY <1>1, <1>2, ValidFits
  <2>4. \A c, d \in Int : CashAt(schedule, d) - CashAt(schedule, c) <= Most
    BY <1>1, <1>2, ValidFits
  <2>5. ASSUME NEW d \in a - 1 .. e PROVE CashAt(f, d) \in Word /\ f.buffer - CashAt(f, d) \in Word
    <3>1. d \in Int /\ CashAt(f, d) = CashAt(schedule, d) + x /\ CashAt(schedule, d) \in Int
      BY <1>1, <1>6, <2>3
    <3>2. CASE n = 0
      <4>1. x = 0
        BY <2>1, <3>2
      <4>2. CashAt(f, d) = CashAt(schedule, d)
        BY <3>1, <4>1
      <4> QED BY <1>1, <1>3, <4>2 DEF Fits
    <3>3. ASSUME NEW k \in a - 1 .. e, n = schedule.buffer - CashAt(schedule, k)
          PROVE  CashAt(f, d) \in Word /\ f.buffer - CashAt(f, d) \in Word
      <4>1. k \in Int /\ CashAt(schedule, k) \in Int
        BY <1>1, <2>3
      <4>2. /\ CashAt(schedule, d) - CashAt(schedule, k) <= Most
            /\ -(Most + MaxAmount) <= CashAt(schedule, d)
        BY <2>3, <2>4, <3>1, <4>1
      <4> QED BY <1>3, <2>1, <2>2, <3>1, <3>3, <4>1, <4>2, MostFits DEF Word
    <3> QED BY <2>1, <3>2, <3>3
  <2>6. \A d \in a .. e : SumFunctionOnSet(Flow(f), CountedOn(f, d)) \in Word
    BY <1>1, <1>4 DEF Fits
  <2> QED BY <1>3, <2>5, <2>6 DEF Fits
<1>8. SoFar(f, Points(f, e), e)
  BY <1>1, <1>3, <1>5, <1>7, PointsAreSoFar
<1> QED BY <1>3, <1>6, <1>8 DEF f, e

(* The need is exactly what is missing: with that much more opening cash   *)
(* none is left, and with one unit less one unit is missing still.         *)
THEOREM CashNeedIsExact == Spec => []NeedIsExact
<1>1. TypeOK => NeedIsExact
  <2> SUFFICES ASSUME TypeOK, Known(schedule) PROVE NeedIsExact
    BY DEF NeedIsExact
  <2> DEFINE a == schedule.asOf
             e == Clamp(schedule, end)
             n == Outlook.need
             NeedWith(x) == Points([schedule EXCEPT !.opening = @ + x], e).need
  <2>1. Summable(schedule) /\ a \in Int /\ e \in Int /\ SoFar(schedule, Outlook, e)
    BY OutlookIsSoFar
  <2>2. /\ n \in Nat
        /\ \A k \in a - 1 .. e : schedule.buffer - CashAt(schedule, k) <= n
        /\ n = 0 \/ \E k \in a - 1 .. e : n = schedule.buffer - CashAt(schedule, k)
    BY <2>1 DEF SoFar, LargestGap
  <2>3. schedule.buffer \in Int /\ \A k \in a - 1 .. e : k \in Int /\ CashAt(schedule, k) \in Int
    BY <2>1, CashAtIsInt DEF Summable
  <2> HIDE DEF n, e
  <2>4. ASSUME NEW x \in Nat, x <= n
        PROVE  /\ NeedWith(x) \in Nat
               /\ \A k \in a - 1 .. e : schedule.buffer - (CashAt(schedule, k) + x) <= NeedWith(x)
               /\ \/ NeedWith(x) = 0
                  \/ \E k \in a - 1 .. e : NeedWith(x) = schedule.buffer - (CashAt(schedule, k) + x)
    <3> DEFINE f == [schedule EXCEPT !.opening = @ + x]
    <3>1. /\ SoFar(f, Points(f, e), e) /\ f.asOf = a /\ f.buffer = schedule.buffer
          /\ \A d \in Int : CashAt(f, d) = CashAt(schedule, d) + x
      BY <2>4, MoreOpeningCash DEF n, e
    <3> DEFINE m == Points(f, e).need
    <3> HIDE DEF f, m
    <3>2. /\ m \in Nat
          /\ \A k \in a - 1 .. e : schedule.buffer - CashAt(f, k) <= m
          /\ m = 0 \/ \E k \in a - 1 .. e : m = schedule.buffer - CashAt(f, k)
      BY <3>1 DEF SoFar, LargestGap, m
    <3>3. \A k \in a - 1 .. e : CashAt(f, k) = CashAt(schedule, k) + x
      BY <2>3, <3>1
    <3>4. /\ m \in Nat
          /\ \A k \in a - 1 .. e : schedule.buffer - (CashAt(schedule, k) + x) <= m
          /\ m = 0 \/ \E k \in a - 1 .. e : m = schedule.buffer - (CashAt(schedule, k) + x)
      BY <3>2, <3>3
    <3> QED BY <3>4 DEF m, f
  <2> HIDE DEF NeedWith
  <2>5. NeedWith(n) = 0
    BY <2>2, <2>3, <2>4
  <2>6. n > 0 => NeedWith(n - 1) = 1
    <3> SUFFICES ASSUME n > 0 PROVE NeedWith(n - 1) = 1
      OBVIOUS
    <3> DEFINE x == n - 1
    <3>1. x \in Nat /\ x <= n /\ n = x + 1
      BY <2>2
    <3> HIDE DEF x
    <3>2. 1 <= NeedWith(x)
      <4>1. PICK k \in a - 1 .. e : n = schedule.buffer - CashAt(schedule, k)
        BY <2>2, <3>1
      <4>2. schedule.buffer - (CashAt(schedule, k) + x) = 1
        BY <2>3, <3>1, <4>1
      <4>3. schedule.buffer - (CashAt(schedule, k) + x) <= NeedWith(x)
        BY <2>4, <3>1
      <4> QED BY <4>2, <4>3
    <3>3. NeedWith(x) <= 1
      <4>1. CASE NeedWith(x) = 0
        BY <4>1
      <4>2. ASSUME NEW k \in a - 1 .. e, NeedWith(x) = schedule.buffer - (CashAt(schedule, k) + x)
            PROVE  NeedWith(x) <= 1
        <5>1. schedule.buffer - CashAt(schedule, k) <= n
          BY <2>2
        <5> QED BY <2>2, <2>3, <3>1, <4>2, <5>1
      <4> QED BY <2>4, <3>1, <4>1, <4>2
    <3> QED BY <2>4, <3>1, <3>2, <3>3 DEF x
  <2> QED BY <2>5, <2>6 DEF NeedIsExact, NeedWith, n, e
<1> QED BY <1>1, CashTypeOK, PTL

(* Two schedules that agree on the cash they start with, the buffer and    *)
(* the sums of each day have the same outlook.                             *)
LEMMA SameNetSamePoints ==
  ASSUME NEW f, NEW g, NEW e \in Int, f.asOf \in Int, f.asOf <= e,
         g.asOf = f.asOf, g.opening = f.opening, g.restricted = f.restricted,
         g.buffer = f.buffer, Net(g, e) = Net(f, e)
  PROVE  Points(g, e) = Points(f, e)
<1> DEFINE a == f.asOf - 1
           v == Walk(f, e)
           w == Walk(g, e)
           T == {d \in a .. e : w[d] = v[d]}
<1>1. \A d \in a .. e :
        /\ v[d] = IF d < f.asOf THEN StartPoint(f) ELSE DayStep(f, e, v[d - 1], d)
        /\ w[d] = IF d < f.asOf THEN StartPoint(g) ELSE DayStep(g, e, w[d - 1], d)
  BY WalkUnfolds DEF IsWalk
<1>2. ASSUME NEW x, NEW d, NEW cash PROVE WithPoint(x, g, d, cash) = WithPoint(x, f, d, cash)
  BY DEF WithPoint
<1>3. StartPoint(g) = StartPoint(f)
  BY <1>2 DEF StartPoint
<1>4. ASSUME NEW x, NEW d PROVE DayStep(g, e, x, d) = DayStep(f, e, x, d)
  BY <1>2 DEF DayStep
<1>5. a \in T
  BY <1>1, <1>3
<1>6. ASSUME NEW n \in a .. e - 1, n \in T PROVE n + 1 \in T
  <2>1. n + 1 \in a .. e /\ ~ (n + 1 < f.asOf) /\ (n + 1) - 1 = n
    OBVIOUS
  <2>2. v[n + 1] = DayStep(f, e, v[n], n + 1) /\ w[n + 1] = DayStep(g, e, w[n], n + 1)
    BY <1>1, <2>1
  <2>3. w[n] = v[n]
    BY <1>6
  <2>4. w[n + 1] = v[n + 1]
    BY <1>4, <2>2, <2>3
  <2> QED BY <2>1, <2>4
<1>7. a \in Int /\ a <= e
  OBVIOUS
<1>8. e \in T
  <2> HIDE DEF a, T
  <2>1. \A d \in a .. e : d \in T
    BY <1>5, <1>6, <1>7, IntervalInduction
  <2> QED BY <1>7, <2>1
<1> QED BY <1>8 DEF Points

(* Financing that is not committed, or has no evidence, is in no sum, and  *)
(* no sum depends on the order of the movements: every point of the        *)
(* outlook stays the same without the one and in another order.            *)
THEOREM CashPromisesExcluded == Spec => []PromisesExcluded
<1>1. TypeOK => PromisesExcluded
  <2> DEFINE f == schedule
             e == Clamp(schedule, end)
             D == DOMAIN f.movements
             firm == {i \in D : Firm(f.movements[i])}
             R == 1 .. Cardinality(firm)
  <2> SUFFICES ASSUME TypeOK, Known(schedule), NEW order \in Bijection(R, firm)
               PROVE  Points(Listing(order), e) = Outlook
    BY DEF PromisesExcluded
  <2> DEFINE g == Listing(order)
  <2>1. /\ Summable(f) /\ f.asOf \in Int /\ e \in Int /\ f.asOf <= e
    BY OutlookIsSoFar
  <2>2. f \in Schedule
    BY DEF TypeOK
  <2>3. /\ order \in [R -> firm] /\ \A i, j \in R : order[i] = order[j] => i = j
        /\ \A i \in firm : \E k \in R : order[k] = i
    BY DEF Bijection, Injection, Surjection, IsInjective
  <2>4. /\ g.asOf = f.asOf /\ g.opening = f.opening /\ g.restricted = f.restricted
        /\ g.buffer = f.buffer /\ g.movements = [k \in R |-> f.movements[order[k]]]
    BY <2>2, <2>3 DEF Listing, Schedule
  <2>5. IsFiniteSet(R) /\ IsFiniteSet(firm) /\ \A i \in firm : Flow(f)[i] \in Int
    <3>1. IsFiniteSet(D) /\ firm \in SUBSET D
      BY <2>1 DEF Summable
    <3>2. IsFiniteSet(firm)
      BY <3>1, FS_Subset
    <3>3. IsFiniteSet(R)
      BY <3>2, FS_CardinalityType, FS_Interval
    <3> QED BY <2>1, <3>2, <3>3 DEF Summable
  <2> HIDE DEF g, e, R
  <2>6. \A i \in D : Counted(f.movements[i]) <=> i \in firm
    BY DEF Counted, Firm
  <2>7. \A k \in R : order[k] \in firm /\ order[k] \in D /\ Counted(f.movements[order[k]])
    BY <2>3, <2>6
  <2>8. DueCounted(g, e) = {k \in R : f.movements[order[k]].date <= e}
    BY <2>4, <2>7 DEF DueCounted, Due
  <2>9. DueCounted(f, e) = {i \in firm : f.movements[i].date <= e}
    BY <2>6 DEF DueCounted, Due
  <2> HIDE DEF firm
  <2>10. ASSUME NEW d
         PROVE  SumFunctionOnSet(Flow(g), {k \in DueCounted(g, e) : g.movements[k].date = d})
                  = SumFunctionOnSet(Flow(f), {i \in DueCounted(f, e) : f.movements[i].date = d})
    <3> DEFINE U == {k \in R : f.movements[order[k]].date <= e /\ f.movements[order[k]].date = d}
               V == {i \in firm : f.movements[i].date <= e /\ f.movements[i].date = d}
    <3>1. {k \in DueCounted(g, e) : g.movements[k].date = d} = U
      BY <2>4, <2>8
    <3>2. {i \in DueCounted(f, e) : f.movements[i].date = d} = V
      BY <2>9
    <3>3. {order[k] : k \in U} = V
      BY <2>3
    <3>4. \A k \in R : Flow(g)[k] = Flow(f)[order[k]]
      BY <2>4, <2>7 DEF Flow
    <3>5. U \in SUBSET R
      OBVIOUS
    <3> HIDE DEF U, V
    <3>6. SumFunctionOnSet(Flow(g), U) = SumFunctionOnSet(Flow(f), {order[k] : k \in U})
      BY <2>3, <2>5, <3>4, <3>5, SumImage
    <3> QED BY <3>1, <3>2, <3>3, <3>6
  <2>11. {g.movements[k].date : k \in DueCounted(g, e)} = {f.movements[i].date : i \in DueCounted(f, e)}
    <3>1. ASSUME NEW k \in DueCounted(g, e)
          PROVE  order[k] \in DueCounted(f, e) /\ g.movements[k].date = f.movements[order[k]].date
      BY <2>4, <2>7, <2>8, <2>9
    <3>2. ASSUME NEW i \in DueCounted(f, e)
          PROVE  \E k \in DueCounted(g, e) : g.movements[k].date = f.movements[i].date
      BY <2>3, <2>4, <2>8, <2>9
    <3> QED BY <3>1, <3>2
  <2>12. Net(g, e) = Net(f, e)
    <3> DEFINE X == {g.asOf, e} \cup {g.movements[k].date : k \in DueCounted(g, e)}
               Y == {f.asOf, e} \cup {f.movements[i].date : i \in DueCounted(f, e)}
               x(d) == Wrap(SumFunctionOnSet(Flow(g), {k \in DueCounted(g, e) : g.movements[k].date = d}))
               y(d) == Wrap(SumFunctionOnSet(Flow(f), {i \in DueCounted(f, e) : f.movements[i].date = d}))
    <3>1. X = Y
      BY <2>4, <2>11, Zenon
    <3>2. \A d : x(d) = y(d)
      BY <2>10, Zenon
    <3>3. Net(g, e) = [d \in X |-> x(d)] /\ Net(f, e) = [d \in Y |-> y(d)]
      BY Zenon DEF Net
    <3> HIDE DEF X, Y, x, y
    <3> QED BY <3>1, <3>2, <3>3
  <2> QED BY <2>1, <2>4, <2>12, SameNetSamePoints DEF Outlook, g, e
<1> QED BY <1>1, CashTypeOK, PTL


-----------------------------------------------------------------------------
(***************************************************************************)
(* The figures beside the outlook.                                         *)
(***************************************************************************)

LEMMA SumAgrees ==
  ASSUME NEW S, IsFiniteSet(S), NEW v, NEW w, \A i \in S : v[i] = w[i] /\ w[i] \in Int
  PROVE  SumFunctionOnSet(v, S) = SumFunctionOnSet(w, S)
<1> DEFINE same == [i \in S |-> i]
<1>1. /\ same \in [S -> S] /\ \A i, j \in S : same[i] = same[j] => i = j
      /\ \A i \in S : v[i] = w[same[i]]
  OBVIOUS
<1>2. {same[i] : i \in S} = S
  OBVIOUS
<1> HIDE DEF same
<1> QED BY <1>1, <1>2, SumImage

LEMMA SumNegated ==
  ASSUME NEW S, IsFiniteSet(S), NEW v, NEW w, \A i \in S : v[i] = -w[i] /\ w[i] \in Int
  PROVE  SumFunctionOnSet(v, S) = -SumFunctionOnSet(w, S)
<1>1. ASSUME NEW T, T = {U \in SUBSET S : SumFunctionOnSet(v, U) = -SumFunctionOnSet(w, U)}
      PROVE  S \in T
  <2>1. {} \in T
    BY <1>1, SumEmpty
  <2>2. ASSUME NEW U \in SUBSET S, NEW x \in S \ U, U \in T PROVE U \cup {x} \in T
    <3>1. \A i \in S : v[i] \in Int
      OBVIOUS
    <3>2. SumFunctionOnSet(w, U) \in Int /\ SumFunctionOnSet(w, U \cup {x}) = w[x] + SumFunctionOnSet(w, U)
      BY SumAdd
    <3>3. SumFunctionOnSet(v, U) \in Int /\ SumFunctionOnSet(v, U \cup {x}) = v[x] + SumFunctionOnSet(v, U)
      BY <3>1, SumAdd
    <3>4. SumFunctionOnSet(v, U) = -SumFunctionOnSet(w, U)
      BY <1>1, <2>2
    <3>5. SumFunctionOnSet(v, U \cup {x}) = -SumFunctionOnSet(w, U \cup {x})
      BY <3>2, <3>3, <3>4
    <3> QED BY <1>1, <3>5
  <2>3. \A U \in SUBSET S : \A x \in S \ U : U \in T => U \cup {x} \in T
    BY <2>2
  <2> QED BY <2>1, <2>3, SubsetInduction
<1>2. S \in {U \in SUBSET S : SumFunctionOnSet(v, U) = -SumFunctionOnSet(w, U)}
  BY <1>1, Zenon
<1> QED BY <1>2

LEMMA SumNotNegative ==
  ASSUME NEW S, IsFiniteSet(S), NEW w, \A i \in S : w[i] \in Nat
  PROVE  SumFunctionOnSet(w, S) \in Nat
<1>1. ASSUME NEW T, T = {U \in SUBSET S : SumFunctionOnSet(w, U) \in Nat}
      PROVE  S \in T
  <2>1. {} \in T
    BY <1>1, SumEmpty
  <2>2. ASSUME NEW U \in SUBSET S, NEW x \in S \ U, U \in T PROVE U \cup {x} \in T
    <3>1. \A i \in S : w[i] \in Int
      OBVIOUS
    <3>2. SumFunctionOnSet(w, U \cup {x}) = w[x] + SumFunctionOnSet(w, U)
      BY <3>1, SumAdd
    <3>3. SumFunctionOnSet(w, U) \in Nat
      BY <1>1, <2>2
    <3>4. SumFunctionOnSet(w, U \cup {x}) \in Nat
      BY <3>2, <3>3
    <3> QED BY <1>1, <3>4
  <2>3. \A U \in SUBSET S : \A x \in S \ U : U \in T => U \cup {x} \in T
    BY <2>2
  <2> QED BY <2>1, <2>3, SubsetInduction
<1>2. S \in {U \in SUBSET S : SumFunctionOnSet(w, U) \in Nat}
  BY <1>1, Zenon
<1> QED BY <1>2

(* A total over any movements of a stored forecast is exact.               *)
LEMMA TotalIsExact ==
  ASSUME NEW f \in Schedule, Validate(f, FALSE), Known(f), NEW U \in SUBSET DOMAIN f.movements
  PROVE  Total(f, U) = SumFunctionOnSet(Amounts(f), U) /\ Total(f, U) \in Nat
<1>1. IsFiniteSet(U) /\ Cardinality(U) * MaxAmount <= Most
  BY ValidCount
<1>2. \A i \in U : Amounts(f)[i] \in 0 .. MaxAmount
  BY ValidSums DEF Amounts
<1>3. \A i \in U : /\ Amounts(f)[i] \in Int /\ -MaxAmount <= Amounts(f)[i]
                   /\ Amounts(f)[i] <= MaxAmount
  BY <1>2, MostFits
<1>4. \A i \in U : Amounts(f)[i] \in Nat
  BY <1>2, MostFits
<1> DEFINE s == SumFunctionOnSet(Amounts(f), U)
           p == Cardinality(U) * MaxAmount
<1>5. p \in Nat /\ s <= p
  BY <1>1, <1>3, MostFits, SumBound
<1>6. s \in Nat
  BY <1>1, <1>4, SumNotNegative
<1>7. p <= Most
  BY <1>1
<1> HIDE DEF s, p
<1>8. s \in Word
  BY <1>5, <1>6, <1>7, MostFits DEF Word
<1>9. Total(f, U) = Wrap(s)
  BY DEF Total, s
<1> QED BY <1>6, <1>8, <1>9, WrapFits DEF s

(* What is received up to the end of the outlook.                          *)
Received ==
  SumFunctionOnSet(Amounts(schedule),
                   {i \in Due(schedule, Clamp(schedule, end)) : schedule.movements[i].kind = "receipt"})

(* The figures of an outlook belong to one another: final cash is what     *)
(* there was, was received, paid and financed, payments for growth are     *)
(* payments, and all financing that is due is counted or set aside.        *)
FiguresAgree ==
  Known(schedule) =>
    LET v == Calculate(schedule, end)
        financing == {i \in Due(schedule, Clamp(schedule, end)) :
                        schedule.movements[i].kind = "financing"}
    IN /\ v.view.cashEnd = StartCash + Received - v.payments + v.financing
       /\ 0 <= v.growth /\ v.growth <= v.payments
       /\ 0 <= v.financing /\ 0 <= v.proposed
       /\ v.financing + v.proposed = SumFunctionOnSet(Amounts(schedule), financing)

(* For forecasts of any size Validate accepts, no total wraps around and   *)
(* the figures of Calculate belong to one another.                         *)
THEOREM CashFiguresAgree == Spec => []FiguresAgree
<1>1. TypeOK => FiguresAgree
  <2> SUFFICES ASSUME TypeOK, Known(schedule) PROVE FiguresAgree
    BY DEF FiguresAgree
  <2> DEFINE f == schedule
             e == Clamp(schedule, end)
             D == DOMAIN f.movements
             a == Amounts(f)
             Of(kind) == {i \in Due(f, e) : f.movements[i].kind = kind}
             R == Of("receipt")
             P == Of("payment")
             G == {i \in P : f.movements[i].growth}
             F == Of("financing") \cap DueCounted(f, e)
             O == Of("financing") \ DueCounted(f, e)
             v == Calculate(f, end)
  <2>1. /\ f \in Schedule /\ Validate(f, FALSE) /\ IsFiniteSet(D)
        /\ \A i \in D : a[i] \in Int /\ Flow(f)[i] \in Int
        /\ StartCash \in Int
    <3>1. f \in Schedule /\ Validate(f, FALSE)
      BY DEF TypeOK
    <3>2. Summable(f) /\ \A i \in D : f.movements[i].amount \in 0 .. MaxAmount
      BY <3>1, ValidSums
    <3>3. \A i \in D : f.movements[i].amount \in Int
      BY <3>2, MostFits
    <3>4. \A i \in D : a[i] \in Int
      BY <3>3 DEF Amounts
    <3> HIDE DEF a
    <3>5. IsFiniteSet(D) /\ \A i \in D : Flow(f)[i] \in Int
      BY <3>2 DEF Summable
    <3>6. StartCash \in Int
      BY <3>2 DEF Summable, StartCash
    <3> QED BY <3>1, <3>4, <3>5, <3>6
  <2>2. /\ R \in SUBSET D /\ P \in SUBSET D /\ G \in SUBSET P /\ F \in SUBSET D /\ O \in SUBSET D
        /\ G \in SUBSET D /\ Of("financing") = F \cup O /\ F \cap O = {}
    BY DEF Due
  <2>3. /\ v.view = Outlook /\ v.payments = Total(f, P) /\ v.growth = Total(f, G)
        /\ v.financing = Total(f, F) /\ v.proposed = Total(f, O)
    BY DEF Calculate, Outlook
  <2> HIDE DEF v
  <2>4. \A U \in SUBSET D : Total(f, U) = SumFunctionOnSet(a, U) /\ Total(f, U) \in Nat
    BY <2>1, TotalIsExact
  <2>5. CountedUpTo(f, e) = R \cup (F \cup P)
    <3> SUFFICES ASSUME NEW i \in D PROVE i \in CountedUpTo(f, e) <=> i \in R \cup (F \cup P)
      BY <2>2 DEF CountedUpTo
    <3>1. f.movements[i].kind \in {"receipt", "payment", "financing"}
      BY <2>1 DEF Validate, ValidMovement
    <3> HIDE DEF e
    <3> QED BY <3>1 DEF CountedUpTo, Due, DueCounted, Counted
  <2>6. R \cap (F \cup P) = {} /\ F \cap P = {}
    OBVIOUS
  <2>7. /\ \A i \in R : Flow(f)[i] = a[i]
        /\ \A i \in F : Flow(f)[i] = a[i]
        /\ \A i \in P : Flow(f)[i] = -a[i]
    <3> HIDE DEF e
    <3> QED BY DEF Flow, Amounts, Signed, Due
  <2> HIDE DEF D, R, P, F, O, G, e, a, Of
  <2>8. IsFiniteSet(R) /\ IsFiniteSet(F) /\ IsFiniteSet(P)
    BY <2>1, <2>2, FS_Subset
  <2>9. SumFunctionOnSet(Flow(f), R) = SumFunctionOnSet(a, R)
    <3>1. \A i \in R : Flow(f)[i] = a[i] /\ a[i] \in Int
      BY <2>1, <2>2, <2>7
    <3> QED BY <3>1, <2>8, SumAgrees
  <2>10. SumFunctionOnSet(Flow(f), F) = SumFunctionOnSet(a, F)
    <3>1. \A i \in F : Flow(f)[i] = a[i] /\ a[i] \in Int
      BY <2>1, <2>2, <2>7
    <3> QED BY <3>1, <2>8, SumAgrees
  <2>11. SumFunctionOnSet(Flow(f), P) = -SumFunctionOnSet(a, P)
    <3>1. \A i \in P : Flow(f)[i] = -a[i] /\ a[i] \in Int
      BY <2>1, <2>2, <2>7
    <3> QED BY <3>1, <2>8, SumNegated
  <2>12. SumFunctionOnSet(Flow(f), CountedUpTo(f, e))
           = SumFunctionOnSet(a, R) + SumFunctionOnSet(a, F) - SumFunctionOnSet(a, P)
    <3>1. F \cup P \in SUBSET D /\ \A i \in D : Flow(f)[i] \in Int
      BY <2>1, <2>2
    <3>2. SumFunctionOnSet(Flow(f), R \cup (F \cup P))
            = SumFunctionOnSet(Flow(f), R) + SumFunctionOnSet(Flow(f), F \cup P)
      BY <2>1, <2>2, <2>6, <3>1, SumUnion
    <3>3. SumFunctionOnSet(Flow(f), F \cup P)
            = SumFunctionOnSet(Flow(f), F) + SumFunctionOnSet(Flow(f), P)
      BY <2>1, <2>2, <2>6, <3>1, SumUnion
    <3>4. /\ SumFunctionOnSet(a, R) \in Int /\ SumFunctionOnSet(a, F) \in Int
          /\ SumFunctionOnSet(a, P) \in Int
      BY <2>2, <2>4
    <3> QED BY <2>5, <2>9, <2>10, <2>11, <3>2, <3>3, <3>4
  <2>13. Outlook.cashEnd = StartCash + SumFunctionOnSet(Flow(f), CountedUpTo(f, e))
    <3>1. SoFar(f, Outlook, e)
      BY OutlookIsSoFar DEF e
    <3> QED BY <3>1 DEF SoFar, CashAt, StartCash
  <2>14. Received = SumFunctionOnSet(a, R)
    BY DEF Received, a, R, Of, e
  <2>15. v.view.cashEnd = StartCash + Received - v.payments + v.financing
    <3>1. StartCash \in Int
      BY <2>1
    <3>2. SumFunctionOnSet(a, R) \in Int /\ SumFunctionOnSet(a, F) \in Int /\ SumFunctionOnSet(a, P) \in Int
      BY <2>2, <2>4
    <3>3. v.payments = SumFunctionOnSet(a, P) /\ v.financing = SumFunctionOnSet(a, F)
      BY <2>2, <2>3, <2>4
    <3> QED BY <2>3, <2>12, <2>13, <2>14, <3>1, <3>2, <3>3
  <2>16. 0 <= v.growth /\ v.growth <= v.payments
    <3>1. P \ G \in SUBSET D /\ G \cap (P \ G) = {} /\ G \cup (P \ G) = P
      BY <2>2
    <3>2. SumFunctionOnSet(a, G \cup (P \ G)) = SumFunctionOnSet(a, G) + SumFunctionOnSet(a, P \ G)
      BY <2>1, <2>2, <3>1, SumUnion
    <3>3. SumFunctionOnSet(a, G) \in Nat /\ SumFunctionOnSet(a, P \ G) \in Nat
      BY <2>2, <2>4, <3>1
    <3>4. v.payments = SumFunctionOnSet(a, P) /\ v.growth = SumFunctionOnSet(a, G)
      BY <2>2, <2>3, <2>4
    <3> QED BY <3>1, <3>2, <3>3, <3>4
  <2>17. SumFunctionOnSet(a, F \cup O) = SumFunctionOnSet(a, F) + SumFunctionOnSet(a, O)
    BY <2>1, <2>2, SumUnion
  <2>18. /\ 0 <= v.financing /\ 0 <= v.proposed
         /\ v.financing + v.proposed = SumFunctionOnSet(a, Of("financing"))
    <3>1. v.financing = SumFunctionOnSet(a, F) /\ v.proposed = SumFunctionOnSet(a, O)
      BY <2>2, <2>3, <2>4
    <3>2. v.financing \in Nat /\ v.proposed \in Nat
      BY <2>2, <2>3, <2>4
    <3> QED BY <2>2, <2>17, <3>1, <3>2
  <2> QED BY <2>15, <2>16, <2>18 DEF FiguresAgree, v, a, Of, e
<1> QED BY <1>1, CashTypeOK, PTL
=============================================================================
