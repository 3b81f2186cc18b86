--------------------------- MODULE FiniteSums_proofs ---------------------------
(***************************************************************************)
(* What the proofs about amounts rest on: induction over the subsets of a  *)
(* finite set, and with it what MapThenSumSet returns for the amounts of a *)
(* set of rows.  The operator stands for a function that is defined by     *)
(* recursion over those subsets; there is one such function and only one.  *)
(***************************************************************************)
EXTENDS Integers, FiniteSetsExt, FiniteSetTheorems, WellFoundedInduction, TLAPS

(* The amounts of a set of rows, added up. *)
Total(rows, S) == MapThenSumSet(LAMBDA x : rows[x].amount, S)

-----------------------------------------------------------------------------
(* Induction over the subsets of a finite set, for a property given as the *)
(* set of the subsets that have it.                                        *)
LEMMA SetInduction ==
    ASSUME NEW S, IsFiniteSet(S), NEW Good,
           \A T \in SUBSET S : (\A U \in SUBSET T : U # T => U \in Good) => T \in Good
    PROVE  SUBSET S \subseteq Good
<1> DEFINE Bad == (SUBSET S) \ Good
<1> SUFFICES ASSUME Bad # {} PROVE FALSE
  OBVIOUS
<1>1. IsWellFoundedOn(StrictSubsetOrdering(S), SUBSET S)
  <2>1. FiniteSubsetsOf(S) = SUBSET S
    BY FS_FiniteSubsetsOfFinite
  <2>2. IsWellFoundedOn(StrictSubsetOrdering(S), FiniteSubsetsOf(S))
    BY FS_StrictSubsetOrderingWellFounded
  <2> QED
    BY <2>1, <2>2, Zenon
<1>2. Bad \subseteq SUBSET S
  OBVIOUS
<1> HIDE DEF Bad
<1>3. PICK T \in Bad : \A U \in Bad : ~ (<<U, T>> \in StrictSubsetOrdering(S))
  BY <1>1, <1>2, WFMin
<1>4. \A U \in SUBSET T : U # T => U \in Good
  BY <1>2, <1>3 DEF StrictSubsetOrdering, Bad
<1> QED
  BY <1>2, <1>3, <1>4 DEF Bad

(* The recursion that a sum stands for. *)
FirstOf(S) == CHOOSE x \in S : TRUE
Sums(g, rows, S) ==
    g = [s \in SUBSET S |-> IF s = {} THEN 0 ELSE rows[FirstOf(s)].amount + g[s \ {FirstOf(s)}]]

(* The operator is that recursion at the set itself. *)
LEMMA TotalIsSum == ASSUME NEW rows, NEW S PROVE Total(rows, S) = (CHOOSE g : Sums(g, rows, S))[S]
BY DEF Total, MapThenSumSet, MapThenFoldSet, Sums, FirstOf

LEMMA FirstIsMember == ASSUME NEW S, S # {} PROVE FirstOf(S) \in S
BY DEF FirstOf

(* No two functions obey it on a finite set, ... *)
LEMMA SumsUnique ==
    ASSUME NEW rows, NEW S, IsFiniteSet(S), NEW g, NEW h, Sums(g, rows, S), Sums(h, rows, S)
    PROVE  g = h
<1> DEFINE Good == {T \in SUBSET S : g[T] = h[T]}
<1>1. ASSUME NEW T \in SUBSET S, \A U \in SUBSET T : U # T => U \in Good
      PROVE  T \in Good
  <2>1. CASE T = {}
    BY <2>1 DEF Sums
  <2>2. CASE T # {}
    <3>1. T \ {FirstOf(T)} \in Good
      BY <1>1, <2>2, FirstIsMember
    <3> QED
      BY <2>2, <3>1 DEF Sums
  <2> QED
    BY <2>1, <2>2
<1>2. SUBSET S \subseteq Good
  <2> HIDE DEF Good
  <2> QED
    BY <1>1, SetInduction
<1>3. \A T \in SUBSET S : g[T] = h[T]
  BY <1>2
<1> QED
  BY <1>3 DEF Sums

(* ... a function that does, does so on every subset, ... *)
LEMMA SumsBelow ==
    ASSUME NEW rows, NEW S, NEW T \in SUBSET S, NEW g, Sums(g, rows, S)
    PROVE  Sums([s \in SUBSET T |-> g[s]], rows, T)
<1>1. \A s \in SUBSET T : s # {} => s \ {FirstOf(s)} \in SUBSET T
  OBVIOUS
<1>2. \A s \in SUBSET T : g[s] = IF s = {} THEN 0 ELSE rows[FirstOf(s)].amount + g[s \ {FirstOf(s)}]
  BY DEF Sums
<1> QED
  BY <1>1, <1>2 DEF Sums

(* ... and there is one. *)
LEMMA SumsExist ==
    ASSUME NEW rows, NEW S, IsFiniteSet(S)
    PROVE  \E g : Sums(g, rows, S)
<1> DEFINE Good == {T \in SUBSET S : \E g : Sums(g, rows, T)}
           G(T) == CHOOSE g : Sums(g, rows, T)
<1>1. ASSUME NEW T \in SUBSET S, \A U \in SUBSET T : U # T => U \in Good
      PROVE  T \in Good
  <2> DEFINE h == [s \in SUBSET T |->
                     IF s = {} THEN 0
                     ELSE rows[FirstOf(s)].amount + G(s \ {FirstOf(s)})[s \ {FirstOf(s)}]]
  <2>1. ASSUME NEW u \in SUBSET T, u # T PROVE Sums(G(u), rows, u)
    BY <1>1, <2>1
  <2> HIDE DEF G, Good
  <2>2. ASSUME NEW u \in SUBSET T, u # T, NEW v \in SUBSET u, v # T PROVE G(u)[v] = G(v)[v]
    <3>1. Sums([s \in SUBSET v |-> G(u)[s]], rows, v)
      BY <2>1, <2>2, SumsBelow
    <3>2. Sums(G(v), rows, v) /\ IsFiniteSet(v)
      BY <2>1, <2>2, FS_Subset
    <3>3. G(v) = [s \in SUBSET v |-> G(u)[s]]
      BY <3>1, <3>2, SumsUnique
    <3>4. v \in SUBSET v
      OBVIOUS
    <3> QED
      BY <3>3, <3>4
  <2>3. ASSUME NEW u \in SUBSET T, u # T PROVE G(u)[u] = h[u]
    <3>1. u \in SUBSET u
      OBVIOUS
    <3>2. G(u)[u] = IF u = {} THEN 0 ELSE rows[FirstOf(u)].amount + G(u)[u \ {FirstOf(u)}]
      BY <2>1, <2>3, <3>1 DEF Sums
    <3>3. CASE u = {}
      BY <3>2, <3>3
    <3>4. CASE u # {}
      <4>1. u \ {FirstOf(u)} \in SUBSET u /\ u \ {FirstOf(u)} # T
        BY <2>3, <3>4, FirstIsMember
      <4>2. G(u)[u \ {FirstOf(u)}] = G(u \ {FirstOf(u)})[u \ {FirstOf(u)}]
        BY <2>2, <2>3, <4>1
      <4> QED
        BY <3>2, <3>4, <4>2
    <3> QED
      BY <3>3, <3>4
  <2>4. \A s \in SUBSET T : s # {} => s \ {FirstOf(s)} \in SUBSET T /\ s \ {FirstOf(s)} # T
    BY FirstIsMember
  <2>5. \A s \in SUBSET T : s # {} => h[s \ {FirstOf(s)}] = G(s \ {FirstOf(s)})[s \ {FirstOf(s)}]
    <3> HIDE DEF h
    <3> QED
      BY <2>3, <2>4
  <2>6. Sums(h, rows, T)
    <3> DEFINE k == [s \in SUBSET T |-> IF s = {} THEN 0 ELSE rows[FirstOf(s)].amount + h[s \ {FirstOf(s)}]]
    <3>1. \A s \in SUBSET T : h[s] = k[s]
      BY <2>5
    <3>2. h = k
      BY <3>1
    <3> QED
      BY <3>2 DEF Sums
  <2> HIDE DEF h
  <2> QED
    BY <2>6 DEF Good
<1>2. SUBSET S \subseteq Good
  <2> HIDE DEF Good
  <2> QED
    BY <1>1, SetInduction
<1> QED
  BY <1>2

(* What the operator returns: nothing for no row, ... *)
LEMMA TotalEmpty == ASSUME NEW rows PROVE Total(rows, {}) = 0
<1>1. IsFiniteSet({})
  BY FS_EmptySet
<1>2. Sums(CHOOSE g : Sums(g, rows, {}), rows, {})
  BY <1>1, SumsExist
<1> QED
  BY <1>2, TotalIsSum DEF Sums

(* ... and one row more than for the rest. *)
LEMMA TotalFirst ==
    ASSUME NEW rows, NEW S, IsFiniteSet(S), S # {}
    PROVE  Total(rows, S) = rows[FirstOf(S)].amount + Total(rows, S \ {FirstOf(S)})
<1> DEFINE g == CHOOSE g : Sums(g, rows, S)
           T == S \ {FirstOf(S)}
           h == CHOOSE h : Sums(h, rows, T)
<1>1. T \in SUBSET S /\ IsFiniteSet(T)
  BY FS_Subset
<1>2. Sums(g, rows, S)
  BY SumsExist
<1>3. Sums(h, rows, T)
  BY <1>1, SumsExist
<1>4. Total(rows, S) = g[S] /\ Total(rows, T) = h[T]
  BY TotalIsSum
<1> HIDE DEF g, h
<1>5. Sums([s \in SUBSET T |-> g[s]], rows, T)
  BY <1>1, <1>2, SumsBelow
<1>6. h = [s \in SUBSET T |-> g[s]]
  BY <1>1, <1>3, <1>5, SumsUnique
<1>7. h[T] = g[T]
  BY <1>6
<1>8. g[S] = rows[FirstOf(S)].amount + g[S \ {FirstOf(S)}]
  BY <1>2 DEF Sums
<1> QED
  BY <1>4, <1>7, <1>8

(* A sum of numbers is a number. *)
LEMMA TotalNat ==
    ASSUME NEW rows, NEW S, IsFiniteSet(S), \A x \in S : rows[x].amount \in Nat
    PROVE  Total(rows, S) \in Nat
<1> DEFINE Good == {T \in SUBSET S : Total(rows, T) \in Nat}
<1>1. ASSUME NEW T \in SUBSET S, \A U \in SUBSET T : U # T => U \in Good
      PROVE  T \in Good
  <2>1. CASE T = {}
    BY <2>1, TotalEmpty
  <2>2. CASE T # {}
    <3>1. IsFiniteSet(T) /\ FirstOf(T) \in S
      BY <2>2, FS_Subset, FirstIsMember
    <3>2. T \ {FirstOf(T)} \in Good
      BY <1>1, <2>2, FirstIsMember
    <3> QED
      BY <2>2, <3>1, <3>2, TotalFirst
  <2> QED
    BY <2>1, <2>2
<1>2. SUBSET S \subseteq Good
  <2> HIDE DEF Good
  <2> QED
    BY <1>1, SetInduction
<1> QED
  BY <1>2

(* Any member may be taken out. *)
LEMMA TotalRemove ==
    ASSUME NEW rows, NEW S, IsFiniteSet(S), \A x \in S : rows[x].amount \in Nat, NEW e \in S
    PROVE  Total(rows, S) = rows[e].amount + Total(rows, S \ {e})
<1> DEFINE Good == {T \in SUBSET S : \A x \in T : Total(rows, T) = rows[x].amount + Total(rows, T \ {x})}
<1>1. ASSUME NEW T \in SUBSET S, \A U \in SUBSET T : U # T => U \in Good
      PROVE  T \in Good
  <2> SUFFICES ASSUME NEW x \in T PROVE Total(rows, T) = rows[x].amount + Total(rows, T \ {x})
    OBVIOUS
  <2> DEFINE a == FirstOf(T)
  <2>1. a \in T /\ Total(rows, T) = rows[a].amount + Total(rows, T \ {a})
    BY FirstIsMember, TotalFirst, FS_Subset
  <2> HIDE DEF a
  <2>2. CASE x = a
    BY <2>1, <2>2
  <2>3. CASE x # a
    <3>1. T \ {a} \in Good /\ T \ {x} \in Good
      BY <1>1, <2>1
    <3>2. Total(rows, T \ {a}) = rows[x].amount + Total(rows, (T \ {a}) \ {x})
      BY <2>3, <3>1
    <3>3. Total(rows, T \ {x}) = rows[a].amount + Total(rows, (T \ {x}) \ {a})
      BY <2>1, <2>3, <3>1
    <3>4. (T \ {a}) \ {x} = (T \ {x}) \ {a}
      OBVIOUS
    <3>5. Total(rows, (T \ {x}) \ {a}) \in Nat /\ rows[a].amount \in Nat /\ rows[x].amount \in Nat
      <4>1. (T \ {x}) \ {a} \in SUBSET S /\ IsFiniteSet((T \ {x}) \ {a})
        BY FS_Subset
      <4> QED
        BY <2>1, <4>1, TotalNat
    <3>6. \A n, m, k \in Nat : n + (m + k) = m + (n + k)
      OBVIOUS
    <3> DEFINE r == Total(rows, (T \ {x}) \ {a})
    <3>7. rows[a].amount + (rows[x].amount + r) = rows[x].amount + (rows[a].amount + r)
      BY <3>5, <3>6, Zenon
    <3>8. Total(rows, T) = rows[a].amount + (rows[x].amount + r)
      BY <2>1, <3>2, <3>4, Zenon
    <3>9. Total(rows, T \ {x}) = rows[a].amount + r
      BY <3>3
    <3> QED
      BY <3>7, <3>8, <3>9, Zenon
  <2> QED
    BY <2>2, <2>3
<1>2. SUBSET S \subseteq Good
  <2> HIDE DEF Good
  <2> QED
    BY <1>1, SetInduction
<1> QED
  BY <1>2

(* A row may be added. *)
LEMMA TotalAdd ==
    ASSUME NEW rows, NEW S, IsFiniteSet(S), NEW e, e \notin S,
           \A x \in S \cup {e} : rows[x].amount \in Nat
    PROVE  Total(rows, S \cup {e}) = Total(rows, S) + rows[e].amount
<1>1. IsFiniteSet(S \cup {e}) /\ (S \cup {e}) \ {e} = S
  BY FS_AddElement
<1>2. Total(rows, S \cup {e}) = rows[e].amount + Total(rows, (S \cup {e}) \ {e})
  BY <1>1, TotalRemove
<1>3. Total(rows, S) \in Nat
  BY TotalNat
<1>4. rows[e].amount \in Nat /\ \A n, m \in Nat : n + m = m + n
  OBVIOUS
<1> QED
  BY <1>1, <1>2, <1>3, <1>4, Zenon

(* Two sets that share nothing. *)
LEMMA TotalUnion ==
    ASSUME NEW rows, NEW A, NEW B, IsFiniteSet(A), IsFiniteSet(B), A \cap B = {},
           \A x \in A \cup B : rows[x].amount \in Nat
    PROVE  Total(rows, A \cup B) = Total(rows, A) + Total(rows, B)
<1> DEFINE Good == {T \in SUBSET B : Total(rows, A \cup T) = Total(rows, A) + Total(rows, T)}
<1>1. ASSUME NEW T \in SUBSET B, \A U \in SUBSET T : U # T => U \in Good
      PROVE  T \in Good
  <2>1. CASE T = {}
    <3>1. A \cup T = A
      BY <2>1
    <3> QED
      BY <2>1, <3>1, TotalEmpty, TotalNat
  <2>2. CASE T # {}
    <3> DEFINE a == FirstOf(T)
               U == T \ {a}
    <3>1. a \in T /\ U \in Good
      BY <1>1, <2>2, FirstIsMember
    <3>2. IsFiniteSet(U) /\ IsFiniteSet(A \cup U)
      <4>1. U \in SUBSET B
        OBVIOUS
      <4> HIDE DEF U
      <4> QED
        BY <4>1, FS_Subset, FS_Union
    <3>3. a \notin A \cup U /\ A \cup T = (A \cup U) \cup {a} /\ T = U \cup {a}
      BY <3>1
    <3>4. Total(rows, A \cup U) = Total(rows, A) + Total(rows, U)
      BY <3>1
    <3>5. (\A x \in (A \cup U) \cup {a} : rows[x].amount \in Nat) /\ U \subseteq B /\ a \in B
      BY <3>1
    <3> HIDE DEF a, U, Good
    <3>6. Total(rows, (A \cup U) \cup {a}) = Total(rows, A \cup U) + rows[a].amount
      BY <3>2, <3>3, <3>5, TotalAdd
    <3>7. Total(rows, U \cup {a}) = Total(rows, U) + rows[a].amount
      BY <3>2, <3>3, <3>5, TotalAdd
    <3>8. Total(rows, A) \in Nat /\ Total(rows, U) \in Nat /\ rows[a].amount \in Nat
      BY <3>2, <3>5, TotalNat
    <3>9. \A n, m, k \in Nat : (n + m) + k = n + (m + k)
      OBVIOUS
    <3>10. Total(rows, A \cup T) = (Total(rows, A) + Total(rows, U)) + rows[a].amount
      BY <3>3, <3>4, <3>6, Zenon
    <3>11. Total(rows, T) = Total(rows, U) + rows[a].amount
      BY <3>3, <3>7, Zenon
    <3>12. (Total(rows, A) + Total(rows, U)) + rows[a].amount
              = Total(rows, A) + (Total(rows, U) + rows[a].amount)
      BY <3>8, <3>9, Zenon
    <3>13. Total(rows, A \cup T) = Total(rows, A) + Total(rows, T)
      BY <3>10, <3>11, <3>12, Zenon
    <3> QED
      BY <3>13 DEF Good
  <2> QED
    BY <2>1, <2>2
<1>2. SUBSET B \subseteq Good
  <2> HIDE DEF Good
  <2> QED
    BY <1>1, SetInduction
<1> QED
  BY <1>2

(* Only the amounts of the set count. *)
LEMMA TotalSame ==
    ASSUME NEW f, NEW h, NEW S, IsFiniteSet(S), \A x \in S : f[x].amount = h[x].amount
    PROVE  Total(f, S) = Total(h, S)
<1> DEFINE Good == {T \in SUBSET S : Total(f, T) = Total(h, T)}
<1>1. ASSUME NEW T \in SUBSET S, \A U \in SUBSET T : U # T => U \in Good
      PROVE  T \in Good
  <2>1. CASE T = {}
    BY <2>1, TotalEmpty
  <2>2. CASE T # {}
    <3>1. IsFiniteSet(T) /\ FirstOf(T) \in S
      BY <2>2, FS_Subset, FirstIsMember
    <3>2. T \ {FirstOf(T)} \in Good
      BY <1>1, <2>2, FirstIsMember
    <3> QED
      BY <2>2, <3>1, <3>2, TotalFirst
  <2> QED
    BY <2>1, <2>2
<1>2. SUBSET S \subseteq Good
  <2> HIDE DEF Good
  <2> QED
    BY <1>1, SetInduction
<1> QED
  BY <1>2

(* What a function takes on a finite set has a greatest value.             *)
LEMMA GreatestValue ==
    ASSUME NEW S, IsFiniteSet(S), NEW f, \A x \in S : f[x] \in Nat
    PROVE  \E n \in {f[x] : x \in S} \cup {0} : \A m \in {f[x] : x \in S} : m <= n
<1> DEFINE Good == {T \in SUBSET S : \E n \in {f[x] : x \in T} \cup {0} : \A x \in T : f[x] <= n}
<1>1. ASSUME NEW T \in SUBSET S, \A U \in SUBSET T : U # T => U \in Good
      PROVE  T \in Good
  <2>1. CASE T = {}
    BY <2>1
  <2>2. CASE T # {}
    <3> DEFINE a == FirstOf(T)
    <3>1. a \in T /\ T \ {a} \in Good
      BY <1>1, <2>2, FirstIsMember
    <3> HIDE DEF a
    <3>2. PICK n \in {f[x] : x \in T \ {a}} \cup {0} : \A x \in T \ {a} : f[x] <= n
      BY <3>1
    <3>3. n \in Nat /\ f[a] \in Nat /\ \A x \in T : f[x] \in Nat
      BY <3>1, <3>2
    <3>4. CASE f[a] <= n
      BY <3>2, <3>4
    <3>5. CASE n <= f[a]
      BY <3>1, <3>2, <3>3, <3>5
    <3> QED
      BY <3>3, <3>4, <3>5
  <2> QED
    BY <2>1, <2>2
<1>2. SUBSET S \subseteq Good
  <2> HIDE DEF Good
  <2> QED
    BY <1>1, SetInduction
<1>3. S \in Good
  BY <1>2
<1> QED
  BY <1>3
=============================================================================
