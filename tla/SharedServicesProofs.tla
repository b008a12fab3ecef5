------------------------ MODULE SharedServicesProofs ------------------------
(***************************************************************************)
(* Proofs about the parts of SharedServices.  They share no state, so each *)
(* part has an inductive invariant of its own, which the steps of the      *)
(* others leave alone (the lemmas named ...Moves).                         *)
(*                                                                         *)
(* Two of the parts add up amounts.  What a sum over a finite set does is  *)
(* proved first.  A statement about every finite set is proved by way of a *)
(* smallest set that refutes it: its size is the least of a set of numbers *)
(* (NatMin), and the set without one element does not refute it.           *)
(*                                                                         *)
(* The budget in the database: usage is recorded before it is compared, so *)
(* of the tokens on record each caller that may still be allowed accounts  *)
(* for its own, and those that its reads can let through are below the     *)
(* limit together with what was granted.  The budget in memory: at the     *)
(* start of a window at most one allocation lies within the last window's  *)
(* time before it, which with what the window counts makes two.            *)
(***************************************************************************)
EXTENDS SharedServices, FiniteSetTheorems, SequenceTheorems, WellFoundedInduction, TLAPS

-----------------------------------------------------------------------------
(* Finite sums. *)

(* A set of numbers that is not empty has a least one: with it, a smallest counterexample *)
(* takes the place of an induction.                                                       *)
LEMMA NatMin ==
  ASSUME NEW T \in SUBSET Nat, T # {}
  PROVE  \E m \in T : \A k \in T : m <= k
<1>1. PICK R : R = OpToRel(<, Nat)
  OBVIOUS
<1>2. IsWellFoundedOn(R, Nat)
  BY <1>1, NatLessThanWellFounded
<1>3. PICK m \in T : \A y \in T : ~ (<<y, m>> \in R)
  BY <1>2, WFMin
<1>4. \A x, y \in T : y < x => <<y, x>> \in R
  BY <1>1 DEF OpToRel
<1>5. \A k \in T : ~(k < m)
  BY <1>3, <1>4
<1> QED BY <1>5

(* Sums of the values of a function over a finite set. *)
SumStep(f, s, g) == IF s = {} THEN 0 ELSE f[CHOOSE x \in s : TRUE] + g[s \ {CHOOSE x \in s : TRUE}]
SumTable(f, S, g) == [s \in SUBSET S |-> SumStep(f, s, g)]

LEMMA SumOfTable ==
  ASSUME NEW f, NEW S
  PROVE  SumFunctionOnSet(f, S) = (CHOOSE g : g = SumTable(f, S, g))[S]
BY DEF SumFunctionOnSet, FoldFunctionOnSet, MapThenFoldSet, SumTable, SumStep

LEMMA TableExists ==
  ASSUME NEW f, NEW S, IsFiniteSet(S)
  PROVE  \E g : g = SumTable(f, S, g)
<1> DEFINE Good(g, n) == \A s \in SUBSET S : Cardinality(s) <= n => g[s] = SumStep(f, s, g)
           Bad == {n \in Nat : ~ \E g : g = [s \in SUBSET S |-> g[s]] /\ Good(g, n)}
<1>0. \A s \in SUBSET S : IsFiniteSet(s) /\ Cardinality(s) \in Nat
  BY FS_Subset, FS_CardinalityType
<1>1. 0 \notin Bad
  <2>1. PICK g : g = [s \in SUBSET S |-> 0]
    OBVIOUS
  <2>2. \A s \in SUBSET S : Cardinality(s) <= 0 => s = {}
    BY <1>0, FS_EmptySet
  <2>3. Good(g, 0)
    BY <2>1, <2>2 DEF SumStep
  <2> QED BY <2>1, <2>3
<1>2. ASSUME NEW n \in Nat, n \notin Bad PROVE n + 1 \notin Bad
  <2>1. PICK g : g = [s \in SUBSET S |-> g[s]] /\ Good(g, n)
    BY <1>2
  <2>2. PICK h : h = [s \in SUBSET S |-> SumStep(f, s, g)]
    OBVIOUS
  <2>3. \A s \in SUBSET S : Cardinality(s) <= n => h[s] = g[s]
    BY <2>1, <2>2
  <2>4. ASSUME NEW s \in SUBSET S, Cardinality(s) <= n + 1 PROVE h[s] = SumStep(f, s, h)
    <3>1. CASE s = {}
      BY <2>2, <3>1 DEF SumStep
    <3>2. CASE s # {}
      <4>1. PICK x : x = CHOOSE y \in s : TRUE
        OBVIOUS
      <4>2. x \in s
        BY <3>2, <4>1
      <4>3. Cardinality(s \ {x}) = Cardinality(s) - 1
        BY <1>0, <4>2, FS_RemoveElement
      <4>4. h[s \ {x}] = g[s \ {x}]
        BY <1>0, <2>3, <2>4, <4>3
      <4> QED BY <2>2, <3>2, <4>1, <4>4 DEF SumStep
    <3> QED BY <3>1, <3>2
  <2>5. h = [s \in SUBSET S |-> h[s]] /\ Good(h, n + 1)
    BY <2>2, <2>4
  <2> QED BY <2>5
<1>3. Bad = {}
  <2> SUFFICES ASSUME Bad # {} PROVE FALSE
    OBVIOUS
  <2>1. PICK B : B = Bad
    OBVIOUS
  <2>2. B \in SUBSET Nat /\ B # {}
    BY <2>1
  <2>3. PICK m \in B : \A k \in B : m <= k
    BY <2>2, NatMin
  <2>4. m \in Nat /\ m # 0
    BY <1>1, <2>1, <2>2
  <2>5. m - 1 \in Nat /\ m - 1 \notin B
    BY <2>2, <2>3, <2>4
  <2>6. (m - 1) + 1 \notin B
    BY <1>2, <2>1, <2>5
  <2> QED BY <2>4, <2>6
<1>4. PICK g : g = [s \in SUBSET S |-> g[s]] /\ Good(g, Cardinality(S))
  BY <1>0, <1>3
<1>5. \A s \in SUBSET S : Cardinality(s) <= Cardinality(S)
  BY FS_Subset
<1>6. g = SumTable(f, S, g)
  BY <1>4, <1>5 DEF SumTable
<1> QED BY <1>6

(* The table of a set that contains T gives the sums of T's subsets as T's own table does. *)
LEMMA TablesAgree ==
  ASSUME NEW f, NEW S, IsFiniteSet(S), NEW T \in SUBSET S,
         NEW g, g = SumTable(f, S, g), NEW h, h = SumTable(f, T, h)
  PROVE  \A s \in SUBSET T : g[s] = h[s]
<1>1. PICK B : B = {Cardinality(s) : s \in {u \in SUBSET T : g[u] # h[u]}}
  OBVIOUS
<1>2. \A s \in SUBSET T : IsFiniteSet(s) /\ Cardinality(s) \in Nat
  BY FS_Subset, FS_CardinalityType
<1>3. \A s \in SUBSET T : g[s] = SumStep(f, s, g) /\ h[s] = SumStep(f, s, h)
  BY DEF SumTable
<1>4. CASE B # {}
  <2>1. B \in SUBSET Nat
    BY <1>1, <1>2
  <2>2. PICK m \in B : \A k \in B : m <= k
    BY <1>4, <2>1, NatMin
  <2>3. PICK s \in SUBSET T : Cardinality(s) = m /\ g[s] # h[s]
    BY <1>1
  <2>4. s # {}
    BY <1>3, <2>3 DEF SumStep
  <2>5. PICK x : x = CHOOSE y \in s : TRUE
    OBVIOUS
  <2>6. x \in s
    BY <2>4, <2>5
  <2>7. Cardinality(s \ {x}) = m - 1
    BY <1>2, <2>3, <2>6, FS_RemoveElement
  <2>8. g[s \ {x}] = h[s \ {x}]
    <3>1. m - 1 \notin B
      BY <2>1, <2>2
    <3> QED BY <1>1, <2>3, <2>7, <3>1
  <2>9. g[s] = f[x] + g[s \ {x}] /\ h[s] = f[x] + h[s \ {x}]
    BY <1>3, <2>4, <2>5 DEF SumStep
  <2> QED BY <2>3, <2>8, <2>9
<1>5. CASE B = {}
  BY <1>1, <1>5
<1> QED BY <1>4, <1>5

(* What the definition says of a sum: one element, whichever CHOOSE picks, is added to the  *)
(* sum of the rest.                                                                        *)
LEMMA SumOfOne ==
  ASSUME NEW f, NEW S, IsFiniteSet(S)
  PROVE  SumFunctionOnSet(f, S) = IF S = {} THEN 0
                       ELSE f[CHOOSE x \in S : TRUE] + SumFunctionOnSet(f, S \ {CHOOSE x \in S : TRUE})
<1>1. PICK g : g = SumTable(f, S, g) /\ SumFunctionOnSet(f, S) = g[S]
  <2>1. \E g : g = SumTable(f, S, g)
    BY TableExists
  <2> QED BY <2>1, SumOfTable
<1>2. SumFunctionOnSet(f, S) = SumStep(f, S, g)
  BY <1>1 DEF SumTable
<1>3. CASE S = {}
  BY <1>2, <1>3 DEF SumStep
<1>4. CASE S # {}
  <2>1. PICK x : x = CHOOSE y \in S : TRUE
    OBVIOUS
  <2>2. PICK T : T = S \ {x}
    OBVIOUS
  <2>3. T \in SUBSET S /\ IsFiniteSet(T)
    BY <2>2, FS_Subset
  <2>4. PICK h : h = SumTable(f, T, h) /\ SumFunctionOnSet(f, T) = h[T]
    <3>1. \E h : h = SumTable(f, T, h)
      BY <2>3, TableExists
    <3> QED BY <3>1, SumOfTable
  <2>5. g[T] = h[T]
    <3>1. g = SumTable(f, S, g) /\ h = SumTable(f, T, h)
      BY <1>1, <2>4
    <3>2. \A s \in SUBSET T : g[s] = h[s]
      BY <2>3, <3>1, TablesAgree
    <3> QED BY <3>2
  <2>6. SumFunctionOnSet(f, S) = f[x] + g[T]
    BY <1>2, <1>4, <2>1, <2>2 DEF SumStep
  <2> QED BY <1>4, <2>1, <2>2, <2>4, <2>5, <2>6
<1> QED BY <1>3, <1>4

(* A sum of naturals is one, and its elements may be added in any order. *)
LEMMA SumAnyOrder ==
  ASSUME NEW S, IsFiniteSet(S), NEW f, \A x \in S : f[x] \in Nat
  PROVE  \A s \in SUBSET S :
           /\ SumFunctionOnSet(f, s) \in Nat
           /\ \A x \in s : SumFunctionOnSet(f, s) = f[x] + SumFunctionOnSet(f, s \ {x})
<1> DEFINE Fine(s) == /\ SumFunctionOnSet(f, s) \in Nat
                     /\ \A x \in s : SumFunctionOnSet(f, s) = f[x] + SumFunctionOnSet(f, s \ {x})
<1>1. PICK B : B = {Cardinality(s) : s \in {u \in SUBSET S : ~Fine(u)}}
  OBVIOUS
<1>2. \A s \in SUBSET S : IsFiniteSet(s) /\ Cardinality(s) \in Nat
  BY FS_Subset, FS_CardinalityType
<1>3. CASE B # {}
  <2>1. B \in SUBSET Nat
    BY <1>1, <1>2
  <2>2. PICK m \in B : \A k \in B : m <= k
    BY <1>3, <2>1, NatMin
  <2>3. PICK s \in SUBSET S : Cardinality(s) = m /\ ~Fine(s)
    BY <1>1
  <2>4. \A x \in s : Fine(s \ {x})
    <3> SUFFICES ASSUME NEW x \in s PROVE Fine(s \ {x})
      OBVIOUS
    <3>1. Cardinality(s \ {x}) = m - 1
      BY <1>2, <2>3, FS_RemoveElement
    <3>2. m - 1 \notin B
      BY <2>1, <2>2
    <3> QED BY <1>1, <2>3, <3>1, <3>2
  <2>5. s # {}
    <3>1. s = {} => SumFunctionOnSet(f, s) = 0
      BY FS_EmptySet, SumOfOne
    <3> QED BY <2>3, <3>1
  <2>6. PICK x : x = CHOOSE y \in s : TRUE
    OBVIOUS
  <2>7. x \in s /\ SumFunctionOnSet(f, s) = f[x] + SumFunctionOnSet(f, s \ {x})
    BY <1>2, <2>5, <2>6, SumOfOne
  <2>8. SumFunctionOnSet(f, s) \in Nat
    BY <2>4, <2>7
  <2>9. ASSUME NEW y \in s PROVE SumFunctionOnSet(f, s) = f[y] + SumFunctionOnSet(f, s \ {y})
    <3>1. CASE y = x
      BY <2>7, <3>1
    <3>2. CASE y # x
      <4>1. PICK u : u = s \ {x}
        OBVIOUS
      <4>2. PICK v : v = s \ {y}
        OBVIOUS
      <4>3. PICK w : w = u \ {y}
        OBVIOUS
      <4>4. w = v \ {x}
        BY <4>1, <4>2, <4>3
      <4>5. SumFunctionOnSet(f, u) = f[y] + SumFunctionOnSet(f, w)
        BY <2>4, <2>7, <3>2, <4>1, <4>3
      <4>6. SumFunctionOnSet(f, v) = f[x] + SumFunctionOnSet(f, w)
        BY <2>4, <2>7, <3>2, <4>2, <4>4
      <4>7. Cardinality(u) = m - 1 /\ IsFiniteSet(u) /\ y \in u
        BY <1>2, <2>3, <2>7, <3>2, <4>1, FS_RemoveElement
      <4>8. Cardinality(w) = m - 1 - 1
        BY <4>3, <4>7, FS_RemoveElement
      <4>9. m - 1 - 1 \notin B
        BY <2>1, <2>2
      <4>10. SumFunctionOnSet(f, w) \in Nat
        BY <1>1, <2>3, <4>1, <4>3, <4>8, <4>9
      <4>11. f[x] \in Nat /\ f[y] \in Nat
        BY <2>7
      <4> QED BY <2>7, <4>1, <4>2, <4>5, <4>6, <4>10, <4>11
    <3> QED BY <3>1, <3>2
  <2> QED BY <2>3, <2>8, <2>9
<1>4. CASE B = {}
  BY <1>1, <1>4
<1> QED BY <1>3, <1>4

LEMMA SumEmpty ==
  ASSUME NEW f
  PROVE  SumFunctionOnSet(f, {}) = 0
BY FS_EmptySet, SumOfOne

(* Sums depend on the values over the set only, and grow with them. *)
LEMMA SumGrows ==
  ASSUME NEW S, IsFiniteSet(S), NEW f, NEW g, \A x \in S : f[x] \in Nat /\ g[x] \in Nat,
         \A x \in S : f[x] <= g[x]
  PROVE  SumFunctionOnSet(f, S) <= SumFunctionOnSet(g, S)
<1> DEFINE Fine(s) == SumFunctionOnSet(f, s) \in Nat /\ SumFunctionOnSet(g, s) \in Nat /\ SumFunctionOnSet(f, s) <= SumFunctionOnSet(g, s)
<1>1. PICK B : B = {Cardinality(s) : s \in {u \in SUBSET S : ~Fine(u)}}
  OBVIOUS
<1>2. \A s \in SUBSET S : IsFiniteSet(s) /\ Cardinality(s) \in Nat
  BY FS_Subset, FS_CardinalityType
<1>3. CASE B # {}
  <2>1. B \in SUBSET Nat
    BY <1>1, <1>2
  <2>2. PICK m \in B : \A k \in B : m <= k
    BY <1>3, <2>1, NatMin
  <2>3. PICK s \in SUBSET S : Cardinality(s) = m /\ ~Fine(s)
    BY <1>1
  <2>4. s # {}
    BY <2>3, SumEmpty
  <2>5. PICK x : x = CHOOSE y \in s : TRUE
    OBVIOUS
  <2>6. /\ x \in s
        /\ SumFunctionOnSet(f, s) = f[x] + SumFunctionOnSet(f, s \ {x})
        /\ SumFunctionOnSet(g, s) = g[x] + SumFunctionOnSet(g, s \ {x})
    BY SMT, ZenonT(40), <1>2, <2>4, <2>5, SumOfOne
  <2>7. Fine(s \ {x})
    <3>1. Cardinality(s \ {x}) = m - 1
      BY <1>2, <2>3, <2>6, FS_RemoveElement
    <3>2. m - 1 \notin B
      BY <2>1, <2>2
    <3> QED BY <1>1, <2>3, <3>1, <3>2
  <2>8. f[x] \in Nat /\ g[x] \in Nat /\ f[x] <= g[x]
    BY <2>6
  <2> QED BY <2>3, <2>6, <2>7, <2>8
<1>4. CASE B = {}
  BY <1>1, <1>4
<1> QED BY <1>3, <1>4

LEMMA SumZero ==
  ASSUME NEW S, IsFiniteSet(S), NEW f, \A x \in S : f[x] = 0
  PROVE  SumFunctionOnSet(f, S) = 0
<1>1. PICK B : B = {Cardinality(s) : s \in {u \in SUBSET S : SumFunctionOnSet(f, u) # 0}}
  OBVIOUS
<1>2. \A s \in SUBSET S : IsFiniteSet(s) /\ Cardinality(s) \in Nat
  BY FS_Subset, FS_CardinalityType
<1>3. CASE B # {}
  <2>1. B \in SUBSET Nat
    BY <1>1, <1>2
  <2>2. PICK m \in B : \A k \in B : m <= k
    BY <1>3, <2>1, NatMin
  <2>3. PICK s \in SUBSET S : Cardinality(s) = m /\ SumFunctionOnSet(f, s) # 0
    BY <1>1
  <2>4. s # {}
    BY <2>3, SumEmpty
  <2>5. PICK x : x = CHOOSE y \in s : TRUE
    OBVIOUS
  <2>6. x \in s /\ SumFunctionOnSet(f, s) = f[x] + SumFunctionOnSet(f, s \ {x})
    BY <1>2, <2>4, <2>5, SumOfOne
  <2>7. Cardinality(s \ {x}) = m - 1
    BY <1>2, <2>3, <2>6, FS_RemoveElement
  <2>8. m - 1 \notin B
    BY <2>1, <2>2
  <2>9. SumFunctionOnSet(f, s \ {x}) = 0
    BY <1>1, <2>3, <2>7, <2>8
  <2> QED BY <2>3, <2>6, <2>9
<1>4. CASE B = {}
  BY <1>1, <1>4
<1> QED BY <1>3, <1>4

LEMMA SumSame ==
  ASSUME NEW S, IsFiniteSet(S), NEW f, NEW g, \A x \in S : f[x] \in Nat /\ g[x] = f[x]
  PROVE  SumFunctionOnSet(g, S) = SumFunctionOnSet(f, S)
<1>1. SumFunctionOnSet(f, S) \in Nat /\ SumFunctionOnSet(g, S) \in Nat
  BY SumAnyOrder
<1>2. SumFunctionOnSet(f, S) <= SumFunctionOnSet(g, S)
  BY SumGrows
<1>3. SumFunctionOnSet(g, S) <= SumFunctionOnSet(f, S)
  BY SumGrows
<1> QED BY <1>1, <1>2, <1>3

(* A change of one value changes the sum by as much. *)
LEMMA SumChange ==
  ASSUME NEW S, IsFiniteSet(S), NEW f, NEW g, \A y \in S : f[y] \in Nat /\ g[y] \in Nat,
         NEW x \in S, \A y \in S : y # x => g[y] = f[y]
  PROVE  /\ SumFunctionOnSet(f, S) \in Nat /\ SumFunctionOnSet(g, S) \in Nat
         /\ SumFunctionOnSet(g, S) = SumFunctionOnSet(f, S) - f[x] + g[x]
<1>1. PICK T : T = S \ {x}
  OBVIOUS
<1>2. IsFiniteSet(T) /\ T \in SUBSET S
  BY <1>1, FS_Subset
<1>3. SumFunctionOnSet(g, T) = SumFunctionOnSet(f, T)
  <2>1. \A y \in T : f[y] \in Nat /\ g[y] = f[y]
    BY <1>1
  <2> QED BY <1>2, <2>1, SumSame
<1>4. SumFunctionOnSet(f, S) \in Nat /\ SumFunctionOnSet(f, T) \in Nat /\ SumFunctionOnSet(f, S) = f[x] + SumFunctionOnSet(f, T)
  BY <1>1, <1>2, SumAnyOrder
<1>5. SumFunctionOnSet(g, S) \in Nat /\ SumFunctionOnSet(g, S) = g[x] + SumFunctionOnSet(g, T)
  BY <1>1, <1>2, SumAnyOrder
<1>6. f[x] \in Nat /\ g[x] \in Nat
  OBVIOUS
<1> QED BY <1>3, <1>4, <1>5, <1>6

(* The sum over a part is no more than the sum over the whole, and the rest makes it up. *)
LEMMA SumSplit ==
  ASSUME NEW S, IsFiniteSet(S), NEW f, \A x \in S : f[x] \in Nat, NEW T \in SUBSET S
  PROVE  /\ SumFunctionOnSet(f, S) \in Nat /\ SumFunctionOnSet(f, T) \in Nat
         /\ SumFunctionOnSet(f, S \ T) \in Nat
         /\ SumFunctionOnSet(f, S) = SumFunctionOnSet(f, T) + SumFunctionOnSet(f, S \ T)
<1> DEFINE Fine(s) == SumFunctionOnSet(f, S) = SumFunctionOnSet(f, s) + SumFunctionOnSet(f, S \ s)
<1>1. PICK B : B = {Cardinality(s) : s \in {u \in SUBSET S : ~Fine(u)}}
  OBVIOUS
<1>2. \A s \in SUBSET S : IsFiniteSet(s) /\ Cardinality(s) \in Nat /\ SumFunctionOnSet(f, s) \in Nat
  BY FS_Subset, FS_CardinalityType, SumAnyOrder
<1>3. CASE B # {}
  <2>1. B \in SUBSET Nat
    BY <1>1, <1>2
  <2>2. PICK m \in B : \A k \in B : m <= k
    BY <1>3, <2>1, NatMin
  <2>3. PICK s \in SUBSET S : Cardinality(s) = m /\ ~Fine(s)
    BY <1>1
  <2>4. s # {}
    <3>1. SumFunctionOnSet(f, {}) = 0 /\ S \ {} = S /\ SumFunctionOnSet(f, S) \in Nat
      BY <1>2, SumEmpty
    <3> QED BY <2>3, <3>1
  <2>5. PICK x : x \in s
    BY <2>4
  <2>6. PICK u : u = s \ {x}
    OBVIOUS
  <2>7. u \in SUBSET S /\ Cardinality(u) = m - 1
    BY <1>2, <2>3, <2>5, <2>6, FS_RemoveElement
  <2>8. m - 1 \notin B
    BY <2>1, <2>2
  <2>9. SumFunctionOnSet(f, S) = SumFunctionOnSet(f, u) + SumFunctionOnSet(f, S \ u)
    BY <1>1, <2>7, <2>8
  <2>10. SumFunctionOnSet(f, s) = f[x] + SumFunctionOnSet(f, u)
    BY <2>5, <2>6, SumAnyOrder
  <2>11. SumFunctionOnSet(f, S \ u) = f[x] + SumFunctionOnSet(f, S \ s)
    <3>1. (S \ u) \in SUBSET S /\ x \in S \ u /\ (S \ u) \ {x} = S \ s
      BY <2>5, <2>6
    <3> QED BY <3>1, SumAnyOrder
  <2>12. /\ SumFunctionOnSet(f, u) \in Nat /\ SumFunctionOnSet(f, S \ s) \in Nat /\ f[x] \in Nat
    <3>1. (S \ s) \in SUBSET S
      OBVIOUS
    <3> QED BY <1>2, <2>5, <2>7, <3>1
  <2> QED BY <2>3, <2>9, <2>10, <2>11, <2>12
<1>4. CASE B = {}
  <2>1. Fine(T)
    BY <1>1, <1>4
  <2>2. (S \ T) \in SUBSET S /\ S \in SUBSET S
    OBVIOUS
  <2> QED BY <1>2, <2>1, <2>2
<1> QED BY <1>3, <1>4

LEMMA SumOfPart ==
  ASSUME NEW S, IsFiniteSet(S), NEW f, \A x \in S : f[x] \in Nat, NEW T \in SUBSET S
  PROVE  /\ SumFunctionOnSet(f, S) \in Nat /\ SumFunctionOnSet(f, T) \in Nat
         /\ SumFunctionOnSet(f, T) <= SumFunctionOnSet(f, S)
<1>1. /\ SumFunctionOnSet(f, S) \in Nat /\ SumFunctionOnSet(f, T) \in Nat
      /\ SumFunctionOnSet(f, S \ T) \in Nat
      /\ SumFunctionOnSet(f, S) = SumFunctionOnSet(f, T) + SumFunctionOnSet(f, S \ T)
  BY SumSplit
<1> QED BY <1>1

(* Ones add up to the number of elements. *)
LEMMA SumOfOnes ==
  ASSUME NEW S, IsFiniteSet(S), NEW f, \A x \in S : f[x] = 1
  PROVE  SumFunctionOnSet(f, S) = Cardinality(S)
<1>1. PICK B : B = {Cardinality(s) : s \in {u \in SUBSET S : SumFunctionOnSet(f, u) # Cardinality(u)}}
  OBVIOUS
<1>2. \A s \in SUBSET S : IsFiniteSet(s) /\ Cardinality(s) \in Nat
  BY FS_Subset, FS_CardinalityType
<1>3. CASE B # {}
  <2>1. B \in SUBSET Nat
    BY <1>1, <1>2
  <2>2. PICK m \in B : \A k \in B : m <= k
    BY <1>3, <2>1, NatMin
  <2>3. PICK s \in SUBSET S : Cardinality(s) = m /\ SumFunctionOnSet(f, s) # Cardinality(s)
    BY <1>1
  <2>4. s # {}
    BY <2>3, SumEmpty, FS_EmptySet
  <2>5. PICK x : x = CHOOSE y \in s : TRUE
    OBVIOUS
  <2>6. x \in s /\ SumFunctionOnSet(f, s) = f[x] + SumFunctionOnSet(f, s \ {x})
    BY <1>2, <2>4, <2>5, SumOfOne
  <2>7. Cardinality(s \ {x}) = m - 1
    BY <1>2, <2>3, <2>6, FS_RemoveElement
  <2>8. m - 1 \notin B
    BY <2>1, <2>2
  <2>9. SumFunctionOnSet(f, s \ {x}) = m - 1
    BY <1>1, <2>3, <2>7, <2>8
  <2>10. m \in Nat
    BY <2>1
  <2> QED BY <2>3, <2>6, <2>9, <2>10
<1>4. CASE B = {}
  BY <1>1, <1>4
<1> QED BY <1>3, <1>4

(* A sum without one of its elements. *)
LEMMA SumWithout ==
  ASSUME NEW S, IsFiniteSet(S), NEW f, \A y \in S : f[y] \in Nat, NEW x \in S
  PROVE  SumFunctionOnSet(f, S) = f[x] + SumFunctionOnSet(f, S \ {x})
<1>1. S \in SUBSET S
  OBVIOUS
<1> QED BY <1>1, SumAnyOrder

(* Sums over places that are shifted by d. *)
LEMMA SumShifted ==
  ASSUME NEW I \in SUBSET Nat, IsFiniteSet(I), NEW d \in Nat, NEW f, NEW g,
         \A i \in I : f[i] \in Nat /\ g[i + d] = f[i]
  PROVE  /\ SumFunctionOnSet(f, I) \in Nat
         /\ SumFunctionOnSet(g, {i + d : i \in I}) = SumFunctionOnSet(f, I)
<1>1. PICK Bad \in SUBSET Nat :
        Bad = {n \in Nat : \E K \in SUBSET I : /\ Cardinality(K) = n
                                              /\ SumFunctionOnSet(g, {i + d : i \in K}) # SumFunctionOnSet(f, K)}
  OBVIOUS
<1>2. \A K \in SUBSET I : IsFiniteSet(K) /\ Cardinality(K) \in Nat
  BY FS_Subset, FS_CardinalityType
<1>3. ASSUME NEW K \in SUBSET I PROVE IsFiniteSet({i + d : i \in K})
  <2>1. PICK F : F = {i + d : i \in K}
    OBVIOUS
  <2>2. PICK s : s = [i \in K |-> i + d]
    OBVIOUS
  <2>3. s \in Surjection(K, F)
    BY <2>1, <2>2 DEF Surjection
  <2>4. IsFiniteSet(F)
    BY <1>2, <2>3, FS_Surjection
  <2> QED BY <2>1, <2>4
<1>4. ASSUME Bad # {} PROVE FALSE
  <2>1. PICK n \in Bad : \A k \in Bad : n <= k
    BY <1>4, NatMin
  <2>2. PICK K \in SUBSET I : /\ Cardinality(K) = n
                              /\ SumFunctionOnSet(g, {i + d : i \in K}) # SumFunctionOnSet(f, K)
    BY <1>1, <2>1
  <2>3. PICK J : J = {i + d : i \in K}
    OBVIOUS
  <2>4. IsFiniteSet(K) /\ IsFiniteSet(J)
    BY <1>2, <1>3, <2>3
  <2>5. K # {}
    <3>1. K = {} => J = {}
      BY <2>3
    <3>2. SumFunctionOnSet(g, {}) = 0 /\ SumFunctionOnSet(f, {}) = 0
      BY SumEmpty
    <3> QED BY <2>2, <2>3, <3>1, <3>2
  <2>6. PICK x \in K : TRUE
    BY <2>5
  <2>7. PICK L \in SUBSET I : L = K \ {x}
    OBVIOUS
  <2>8. x \in Nat /\ x + d \in J /\ J \ {x + d} = {i + d : i \in L}
    <3>1. \A i \in K : i \in Nat /\ (i + d = x + d <=> i = x)
      BY <2>6
    <3> QED BY <2>3, <2>6, <2>7, <3>1
  <2>9. SumFunctionOnSet(f, K) = f[x] + SumFunctionOnSet(f, L)
    <3>1. \A i \in K : f[i] \in Nat
      OBVIOUS
    <3>2. K \in SUBSET K
      OBVIOUS
    <3>3. SumFunctionOnSet(f, K) = f[x] + SumFunctionOnSet(f, K \ {x})
      BY <2>4, <2>6, <3>1, SumWithout
    <3> QED BY <2>7, <3>3
  <2>10. SumFunctionOnSet(g, J) = g[x + d] + SumFunctionOnSet(g, J \ {x + d})
    <3>1. \A j \in J : g[j] \in Nat
      BY <2>3
    <3>2. J \in SUBSET J
      OBVIOUS
    <3> QED BY <2>4, <2>8, <3>1, <3>2, SumAnyOrder
  <2>11. SumFunctionOnSet(g, {i + d : i \in L}) = SumFunctionOnSet(f, L)
    <3>1. Cardinality(L) = n - 1
      BY <2>2, <2>4, <2>6, <2>7, FS_RemoveElement
    <3>2. n \in Nat /\ Cardinality(L) \in Nat
      BY <1>2, <2>2
    <3>3. ~(n <= n - 1)
      BY <3>2
    <3> QED BY <1>1, <2>1, <3>1, <3>2, <3>3
  <2>12. SumFunctionOnSet(g, J) = SumFunctionOnSet(f, K)
    BY <2>6, <2>8, <2>9, <2>10, <2>11
  <2> QED BY <2>2, <2>3, <2>12
<1>5. SumFunctionOnSet(g, {i + d : i \in I}) = SumFunctionOnSet(f, I)
  <2>1. I \in SUBSET I
    OBVIOUS
  <2> QED BY <1>1, <1>2, <1>4, <2>1
<1>6. SumFunctionOnSet(f, I) \in Nat
  <2>1. I \in SUBSET I /\ \A i \in I : f[i] \in Nat
    OBVIOUS
  <2> QED BY <2>1, SumAnyOrder
<1> QED BY <1>5, <1>6

-----------------------------------------------------------------------------
(* Whatever part moves, each part takes a step of its own or none. *)
LEMMA GateMoves == [Next]_vars => GateNext \/ UNCHANGED gateVars
  BY DEF Next, vars, others, parts

LEMMA SecretMoves == [Next]_vars => SecretNext \/ UNCHANGED secretVars
  BY DEF Next, vars, others, stores

LEMMA AuditMoves == [Next]_vars => AuditNext \/ UNCHANGED auditVars
  BY DEF Next, vars, others, stores

LEMMA ObsMoves == [Next]_vars => ObsNext \/ UNCHANGED obsVars
  BY DEF Next, vars, others, stores

LEMMA StreamMoves == [Next]_vars => LlmStreamNext \/ UNCHANGED streamVars
  BY DEF Next, vars, others, parts

LEMMA SloMoves == [Next]_vars => SloNext \/ UNCHANGED sloVars
  BY DEF Next, vars, others, parts

LEMMA BudgetMoves == [Next]_vars => BudgetNext \/ UNCHANGED budgetVars
  BY DEF Next, vars, others, stores

LEMMA MeterMoves == [Next]_vars => MeterNext \/ UNCHANGED meterVars
  BY DEF Next, vars, others, parts

LEMMA ListingMoves == [Next]_vars => ListingNext \/ UNCHANGED listingVars
  BY DEF Next, vars, others, parts

-----------------------------------------------------------------------------
(* The approval gate. *)

(* An approval that is the decision arrived; a decision received is a human's; the wait   *)
(* is over with a decision only, and the gate opens for an approval only; and until a     *)
(* signal comes late, what was recorded and persisted is the decision.                    *)
GateInv ==
    /\ GateTypeOK
    /\ decision.decision = "approve" => decision.approver \in approvals
    /\ decisionReceived => decision \in HumanDecisions
    /\ gatePc \in Deciding \cup {"approved", "rejected"} => decision # NoDecision
    /\ gatePc = "approved" => decision.decision = "approve"
    /\ ~lateSignal =>
         /\ gatePc \in Deciding \cup {"approved", "rejected"} => recorded = decision
         /\ gatePc \in {"persist", "approved", "rejected"} => persisted = decision

LEMMA GateStarts == GateInit => GateInv
<1> SUFFICES ASSUME GateInit PROVE GateInv
  OBVIOUS
<1>1. GateTypeOK
  <2>1. signals \in 0 .. MaxSignals
    BY SignalsAssumption DEF GateInit
  <2>2. NoDecision \in Decisions
    BY DEF Decisions
  <2> QED BY <2>1, <2>2 DEF GateInit, GateTypeOK, GateOpen
<1>2. decision.decision # "approve"
  BY DEF GateInit, NoDecision
<1> QED BY <1>1, <1>2 DEF GateInit, GateInv, Deciding

(* Each action of the gate preserves the invariant. *)
LEMMA GateStepKeeps == GateInv /\ GateNext => GateInv'
<1> SUFFICES ASSUME GateInv, GateNext PROVE GateInv'
  OBVIOUS
<1> USE DEF GateInv, GateTypeOK, GateOpen, GateClosed, Deciding, Decisions, NoDecision,
            TimeoutDecision, gateHistory
<1>1. ASSUME NEW d \in HumanDecisions, ApprovalSignal(d) PROVE GateInv'
  <2>1. /\ d.approver \in Approvers
        /\ d.decision \in {"approve", "reject"}
    BY DEF HumanDecisions
  <2>2. d # NoDecision
    BY <2>1
  <2>3. signals' \in 0 .. MaxSignals
    BY <1>1, SignalsAssumption DEF ApprovalSignal
  <2> QED BY <1>1, <2>1, <2>2, <2>3 DEF ApprovalSignal
<1>2. CASE Announce
  BY <1>2 DEF Announce
<1>3. CASE PersistRequest
  BY <1>3 DEF PersistRequest
<1>4. CASE WaitOver
  <2>1. decision # NoDecision
    BY <1>4 DEF WaitOver, HumanDecisions
  <2> QED BY <1>4, <2>1 DEF WaitOver
<1>5. CASE WaitTimeout
  BY <1>5 DEF WaitTimeout
<1>6. CASE RecordDone
  BY <1>6 DEF RecordDone
<1>7. CASE Verdict
  <2>1. decision.decision # "reject" => decision.decision = "approve"
    BY <1>7 DEF Verdict, HumanDecisions
  <2> QED BY <1>7, <2>1 DEF Verdict
<1>8. CASE ExecutionTimeout
  BY <1>8 DEF ExecutionTimeout
<1> QED BY <1>1, <1>2, <1>3, <1>4, <1>5, <1>6, <1>7, <1>8 DEF GateNext, GateStep

LEMMA GateInvSuffices == GateInv => GateTruthful
  BY DEF GateInv, GateTruthful, ApprovedByHuman, RecordsAgree

(* A gate that opens was approved by a human whose signal arrived, however many signals come  *)
(* and however late; and what was recorded and persisted is the decision the gate returns as  *)
(* long as no signal arrives after it was made (executeWithApproval).                          *)
THEOREM GateIsTruthful == Spec => []GateTruthful
<1>1. Init => GateInv
  BY GateStarts DEF Init
<1>2. GateInv /\ [Next]_vars => GateInv'
  <2>1. GateInv /\ UNCHANGED gateVars => GateInv'
    BY DEF GateInv, GateTypeOK, gateVars, gateHistory
  <2> QED BY <2>1, GateMoves, GateStepKeeps
<1> QED BY <1>1, <1>2, GateInvSuffices, PTL DEF Spec

-----------------------------------------------------------------------------
(* The secret store. *)

(* Once settled, the payload stays new and no upgrade is under way. *)
SecretInv ==
  /\ SecretTypeOK
  /\ settled =>
       /\ ~secret.legacy
       /\ \A q \in Requests : task[q].pc # "upgrade"
       /\ secret.ver = newest

LEMMA SecretStarts == SecretInit => SecretInv
<1> SUFFICES ASSUME SecretInit PROVE SecretInv
  OBVIOUS
<1>1. /\ secret \in [ver : 0 .. MaxVersion, legacy : BOOLEAN]
      /\ secret.ver = 0 => ~secret.legacy
  <2>1. CASE secret = [ver |-> 0, legacy |-> FALSE]
    BY <2>1, SecretAssumption
  <2>2. CASE secret = [ver |-> 1, legacy |-> TRUE]
    BY <2>2, SecretAssumption
  <2> QED BY <2>1, <2>2 DEF SecretInit
<1>2. NoTask \in [pc : {"idle", "upsert", "upgrade"}, ver : 0 .. MaxVersion]
  BY SecretAssumption DEF NoTask
<1>3. SecretTypeOK
  BY <1>1, <1>2 DEF SecretInit, SecretTypeOK
<1>4. settled => ~secret.legacy
  BY <1>1 DEF SecretInit
<1>5. \A q \in Requests : task[q].pc # "upgrade"
  BY DEF SecretInit, NoTask
<1> QED BY <1>3, <1>4, <1>5 DEF SecretInit, SecretInv

LEMMA SecretStepKeeps == SecretInv /\ SecretNext => SecretInv'
<1> SUFFICES ASSUME SecretInv, SecretNext PROVE SecretInv'
  OBVIOUS
<1> USE DEF SecretInv, SecretTypeOK
<1>0. NoTask \in [pc : {"idle", "upsert", "upgrade"}, ver : 0 .. MaxVersion]
  BY SecretAssumption DEF NoTask
<1>1. ASSUME NEW q \in Requests, NEW v \in 1 .. MaxVersion, CreateSecret(q, v)
      PROVE SecretInv'
  <2>1. task' \in [Requests -> [pc : {"idle", "upsert", "upgrade"}, ver : 0 .. MaxVersion]]
    BY <1>1, SecretAssumption DEF CreateSecret
  <2>2. \A u \in Requests : task'[u].pc = "upgrade" => task[u].pc = "upgrade"
    BY <1>1 DEF CreateSecret
  <2> QED BY <1>1, <2>1, <2>2 DEF CreateSecret
<1>2. ASSUME NEW q \in Requests, Upsert(q) PROVE SecretInv'
  <2>1. task[q].ver \in 0 .. MaxVersion
    OBVIOUS
  <2>2. secret'.ver = task[q].ver /\ secret'.legacy = FALSE
    BY <1>2 DEF Upsert, Row
  <2>3. secret' \in [ver : 0 .. MaxVersion, legacy : BOOLEAN]
    BY <1>2, <2>1 DEF Upsert, Row
  <2>4. task' \in [Requests -> [pc : {"idle", "upsert", "upgrade"}, ver : 0 .. MaxVersion]]
    BY <1>2, <1>0 DEF Upsert
  <2>5. newest' = task[q].ver
    BY <1>2, <2>2 DEF Upsert, Settle
  <2>6. settled' \in BOOLEAN
    BY <1>2 DEF Upsert, Settle
  <2>7. settled' => \A u \in Requests : task'[u].pc # "upgrade"
    <3>1. CASE settled
      BY <1>2, <3>1 DEF Upsert, NoTask
    <3>2. CASE ~settled
      BY <1>2, <3>2 DEF Upsert, Settle
    <3> QED BY <3>1, <3>2
  <2> QED BY <2>1, <2>2, <2>3, <2>4, <2>5, <2>6, <2>7
<1>3. ASSUME NEW q \in Requests, GetSecret(q) PROVE SecretInv'
  <2>1. ~settled
    BY <1>3 DEF GetSecret, IsLegacyPayload
  <2>2. task' \in [Requests -> [pc : {"idle", "upsert", "upgrade"}, ver : 0 .. MaxVersion]]
    BY <1>3 DEF GetSecret
  <2> QED BY <1>3, <2>1, <2>2 DEF GetSecret
<1>4. ASSUME NEW q \in Requests, NEW done \in BOOLEAN, Upgrade(q, done) PROVE SecretInv'
  <2>1. ~settled
    BY <1>4 DEF Upgrade
  <2>2. secret' \in [ver : 0 .. MaxVersion, legacy : BOOLEAN]
    BY <1>4 DEF Upgrade, Row
  <2>3. task' \in [Requests -> [pc : {"idle", "upsert", "upgrade"}, ver : 0 .. MaxVersion]]
    BY <1>4, <1>0 DEF Upgrade
  <2>4. settled' = (~secret'.legacy /\ \A u \in Requests : task'[u].pc # "upgrade")
    BY <1>4, <2>1 DEF Upgrade, Settle
  <2>5. newest' = IF settled' THEN secret'.ver ELSE newest
    BY <1>4, <2>1 DEF Upgrade, Settle
  <2>6. secret'.ver \in 0 .. MaxVersion
    BY <2>2
  <2> QED BY <2>2, <2>3, <2>4, <2>5, <2>6
<1> QED BY <1>1, <1>2, <1>3, <1>4 DEF SecretNext

(* Once a payload of the new format is stored and no upgrade is under way, no read takes back  *)
(* a write, for any number of requests at a time and of versions (GetSecret, CreateSecret).    *)
THEOREM NoWriteIsLost == Spec => []NoWriteLostOnceUpgraded
<1>1. Init => SecretInv
  BY SecretStarts DEF Init
<1>2. SecretInv /\ [Next]_vars => SecretInv'
  <2>1. SecretInv /\ UNCHANGED secretVars => SecretInv'
    BY DEF SecretInv, SecretTypeOK, secretVars
  <2> QED BY <2>1, SecretMoves, SecretStepKeeps
<1>3. SecretInv => NoWriteLostOnceUpgraded
  BY DEF SecretInv, NoWriteLostOnceUpgraded
<1> QED BY <1>1, <1>2, <1>3, PTL DEF Spec

-----------------------------------------------------------------------------
(* The audit trail. *)

(* Every entry in memory builds on the one before it, the last one carries lastHash, and   *)
(* the first builds on the zero hash while there is room.                                  *)
Chained ==
  /\ chain \in Seq([entry : Entries, prev : 0 .. MaxEntries])
  /\ \A i \in 2 .. Len(chain) : chain[i].prev = chain[i - 1].entry
  /\ last = IF chain = <<>> THEN 0 ELSE chain[Len(chain)].entry
  /\ chain # <<>> /\ Len(chain) < ChainCap => chain[1].prev = 0

(* What became of the write of an entry, against its row. *)
Written ==
  /\ \A e \in Entries : table[e] <= 1
  /\ \A e \in Entries : writes[e].st = "trying" => writes[e].tries <= MaxRetries
  /\ \A e \in Entries : writes[e].st = "done" => table[e] = 1
  /\ \A e \in Entries : writes[e].st = "failed" => writes[e].tries = MaxRetries + 1
  /\ \A e \in 1 .. created : writes[e].st # "none"

AuditInv == AuditTypeOK /\ Chained /\ Written

LEMMA AuditStarts == AuditInit => AuditInv
<1> SUFFICES ASSUME AuditInit PROVE AuditInv
  OBVIOUS
<1>1. NoWrite \in [st : {"none", "trying", "done", "failed", "cut"}, tries : 0 .. MaxRetries + 1]
  BY AuditAssumption DEF NoWrite
<1>2. AuditTypeOK
  BY <1>1, AuditAssumption DEF AuditInit, AuditTypeOK
<1>3. Chained
  BY DEF AuditInit, Chained
<1>4. Written
  BY DEF AuditInit, Written, NoWrite
<1> QED BY <1>2, <1>3, <1>4 DEF AuditInv

(* Dropping entries from the front keeps the last ChainCap of them. *)
LEMMA CappedLast ==
  ASSUME NEW S, NEW c \in Seq(S), Len(c) <= ChainCap + 1
  PROVE  /\ Capped(c) \in Seq(S)
         /\ Len(c) <= ChainCap => Capped(c) = c
         /\ Len(c) = ChainCap + 1 =>
              /\ Len(Capped(c)) = ChainCap
              /\ \A i \in 1 .. ChainCap : Capped(c)[i] = c[i + 1]
<1>1. CASE Len(c) <= ChainCap
  BY <1>1, AuditAssumption DEF Capped
<1>2. CASE Len(c) = ChainCap + 1
  <2>1. Capped(c) = SubSeq(c, 2, ChainCap + 1)
    BY <1>2, AuditAssumption DEF Capped
  <2> QED BY <1>2, <2>1, AuditAssumption, SubSeqProperties
<1> QED BY <1>1, <1>2, AuditAssumption

LEMMA AuditStepKeeps == AuditInv /\ AuditNext => AuditInv'
<1> SUFFICES ASSUME AuditInv, AuditNext PROVE AuditInv'
  OBVIOUS
<1> USE AuditAssumption DEF AuditInv, Entries
<1>1. CASE CreateAuditEntry
  <2> DEFINE new == [entry |-> created + 1, prev |-> last]
  <2>1. created + 1 \in Entries /\ created' = created + 1 /\ last' = created + 1
    BY <1>1 DEF CreateAuditEntry, AuditTypeOK
  <2>2. PICK long : long = Append(chain, new)
    OBVIOUS
  <2>3. new \in [entry : Entries, prev : 0 .. MaxEntries]
    BY <2>1 DEF AuditTypeOK
  <2>4. /\ long \in Seq([entry : Entries, prev : 0 .. MaxEntries])
        /\ Len(long) = Len(chain) + 1
        /\ \A i \in 1 .. Len(chain) : long[i] = chain[i]
        /\ long[Len(chain) + 1] = new
    BY <2>2, <2>3 DEF Chained
  <2>5. Len(chain) \in Nat /\ Len(chain) <= ChainCap
    BY DEF AuditTypeOK, Chained
  <2>6. /\ Capped(long) \in Seq([entry : Entries, prev : 0 .. MaxEntries])
        /\ Len(long) <= ChainCap => Capped(long) = long
        /\ Len(long) = ChainCap + 1 =>
              /\ Len(Capped(long)) = ChainCap
              /\ \A i \in 1 .. ChainCap : Capped(long)[i] = long[i + 1]
    <3>1. Len(long) <= ChainCap + 1
      BY <2>4, <2>5
    <3> QED BY <2>4, <3>1, CappedLast
  <2>7. chain' = Capped(long)
    BY <1>1, <2>2 DEF CreateAuditEntry
  <2>8. \A i \in 2 .. Len(long) : long[i].prev = long[i - 1].entry
    <3> SUFFICES ASSUME NEW i \in 2 .. Len(long) PROVE long[i].prev = long[i - 1].entry
      OBVIOUS
    <3>1. CASE i <= Len(chain)
      <4>1. i \in 2 .. Len(chain) /\ i \in 1 .. Len(chain) /\ i - 1 \in 1 .. Len(chain)
        BY <2>5, <3>1
      <4> QED BY <2>4, <4>1 DEF Chained
    <3>2. CASE i = Len(chain) + 1
      <4>1. chain # <<>> /\ last = chain[Len(chain)].entry
        BY <2>5, <3>2 DEF Chained
      <4> QED BY SMTT(20), <2>4, <2>5, <3>2, <4>1
    <3> QED BY <2>4, <2>5, <3>1, <3>2
  <2>9. Chained'
    <3>1. CASE Len(long) <= ChainCap
      <4>1. chain' = long
        BY <2>6, <2>7, <3>1
      <4>2. long # <<>> /\ long[Len(long)].entry = created + 1
        BY <2>4, <2>5
      <4>3. Len(long) < ChainCap => long[1].prev = 0
        <5>1. CASE chain = <<>>
          BY <2>4, <5>1 DEF Chained
        <5>2. CASE chain # <<>>
          <6>1. 1 \in 1 .. Len(chain) /\ chain[1] = long[1]
            BY <2>4, <2>5, <5>2 DEF Chained
          <6> QED BY <2>4, <2>5, <5>2, <6>1 DEF Chained
        <5> QED BY <5>1, <5>2
      <4> QED BY <2>1, <2>4, <2>8, <4>1, <4>2, <4>3 DEF Chained
    <3>2. CASE Len(long) = ChainCap + 1
      <4>1. /\ Len(chain') = ChainCap
            /\ \A i \in 1 .. ChainCap : chain'[i] = long[i + 1]
            /\ chain' \in Seq([entry : Entries, prev : 0 .. MaxEntries])
        BY <2>6, <2>7, <3>2
      <4>2. \A i \in 2 .. ChainCap : chain'[i].prev = chain'[i - 1].entry
        <5> SUFFICES ASSUME NEW i \in 2 .. ChainCap PROVE chain'[i].prev = chain'[i - 1].entry
          OBVIOUS
        <5>1. /\ i \in 1 .. ChainCap /\ i - 1 \in 1 .. ChainCap
              /\ i + 1 \in 2 .. Len(long) /\ (i + 1) - 1 = i /\ (i - 1) + 1 = i
          BY <3>2
        <5>2. chain'[i] = long[i + 1] /\ chain'[i - 1] = long[i]
          BY <4>1, <5>1
        <5> QED BY <2>8, <5>1, <5>2
      <4>3. chain' # <<>> /\ chain'[Len(chain')].entry = created + 1
        <5>1. chain'[ChainCap] = long[Len(chain) + 1] /\ ChainCap = Len(chain')
          BY <2>4, <2>5, <3>2, <4>1
        <5> QED BY <2>4, <4>1, <5>1
      <4> QED BY <2>1, <4>1, <4>2, <4>3 DEF Chained
    <3> QED BY <2>4, <2>5, <3>1, <3>2
  <2>10. AuditTypeOK'
    <3>1. Len(chain') <= ChainCap
      BY SMTT(20), <2>4, <2>5, <2>6, <2>7
    <3>2. writes' \in [Entries -> [st : {"none", "trying", "done", "failed", "cut"}, tries : 0 .. MaxRetries + 1]]
      BY <1>1 DEF CreateAuditEntry, AuditTypeOK
    <3> QED BY <1>1, <2>1, <3>1, <3>2 DEF CreateAuditEntry, AuditTypeOK
  <2>11. Written'
    <3>1. /\ \A e \in Entries : e # created + 1 => writes'[e] = writes[e]
          /\ writes'[created + 1] = [st |-> "trying", tries |-> 0]
          /\ table' = table
      BY <1>1, <2>1 DEF CreateAuditEntry, AuditTypeOK
    <3>2. \A e \in 1 .. created' : e # created + 1 => e \in 1 .. created /\ e \in Entries
      BY <2>1 DEF AuditTypeOK
    <3>3. \A e \in Entries :
            /\ writes'[e].st = "trying" => writes'[e].tries <= MaxRetries
            /\ writes'[e].st = "done" => table'[e] = 1
            /\ writes'[e].st = "failed" => writes'[e].tries = MaxRetries + 1
      BY <3>1 DEF Written
    <3>4. \A e \in 1 .. created' : writes'[e].st # "none"
      BY <3>1, <3>2 DEF Written
    <3> QED BY <3>1, <3>3, <3>4 DEF Written
  <2> QED BY <2>9, <2>10, <2>11
<1>2. CASE AuditRestart
  <2>1. writes' \in [Entries -> [st : {"none", "trying", "done", "failed", "cut"}, tries : 0 .. MaxRetries + 1]]
    <3>1. \A e \in Entries : [writes[e] EXCEPT !.st = "cut"]
            \in [st : {"none", "trying", "done", "failed", "cut"}, tries : 0 .. MaxRetries + 1]
      BY DEF AuditTypeOK
    <3> QED BY <1>2, <3>1 DEF AuditRestart, AuditTypeOK
  <2>2. AuditTypeOK'
    BY <1>2, <2>1 DEF AuditRestart, AuditTypeOK
  <2>3. Chained'
    BY <1>2 DEF AuditRestart, Chained
  <2>4. \A e \in Entries : \/ writes'[e] = writes[e]
                           \/ writes[e].st = "trying" /\ writes'[e].st = "cut"
    BY <1>2 DEF AuditRestart, AuditTypeOK
  <2>5. Written'
    <3>1. table' = table /\ created' = created /\ \A e \in 1 .. created : e \in Entries
      BY <1>2 DEF AuditRestart, AuditTypeOK
    <3> QED BY <2>4, <3>1 DEF Written
  <2> QED BY <2>2, <2>3, <2>5
<1>3. ASSUME NEW e \in Entries, NEW o \in {"ok", "refused", "lost"}, Persist(e, o)
      PROVE AuditInv'
  <2>1. PICK w : w = [st |-> IF o = "ok" THEN "done"
                             ELSE IF writes[e].tries = MaxRetries THEN "failed" ELSE "trying",
                      tries |-> writes[e].tries + 1]
    OBVIOUS
  <2>2. writes' = [writes EXCEPT ![e] = w]
    BY <1>3, <2>1 DEF Persist
  <2>3. writes[e].st = "trying" /\ writes[e].tries \in 0 .. MaxRetries
    BY <1>3 DEF Persist, Written, AuditTypeOK
  <2>4. w \in [st : {"none", "trying", "done", "failed", "cut"}, tries : 0 .. MaxRetries + 1]
    BY <2>1, <2>3
  <2>5. writes' \in [Entries -> [st : {"none", "trying", "done", "failed", "cut"}, tries : 0 .. MaxRetries + 1]]
    BY <2>2, <2>4 DEF AuditTypeOK
  <2>6. /\ table' \in [Entries -> Nat]
        /\ \A d \in Entries : d # e => table'[d] = table[d]
        /\ table'[e] <= 1
        /\ o = "ok" => table'[e] = 1
    BY <1>3 DEF Persist, Insert, AuditTypeOK, Written
  <2>7. AuditTypeOK'
    BY <1>3, <2>5, <2>6 DEF Persist, AuditTypeOK
  <2>8. Chained'
    BY <1>3 DEF Persist, Chained
  <2>9. /\ \A d \in Entries : d # e => writes'[d] = writes[d]
        /\ writes'[e] = w
    BY <2>2 DEF AuditTypeOK
  <2>10. /\ w.st = "trying" => w.tries <= MaxRetries
         /\ w.st = "done" => o = "ok"
         /\ w.st = "failed" => w.tries = MaxRetries + 1
         /\ w.st # "none"
    BY <2>1, <2>3
  <2>11. created' = created /\ \A d \in 1 .. created : d \in Entries
    BY <1>3 DEF Persist, AuditTypeOK
  <2>12. Written'
    BY <2>6, <2>9, <2>10, <2>11 DEF Written
  <2> QED BY <2>7, <2>8, <2>12
<1> QED BY <1>1, <1>2, <1>3 DEF AuditNext

LEMMA AuditInvSuffices == AuditInv => TrailIntact
<1> SUFFICES ASSUME AuditInv PROVE TrailIntact
  OBVIOUS
<1>1. ASSUME NEW e \in 1 .. created, table[e] = 0
      PROVE writes[e].st \in {"trying", "cut"} \/ writes[e].tries = MaxRetries + 1
  <2>1. e \in Entries
    BY AuditAssumption DEF AuditInv, AuditTypeOK, Entries
  <2>2. writes[e].st \in {"none", "trying", "done", "failed", "cut"}
    BY <2>1 DEF AuditInv, AuditTypeOK
  <2> QED BY <1>1, <2>1, <2>2 DEF AuditInv, Written
<1>2. ASSUME Len(chain) < ChainCap PROVE VerifyAuditChain(chain)
  BY <1>2 DEF AuditInv, Chained, VerifyAuditChain
<1> QED BY <1>1, <1>2 DEF TrailIntact, AuditInv, Written

(* Every entry is written once at most and given up only after all its attempts, and the chain *)
(* in memory verifies as long as none was dropped, for every capacity of the chain, number of  *)
(* attempts and of entries, through lost answers and restarts (createAuditEntry).              *)
THEOREM TrailStaysIntact == Spec => []TrailIntact
<1>1. Init => AuditInv
  BY AuditStarts DEF Init
<1>2. AuditInv /\ [Next]_vars => AuditInv'
  <2>1. AuditInv /\ UNCHANGED auditVars => AuditInv'
    BY DEF AuditInv, AuditTypeOK, Chained, Written, auditVars
  <2> QED BY <2>1, AuditMoves, AuditStepKeeps
<1> QED BY <1>1, <1>2, AuditInvSuffices, PTL DEF Spec

-----------------------------------------------------------------------------
(* The budget in the database. *)

(* What a caller carries, and how it stands to the limits. *)
CallType == [pc : {"idle", "merge", "upsert", "daily", "monthly"}, n : Nat, day : 0 .. MaxDay,
             limits : [Periods -> Limits \cup {DefaultLimit}], daily : Nat, kept : BOOLEAN]
Recording == {"upsert", "daily", "monthly"}

UnderCeiling ==
  /\ call \in [Callers -> CallType]
  /\ ceiling \in [Periods -> Nat]
  /\ \A p \in Periods : RowToBudget(budget)[p] <= ceiling[p]
  /\ \A c \in Callers : call[c].pc \in Recording =>
       call[c].day \in Days /\ \A p \in Periods : call[c].limits[p] <= ceiling[p]
  /\ \A c \in Callers : call[c].kept => call[c].pc \in {"daily", "monthly"}

(* Tokens of a day that are recorded and not yet answered for; and those among them whose  *)
(* caller has read no more than l.                                                         *)
Pending(d) == [c \in Callers |-> IF call[c].kept /\ call[c].day = d THEN call[c].n ELSE 0]
ReadUpTo(c, l) == call[c].pc = "monthly" /\ call[c].daily <= l
Grantable(d, l) ==
  [c \in Callers |-> IF call[c].kept /\ call[c].day = d /\ ReadUpTo(c, l) THEN call[c].n ELSE 0]

(* The usage of a day covers what was granted and what is pending; and whatever the limit, *)
(* from the ceiling upwards, all who have read no more than it could be granted together.   *)
Recorded == \A d \in Days : granted[d] + SumFunctionOnSet(Pending(d), Callers) <= usage[d]
Covered ==
  \A d \in Days, l \in Nat : l >= ceiling["daily"] =>
     granted[d] + SumFunctionOnSet(Grantable(d, l), Callers) <= l

BudgetInv ==
  /\ BudgetTypeOK /\ UnderCeiling /\ Recorded /\ Covered
  /\ Total(granted) <= ceiling["monthly"]

LEMMA CallerSums ==
  ASSUME call \in [Callers -> CallType]
  PROVE  \A d \in Days, l \in Nat :
           /\ \A c \in Callers : /\ Pending(d)[c] \in Nat /\ Grantable(d, l)[c] \in Nat
                                 /\ Grantable(d, l)[c] <= Pending(d)[c]
           /\ SumFunctionOnSet(Pending(d), Callers) \in Nat
           /\ SumFunctionOnSet(Grantable(d, l), Callers) \in Nat
<1> SUFFICES ASSUME NEW d \in Days, NEW l \in Nat
             PROVE  /\ \A c \in Callers : /\ Pending(d)[c] \in Nat /\ Grantable(d, l)[c] \in Nat
                                          /\ Grantable(d, l)[c] <= Pending(d)[c]
                    /\ SumFunctionOnSet(Pending(d), Callers) \in Nat
                    /\ SumFunctionOnSet(Grantable(d, l), Callers) \in Nat
  OBVIOUS
<1>1. \A c \in Callers : call[c].n \in Nat
  BY DEF CallType
<1>2. \A c \in Callers : /\ Pending(d)[c] \in Nat /\ Grantable(d, l)[c] \in Nat
                         /\ Grantable(d, l)[c] <= Pending(d)[c]
  BY <1>1 DEF Pending, Grantable
<1> QED BY <1>2, SumAnyOrder, BudgetAssumption

(* A step that leaves the recorded requests alone leaves the sums alone. *)
LEMMA SameSums ==
  ASSUME call' \in [Callers -> CallType],
         \A c \in Callers :
           /\ call'[c].kept = call[c].kept
           /\ call[c].kept => /\ call'[c].day = call[c].day /\ call'[c].n = call[c].n
                              /\ call'[c].pc = call[c].pc /\ call'[c].daily = call[c].daily
  PROVE  \A d \in Days, l \in Nat : Pending(d)' = Pending(d) /\ Grantable(d, l)' = Grantable(d, l)
BY DEF Pending, Grantable, ReadUpTo

LEMMA GrantedSums ==
  ASSUME BudgetTypeOK
  PROVE  Total(granted) \in Nat /\ Total(usage) \in Nat
<1>1. IsFiniteSet(Days)
  BY FS_Interval, BudgetAssumption DEF Days
<1>2. \A d \in Days : granted[d] \in Nat /\ usage[d] \in Nat
  BY DEF BudgetTypeOK
<1> QED BY <1>1, <1>2, SumAnyOrder DEF Total

LEMMA BudgetStarts == BudgetInit => BudgetInv
<1> SUFFICES ASSUME BudgetInit PROVE BudgetInv
  OBVIOUS
<1> USE BudgetAssumption DEF BudgetInit
<1>1. /\ DefaultBudget \in [Periods -> Limits \cup {DefaultLimit}]
      /\ DefaultBudget \in [Periods -> Nat]
      /\ RowToBudget(DefaultBudget) = DefaultBudget
  BY DEF DefaultBudget, RowToBudget
<1>2. 1 \in Days
  BY DEF Days
<1>3. NoCall \in CallType
  BY <1>1 DEF NoCall, CallType
<1>4. NoCall.pc = "idle" /\ NoCall.kept = FALSE
  BY DEF NoCall
<1>5. BudgetTypeOK
  BY <1>1, <1>2, <1>4 DEF BudgetTypeOK
<1>6. UnderCeiling
  BY <1>1, <1>3, <1>4 DEF UnderCeiling, Recording
<1>7. \A d \in Days, l \in Nat :
         /\ SumFunctionOnSet(Pending(d), Callers) = 0
         /\ SumFunctionOnSet(Grantable(d, l), Callers) = 0
  BY <1>4, SumZero DEF Pending, Grantable
<1>8. Recorded /\ Covered
  BY <1>7 DEF Recorded, Covered
<1>9. Total(granted) = 0
  BY FS_Interval, SumZero DEF Total, Days
<1>10. ceiling["monthly"] \in Nat
  BY <1>1 DEF Periods
<1> QED BY <1>5, <1>6, <1>8, <1>9, <1>10 DEF BudgetInv

(* Changing one caller. *)
LEMMA OneCaller ==
  ASSUME BudgetInv, NEW c \in Callers, NEW r \in CallType, call' = [call EXCEPT ![c] = r]
  PROVE  /\ call' \in [Callers -> CallType]
         /\ call'[c] = r
         /\ \A b \in Callers : b # c => call'[b] = call[b]
         /\ \A b \in Callers : call'[b].pc \in {"idle", "merge", "upsert", "daily", "monthly"}
<1>1. call' \in [Callers -> CallType]
  BY DEF BudgetInv, UnderCeiling
<1> QED BY <1>1 DEF BudgetInv, UnderCeiling, CallType

(* A step that changes a caller with nothing recorded, and perhaps the limits. *)
LEMMA QuietCaller ==
  ASSUME BudgetInv, NEW c \in Callers, NEW r \in CallType, call' = [call EXCEPT ![c] = r],
         ~call[c].kept, ~r.kept, UNCHANGED <<usage, day, granted>>,
         budget' \in [Periods -> Limits \cup {DefaultLimit}], ceiling' \in [Periods -> Nat],
         \A p \in Periods : RowToBudget(budget')[p] <= ceiling'[p] /\ ceiling[p] <= ceiling'[p],
         r.pc \in Recording => r.day \in Days /\ \A p \in Periods : r.limits[p] <= ceiling'[p]
  PROVE  BudgetInv'
<1>1. /\ call' \in [Callers -> CallType]
      /\ call'[c] = r
      /\ \A b \in Callers : b # c => call'[b] = call[b]
      /\ \A b \in Callers : call'[b].pc \in {"idle", "merge", "upsert", "daily", "monthly"}
  BY OneCaller
<1>2. BudgetTypeOK'
  BY <1>1 DEF BudgetInv, BudgetTypeOK
<1>3. \A p \in Periods : ceiling[p] \in Nat /\ ceiling'[p] \in Nat /\ ceiling[p] <= ceiling'[p]
  BY DEF BudgetInv, UnderCeiling
<1>4. UnderCeiling'
  <2>1. \A p \in Periods : RowToBudget(budget)'[p] <= ceiling'[p]
    BY DEF RowToBudget
  <2>2. ASSUME NEW b \in Callers, call'[b].pc \in Recording
        PROVE  call'[b].day \in Days /\ \A p \in Periods : call'[b].limits[p] <= ceiling'[p]
    <3>1. CASE b = c
      BY <1>1, <2>2, <3>1
    <3>2. CASE b # c
      <4>1. /\ call'[b] = call[b] /\ call[b].day \in Days
            /\ \A p \in Periods : call[b].limits[p] <= ceiling[p]
        BY <1>1, <2>2, <3>2 DEF BudgetInv, UnderCeiling
      <4>2. \A p \in Periods : call[b].limits[p] \in Nat
        <5>1. call[b].limits \in [Periods -> Limits \cup {DefaultLimit}]
          BY DEF BudgetInv, UnderCeiling, CallType
        <5> QED BY <5>1, BudgetAssumption
      <4> QED BY <1>3, <4>1, <4>2
    <3> QED BY <3>1, <3>2
  <2>3. \A b \in Callers : call'[b].kept => call'[b].pc \in {"daily", "monthly"}
    BY <1>1 DEF BudgetInv, UnderCeiling
  <2> QED BY <1>1, <2>1, <2>2, <2>3 DEF UnderCeiling
<1>5. \A d \in Days, l \in Nat : Pending(d)' = Pending(d) /\ Grantable(d, l)' = Grantable(d, l)
  <2>1. \A b \in Callers :
           /\ call'[b].kept = call[b].kept
           /\ call[b].kept => /\ call'[b].day = call[b].day /\ call'[b].n = call[b].n
                              /\ call'[b].pc = call[b].pc /\ call'[b].daily = call[b].daily
    <3>1. call[c].kept \in BOOLEAN /\ r.kept \in BOOLEAN
      BY DEF BudgetInv, UnderCeiling, CallType
    <3> QED BY <1>1, <3>1
  <2> QED BY <1>1, <2>1, SameSums
<1>6. Recorded'
  BY <1>5, 0 \in Nat DEF BudgetInv, Recorded
<1>7. Covered'
  <2> SUFFICES ASSUME NEW d \in Days, NEW l \in Nat, l >= ceiling'["daily"]
               PROVE  granted'[d] + SumFunctionOnSet(Grantable(d, l)', Callers) <= l
    BY DEF Covered
  <2>1. l >= ceiling["daily"]
    BY <1>3 DEF Periods
  <2> QED BY <1>5, <2>1 DEF BudgetInv, Covered
<1>8. Total(granted)' <= ceiling'["monthly"]
  <2>1. Total(granted)' = Total(granted)
    BY DEF Total
  <2>2. Total(granted) \in Nat
    BY GrantedSums DEF BudgetInv
  <2> QED BY <1>3, <2>1, <2>2 DEF BudgetInv, Periods
<1> QED BY <1>2, <1>4, <1>6, <1>7, <1>8 DEF BudgetInv

LEMMA SetBudgetKeeps ==
  ASSUME BudgetInv, NEW c \in Callers, NEW p \in Periods, NEW l \in Limits, SetBudget(c, p, l)
  PROVE  BudgetInv'
<1> USE BudgetAssumption
<1>1. PICK b : b = [RowToBudget(budget) EXCEPT ![p] = l]
  OBVIOUS
<1>2. b \in [Periods -> Limits \cup {DefaultLimit}]
  <2>1. RowToBudget(budget) \in [Periods -> Limits \cup {DefaultLimit}]
    BY DEF RowToBudget, BudgetInv, BudgetTypeOK
  <2> QED BY <1>1, <2>1
<1>3. PICK r : r = [NoCall EXCEPT !.pc = "merge", !.limits = b]
  OBVIOUS
<1>4. r \in CallType /\ r.pc = "merge" /\ ~r.kept
  <2>1. r = [pc |-> "merge", n |-> 0, day |-> 0, limits |-> b, daily |-> 0, kept |-> FALSE]
    BY <1>3 DEF NoCall
  <2>2. 0 \in 0 .. MaxDay /\ 0 \in Nat
    OBVIOUS
  <2> QED BY <1>2, <2>1, <2>2 DEF CallType
<1>5. call' = [call EXCEPT ![c] = r] /\ call[c].pc = "idle"
  BY <1>1, <1>3 DEF SetBudget
<1>6. ~call[c].kept
  BY <1>5 DEF BudgetInv, UnderCeiling
<1>7. ceiling \in [Periods -> Nat] /\ \A q \in Periods : ceiling[q] <= ceiling[q]
  BY DEF BudgetInv, UnderCeiling
<1>8. UNCHANGED <<budget, usage, day, granted, ceiling>>
  BY DEF SetBudget
<1>9. r.pc \notin Recording
  BY <1>4 DEF Recording
<1> QED BY <1>4, <1>5, <1>6, <1>7, <1>8, <1>9, QuietCaller DEF BudgetInv, BudgetTypeOK, UnderCeiling

LEMMA RecordUsageKeeps ==
  ASSUME BudgetInv, NEW c \in Callers, NEW n \in Amounts, RecordUsage(c, n)
  PROVE  BudgetInv'
<1> USE BudgetAssumption
<1>1. PICK b : b = RowToBudget(budget)
  OBVIOUS
<1>2. b \in [Periods -> Limits \cup {DefaultLimit}]
  BY <1>1 DEF RowToBudget, BudgetInv, BudgetTypeOK
<1>3. PICK r : r = [NoCall EXCEPT !.pc = "upsert", !.n = n, !.day = day, !.limits = b]
  OBVIOUS
<1>4. /\ r \in CallType /\ ~r.kept
      /\ r.day \in Days /\ r.limits = b
  <2>1. day \in Days /\ day \in 0 .. MaxDay
    BY DEF BudgetInv, BudgetTypeOK, Days
  <2> QED BY <1>2, <1>3, <2>1 DEF NoCall, CallType
<1>5. call' = [call EXCEPT ![c] = r] /\ call[c].pc = "idle"
  BY <1>1, <1>3 DEF RecordUsage
<1>6. ~call[c].kept
  BY <1>5 DEF BudgetInv, UnderCeiling
<1>7. ceiling \in [Periods -> Nat] /\ \A q \in Periods : ceiling[q] <= ceiling[q]
  BY DEF BudgetInv, UnderCeiling
<1>8. UNCHANGED <<budget, usage, day, granted, ceiling>>
  BY DEF RecordUsage
<1>9. \A q \in Periods : r.limits[q] <= ceiling[q]
  BY <1>1, <1>4 DEF BudgetInv, UnderCeiling
<1> QED BY <1>4, <1>5, <1>6, <1>7, <1>8, <1>9, QuietCaller DEF BudgetInv, BudgetTypeOK, UnderCeiling

LEMMA UpsertBudgetKeeps ==
  ASSUME BudgetInv, NEW c \in Callers, UpsertBudget(c)
  PROVE  BudgetInv'
<1> USE BudgetAssumption
<1>1. NoCall \in CallType /\ ~NoCall.kept /\ NoCall.pc \notin Recording
  BY DEF NoCall, CallType, DefaultBudget, Recording
<1>2. ~call[c].kept
  BY DEF BudgetInv, UnderCeiling, UpsertBudget
<1>3. budget' \in [Periods -> Limits \cup {DefaultLimit}]
  BY DEF BudgetInv, UnderCeiling, UpsertBudget, CallType
<1>4. PICK b : b = RowToBudget(budget')
  OBVIOUS
<1>5. b \in [Periods -> Nat]
  BY <1>3, <1>4 DEF RowToBudget
<1>6. ceiling' = Higher(ceiling, b)
  BY <1>4 DEF UpsertBudget
<1>7. ceiling \in [Periods -> Nat]
  BY DEF BudgetInv, UnderCeiling
<1>8. /\ ceiling' \in [Periods -> Nat]
      /\ \A p \in Periods : b[p] <= ceiling'[p] /\ ceiling[p] <= ceiling'[p]
  BY <1>5, <1>6, <1>7 DEF Higher
<1>9. call' = [call EXCEPT ![c] = NoCall] /\ UNCHANGED <<usage, day, granted>>
  BY DEF UpsertBudget
<1> QED BY <1>1, <1>2, <1>3, <1>4, <1>8, <1>9, QuietCaller

(* The usage is added: what is pending for the day grows by as much. *)
LEMMA UpsertUsageKeeps ==
  ASSUME BudgetInv, NEW c \in Callers, UpsertUsage(c)
  PROVE  BudgetInv'
<1> USE BudgetAssumption
<1>1. PICK r : r = [call[c] EXCEPT !.pc = "daily", !.kept = TRUE]
  OBVIOUS
<1>2. call[c] \in CallType /\ call[c].pc = "upsert" /\ ~call[c].kept
  BY DEF BudgetInv, UnderCeiling, UpsertUsage
<1>3. r \in CallType /\ r.pc = "daily" /\ r.kept /\ r.n = call[c].n /\ r.day = call[c].day
      /\ r.limits = call[c].limits
  BY <1>1, <1>2 DEF CallType
<1>4. call' = [call EXCEPT ![c] = r]
  BY <1>1 DEF UpsertUsage, BudgetInv, UnderCeiling
<1>5. /\ call' \in [Callers -> CallType]
      /\ call'[c] = r
      /\ \A b \in Callers : b # c => call'[b] = call[b]
      /\ \A b \in Callers : call'[b].pc \in {"idle", "merge", "upsert", "daily", "monthly"}
  BY <1>3, <1>4, OneCaller
<1>6. UNCHANGED <<budget, day, granted, ceiling>>
  BY DEF UpsertUsage
<1>7. call[c].day \in Days /\ call[c].n \in Nat
  BY <1>2 DEF BudgetInv, UnderCeiling, Recording, CallType
<1>8. /\ usage' \in [Days -> Nat]
      /\ usage'[call[c].day] = usage[call[c].day] + call[c].n
      /\ \A d \in Days : d # call[c].day => usage'[d] = usage[d]
  BY <1>7 DEF UpsertUsage, BudgetInv, BudgetTypeOK
<1>9. BudgetTypeOK'
  BY <1>5, <1>6, <1>8 DEF BudgetInv, BudgetTypeOK
<1>10. UnderCeiling'
  <2>1. \A p \in Periods : RowToBudget(budget)'[p] <= ceiling'[p]
    BY <1>6 DEF BudgetInv, UnderCeiling, RowToBudget
  <2>2. \A b \in Callers : call'[b].pc \in Recording =>
          call'[b].day \in Days /\ \A p \in Periods : call'[b].limits[p] <= ceiling'[p]
    BY <1>2, <1>3, <1>5, <1>6 DEF BudgetInv, UnderCeiling, Recording
  <2>3. \A b \in Callers : call'[b].kept => call'[b].pc \in {"daily", "monthly"}
    BY <1>3, <1>5 DEF BudgetInv, UnderCeiling
  <2>4. ceiling' \in [Periods -> Nat]
    BY <1>6 DEF BudgetInv, UnderCeiling
  <2> QED BY <1>5, <2>1, <2>2, <2>3, <2>4 DEF UnderCeiling
<1>11. Recorded'
  <2> SUFFICES ASSUME NEW d \in Days
               PROVE  granted'[d] + SumFunctionOnSet(Pending(d)', Callers) <= usage'[d]
    BY DEF Recorded
  <2>1. PICK f : f = Pending(d)
    OBVIOUS
  <2>2. PICK g : g = Pending(d)'
    OBVIOUS
  <2>3. \A b \in Callers : f[b] \in Nat /\ g[b] \in Nat
    BY <1>5, <2>1, <2>2 DEF Pending, BudgetInv, UnderCeiling, CallType
  <2>4. \A b \in Callers : b # c => g[b] = f[b]
    BY <1>5, <2>1, <2>2 DEF Pending
  <2>5. f[c] = 0 /\ g[c] = IF d = call[c].day THEN call[c].n ELSE 0
    BY <1>2, <1>3, <1>5, <2>1, <2>2 DEF Pending
  <2>6. /\ SumFunctionOnSet(f, Callers) \in Nat
        /\ SumFunctionOnSet(g, Callers) = SumFunctionOnSet(f, Callers) - f[c] + g[c]
    BY <2>3, <2>4, SumChange
  <2>7. granted[d] \in Nat /\ usage[d] \in Nat /\ granted[d] + SumFunctionOnSet(f, Callers) <= usage[d]
    BY <2>1 DEF BudgetInv, BudgetTypeOK, Recorded
  <2>8. granted[d] + SumFunctionOnSet(g, Callers) <= usage'[d]
    BY <1>7, <1>8, <2>5, <2>6, <2>7
  <2> QED BY <1>6, <2>2, <2>8
<1>12. Covered'
  <2>1. ASSUME NEW d \in Days, NEW l \in Nat PROVE Grantable(d, l)' = Grantable(d, l)
    <3>1. \A b \in Callers :
            (call'[b].kept /\ call'[b].day = d /\ ReadUpTo(b, l)') <=> (call[b].kept /\ call[b].day = d /\ ReadUpTo(b, l))
      BY <1>2, <1>3, <1>5 DEF ReadUpTo
    <3>2. \A b \in Callers : call'[b].n = call[b].n
      BY <1>3, <1>5
    <3> QED BY <3>1, <3>2 DEF Grantable
  <2> QED BY <1>6, <2>1 DEF BudgetInv, Covered
<1>13. Total(granted)' <= ceiling'["monthly"]
  BY <1>6 DEF BudgetInv, Total
<1> QED BY <1>9, <1>10, <1>11, <1>12, <1>13 DEF BudgetInv

(* The usage is read: it covers what is granted and pending, the reader's tokens included. *)
LEMMA ReadDailyKeeps ==
  ASSUME BudgetInv, NEW c \in Callers, ReadDaily(c)
  PROVE  BudgetInv'
<1> USE BudgetAssumption
<1>1. PICK r : r = [call[c] EXCEPT !.pc = "monthly", !.daily = usage[call[c].day]]
  OBVIOUS
<1>2. call[c] \in CallType /\ call[c].pc = "daily" /\ call[c].day \in Days
  BY DEF BudgetInv, UnderCeiling, ReadDaily, Recording
<1>3. usage[call[c].day] \in Nat
  BY <1>2 DEF BudgetInv, BudgetTypeOK
<1>4. /\ r \in CallType /\ r.pc = "monthly" /\ r.kept = call[c].kept /\ r.n = call[c].n
      /\ r.day = call[c].day /\ r.limits = call[c].limits /\ r.daily = usage[call[c].day]
  BY <1>1, <1>2, <1>3 DEF CallType
<1>5. call' = [call EXCEPT ![c] = r]
  BY <1>1 DEF ReadDaily, BudgetInv, UnderCeiling
<1>6. /\ call' \in [Callers -> CallType]
      /\ call'[c] = r
      /\ \A b \in Callers : b # c => call'[b] = call[b]
      /\ \A b \in Callers : call'[b].pc \in {"idle", "merge", "upsert", "daily", "monthly"}
  BY <1>4, <1>5, OneCaller
<1>7. UNCHANGED <<budget, usage, day, granted, ceiling>>
  BY DEF ReadDaily
<1>8. BudgetTypeOK'
  BY <1>6, <1>7 DEF BudgetInv, BudgetTypeOK
<1>9. UnderCeiling'
  <2>1. \A p \in Periods : RowToBudget(budget)'[p] <= ceiling'[p]
    BY <1>7 DEF BudgetInv, UnderCeiling, RowToBudget
  <2>2. \A b \in Callers : call'[b].pc \in Recording =>
          call'[b].day \in Days /\ \A p \in Periods : call'[b].limits[p] <= ceiling'[p]
    BY <1>2, <1>4, <1>6, <1>7 DEF BudgetInv, UnderCeiling, Recording
  <2>3. \A b \in Callers : call'[b].kept => call'[b].pc \in {"daily", "monthly"}
    BY <1>4, <1>6 DEF BudgetInv, UnderCeiling
  <2>4. ceiling' \in [Periods -> Nat]
    BY <1>7 DEF BudgetInv, UnderCeiling
  <2> QED BY <1>6, <2>1, <2>2, <2>3, <2>4 DEF UnderCeiling
<1>10. \A d \in Days : Pending(d)' = Pending(d)
  BY <1>4, <1>6 DEF Pending
<1>11. Recorded'
  BY <1>7, <1>10 DEF BudgetInv, Recorded
<1>12. Covered'
  <2> SUFFICES ASSUME NEW d \in Days, NEW l \in Nat, l >= ceiling["daily"]
               PROVE  granted[d] + SumFunctionOnSet(Grantable(d, l)', Callers) <= l
    BY <1>7 DEF Covered
  <2>1. PICK g : g = Grantable(d, l)'
    OBVIOUS
  <2>2. CASE call[c].kept /\ call[c].day = d /\ usage[d] <= l
    <3>1. PICK f : f = Pending(d)
      OBVIOUS
    <3>2. \A b \in Callers : f[b] \in Nat /\ g[b] \in Nat /\ g[b] <= f[b]
      <4>1. \A b \in Callers :
              /\ call'[b].kept = call[b].kept /\ call'[b].day = call[b].day /\ call'[b].n = call[b].n
              /\ call[b].n \in Nat
        BY <1>4, <1>6 DEF BudgetInv, UnderCeiling, CallType
      <4> QED BY <2>1, <3>1, <4>1 DEF Pending, Grantable
    <3>3. SumFunctionOnSet(g, Callers) <= SumFunctionOnSet(f, Callers)
      BY <3>2, SumGrows
    <3>4. SumFunctionOnSet(g, Callers) \in Nat /\ SumFunctionOnSet(f, Callers) \in Nat
      BY <3>2, SumAnyOrder
    <3>5. granted[d] \in Nat /\ usage[d] \in Nat /\ granted[d] + SumFunctionOnSet(f, Callers) <= usage[d]
      BY <3>1 DEF BudgetInv, BudgetTypeOK, Recorded
    <3> QED BY <2>1, <2>2, <3>3, <3>4, <3>5
  <2>3. CASE ~(call[c].kept /\ call[c].day = d /\ usage[d] <= l)
    <3>1. g = Grantable(d, l)
      <4>1. \A b \in Callers :
              (call'[b].kept /\ call'[b].day = d /\ ReadUpTo(b, l)') <=> (call[b].kept /\ call[b].day = d /\ ReadUpTo(b, l))
        BY <1>2, <1>4, <1>6, <2>3 DEF ReadUpTo
      <4>2. \A b \in Callers : call'[b].n = call[b].n
        BY <1>4, <1>6
      <4> QED BY <2>1, <4>1, <4>2 DEF Grantable
    <3> QED BY <2>1, <3>1 DEF BudgetInv, Covered
  <2> QED BY <2>2, <2>3
<1>13. Total(granted)' <= ceiling'["monthly"]
  BY <1>7 DEF BudgetInv, Total
<1> QED BY <1>8, <1>9, <1>11, <1>12, <1>13 DEF BudgetInv

(* The answer: tokens that are granted were pending, and their caller had read no more than *)
(* a limit the ceiling has seen.                                                            *)
LEMMA DecideKeeps ==
  ASSUME BudgetInv, NEW c \in Callers, Decide(c)
  PROVE  BudgetInv'
<1> USE BudgetAssumption
<1>1. NoCall \in CallType /\ ~NoCall.kept /\ NoCall.pc = "idle"
  BY DEF NoCall, CallType, DefaultBudget
<1>2. call' = [call EXCEPT ![c] = NoCall] /\ UNCHANGED <<budget, usage, day, ceiling>>
  BY DEF Decide
<1>3. /\ call' \in [Callers -> CallType]
      /\ call'[c] = NoCall
      /\ \A b \in Callers : b # c => call'[b] = call[b]
      /\ \A b \in Callers : call'[b].pc \in {"idle", "merge", "upsert", "daily", "monthly"}
  BY <1>1, <1>2, OneCaller
<1>4. /\ call[c] \in CallType /\ call[c].pc = "monthly"
      /\ call[c].n \in Nat /\ call[c].daily \in Nat /\ call[c].kept \in BOOLEAN
      /\ call[c].day \in Days /\ \A p \in Periods : call[c].limits[p] <= ceiling[p]
  BY DEF Decide, BudgetInv, UnderCeiling, Recording, CallType
<1>5. /\ ceiling["daily"] \in Nat /\ ceiling["monthly"] \in Nat
      /\ call[c].limits["daily"] \in Nat /\ call[c].limits["daily"] <= ceiling["daily"]
      /\ call[c].limits["monthly"] \in Nat /\ call[c].limits["monthly"] <= ceiling["monthly"]
  <2>1. ceiling \in [Periods -> Nat] /\ call[c].limits \in [Periods -> Limits \cup {DefaultLimit}]
    BY <1>4 DEF BudgetInv, UnderCeiling, CallType
  <2>2. "daily" \in Periods /\ "monthly" \in Periods
    BY DEF Periods
  <2> QED BY <1>4, <2>1, <2>2
<1>6. UnderCeiling'
  <2>1. \A p \in Periods : RowToBudget(budget)'[p] <= ceiling'[p]
    BY <1>2 DEF BudgetInv, UnderCeiling, RowToBudget
  <2>2. \A b \in Callers : call'[b].pc \in Recording =>
          call'[b].day \in Days /\ \A p \in Periods : call'[b].limits[p] <= ceiling'[p]
    BY <1>1, <1>2, <1>3 DEF BudgetInv, UnderCeiling, Recording
  <2>3. \A b \in Callers : call'[b].kept => call'[b].pc \in {"daily", "monthly"}
    BY <1>1, <1>3 DEF BudgetInv, UnderCeiling
  <2>4. ceiling' \in [Periods -> Nat]
    BY <1>2 DEF BudgetInv, UnderCeiling
  <2> QED BY <1>3, <2>1, <2>2, <2>3, <2>4 DEF UnderCeiling
<1>7. ASSUME NEW d \in Days
      PROVE  /\ SumFunctionOnSet(Pending(d), Callers) \in Nat
             /\ SumFunctionOnSet(Pending(d)', Callers) \in Nat
             /\ SumFunctionOnSet(Pending(d)', Callers) = SumFunctionOnSet(Pending(d), Callers)
                  - (IF call[c].kept /\ call[c].day = d THEN call[c].n ELSE 0)
  <2>1. PICK f : f = Pending(d)
    OBVIOUS
  <2>2. PICK g : g = Pending(d)'
    OBVIOUS
  <2>3. \A b \in Callers : f[b] \in Nat /\ g[b] \in Nat
    BY <1>3, <2>1, <2>2 DEF Pending, BudgetInv, UnderCeiling, CallType
  <2>4. \A b \in Callers : b # c => g[b] = f[b]
    BY <1>3, <2>1, <2>2 DEF Pending
  <2>5. g[c] = 0 /\ f[c] = IF call[c].kept /\ call[c].day = d THEN call[c].n ELSE 0
    BY <1>1, <1>3, <2>1, <2>2 DEF Pending
  <2>6. /\ SumFunctionOnSet(f, Callers) \in Nat /\ SumFunctionOnSet(g, Callers) \in Nat
        /\ SumFunctionOnSet(g, Callers) = SumFunctionOnSet(f, Callers) - f[c] + g[c]
    BY <2>3, <2>4, SumChange
  <2>7. f[c] \in Nat
    BY <2>3
  <2> QED BY <2>1, <2>2, <2>5, <2>6, <2>7
<1>8. ASSUME NEW d \in Days, NEW l \in Nat
      PROVE  /\ SumFunctionOnSet(Grantable(d, l), Callers) \in Nat
             /\ SumFunctionOnSet(Grantable(d, l)', Callers) \in Nat
             /\ SumFunctionOnSet(Grantable(d, l)', Callers) = SumFunctionOnSet(Grantable(d, l), Callers)
                  - (IF call[c].kept /\ call[c].day = d /\ call[c].daily <= l THEN call[c].n ELSE 0)
  <2>1. PICK f : f = Grantable(d, l)
    OBVIOUS
  <2>2. PICK g : g = Grantable(d, l)'
    OBVIOUS
  <2>3. \A b \in Callers : f[b] \in Nat /\ g[b] \in Nat
    BY <1>3, <2>1, <2>2 DEF Grantable, BudgetInv, UnderCeiling, CallType
  <2>4. \A b \in Callers : b # c => g[b] = f[b]
    BY <1>3, <2>1, <2>2 DEF Grantable, ReadUpTo
  <2>5. g[c] = 0 /\ f[c] = IF call[c].kept /\ call[c].day = d /\ call[c].daily <= l THEN call[c].n ELSE 0
    BY <1>1, <1>3, <1>4, <2>1, <2>2 DEF Grantable, ReadUpTo
  <2>6. /\ SumFunctionOnSet(f, Callers) \in Nat /\ SumFunctionOnSet(g, Callers) \in Nat
        /\ SumFunctionOnSet(g, Callers) = SumFunctionOnSet(f, Callers) - f[c] + g[c]
    BY <2>3, <2>4, SumChange
  <2>7. f[c] \in Nat
    BY <2>3
  <2> QED BY <2>1, <2>2, <2>5, <2>6, <2>7
<1>9. \A d \in Days : granted[d] \in Nat /\ usage[d] \in Nat
  BY DEF BudgetInv, BudgetTypeOK
<1>10. CASE granted' = granted
  <2>1. BudgetTypeOK'
    BY <1>2, <1>3, <1>10 DEF BudgetInv, BudgetTypeOK
  <2>2. Recorded'
    <3> SUFFICES ASSUME NEW d \in Days
                 PROVE  granted[d] + SumFunctionOnSet(Pending(d)', Callers) <= usage[d]
      BY <1>2, <1>10 DEF Recorded
    <3>1. granted[d] + SumFunctionOnSet(Pending(d), Callers) <= usage[d]
      BY DEF BudgetInv, Recorded
    <3> QED BY <1>4, <1>7, <1>9, <3>1
  <2>3. Covered'
    <3> SUFFICES ASSUME NEW d \in Days, NEW l \in Nat, l >= ceiling["daily"]
                 PROVE  granted[d] + SumFunctionOnSet(Grantable(d, l)', Callers) <= l
      BY <1>2, <1>10 DEF Covered
    <3>1. granted[d] + SumFunctionOnSet(Grantable(d, l), Callers) <= l
      BY DEF BudgetInv, Covered
    <3> QED BY <1>4, <1>8, <1>9, <3>1
  <2>4. Total(granted)' <= ceiling'["monthly"]
    BY <1>2, <1>10 DEF BudgetInv, Total
  <2> QED BY <1>6, <2>1, <2>2, <2>3, <2>4 DEF BudgetInv
<1>11. CASE call[c].kept /\ Allowed(c) /\ granted' = [granted EXCEPT ![call[c].day] = @ + call[c].n]
  <2>1. /\ granted' \in [Days -> Nat]
        /\ granted'[call[c].day] = granted[call[c].day] + call[c].n
        /\ \A d \in Days : d # call[c].day => granted'[d] = granted[d]
    BY <1>4, <1>11 DEF BudgetInv, BudgetTypeOK
  <2>2. BudgetTypeOK'
    BY <1>2, <1>3, <2>1 DEF BudgetInv, BudgetTypeOK
  <2>3. Recorded'
    <3> SUFFICES ASSUME NEW d \in Days
                 PROVE  granted'[d] + SumFunctionOnSet(Pending(d)', Callers) <= usage[d]
      BY <1>2 DEF Recorded
    <3>1. granted[d] + SumFunctionOnSet(Pending(d), Callers) <= usage[d]
      BY DEF BudgetInv, Recorded
    <3>2. CASE d = call[c].day
      BY <1>4, <1>7, <1>9, <1>11, <2>1, <3>1, <3>2
    <3>3. CASE d # call[c].day
      BY <1>4, <1>7, <1>9, <2>1, <3>1, <3>3
    <3> QED BY <3>2, <3>3
  <2>4. Covered'
    <3> SUFFICES ASSUME NEW d \in Days, NEW l \in Nat, l >= ceiling["daily"]
                 PROVE  granted'[d] + SumFunctionOnSet(Grantable(d, l)', Callers) <= l
      BY <1>2 DEF Covered
    <3>1. granted[d] + SumFunctionOnSet(Grantable(d, l), Callers) <= l
      BY DEF BudgetInv, Covered
    <3>2. call[c].daily <= l
      BY <1>4, <1>5, <1>11 DEF Allowed
    <3>3. CASE d = call[c].day
      BY <1>4, <1>8, <1>9, <1>11, <2>1, <3>1, <3>2, <3>3
    <3>4. CASE d # call[c].day
      BY <1>4, <1>8, <1>9, <2>1, <3>1, <3>4
    <3> QED BY <3>3, <3>4
  <2>5. Total(granted)' <= ceiling'["monthly"]
    <3>1. \A d \in Days : granted'[d] \in Nat /\ granted'[d] <= usage[d]
      <4> SUFFICES ASSUME NEW d \in Days PROVE granted'[d] \in Nat /\ granted'[d] <= usage[d]
        OBVIOUS
      <4>1. granted'[d] + SumFunctionOnSet(Pending(d)', Callers) <= usage[d]
        BY <1>2, <2>3 DEF Recorded
      <4>2. granted'[d] \in Nat
        BY <2>1
      <4> QED BY <1>7, <1>9, <4>1, <4>2
    <3>2. PICK g : g = granted'
      OBVIOUS
    <3>3. IsFiniteSet(Days)
      BY FS_Interval DEF Days
    <3>4. SumFunctionOnSet(g, Days) <= SumFunctionOnSet(usage, Days)
      BY <1>9, <3>1, <3>2, <3>3, SumGrows
    <3>5. SumFunctionOnSet(g, Days) \in Nat /\ SumFunctionOnSet(usage, Days) \in Nat
      BY <1>9, <3>1, <3>2, <3>3, SumAnyOrder
    <3>6. SumFunctionOnSet(usage, Days) <= call[c].limits["monthly"]
      BY <1>11 DEF Allowed, Total
    <3>7. Total(granted)' = SumFunctionOnSet(g, Days)
      BY <3>2 DEF Total
    <3> QED BY <1>2, <1>5, <3>4, <3>5, <3>6, <3>7
  <2> QED BY <1>6, <2>2, <2>3, <2>4, <2>5 DEF BudgetInv
<1> QED BY <1>10, <1>11 DEF Decide

(* A reset forgets what was granted and recorded together. *)
LEMMA ResetUsageKeeps ==
  ASSUME BudgetInv, NEW ds \in SUBSET Days, ResetUsage(ds)
  PROVE  BudgetInv'
<1> USE BudgetAssumption
<1>1. UNCHANGED <<budget, day, ceiling>>
  BY DEF ResetUsage
<1>2. \A c \in Callers : call[c] \in CallType
  BY DEF BudgetInv, UnderCeiling
<1>3. \A c \in Callers :
        /\ call'[c] \in CallType
        /\ call'[c].pc = call[c].pc /\ call'[c].n = call[c].n /\ call'[c].day = call[c].day
        /\ call'[c].limits = call[c].limits /\ call'[c].daily = call[c].daily
        /\ call'[c].kept = (call[c].kept /\ call[c].day \notin ds)
  <2> SUFFICES ASSUME NEW c \in Callers
               PROVE  /\ call'[c] \in CallType
                      /\ call'[c].pc = call[c].pc /\ call'[c].n = call[c].n /\ call'[c].day = call[c].day
                      /\ call'[c].limits = call[c].limits /\ call'[c].daily = call[c].daily
                      /\ call'[c].kept = (call[c].kept /\ call[c].day \notin ds)
    OBVIOUS
  <2>1. PICK k \in BOOLEAN : k = (call[c].kept /\ call[c].day \notin ds)
    BY <1>2 DEF CallType
  <2>2. call'[c] = [call[c] EXCEPT !.kept = k]
    BY <2>1 DEF ResetUsage
  <2> QED BY <1>2, <2>1, <2>2 DEF CallType
<1>4. call' \in [Callers -> CallType]
  BY <1>3 DEF ResetUsage
<1>5. /\ usage' \in [Days -> Nat] /\ granted' \in [Days -> Nat]
      /\ \A d \in Days : d \in ds => usage'[d] = 0 /\ granted'[d] = 0
      /\ \A d \in Days : d \notin ds => usage'[d] = usage[d] /\ granted'[d] = granted[d]
  BY DEF ResetUsage, BudgetInv, BudgetTypeOK
<1>6. BudgetTypeOK'
  BY <1>1, <1>3, <1>5 DEF BudgetInv, BudgetTypeOK
<1>7. UnderCeiling'
  <2>1. \A p \in Periods : RowToBudget(budget)'[p] <= ceiling'[p]
    BY <1>1 DEF BudgetInv, UnderCeiling, RowToBudget
  <2>2. \A b \in Callers : call'[b].pc \in Recording =>
          call'[b].day \in Days /\ \A p \in Periods : call'[b].limits[p] <= ceiling'[p]
    BY <1>1, <1>3 DEF BudgetInv, UnderCeiling
  <2>3. \A b \in Callers : call'[b].kept => call'[b].pc \in {"daily", "monthly"}
    BY <1>3 DEF BudgetInv, UnderCeiling
  <2>4. ceiling' \in [Periods -> Nat]
    BY <1>1 DEF BudgetInv, UnderCeiling
  <2> QED BY <1>4, <2>1, <2>2, <2>3, <2>4 DEF UnderCeiling
<1>8. ASSUME NEW d \in Days, NEW l \in Nat, d \notin ds
      PROVE  Pending(d)' = Pending(d) /\ Grantable(d, l)' = Grantable(d, l)
  BY <1>3, <1>8 DEF Pending, Grantable, ReadUpTo
<1>9. ASSUME NEW d \in Days, NEW l \in Nat, d \in ds
      PROVE  /\ SumFunctionOnSet(Pending(d)', Callers) = 0
             /\ SumFunctionOnSet(Grantable(d, l)', Callers) = 0
  <2>1. PICK f : f = Pending(d)'
    OBVIOUS
  <2>2. PICK g : g = Grantable(d, l)'
    OBVIOUS
  <2>3. \A c \in Callers : f[c] = 0
    BY SMT, ZenonT(40), <1>3, <1>9, <2>1 DEF Pending
  <2>4. \A c \in Callers : g[c] = 0
    BY SMT, ZenonT(40), <1>3, <1>9, <2>2 DEF Grantable
  <2> QED BY <2>1, <2>2, <2>3, <2>4, SumZero
<1>10. Recorded'
  <2> SUFFICES ASSUME NEW d \in Days
               PROVE  granted'[d] + SumFunctionOnSet(Pending(d)', Callers) <= usage'[d]
    BY DEF Recorded
  <2>1. CASE d \in ds
    BY <1>5, <1>9, <2>1, 0 \in Nat
  <2>2. CASE d \notin ds
    BY <1>5, <1>8, <2>2, 0 \in Nat DEF BudgetInv, Recorded
  <2> QED BY <2>1, <2>2
<1>11. Covered'
  <2> SUFFICES ASSUME NEW d \in Days, NEW l \in Nat, l >= ceiling["daily"]
               PROVE  granted'[d] + SumFunctionOnSet(Grantable(d, l)', Callers) <= l
    BY <1>1 DEF Covered
  <2>1. CASE d \in ds
    BY <1>5, <1>9, <2>1
  <2>2. CASE d \notin ds
    BY <1>5, <1>8, <2>2 DEF BudgetInv, Covered
  <2> QED BY <2>1, <2>2
<1>12. Total(granted)' <= ceiling'["monthly"]
  <2>1. PICK g : g = granted'
    OBVIOUS
  <2>2. \A d \in Days : g[d] \in Nat /\ granted[d] \in Nat /\ g[d] <= granted[d]
    <3> SUFFICES ASSUME NEW d \in Days PROVE g[d] \in Nat /\ granted[d] \in Nat /\ g[d] <= granted[d]
      OBVIOUS
    <3>1. granted[d] \in Nat
      BY DEF BudgetInv, BudgetTypeOK
    <3> QED BY <1>5, <2>1, <3>1
  <2>3. IsFiniteSet(Days)
    BY FS_Interval DEF Days
  <2>4. SumFunctionOnSet(g, Days) <= SumFunctionOnSet(granted, Days)
    BY <2>2, <2>3, SumGrows
  <2>5. SumFunctionOnSet(g, Days) \in Nat /\ SumFunctionOnSet(granted, Days) \in Nat
    BY <2>2, <2>3, SumAnyOrder
  <2>6. SumFunctionOnSet(granted, Days) <= ceiling["monthly"] /\ ceiling["monthly"] \in Nat
    BY DEF BudgetInv, UnderCeiling, Total, Periods
  <2> QED BY <1>1, <2>1, <2>4, <2>5, <2>6 DEF Total
<1> QED BY <1>6, <1>7, <1>10, <1>11, <1>12 DEF BudgetInv

LEMMA BudgetStepKeeps == BudgetInv /\ [BudgetNext]_budgetVars => BudgetInv'
<1> SUFFICES ASSUME BudgetInv, [BudgetNext]_budgetVars PROVE BudgetInv'
  OBVIOUS
<1>1. CASE \E c \in Callers :
        \/ \E p \in Periods, l \in Limits : SetBudget(c, p, l)
        \/ \E n \in Amounts : RecordUsage(c, n)
        \/ UpsertBudget(c) \/ UpsertUsage(c) \/ ReadDaily(c) \/ Decide(c)
  BY <1>1, SetBudgetKeeps, RecordUsageKeeps, UpsertBudgetKeeps, UpsertUsageKeeps, ReadDailyKeeps, DecideKeeps
<1>2. CASE ResetUsage({day}) \/ ResetUsage(Days)
  <2>1. {day} \in SUBSET Days
    BY DEF BudgetInv, BudgetTypeOK
  <2> QED BY <1>2, <2>1, ResetUsageKeeps
<1>3. CASE NextDay
  <2>1. day' \in Days
    BY <1>3, BudgetAssumption DEF NextDay, BudgetInv, BudgetTypeOK, Days
  <2> QED BY <1>3, <2>1 DEF NextDay, BudgetInv, BudgetTypeOK, UnderCeiling, Recorded, Covered,
             Pending, Grantable, ReadUpTo, Total, RowToBudget
<1>4. CASE UNCHANGED budgetVars
  BY <1>4 DEF budgetVars, BudgetInv, BudgetTypeOK, UnderCeiling, Recorded, Covered,
             Pending, Grantable, ReadUpTo, Total, RowToBudget
<1> QED BY <1>1, <1>2, <1>3, <1>4 DEF BudgetNext

LEMMA BudgetInvSuffices == BudgetInv => AllowedWithinBudget
<1> SUFFICES ASSUME BudgetInv, NEW d \in Days PROVE granted[d] <= ceiling["daily"]
  BY DEF BudgetInv, AllowedWithinBudget
<1>1. ceiling["daily"] \in Nat
  BY DEF BudgetInv, UnderCeiling, Periods
<1>2. granted[d] + SumFunctionOnSet(Grantable(d, ceiling["daily"]), Callers) <= ceiling["daily"]
  BY <1>1 DEF BudgetInv, Covered
<1>3. SumFunctionOnSet(Grantable(d, ceiling["daily"]), Callers) \in Nat
  BY <1>1, CallerSums DEF BudgetInv, UnderCeiling
<1>4. granted[d] \in Nat
  BY DEF BudgetInv, BudgetTypeOK
<1> QED BY <1>1, <1>2, <1>3, <1>4

-----------------------------------------------------------------------------
(* The budget in memory. *)

(* Grants of a history g since a time, at the end of the window before one that starts then, *)
(* and within a span but before that start.                                                  *)
Since(g, start) == {i \in DOMAIN g : g[i].at >= start}
JustBefore(g, start, ticks) == {i \in DOMAIN g : g[i].at < start /\ g[i].at + ticks > start}
SpanBefore(g, from, ticks, start) ==
  {i \in DOMAIN g : g[i].at >= from /\ g[i].at < from + ticks /\ g[i].at < start}

(* What is counted since a window's start is what was granted since; neither that nor the end *)
(* of what came before is more than the top, and no span before the start is above twice it.  *)
Windowed(g, w, start, ticks, counted, top) ==
  /\ \A i \in DOMAIN g : g[i].at < start + ticks
  /\ counted = SumFunctionOnSet(w, Since(g, start)) /\ counted <= top
  /\ SumFunctionOnSet(w, JustBefore(g, start, ticks)) <= top
  /\ \A from \in Nat : SumFunctionOnSet(w, SpanBefore(g, from, ticks, start)) <= 2 * top

TokensOf(g) == [i \in DOMAIN g |-> g[i].tokens]
OnesOf(g) == [i \in DOMAIN g |-> 1]

(* A state of the meter that fits the history. *)
Fits(s) ==
  /\ Windowed(grants, TokensOf(grants), s.dayStart, DayTicks, s.tokens, peak.tokens)
  /\ Windowed(grants, OnesOf(grants), s.windowStart, MinuteTicks, s.requests, peak.requests)

MeterInv ==
  /\ MeterTypeOK
  /\ allocation.tokens <= peak.tokens /\ allocation.requests <= peak.requests
  /\ ~meter.kept => grants = <<>>
  /\ meter.kept => Fits(meter)

Histories == Seq([at : Nat, tokens : Nat])

LEMMA HistoryFacts ==
  ASSUME NEW g \in Histories, NEW w, \A i \in DOMAIN g : w[i] \in Nat
  PROVE  /\ IsFiniteSet(DOMAIN g)
         /\ \A i \in DOMAIN g : g[i].at \in Nat
         /\ \A I \in SUBSET DOMAIN g : IsFiniteSet(I) /\ SumFunctionOnSet(w, I) \in Nat
         /\ \A I, J \in SUBSET DOMAIN g : I \subseteq J => SumFunctionOnSet(w, I) <= SumFunctionOnSet(w, J)
<1>1. DOMAIN g = 1 .. Len(g) /\ Len(g) \in Nat
  BY DEF Histories
<1>2. IsFiniteSet(DOMAIN g)
  BY <1>1, FS_Interval
<1>3. \A i \in DOMAIN g : g[i].at \in Nat
  <2>1. \A i \in DOMAIN g : g[i] \in [at : Nat, tokens : Nat]
    BY <1>1, ElementOfSeq DEF Histories
  <2> QED BY <2>1
<1>4. \A I \in SUBSET DOMAIN g : IsFiniteSet(I) /\ SumFunctionOnSet(w, I) \in Nat
  BY <1>2, FS_Subset, SumAnyOrder
<1>5. \A I, J \in SUBSET DOMAIN g : I \subseteq J => SumFunctionOnSet(w, I) <= SumFunctionOnSet(w, J)
  BY <1>4, SumOfPart
<1> QED BY <1>2, <1>3, <1>4, <1>5

(* Without grants any window fits. *)
LEMMA WindowBegins ==
  ASSUME NEW w, NEW start \in Nat, NEW ticks \in Nat, NEW top \in Nat
  PROVE  Windowed(<<>>, w, start, ticks, 0, top)
<1>1. \A I : I \in SUBSET DOMAIN <<>> => SumFunctionOnSet(w, I) = 0
  BY SumEmpty
<1> QED BY <1>1 DEF Windowed, Since, JustBefore, SpanBefore

(* A span within a window and what came before it sees at most the end of the one and all of *)
(* the other.                                                                                 *)
LEMMA SpanBound ==
  ASSUME NEW g \in Histories, NEW w, \A i \in DOMAIN g : w[i] \in Nat,
         NEW start \in Nat, NEW ticks \in Nat, NEW counted, NEW top \in Nat,
         Windowed(g, w, start, ticks, counted, top), NEW from \in Nat,
         NEW I \in SUBSET {i \in DOMAIN g : g[i].at >= from /\ g[i].at < from + ticks}
  PROVE  SumFunctionOnSet(w, I) <= 2 * top
<1>1. /\ \A i \in DOMAIN g : g[i].at \in Nat
      /\ \A J \in SUBSET DOMAIN g : IsFiniteSet(J) /\ SumFunctionOnSet(w, J) \in Nat
      /\ \A H, J \in SUBSET DOMAIN g : H \subseteq J => SumFunctionOnSet(w, H) <= SumFunctionOnSet(w, J)
  BY HistoryFacts
<1>2. I \in SUBSET DOMAIN g
  OBVIOUS
<1>3. CASE from + ticks <= start
  <2>1. SpanBefore(g, from, ticks, start) \in SUBSET DOMAIN g
    BY DEF SpanBefore
  <2>2. I \subseteq SpanBefore(g, from, ticks, start)
    BY <1>1, <1>3 DEF SpanBefore
  <2>3. SumFunctionOnSet(w, SpanBefore(g, from, ticks, start)) <= 2 * top
    BY DEF Windowed
  <2>4. SumFunctionOnSet(w, I) <= SumFunctionOnSet(w, SpanBefore(g, from, ticks, start))
    BY <1>1, <1>2, <2>1, <2>2
  <2> QED BY <1>1, <1>2, <2>1, <2>3, <2>4
<1>4. CASE from + ticks > start
  <2>1. PICK H : H = I \cap Since(g, start)
    OBVIOUS
  <2>2. /\ H \in SUBSET I /\ H \in SUBSET DOMAIN g /\ (I \ H) \in SUBSET DOMAIN g
        /\ Since(g, start) \in SUBSET DOMAIN g /\ JustBefore(g, start, ticks) \in SUBSET DOMAIN g
    BY <2>1 DEF Since, JustBefore
  <2>3. I \ H \subseteq JustBefore(g, start, ticks)
    BY <1>1, <1>4, <2>1 DEF Since, JustBefore
  <2>4. SumFunctionOnSet(w, H) <= SumFunctionOnSet(w, Since(g, start))
    BY <1>1, <2>1, <2>2
  <2>5. SumFunctionOnSet(w, I \ H) <= SumFunctionOnSet(w, JustBefore(g, start, ticks))
    BY <1>1, <2>2, <2>3
  <2>6. SumFunctionOnSet(w, I) = SumFunctionOnSet(w, H) + SumFunctionOnSet(w, I \ H)
    <3>1. IsFiniteSet(I) /\ \A i \in I : w[i] \in Nat
      BY <1>1, <1>2
    <3> QED BY <2>2, <3>1, SumSplit
  <2>7. /\ SumFunctionOnSet(w, Since(g, start)) <= top
        /\ SumFunctionOnSet(w, JustBefore(g, start, ticks)) <= top
    BY DEF Windowed
  <2>8. /\ SumFunctionOnSet(w, H) \in Nat /\ SumFunctionOnSet(w, I \ H) \in Nat
        /\ SumFunctionOnSet(w, Since(g, start)) \in Nat
        /\ SumFunctionOnSet(w, JustBefore(g, start, ticks)) \in Nat
    BY <1>1, <2>2
  <2> QED BY <2>4, <2>5, <2>6, <2>7, <2>8
<1> QED BY <1>1, <1>3, <1>4

(* A window that has run out may start anew. *)
LEMMA WindowRenewed ==
  ASSUME NEW g \in Histories, NEW w, \A i \in DOMAIN g : w[i] \in Nat,
         NEW start \in Nat, NEW ticks \in Nat, NEW counted, NEW top \in Nat, NEW now \in Nat,
         Windowed(g, w, start, ticks, counted, top), now >= start + ticks
  PROVE  Windowed(g, w, now, ticks, 0, top)
<1>1. /\ \A i \in DOMAIN g : g[i].at \in Nat /\ g[i].at < start + ticks
      /\ \A I \in SUBSET DOMAIN g : SumFunctionOnSet(w, I) \in Nat
      /\ \A I, J \in SUBSET DOMAIN g : I \subseteq J => SumFunctionOnSet(w, I) <= SumFunctionOnSet(w, J)
  BY HistoryFacts DEF Windowed
<1>2. \A i \in DOMAIN g : g[i].at < now /\ g[i].at < now + ticks
  BY <1>1
<1>3. Since(g, now) = {}
  BY <1>1, <1>2 DEF Since
<1>4. SumFunctionOnSet(w, JustBefore(g, now, ticks)) <= top
  <2>1. JustBefore(g, now, ticks) \subseteq Since(g, start)
    BY <1>1 DEF JustBefore, Since
  <2>2. JustBefore(g, now, ticks) \in SUBSET DOMAIN g /\ Since(g, start) \in SUBSET DOMAIN g
    BY DEF JustBefore, Since
  <2>3. SumFunctionOnSet(w, Since(g, start)) <= top
    BY DEF Windowed
  <2>4. SumFunctionOnSet(w, JustBefore(g, now, ticks)) <= SumFunctionOnSet(w, Since(g, start))
    BY <1>1, <2>1, <2>2
  <2> QED BY <1>1, <2>2, <2>3, <2>4
<1>5. ASSUME NEW from \in Nat PROVE SumFunctionOnSet(w, SpanBefore(g, from, ticks, now)) <= 2 * top
  <2>1. SpanBefore(g, from, ticks, now) \in SUBSET {i \in DOMAIN g : g[i].at >= from /\ g[i].at < from + ticks}
    BY DEF SpanBefore
  <2> QED BY <2>1, SpanBound
<1> QED BY <1>2, <1>3, <1>4, <1>5, SumEmpty DEF Windowed

(* A grant within the window's time is counted in it. *)
LEMMA WindowGrows ==
  ASSUME NEW g \in Histories, NEW w, \A i \in DOMAIN g : w[i] \in Nat,
         NEW start \in Nat, NEW ticks \in Nat, NEW counted, NEW top \in Nat,
         Windowed(g, w, start, ticks, counted, top),
         NEW now \in Nat, start <= now, now < start + ticks, NEW n \in Nat,
         NEW v, v[Len(g) + 1] \in Nat, \A i \in DOMAIN g : v[i] = w[i],
         counted + v[Len(g) + 1] <= top
  PROVE  Windowed(Append(g, [at |-> now, tokens |-> n]), v, start, ticks, counted + v[Len(g) + 1], top)
<1>1. PICK h : h = Append(g, [at |-> now, tokens |-> n])
  OBVIOUS
<1>2. PICK k : k = Len(g) + 1
  OBVIOUS
<1>3. DOMAIN g = 1 .. Len(g) /\ Len(g) \in Nat
  BY DEF Histories
<1>4. /\ h \in Histories /\ Len(h) = k /\ DOMAIN h = 1 .. k /\ k \in DOMAIN h /\ k \notin DOMAIN g
      /\ DOMAIN h = DOMAIN g \cup {k}
      /\ \A i \in DOMAIN g : h[i] = g[i]
      /\ h[k] = [at |-> now, tokens |-> n]
  BY <1>1, <1>2, <1>3 DEF Histories
<1>5. h[k].at = now
  BY <1>4
<1>6. \A i \in DOMAIN h : v[i] \in Nat
  BY <1>2, <1>4
<1>7. /\ \A i \in DOMAIN g : g[i].at \in Nat
      /\ \A J \in SUBSET DOMAIN g : IsFiniteSet(J) /\ SumFunctionOnSet(w, J) \in Nat
  BY HistoryFacts
<1>8. \A J \in SUBSET DOMAIN g : SumFunctionOnSet(v, J) = SumFunctionOnSet(w, J)
  <2> SUFFICES ASSUME NEW J \in SUBSET DOMAIN g PROVE SumFunctionOnSet(v, J) = SumFunctionOnSet(w, J)
    OBVIOUS
  <2>1. IsFiniteSet(J) /\ \A i \in J : w[i] \in Nat /\ v[i] = w[i]
    BY <1>7
  <2> QED BY <2>1, SumSame
<1>9. /\ SpanBefore(g, 0, ticks, start) \in SUBSET DOMAIN g
      /\ JustBefore(g, start, ticks) \in SUBSET DOMAIN g /\ Since(g, start) \in SUBSET DOMAIN g
      /\ \A from \in Nat : SpanBefore(g, from, ticks, start) \in SUBSET DOMAIN g
  BY DEF SpanBefore, JustBefore, Since
<1>17. \A i \in DOMAIN h : h[i].at < start => i \in DOMAIN g
  <2> SUFFICES ASSUME NEW i \in DOMAIN h, h[i].at < start PROVE i \in DOMAIN g
    OBVIOUS
  <2>1. ~(now < start)
    OBVIOUS
  <2>2. i # k
    BY <1>5, <2>1
  <2> QED BY <1>4, <2>2
<1>18. \A i \in DOMAIN g : i \in DOMAIN h /\ h[i].at = g[i].at
  BY <1>4
<1>10. JustBefore(h, start, ticks) = JustBefore(g, start, ticks)
  BY <1>17, <1>18 DEF JustBefore
<1>11. \A from \in Nat : SpanBefore(h, from, ticks, start) = SpanBefore(g, from, ticks, start)
  BY <1>17, <1>18 DEF SpanBefore
<1>12. Since(h, start) = Since(g, start) \cup {k}
  BY <1>4, <1>5, <1>7 DEF Since
<1>13. SumFunctionOnSet(v, Since(h, start)) = v[k] + SumFunctionOnSet(v, Since(g, start))
  <2>1. IsFiniteSet(Since(h, start)) /\ \A i \in Since(h, start) : v[i] \in Nat
    <3>1. IsFiniteSet(DOMAIN h)
      BY <1>4, <1>6, HistoryFacts
    <3>2. Since(h, start) \in SUBSET DOMAIN h
      BY DEF Since
    <3> QED BY <1>6, <3>1, <3>2, FS_Subset
  <2>2. k \in Since(h, start) /\ Since(h, start) \ {k} = Since(g, start)
    BY <1>4, <1>9, <1>12
  <2> QED BY <2>1, <2>2, SumAnyOrder
<1>14. \A i \in DOMAIN h : h[i].at < start + ticks
  BY <1>4, <1>5 DEF Windowed
<1>15. counted \in Nat
  BY <1>7, <1>9 DEF Windowed
<1>16. Windowed(h, v, start, ticks, counted + v[k], top)
  <2>1. counted + v[k] = SumFunctionOnSet(v, Since(h, start))
    <3>1. counted = SumFunctionOnSet(v, Since(g, start))
      BY <1>8, <1>9 DEF Windowed
    <3>2. v[k] \in Nat
      BY <1>2
    <3> QED BY <1>13, <1>15, <3>1, <3>2
  <2>2. SumFunctionOnSet(v, JustBefore(h, start, ticks)) <= top
    BY <1>8, <1>9, <1>10 DEF Windowed
  <2>3. \A from \in Nat : SumFunctionOnSet(v, SpanBefore(h, from, ticks, start)) <= 2 * top
    BY <1>8, <1>9, <1>11 DEF Windowed
  <2>4. counted + v[k] <= top
    BY <1>2
  <2> QED BY <1>14, <2>1, <2>2, <2>3, <2>4 DEF Windowed
<1> QED BY <1>1, <1>2, <1>16

(* A higher top leaves a window valid. *)
LEMMA WindowRaised ==
  ASSUME NEW g \in Histories, NEW w, \A i \in DOMAIN g : w[i] \in Nat,
         NEW start \in Nat, NEW ticks \in Nat, NEW counted, NEW top \in Nat,
         Windowed(g, w, start, ticks, counted, top), NEW more \in Nat, top <= more
  PROVE  Windowed(g, w, start, ticks, counted, more)
<1>1. \A J \in SUBSET DOMAIN g : SumFunctionOnSet(w, J) \in Nat
  BY HistoryFacts
<1>2. /\ JustBefore(g, start, ticks) \in SUBSET DOMAIN g /\ Since(g, start) \in SUBSET DOMAIN g
      /\ \A from \in Nat : SpanBefore(g, from, ticks, start) \in SUBSET DOMAIN g
  BY DEF SpanBefore, JustBefore, Since
<1>3. counted \in Nat /\ counted <= top
  BY <1>1, <1>2 DEF Windowed
<1>4. SumFunctionOnSet(w, JustBefore(g, start, ticks)) <= more
  <2>1. SumFunctionOnSet(w, JustBefore(g, start, ticks)) <= top
    BY DEF Windowed
  <2> QED BY <1>1, <1>2, <2>1
<1>5. ASSUME NEW from \in Nat PROVE SumFunctionOnSet(w, SpanBefore(g, from, ticks, start)) <= 2 * more
  <2>1. SumFunctionOnSet(w, SpanBefore(g, from, ticks, start)) <= 2 * top
    BY DEF Windowed
  <2> QED BY <1>1, <1>2, <2>1
<1> QED BY <1>3, <1>4, <1>5 DEF Windowed

(* The state that getState returns: its windows have not run out, and fit the history. *)
MeterStates == [tokens : Nat, requests : Nat, windowStart : Nat, dayStart : Nat, kept : BOOLEAN]
Current(s) ==
  /\ s \in MeterStates /\ s.kept
  /\ s.dayStart <= meterClock /\ s.windowStart <= meterClock
  /\ meterClock < s.dayStart + DayTicks /\ meterClock < s.windowStart + MinuteTicks

LEMMA MeterFacts ==
  ASSUME MeterInv
  PROVE  /\ meterClock \in Nat /\ peak.tokens \in Nat /\ peak.requests \in Nat
         /\ DayTicks \in Nat \ {0} /\ MinuteTicks \in Nat \ {0}
         /\ grants \in Histories /\ meter \in MeterStates
         /\ meter.dayStart <= meterClock /\ meter.windowStart <= meterClock
         /\ \A i \in DOMAIN grants : TokensOf(grants)[i] \in Nat /\ OnesOf(grants)[i] \in Nat
<1> USE MeterAssumption
<1>1. meterClock \in Nat /\ \A t \in 0 .. meterClock : t \in Nat
  BY DEF MeterInv, MeterTypeOK
<1>2. peak.tokens \in Nat /\ peak.requests \in Nat
  BY DEF MeterInv, MeterTypeOK, DayAndMinute
<1>3. DayTicks \in Nat \ {0} /\ MinuteTicks \in Nat \ {0}
  OBVIOUS
<1>4. grants \in Histories
  <2>1. [at : 0 .. meterClock, tokens : MeterAmounts] \subseteq [at : Nat, tokens : Nat]
    BY <1>1
  <2>2. PICK S : S = [at : 0 .. meterClock, tokens : MeterAmounts]
    OBVIOUS
  <2>3. PICK T : T = [at : Nat, tokens : Nat]
    OBVIOUS
  <2>4. grants \in Seq(S) /\ S \subseteq T
    BY <2>1, <2>2, <2>3 DEF MeterInv, MeterTypeOK
  <2>5. grants \in Seq(T)
    BY <2>4, SeqMonotonic
  <2> QED BY <2>3, <2>5 DEF Histories
<1>5. meter \in MeterStates /\ meter.dayStart <= meterClock /\ meter.windowStart <= meterClock
  BY <1>1 DEF MeterInv, MeterTypeOK, MeterStates
<1>6. \A i \in DOMAIN grants : TokensOf(grants)[i] \in Nat /\ OnesOf(grants)[i] \in Nat
  <2>1. \A i \in DOMAIN grants : grants[i] \in [at : Nat, tokens : Nat]
    <3>1. DOMAIN grants = 1 .. Len(grants)
      BY <1>4 DEF Histories
    <3> QED BY <1>4, <3>1, ElementOfSeq DEF Histories
  <2> QED BY <2>1 DEF TokensOf, OnesOf
<1> QED BY <1>1, <1>2, <1>3, <1>4, <1>5, <1>6

LEMMA StartedFits ==
  ASSUME MeterInv
  PROVE  /\ Started \in MeterStates /\ Started.kept /\ Fits(Started)
         /\ Started.dayStart <= meterClock /\ Started.windowStart <= meterClock
<1>1. CASE meter.kept
  BY <1>1, MeterFacts DEF Started, MeterInv
<1>2. CASE ~meter.kept
  <2>1. Started = [tokens |-> 0, requests |-> 0, windowStart |-> meterClock, dayStart |-> meterClock, kept |-> TRUE]
    BY <1>2 DEF Started, NoMeter
  <2>2. meterClock \in Nat /\ peak.tokens \in Nat /\ peak.requests \in Nat /\ DayTicks \in Nat /\ MinuteTicks \in Nat
    BY MeterFacts
  <2>3. Started \in MeterStates /\ Started.kept
        /\ Started.dayStart = meterClock /\ Started.windowStart = meterClock
        /\ Started.tokens = 0 /\ Started.requests = 0
    BY <2>1, <2>2 DEF MeterStates
  <2>4. grants = <<>>
    BY <1>2 DEF MeterInv
  <2>5. Fits(Started)
    BY <2>2, <2>3, <2>4, WindowBegins DEF Fits
  <2> QED BY <2>2, <2>3, <2>5
<1> QED BY <1>1, <1>2

LEMMA GetStateFits ==
  ASSUME MeterInv
  PROVE  Current(GetState) /\ Fits(GetState)
<1>0. /\ meterClock \in Nat /\ peak.tokens \in Nat /\ peak.requests \in Nat
      /\ DayTicks \in Nat \ {0} /\ MinuteTicks \in Nat \ {0} /\ grants \in Histories
      /\ \A i \in DOMAIN grants : TokensOf(grants)[i] \in Nat /\ OnesOf(grants)[i] \in Nat
  BY MeterFacts
<1>1. PICK s : s = Started
  OBVIOUS
<1>2. /\ s \in MeterStates /\ s.kept /\ Fits(s)
      /\ s.dayStart <= meterClock /\ s.windowStart <= meterClock
  BY <1>1, StartedFits
<1>3. PICK t : t = IF DayOver(s) THEN NewDay(s) ELSE s
  OBVIOUS
<1>4. /\ t \in MeterStates /\ t.kept /\ Fits(t)
      /\ t.dayStart <= meterClock /\ t.windowStart <= meterClock
      /\ meterClock < t.dayStart + DayTicks
  <2>1. CASE DayOver(s)
    <3>1. t = [s EXCEPT !.tokens = 0, !.dayStart = meterClock]
      BY <1>3, <2>1 DEF NewDay
    <3>2. /\ t \in MeterStates /\ t.kept /\ t.tokens = 0 /\ t.dayStart = meterClock
          /\ t.requests = s.requests /\ t.windowStart = s.windowStart
      BY <1>0, <1>2, <3>1 DEF MeterStates
    <3>3. s.dayStart \in Nat /\ meterClock >= s.dayStart + DayTicks
      BY <1>0, <1>2, <2>1 DEF MeterStates, DayOver
    <3>4. Windowed(grants, TokensOf(grants), meterClock, DayTicks, 0, peak.tokens)
      BY <1>0, <1>2, <3>3, WindowRenewed DEF Fits
    <3>5. Fits(t)
      BY <1>2, <3>2, <3>4 DEF Fits
    <3> QED BY <1>0, <1>2, <3>2, <3>5
  <2>2. CASE ~DayOver(s)
    <3>1. t = s
      BY <1>3, <2>2
    <3>2. s.dayStart \in Nat /\ ~(meterClock - s.dayStart >= DayTicks)
      BY <1>2, <2>2 DEF MeterStates, DayOver
    <3> QED BY <1>0, <1>2, <3>1, <3>2
  <2> QED BY <2>1, <2>2
<1>5. PICK u : u = IF WindowOver(t) THEN NewWindow(t) ELSE t
  OBVIOUS
<1>6. u = GetState
  BY <1>1, <1>3, <1>5 DEF GetState
<1>7. /\ u \in MeterStates /\ u.kept /\ Fits(u)
      /\ u.dayStart = t.dayStart /\ u.windowStart <= meterClock
      /\ meterClock < u.windowStart + MinuteTicks
  <2>1. CASE WindowOver(t)
    <3>1. u = [t EXCEPT !.requests = 0, !.windowStart = meterClock]
      BY <1>5, <2>1 DEF NewWindow
    <3>2. /\ u \in MeterStates /\ u.kept /\ u.requests = 0 /\ u.windowStart = meterClock
          /\ u.tokens = t.tokens /\ u.dayStart = t.dayStart
      BY <1>0, <1>4, <3>1 DEF MeterStates
    <3>3. t.windowStart \in Nat /\ meterClock >= t.windowStart + MinuteTicks
      BY <1>0, <1>4, <2>1 DEF MeterStates, WindowOver
    <3>4. Windowed(grants, OnesOf(grants), meterClock, MinuteTicks, 0, peak.requests)
      BY <1>0, <1>4, <3>3, WindowRenewed DEF Fits
    <3>5. Fits(u)
      BY <1>4, <3>2, <3>4 DEF Fits
    <3> QED BY <1>0, <3>2, <3>5
  <2>2. CASE ~WindowOver(t)
    <3>1. u = t
      BY <1>5, <2>2
    <3>2. t.windowStart \in Nat /\ ~(meterClock - t.windowStart >= MinuteTicks)
      BY <1>4, <2>2 DEF MeterStates, WindowOver
    <3> QED BY <1>0, <1>4, <3>1, <3>2
  <2> QED BY <2>1, <2>2
<1> QED BY <1>4, <1>6, <1>7 DEF Current

LEMMA MeterStarts == MeterInit => MeterInv
<1> SUFFICES ASSUME MeterInit PROVE MeterInv
  OBVIOUS
<1>1. PICK t \in TokenLimits, r \in RequestLimits : allocation = [tokens |-> t, requests |-> r]
  BY DEF MeterInit
<1>2. allocation \in DayAndMinute /\ peak = allocation
  BY <1>1, MeterAssumption DEF MeterInit, DayAndMinute
<1>3. meter = NoMeter /\ meterClock = 0 /\ grants = <<>>
  BY DEF MeterInit
<1>4. meter \in [tokens : Nat, requests : Nat, windowStart : 0 .. 0, dayStart : 0 .. 0, kept : BOOLEAN]
      /\ ~meter.kept
  BY <1>3 DEF NoMeter
<1>5. meterClock \in 0 .. MaxMeterClock
  BY <1>3, MeterAssumption
<1>6. grants \in Seq([at : 0 .. meterClock, tokens : MeterAmounts])
  BY <1>3, EmptySeq
<1>7. MeterTypeOK
  BY <1>2, <1>3, <1>4, <1>5, <1>6 DEF MeterTypeOK
<1>8. allocation.tokens <= peak.tokens /\ allocation.requests <= peak.requests
  BY <1>2 DEF DayAndMinute
<1> QED BY <1>3, <1>4, <1>7, <1>8 DEF MeterInv

LEMMA SetAllocationKeeps ==
  ASSUME MeterInv, NEW t \in TokenLimits, NEW r \in RequestLimits,
         SetAllocation([tokens |-> t, requests |-> r])
  PROVE  MeterInv'
<1>1. /\ meterClock \in Nat /\ peak.tokens \in Nat /\ peak.requests \in Nat
      /\ DayTicks \in Nat /\ MinuteTicks \in Nat /\ grants \in Histories /\ meter \in MeterStates
      /\ \A i \in DOMAIN grants : TokensOf(grants)[i] \in Nat /\ OnesOf(grants)[i] \in Nat
  BY MeterFacts
<1>2. t \in Nat /\ r \in Nat
  BY MeterAssumption
<1>3. PICK p \in Nat, q \in Nat : p = Larger(peak.tokens, t) /\ q = Larger(peak.requests, r)
  BY <1>1, <1>2 DEF Larger
<1>4. p >= peak.tokens /\ p >= t /\ q >= peak.requests /\ q >= r
  BY <1>1, <1>2, <1>3 DEF Larger
<1>5. /\ allocation' = [tokens |-> t, requests |-> r]
      /\ peak' = [tokens |-> p, requests |-> q]
      /\ meter' = meter /\ meterClock' = meterClock /\ grants' = grants
  BY <1>3 DEF SetAllocation
<1>6. /\ allocation' \in DayAndMinute /\ peak' \in DayAndMinute
      /\ peak'.tokens = p /\ peak'.requests = q /\ allocation'.tokens = t /\ allocation'.requests = r
  BY <1>2, <1>5 DEF DayAndMinute
<1>7. MeterTypeOK'
  BY <1>5, <1>6 DEF MeterInv, MeterTypeOK
<1>8. meter.kept => Fits(meter)'
  <2> SUFFICES ASSUME meter.kept PROVE Fits(meter)'
    OBVIOUS
  <2>1. /\ Windowed(grants, TokensOf(grants), meter.dayStart, DayTicks, meter.tokens, peak.tokens)
        /\ Windowed(grants, OnesOf(grants), meter.windowStart, MinuteTicks, meter.requests, peak.requests)
    BY DEF MeterInv, Fits
  <2>2. meter.dayStart \in Nat /\ meter.windowStart \in Nat
    BY <1>1 DEF MeterStates
  <2>3. Windowed(grants, TokensOf(grants), meter.dayStart, DayTicks, meter.tokens, p)
    BY <1>1, <1>4, <2>1, <2>2, WindowRaised
  <2>4. Windowed(grants, OnesOf(grants), meter.windowStart, MinuteTicks, meter.requests, q)
    BY <1>1, <1>4, <2>1, <2>2, WindowRaised
  <2> QED BY <1>5, <1>6, <2>3, <2>4 DEF Fits
<1>9. ~meter'.kept => grants' = <<>>
  BY <1>5 DEF MeterInv
<1> QED BY <1>4, <1>5, <1>6, <1>7, <1>8, <1>9 DEF MeterInv

(* The state that getState returns may replace the one kept, with or without one more grant. *)
LEMMA MeterTyped ==
  ASSUME MeterInv, NEW s \in MeterStates, s.dayStart <= meterClock, s.windowStart <= meterClock,
         meter' = s, UNCHANGED <<allocation, meterClock, peak>>,
         grants' \in Seq([at : 0 .. meterClock, tokens : MeterAmounts])
  PROVE  MeterTypeOK'
<1>1. meterClock \in Nat
  BY MeterFacts
<1>2. s \in [tokens : Nat, requests : Nat, windowStart : 0 .. meterClock, dayStart : 0 .. meterClock, kept : BOOLEAN]
  BY <1>1 DEF MeterStates
<1> QED BY <1>2 DEF MeterInv, MeterTypeOK

LEMMA GetUsageKeeps ==
  ASSUME MeterInv, meter' = GetState, UNCHANGED <<allocation, meterClock, grants, peak>>
  PROVE  MeterInv'
<1>1. PICK s : s = GetState
  OBVIOUS
<1>2. Current(s) /\ Fits(s)
  BY <1>1, GetStateFits
<1>3. MeterTypeOK'
  BY <1>1, <1>2, MeterTyped DEF Current, MeterInv, MeterTypeOK
<1>4. Fits(meter)'
  BY <1>1, <1>2 DEF Fits
<1> QED BY <1>1, <1>2, <1>3, <1>4 DEF Current, MeterInv

LEMMA TryConsumeKeeps ==
  ASSUME MeterInv, NEW n \in MeterAmounts, TryConsume(n)
  PROVE  MeterInv'
<1>1. PICK s : s = GetState
  OBVIOUS
<1>2. Current(s) /\ Fits(s)
  BY <1>1, GetStateFits
<1>3. CASE ~Consumable(s, n)
  BY <1>1, <1>3, GetUsageKeeps DEF TryConsume
<1>4. CASE Consumable(s, n)
  <2>1. /\ meterClock \in Nat /\ peak.tokens \in Nat /\ peak.requests \in Nat
        /\ DayTicks \in Nat /\ MinuteTicks \in Nat /\ grants \in Histories
        /\ \A i \in DOMAIN grants : TokensOf(grants)[i] \in Nat /\ OnesOf(grants)[i] \in Nat
    BY MeterFacts
  <2>2. n \in Nat
    BY MeterAssumption
  <2>3. /\ s \in MeterStates /\ s.kept /\ s.tokens \in Nat /\ s.requests \in Nat
        /\ s.dayStart \in Nat /\ s.windowStart \in Nat
        /\ s.dayStart <= meterClock /\ s.windowStart <= meterClock
        /\ meterClock < s.dayStart + DayTicks /\ meterClock < s.windowStart + MinuteTicks
    BY <1>2 DEF Current, MeterStates
  <2>4. allocation.tokens \in Nat /\ allocation.requests \in Nat
        /\ allocation.tokens <= peak.tokens /\ allocation.requests <= peak.requests
    BY DEF MeterInv, MeterTypeOK, DayAndMinute
  <2>5. s.tokens + n <= peak.tokens /\ s.requests + 1 <= peak.requests
    BY <1>4, <2>1, <2>2, <2>3, <2>4 DEF Consumable
  <2>6. PICK u : u = [s EXCEPT !.requests = @ + 1, !.tokens = @ + n]
    OBVIOUS
  <2>7. /\ u \in MeterStates /\ u.kept /\ u.tokens = s.tokens + n /\ u.requests = s.requests + 1
        /\ u.dayStart = s.dayStart /\ u.windowStart = s.windowStart
    <3>1. u = [tokens |-> s.tokens + n, requests |-> s.requests + 1, windowStart |-> s.windowStart,
               dayStart |-> s.dayStart, kept |-> s.kept]
      BY <2>3, <2>6 DEF MeterStates
    <3> QED BY <2>2, <2>3, <3>1 DEF MeterStates
  <2>8. PICK h : h = Append(grants, [at |-> meterClock, tokens |-> n])
    OBVIOUS
  <2>9. meter' = u /\ grants' = h /\ UNCHANGED <<allocation, meterClock, peak>>
    BY <1>1, <1>4, <2>6, <2>8 DEF TryConsume
  <2>10. h \in Seq([at : 0 .. meterClock, tokens : MeterAmounts])
    <3>1. [at |-> meterClock, tokens |-> n] \in [at : 0 .. meterClock, tokens : MeterAmounts]
      BY <2>1
    <3>2. grants \in Seq([at : 0 .. meterClock, tokens : MeterAmounts])
      BY DEF MeterInv, MeterTypeOK
    <3> QED BY <2>8, <3>1, <3>2, AppendProperties
  <2>11. MeterTypeOK'
    BY <2>3, <2>7, <2>9, <2>10, MeterTyped
  <2>12. PICK k : k = Len(grants) + 1
    OBVIOUS
  <2>13. /\ DOMAIN grants = 1 .. Len(grants) /\ Len(grants) \in Nat
         /\ DOMAIN h = 1 .. k /\ k \in DOMAIN h
         /\ \A i \in DOMAIN grants : i \in DOMAIN h /\ h[i] = grants[i]
         /\ h[k] = [at |-> meterClock, tokens |-> n]
    BY <2>1, <2>8, <2>12 DEF Histories
  <2>14. /\ TokensOf(h)[k] = n /\ OnesOf(h)[k] = 1
         /\ \A i \in DOMAIN grants : TokensOf(h)[i] = TokensOf(grants)[i]
         /\ \A i \in DOMAIN grants : OnesOf(h)[i] = OnesOf(grants)[i]
    BY <2>13 DEF TokensOf, OnesOf
  <2>15. Windowed(h, TokensOf(h), s.dayStart, DayTicks, s.tokens + n, peak.tokens)
    <3>1. PICK w : w = TokensOf(grants)
      OBVIOUS
    <3>2. PICK v : v = TokensOf(h)
      OBVIOUS
    <3>3. Windowed(grants, w, s.dayStart, DayTicks, s.tokens, peak.tokens)
      BY <1>2, <3>1 DEF Fits
    <3>4. v[Len(grants) + 1] = n /\ v[Len(grants) + 1] \in Nat
          /\ (\A i \in DOMAIN grants : v[i] = w[i]) /\ (\A i \in DOMAIN grants : w[i] \in Nat)
      BY <2>1, <2>2, <2>12, <2>14, <3>1, <3>2
    <3>5. s.tokens + v[Len(grants) + 1] <= peak.tokens
      BY <2>5, <3>4
    <3>6. Windowed(Append(grants, [at |-> meterClock, tokens |-> n]), v, s.dayStart, DayTicks,
                   s.tokens + v[Len(grants) + 1], peak.tokens)
      BY <2>1, <2>2, <2>3, <3>3, <3>4, <3>5, WindowGrows
    <3> QED BY <2>8, <3>2, <3>4, <3>6
  <2>16. Windowed(h, OnesOf(h), s.windowStart, MinuteTicks, s.requests + 1, peak.requests)
    <3>1. PICK w : w = OnesOf(grants)
      OBVIOUS
    <3>2. PICK v : v = OnesOf(h)
      OBVIOUS
    <3>3. Windowed(grants, w, s.windowStart, MinuteTicks, s.requests, peak.requests)
      BY <1>2, <3>1 DEF Fits
    <3>4. v[Len(grants) + 1] = 1 /\ v[Len(grants) + 1] \in Nat
          /\ (\A i \in DOMAIN grants : v[i] = w[i]) /\ (\A i \in DOMAIN grants : w[i] \in Nat)
      BY <2>1, <2>12, <2>14, <3>1, <3>2
    <3>5. s.requests + v[Len(grants) + 1] <= peak.requests
      BY <2>5, <3>4
    <3>6. Windowed(Append(grants, [at |-> meterClock, tokens |-> n]), v, s.windowStart, MinuteTicks,
                   s.requests + v[Len(grants) + 1], peak.requests)
      BY <2>1, <2>2, <2>3, <3>3, <3>4, <3>5, WindowGrows
    <3> QED BY <2>8, <3>2, <3>4, <3>6
  <2>17. Fits(meter)'
    BY <2>7, <2>9, <2>15, <2>16 DEF Fits
  <2> QED BY <2>4, <2>7, <2>9, <2>11, <2>17 DEF MeterInv
<1> QED BY <1>3, <1>4

LEMMA MeterStepKeeps == MeterInv /\ [MeterNext]_meterVars => MeterInv'
<1> SUFFICES ASSUME MeterInv, [MeterNext]_meterVars PROVE MeterInv'
  OBVIOUS
<1>1. CASE \E t \in TokenLimits, r \in RequestLimits : SetAllocation([tokens |-> t, requests |-> r])
  BY <1>1, SetAllocationKeeps
<1>2. CASE \E n \in MeterAmounts : TryConsume(n)
  BY <1>2, TryConsumeKeeps
<1>3. CASE GetUsage
  BY <1>3, GetUsageKeeps DEF GetUsage
<1>4. CASE ResetMeter
  <2>1. PICK s : s = NoMeter
    OBVIOUS
  <2>2. s \in MeterStates /\ s.dayStart = 0 /\ s.windowStart = 0 /\ ~s.kept
    BY <2>1 DEF NoMeter, MeterStates
  <2>3. meter' = s /\ grants' = <<>> /\ UNCHANGED <<allocation, meterClock, peak>>
    BY <1>4, <2>1 DEF ResetMeter
  <2>4. grants' \in Seq([at : 0 .. meterClock, tokens : MeterAmounts])
    BY <2>3, EmptySeq
  <2>5. meterClock \in Nat
    BY MeterFacts
  <2>6. s.dayStart <= meterClock /\ s.windowStart <= meterClock
    BY <2>2, <2>5
  <2>7. MeterTypeOK'
    BY <2>2, <2>3, <2>4, <2>6, MeterTyped
  <2> QED BY <2>2, <2>3, <2>7 DEF MeterInv
<1>5. CASE MeterTick
  <2>1. /\ meterClock' = meterClock + 1 /\ meterClock < MaxMeterClock
        /\ UNCHANGED <<allocation, meter, grants, peak>>
    BY <1>5 DEF MeterTick
  <2>2. meterClock \in 0 .. MaxMeterClock /\ meterClock' \in 0 .. MaxMeterClock
        /\ 0 .. meterClock \subseteq 0 .. meterClock'
    BY <2>1, MeterAssumption DEF MeterInv, MeterTypeOK
  <2>3. grants' \in Seq([at : 0 .. meterClock', tokens : MeterAmounts])
    <3>1. PICK S : S = [at : 0 .. meterClock, tokens : MeterAmounts]
      OBVIOUS
    <3>2. PICK T : T = [at : 0 .. meterClock', tokens : MeterAmounts]
      OBVIOUS
    <3>3. S \subseteq T
      BY <2>2, <3>1, <3>2
    <3>4. grants \in Seq(S)
      BY <3>1 DEF MeterInv, MeterTypeOK
    <3>5. grants \in Seq(T)
      BY <3>3, <3>4, SeqMonotonic
    <3> QED BY <2>1, <3>2, <3>5
  <2>4. meter' \in [tokens : Nat, requests : Nat, windowStart : 0 .. meterClock',
                    dayStart : 0 .. meterClock', kept : BOOLEAN]
    BY <2>1, <2>2 DEF MeterInv, MeterTypeOK
  <2>5. MeterTypeOK'
    BY <2>1, <2>2, <2>3, <2>4 DEF MeterInv, MeterTypeOK
  <2> QED BY <2>1, <2>5 DEF MeterInv, Fits
<1>6. CASE UNCHANGED meterVars
  BY <1>6 DEF meterVars, MeterInv, MeterTypeOK, Fits
<1> QED BY <1>1, <1>2, <1>3, <1>4, <1>5, <1>6 DEF MeterNext

(* What is counted in a window that fits is what was granted in it, and no span sees more. *)
LEMMA MeterInvSuffices == MeterInv => MeterHolds
<1> SUFFICES ASSUME MeterInv PROVE MeterHolds
  OBVIOUS
<1>1. /\ meterClock \in Nat /\ peak.tokens \in Nat /\ peak.requests \in Nat
      /\ DayTicks \in Nat /\ MinuteTicks \in Nat /\ grants \in Histories /\ meter \in MeterStates
      /\ \A i \in DOMAIN grants : TokensOf(grants)[i] \in Nat /\ OnesOf(grants)[i] \in Nat
  BY MeterFacts
<1>2. meter.dayStart \in Nat /\ meter.windowStart \in Nat
  BY <1>1 DEF MeterStates
<1>3. \A I \in SUBSET DOMAIN grants :
        /\ TokensIn(I) = SumFunctionOnSet(TokensOf(grants), I)
        /\ Cardinality(I) = SumFunctionOnSet(OnesOf(grants), I)
  <2> SUFFICES ASSUME NEW I \in SUBSET DOMAIN grants
               PROVE  /\ TokensIn(I) = SumFunctionOnSet(TokensOf(grants), I)
                      /\ Cardinality(I) = SumFunctionOnSet(OnesOf(grants), I)
    OBVIOUS
  <2>1. PICK w : w = TokensOf(grants)
    OBVIOUS
  <2>2. PICK o : o = OnesOf(grants)
    OBVIOUS
  <2>3. PICK v : v = [i \in I |-> grants[i].tokens]
    OBVIOUS
  <2>4. IsFiniteSet(I)
    BY <1>1, <2>2, HistoryFacts
  <2>5. \A i \in I : v[i] \in Nat /\ w[i] = v[i] /\ o[i] = 1
    BY <1>1, <2>1, <2>2, <2>3 DEF TokensOf, OnesOf
  <2>6. SumFunctionOnSet(w, I) = SumFunctionOnSet(v, I)
    BY <2>4, <2>5, SumSame
  <2>7. SumFunctionOnSet(o, I) = Cardinality(I)
    BY <2>4, <2>5, SumOfOnes
  <2> QED BY <2>1, <2>2, <2>3, <2>6, <2>7 DEF TokensIn
<1>4. meter.kept =>
        /\ meter.tokens = TokensIn(Between(meter.dayStart, DayTicks)) /\ meter.tokens <= peak.tokens
        /\ meter.requests = Cardinality(Between(meter.windowStart, MinuteTicks)) /\ meter.requests <= peak.requests
  <2> SUFFICES ASSUME meter.kept
               PROVE  /\ meter.tokens = TokensIn(Between(meter.dayStart, DayTicks))
                      /\ meter.tokens <= peak.tokens
                      /\ meter.requests = Cardinality(Between(meter.windowStart, MinuteTicks))
                      /\ meter.requests <= peak.requests
    OBVIOUS
  <2>1. Fits(meter)
    BY DEF MeterInv
  <2>2. Between(meter.dayStart, DayTicks) = Since(grants, meter.dayStart)
    BY <2>1 DEF Fits, Windowed, Between, Since
  <2>3. Between(meter.windowStart, MinuteTicks) = Since(grants, meter.windowStart)
    BY <2>1 DEF Fits, Windowed, Between, Since
  <2>4. Since(grants, meter.dayStart) \in SUBSET DOMAIN grants /\ Since(grants, meter.windowStart) \in SUBSET DOMAIN grants
    BY DEF Since
  <2>5. meter.tokens = SumFunctionOnSet(TokensOf(grants), Since(grants, meter.dayStart)) /\ meter.tokens <= peak.tokens
    BY <2>1 DEF Fits, Windowed
  <2>6. meter.requests = SumFunctionOnSet(OnesOf(grants), Since(grants, meter.windowStart)) /\ meter.requests <= peak.requests
    BY <2>1 DEF Fits, Windowed
  <2> QED BY <1>3, <2>2, <2>3, <2>4, <2>5, <2>6
<1>5. ASSUME NEW from \in 0 .. meterClock
      PROVE  /\ TokensIn(Between(from, DayTicks)) <= 2 * peak.tokens
             /\ Cardinality(Between(from, MinuteTicks)) <= 2 * peak.requests
  <2>1. from \in Nat
    BY <1>1
  <2>2. Between(from, DayTicks) \in SUBSET DOMAIN grants /\ Between(from, MinuteTicks) \in SUBSET DOMAIN grants
    BY DEF Between
  <2>3. PICK w : w = TokensOf(grants)
    OBVIOUS
  <2>4. PICK o : o = OnesOf(grants)
    OBVIOUS
  <2>5. CASE meter.kept
    <3>1. SumFunctionOnSet(w, Between(from, DayTicks)) <= 2 * peak.tokens
      <4>1. Windowed(grants, w, meter.dayStart, DayTicks, meter.tokens, peak.tokens)
        BY <2>3, <2>5 DEF MeterInv, Fits
      <4>2. Between(from, DayTicks) \in SUBSET {i \in DOMAIN grants : grants[i].at >= from /\ grants[i].at < from + DayTicks}
        BY DEF Between
      <4> QED BY <1>1, <1>2, <2>1, <2>3, <4>1, <4>2, SpanBound
    <3>2. SumFunctionOnSet(o, Between(from, MinuteTicks)) <= 2 * peak.requests
      <4>1. Windowed(grants, o, meter.windowStart, MinuteTicks, meter.requests, peak.requests)
        BY <2>4, <2>5 DEF MeterInv, Fits
      <4>2. Between(from, MinuteTicks) \in SUBSET {i \in DOMAIN grants : grants[i].at >= from /\ grants[i].at < from + MinuteTicks}
        BY DEF Between
      <4> QED BY <1>1, <1>2, <2>1, <2>4, <4>1, <4>2, SpanBound
    <3> QED BY <1>3, <2>2, <2>3, <2>4, <3>1, <3>2
  <2>6. CASE ~meter.kept
    <3>1. DOMAIN grants = {}
      BY <2>6 DEF MeterInv
    <3>2. Between(from, DayTicks) = {} /\ Between(from, MinuteTicks) = {}
      BY <2>2, <3>1
    <3>3. SumFunctionOnSet(w, {}) = 0 /\ SumFunctionOnSet(o, {}) = 0
      BY SumEmpty
    <3>4. TokensIn(Between(from, DayTicks)) = 0 /\ Cardinality(Between(from, MinuteTicks)) = 0
      BY <1>3, <2>2, <2>3, <2>4, <3>2, <3>3
    <3> QED BY <1>1, <3>4
  <2> QED BY <2>5, <2>6
<1> QED BY <1>4, <1>5 DEF MeterHolds, MeterInv

(* recordUsage adds a request's tokens before it compares the totals, so callers whose calls *)
(* interleave are never allowed more together than the highest limits in force; and the      *)
(* tracker in memory counts exactly what it has allowed since its windows began, so that no  *)
(* span of time as long as a window sees more than twice the largest allocation.             *)
THEOREM BudgetsAreKept == Spec => []BudgetsHold
<1>1. Init => BudgetInv /\ MeterInv
  BY BudgetStarts, MeterStarts DEF Init
<1>2. BudgetInv /\ MeterInv /\ [Next]_vars => BudgetInv' /\ MeterInv'
  BY BudgetMoves, MeterMoves, BudgetStepKeeps, MeterStepKeeps
<1>3. BudgetInv /\ MeterInv => BudgetsHold
  BY BudgetInvSuffices, MeterInvSuffices DEF BudgetsHold
<1> QED BY <1>1, <1>2, <1>3, PTL DEF Spec

-----------------------------------------------------------------------------
(* Order. *)

(* Numbers listed in order: each rank up to the size of a finite set belongs to one element. *)
LEMMA RankGrows ==
  ASSUME NEW S \in SUBSET Int, IsFiniteSet(S), NEW i \in S, NEW j \in S, i < j
  PROVE  Rank(S, i) \in 1 .. Cardinality(S) /\ Rank(S, i) < Rank(S, j)
<1>1. PICK A : A = {l \in S : l <= i}
  OBVIOUS
<1>2. PICK B : B = {l \in S : l <= j}
  OBVIOUS
<1>3. A \in SUBSET S /\ B \in SUBSET S /\ A \in SUBSET B /\ i \in A /\ j \in B /\ j \notin A
  <2>1. A \in SUBSET S /\ B \in SUBSET S
    BY <1>1, <1>2
  <2>2. \A l \in S : l <= i => l <= j
    OBVIOUS
  <2>3. ~(j <= i) /\ i <= i /\ j <= j
    OBVIOUS
  <2> QED BY <1>1, <1>2, <2>1, <2>2, <2>3
<1>4. IsFiniteSet(A) /\ IsFiniteSet(B)
  BY <1>3, FS_Subset
<1>5. Cardinality(A) <= Cardinality(S) /\ Cardinality(A) <= Cardinality(B) /\ Cardinality(A) # Cardinality(B)
  BY <1>3, <1>4, FS_Subset
<1>6. Cardinality(A) # 0
  BY <1>3, <1>4, FS_EmptySet
<1>7. Cardinality(A) \in Nat /\ Cardinality(B) \in Nat /\ Cardinality(S) \in Nat
  BY <1>4, FS_CardinalityType
<1>8. Rank(S, i) = Cardinality(A) /\ Rank(S, j) = Cardinality(B)
  BY <1>1, <1>2 DEF Rank
<1> QED BY <1>5, <1>6, <1>7, <1>8

LEMMA RankBounds ==
  ASSUME NEW S \in SUBSET Int, IsFiniteSet(S), NEW i \in S
  PROVE  Rank(S, i) \in 1 .. Cardinality(S)
<1>1. PICK A : A = {l \in S : l <= i}
  OBVIOUS
<1>2. A \in SUBSET S /\ i \in A
  BY <1>1
<1>3. IsFiniteSet(A) /\ Cardinality(A) <= Cardinality(S)
  BY <1>2, FS_Subset
<1>4. Cardinality(A) # 0
  BY <1>2, <1>3, FS_EmptySet
<1>5. Cardinality(A) \in Nat /\ Cardinality(S) \in Nat
  BY <1>3, FS_CardinalityType
<1>6. Rank(S, i) = Cardinality(A)
  BY <1>1 DEF Rank
<1> QED BY <1>3, <1>4, <1>5, <1>6

LEMMA RankTaken ==
  ASSUME NEW S \in SUBSET Int, IsFiniteSet(S), NEW n \in 1 .. Cardinality(S)
  PROVE  \E i \in S : Rank(S, i) = n
<1>1. PICK r : r = [i \in S |-> Rank(S, i)]
  OBVIOUS
<1>2. r \in [S -> 1 .. Cardinality(S)]
  BY <1>1, RankBounds
<1>3. \A i, j \in S : i # j => r[i] # r[j]
  <2>1. SUFFICES ASSUME NEW i \in S, NEW j \in S, i < j PROVE r[i] # r[j]
    OBVIOUS
  <2>2. Rank(S, i) < Rank(S, j) /\ Rank(S, i) \in Nat /\ Rank(S, j) \in Nat
    BY <2>1, RankGrows, RankBounds
  <2> QED BY <1>1, <2>2
<1>4. r \in Injection(S, 1 .. Cardinality(S))
  BY <1>2, <1>3 DEF Injection, IsInjective
<1>5. Cardinality(S) \in Nat
  BY FS_CardinalityType
<1>6. IsFiniteSet(1 .. Cardinality(S)) /\ Cardinality(1 .. Cardinality(S)) = Cardinality(S)
  BY <1>5, FS_Interval
<1>7. r \in Surjection(S, 1 .. Cardinality(S))
  BY <1>4, <1>6, FS_Injection
<1>8. \E i \in S : r[i] = n
  BY <1>7 DEF Surjection
<1> QED BY <1>1, <1>8

(* InOrder lists the set, increasing. *)
LEMMA InOrderLists ==
  ASSUME NEW S \in SUBSET Int, IsFiniteSet(S)
  PROVE  /\ InOrder(S) \in [1 .. Cardinality(S) -> S]
         /\ \A m, n \in 1 .. Cardinality(S) : m < n => InOrder(S)[m] < InOrder(S)[n]
         /\ \A i \in S : \E n \in 1 .. Cardinality(S) : InOrder(S)[n] = i
<1>1. ASSUME NEW n \in 1 .. Cardinality(S)
      PROVE InOrder(S)[n] \in S /\ Rank(S, InOrder(S)[n]) = n
  <2>1. InOrder(S)[n] = CHOOSE i \in S : Rank(S, i) = n
    BY DEF InOrder
  <2>2. PICK i \in S : Rank(S, i) = n
    BY RankTaken
  <2> HIDE DEF Rank
  <2> QED BY <2>1, <2>2
<1>2. InOrder(S) \in [1 .. Cardinality(S) -> S]
  <2>1. InOrder(S) = [n \in 1 .. Cardinality(S) |-> InOrder(S)[n]]
    BY DEF InOrder
  <2> QED BY <1>1, <2>1
<1>3. ASSUME NEW m \in 1 .. Cardinality(S), NEW n \in 1 .. Cardinality(S), m < n
      PROVE InOrder(S)[m] < InOrder(S)[n]
  <2>1. PICK i \in S : i = InOrder(S)[m] /\ Rank(S, i) = m
    BY <1>1
  <2>2. PICK j \in S : j = InOrder(S)[n] /\ Rank(S, j) = n
    BY <1>1
  <2>3. i # j
    BY <1>3, <2>1, <2>2
  <2>4. j < i => n < m
    BY <2>1, <2>2, RankGrows
  <2>5. ~(n < m)
    BY <1>3
  <2> QED BY <2>1, <2>2, <2>3, <2>4, <2>5
<1>4. ASSUME NEW i \in S PROVE \E n \in 1 .. Cardinality(S) : InOrder(S)[n] = i
  <2>1. PICK n \in 1 .. Cardinality(S) : n = Rank(S, i)
    BY RankBounds
  <2>2. PICK j \in S : j = InOrder(S)[n] /\ Rank(S, j) = n
    BY <1>1
  <2>3. i < j => Rank(S, i) < Rank(S, j)
    BY RankGrows
  <2>4. j < i => Rank(S, j) < Rank(S, i)
    BY RankGrows
  <2>5. ~(n < n)
    OBVIOUS
  <2>6. i = j
    BY <2>1, <2>2, <2>3, <2>4, <2>5
  <2> QED BY <2>2, <2>6
<1> QED BY <1>2, <1>3, <1>4

(* A list that goes up is the list of its elements in order. *)
LEMMA Listed ==
  ASSUME NEW m \in Nat, NEW S \in SUBSET Int, NEW f \in [1 .. m -> S],
         \A i, j \in 1 .. m : i < j => f[i] < f[j],
         \A x \in S : \E i \in 1 .. m : f[i] = x
  PROVE  IsFiniteSet(S) /\ Cardinality(S) = m /\ InOrder(S) = f
<1>1. IsFiniteSet(1 .. m) /\ Cardinality(1 .. m) = m
  BY FS_Interval
<1>2. f \in Bijection(1 .. m, S)
  <2>1. \A i, j \in 1 .. m : f[i] = f[j] => i = j
    <3>1. \A i, j \in 1 .. m : i < j \/ j < i \/ i = j
      OBVIOUS
    <3>2. \A i \in 1 .. m : f[i] \in Int
      OBVIOUS
    <3>3. \A x, y \in Int : x < y => x # y
      OBVIOUS
    <3> QED BY <3>1, <3>2, <3>3
  <2> QED BY <2>1 DEF Bijection, Injection, Surjection, IsInjective
<1>3. IsFiniteSet(S) /\ Cardinality(S) = m
  BY <1>1, <1>2, FS_Bijection DEF ExistsBijection
<1>4. PICK g \in [1 .. m -> S] :
        /\ g = InOrder(S)
        /\ \A i, j \in 1 .. m : i < j => g[i] < g[j]
        /\ \A x \in S : \E i \in 1 .. m : g[i] = x
  BY <1>3, InOrderLists
<1>5. PICK Bad : Bad = {n \in 1 .. m : f[n] # g[n]}
  OBVIOUS
<1>6. ASSUME Bad # {} PROVE FALSE
  <2>1. PICK n \in Bad : \A k \in Bad : n <= k
    <3>1. Bad \in SUBSET Nat
      BY <1>5
    <3> QED BY <1>6, <3>1, NatMin
  <2>2. n \in 1 .. m /\ f[n] # g[n] /\ f[n] \in Int /\ g[n] \in Int
    BY <1>5, <2>1
  <2>3. \A i \in 1 .. m : i < n => f[i] = g[i]
    <3>1. \A i \in 1 .. m : i < n => ~(n <= i)
      BY <2>2
    <3> QED BY <1>5, <2>1, <3>1
  <2>4. PICK k \in 1 .. m : g[k] = f[n]
    BY <1>4, <2>2
  <2>5. PICK l \in 1 .. m : f[l] = g[n]
    BY <2>2
  <2>6. n < k
    <3>1. ~(k < n)
      <4>1. k < n => f[k] = f[n] /\ f[k] < f[n]
        BY <2>2, <2>3, <2>4
      <4> QED BY <2>2, <4>1
    <3> QED BY <2>2, <2>4, <3>1
  <2>7. n < l
    <3>1. ~(l < n)
      <4>1. l < n => g[l] = g[n] /\ g[l] < g[n]
        BY <1>4, <2>2, <2>3, <2>5
      <4> QED BY <2>2, <4>1
    <3> QED BY <2>2, <2>5, <3>1
  <2>8. g[n] < f[n] /\ f[n] < g[n]
    BY <1>4, <2>2, <2>4, <2>5, <2>6, <2>7
  <2> QED BY <2>2, <2>8
<1>7. f = g
  BY <1>5, <1>6
<1> QED BY <1>3, <1>4, <1>7

(* K is I, which is among the first a places, and J among the b behind them, where t is s. *)
Joined(V, a, b, s, t, I, J, K) ==
  /\ a \in Nat /\ b \in Nat
  /\ I \in SUBSET (1 .. a) /\ J \in SUBSET (1 .. b) /\ K \in SUBSET (1 .. (a + b))
  /\ \A i \in 1 .. a : i \in K <=> i \in I
  /\ \A j \in 1 .. b : a + j \in K <=> j \in J
  /\ \A n \in 1 .. (a + b) : s[n] \in V
  /\ \A j \in J : t[j] = s[a + j]

LEMMA Behind ==
  ASSUME NEW p \in Nat, NEW q \in Nat, NEW n \in 1 .. q
  PROVE  p + n \in 1 .. (p + q) /\ ~(p + n <= p) /\ (p + n) - p = n
OBVIOUS

(* What is kept of the first a elements and then of those behind them. *)
LEMMA KeepJoined ==
  ASSUME NEW V, NEW a, NEW b, NEW s, NEW t, NEW I, NEW J, NEW K,
         Joined(V, a, b, s, t, I, J, K)
  PROVE  /\ Keep(s, I) \in Seq(V) /\ Keep(s, K) \in Seq(V)
         /\ Keep(s, K) = Keep(s, I) \o Keep(t, J)
<1> USE DEF Joined
<1>1. IsFiniteSet(I) /\ IsFiniteSet(J)
  <2>1. IsFiniteSet(1 .. a) /\ IsFiniteSet(1 .. b)
    BY FS_Interval
  <2> QED BY <2>1, FS_Subset
<1>2. PICK p \in Nat : p = Cardinality(I)
  BY <1>1, FS_CardinalityType
<1>3. PICK q \in Nat : q = Cardinality(J)
  BY <1>1, FS_CardinalityType
<1>4. PICK x \in [1 .. p -> I] :
        /\ x = InOrder(I)
        /\ \A i, j \in 1 .. p : i < j => x[i] < x[j]
        /\ \A e \in I : \E i \in 1 .. p : x[i] = e
  BY <1>1, <1>2, InOrderLists
<1>5. PICK y \in [1 .. q -> J] :
        /\ y = InOrder(J)
        /\ \A i, j \in 1 .. q : i < j => y[i] < y[j]
        /\ \A e \in J : \E i \in 1 .. q : y[i] = e
  BY <1>1, <1>3, InOrderLists
<1>6. PICK f : f = [n \in 1 .. (p + q) |-> IF n <= p THEN x[n] ELSE a + y[n - p]]
  OBVIOUS
<1>7. \A n \in 1 .. p : n \in 1 .. (p + q) /\ f[n] = x[n] /\ x[n] \in I
  BY <1>6
<1>8. \A n \in 1 .. q : p + n \in 1 .. (p + q) /\ f[p + n] = a + y[n] /\ y[n] \in J
  <2> SUFFICES ASSUME NEW n \in 1 .. q PROVE p + n \in 1 .. (p + q) /\ f[p + n] = a + y[n] /\ y[n] \in J
    OBVIOUS
  <2>1. p + n \in 1 .. (p + q) /\ ~(p + n <= p) /\ (p + n) - p = n
    BY Behind
  <2> QED BY <1>6, <2>1
<1>9. \A n \in 1 .. (p + q) : n \in 1 .. p \/ \E l \in 1 .. q : n = p + l
  <2> SUFFICES ASSUME NEW n \in 1 .. (p + q), ~(n \in 1 .. p) PROVE \E l \in 1 .. q : n = p + l
    OBVIOUS
  <2>1. n - p \in 1 .. q /\ n = p + (n - p)
    OBVIOUS
  <2> QED BY <2>1
<1>10. f \in [1 .. (p + q) -> K]
  <2>1. \A n \in 1 .. (p + q) : f[n] \in K
    <3>1. \A i \in I : i \in K
      OBVIOUS
    <3>2. \A j \in J : a + j \in K
      OBVIOUS
    <3>3. \A n \in 1 .. p : f[n] \in K
      BY <1>7, <3>1
    <3>4. \A n \in 1 .. q : f[p + n] \in K
      BY <1>8, <3>2
    <3> QED BY <1>9, <3>3, <3>4
  <2> QED BY <1>6, <2>1
<1>11. ASSUME NEW i \in 1 .. (p + q), NEW j \in 1 .. (p + q), i < j
       PROVE f[i] < f[j]
  <2>1. CASE i \in 1 .. p /\ j \in 1 .. p
    BY <1>4, <1>7, <1>11, <2>1
  <2>2. ASSUME i \in 1 .. p, NEW l \in 1 .. q, j = p + l
        PROVE f[i] < f[j]
    <3>1. f[i] = x[i] /\ x[i] \in 1 .. a
      BY <1>7, <2>2
    <3>2. f[j] = a + y[l] /\ y[l] \in 1 .. b
      BY <1>8, <2>2
    <3> QED BY <3>1, <3>2
  <2>3. ASSUME NEW k \in 1 .. q, i = p + k, NEW l \in 1 .. q, j = p + l
        PROVE f[i] < f[j]
    <3>1. f[i] = a + y[k] /\ y[k] \in 1 .. b
      BY <1>8, <2>3
    <3>2. f[j] = a + y[l] /\ y[l] \in 1 .. b
      BY <1>8, <2>3
    <3>3. k < l
      BY <1>11, <2>3
    <3>4. y[k] < y[l]
      BY <1>5, <3>3
    <3> QED BY <3>1, <3>2, <3>4
  <2>4. ~(\E k \in 1 .. q : i = p + k /\ j \in 1 .. p)
    BY <1>11
  <2> QED BY <1>9, <2>1, <2>2, <2>3, <2>4
<1>12. ASSUME NEW e \in K PROVE \E n \in 1 .. (p + q) : f[n] = e
  <2>1. CASE e \in 1 .. a
    BY <1>4, <1>7, <2>1
  <2>2. CASE e > a
    <3>1. PICK l \in 1 .. b : l = e - a
      BY <2>2
    <3>2. e = a + l /\ l \in J
      BY <2>2, <3>1
    <3>3. PICK n \in 1 .. q : y[n] = l
      BY <1>5, <3>2
    <3>4. p + n \in 1 .. (p + q) /\ f[p + n] = e
      BY <1>8, <3>2, <3>3
    <3> QED BY <3>4
  <2>3. e \in 1 .. (a + b) /\ a \in Nat
    OBVIOUS
  <2>4. e \in 1 .. a \/ e > a
    BY <2>3
  <2> QED BY <2>1, <2>2, <2>4
<1>13. Cardinality(K) = p + q /\ InOrder(K) = f
  <2>1. p + q \in Nat /\ K \in SUBSET Int
    OBVIOUS
  <2>2. \A i, j \in 1 .. (p + q) : i < j => f[i] < f[j]
    BY <1>11
  <2>3. \A e \in K : \E n \in 1 .. (p + q) : f[n] = e
    BY <1>12
  <2> QED BY <1>10, <2>1, <2>2, <2>3, Listed
<1>14. /\ Keep(s, I) = [n \in 1 .. p |-> s[x[n]]]
       /\ Keep(t, J) = [n \in 1 .. q |-> t[y[n]]]
       /\ Keep(s, K) = [n \in 1 .. (p + q) |-> s[f[n]]]
  BY <1>2, <1>3, <1>4, <1>5, <1>13 DEF Keep
<1>15. \A n \in 1 .. q : t[y[n]] = s[a + y[n]] /\ a + y[n] \in 1 .. (a + b)
  BY <1>8
<1>16. /\ Keep(s, I) \in Seq(V) /\ Len(Keep(s, I)) = p
       /\ Keep(t, J) \in Seq(V) /\ Len(Keep(t, J)) = q
       /\ Keep(s, K) \in Seq(V) /\ Len(Keep(s, K)) = p + q
  <2>1. \A n \in 1 .. p : s[x[n]] \in V
    BY <1>7
  <2>2. \A n \in 1 .. q : t[y[n]] \in V
    BY <1>15
  <2>3. \A n \in 1 .. (p + q) : s[f[n]] \in V
    BY <1>10
  <2> QED BY <1>14, <2>1, <2>2, <2>3
<1>17. \A n \in 1 .. (p + q) : Keep(s, K)[n] = (Keep(s, I) \o Keep(t, J))[n]
  <2>1. \A n \in 1 .. p : Keep(s, K)[n] = (Keep(s, I) \o Keep(t, J))[n]
    BY <1>7, <1>14, <1>16, ConcatProperties
  <2>2. \A n \in 1 .. q : Keep(s, K)[p + n] = (Keep(s, I) \o Keep(t, J))[p + n]
    <3> SUFFICES ASSUME NEW n \in 1 .. q PROVE Keep(s, K)[p + n] = (Keep(s, I) \o Keep(t, J))[p + n]
      OBVIOUS
    <3>1. p + n \in 1 .. (p + q) /\ ~(p + n <= p) /\ (p + n) - p = n
      BY Behind
    <3>2. (Keep(s, I) \o Keep(t, J))[p + n] = Keep(t, J)[n]
      <4>1. \A i \in 1 .. (p + q) : (Keep(s, I) \o Keep(t, J))[i] =
                 IF i <= p THEN Keep(s, I)[i] ELSE Keep(t, J)[i - p]
        BY <1>16, ConcatProperties
      <4> QED BY <3>1, <4>1
    <3> QED BY <1>8, <1>14, <1>15, <3>1, <3>2
  <2> QED BY <1>9, <2>1, <2>2
<1>18. Keep(s, I) \o Keep(t, J) \in Seq(V) /\ Len(Keep(s, I) \o Keep(t, J)) = p + q
  BY <1>16, ConcatProperties
<1>19. \A u, v \in Seq(V) : Len(u) = Len(v) /\ (\A n \in 1 .. Len(u) : u[n] = v[n]) => u = v
  BY SeqEqual
<1> QED BY <1>16, <1>17, <1>18, <1>19

LEMMA KeepNone == ASSUME NEW s PROVE Keep(s, {}) = <<>>
<1>1. Cardinality({}) = 0
  BY FS_EmptySet
<1>2. 1 .. 0 = {}
  OBVIOUS
<1> QED BY <1>1, <1>2 DEF Keep

(* The least and the largest of a finite set of numbers. *)
LEMMA Extremes ==
  ASSUME NEW S \in SUBSET Nat, IsFiniteSet(S), S # {}
  PROVE  /\ Max(S) \in S /\ \A y \in S : y <= Max(S)
         /\ Min(S) \in S /\ \A y \in S : Min(S) <= y
<1>1. PICK c \in Nat : c = Cardinality(S)
  BY FS_CardinalityType
<1>2. c # 0
  BY <1>1, FS_EmptySet
<1>3. PICK f : f = InOrder(S)
  OBVIOUS
<1>4. /\ f \in [1 .. c -> S]
      /\ \A i, j \in 1 .. c : i < j => f[i] < f[j]
      /\ \A y \in S : \E i \in 1 .. c : f[i] = y
  BY <1>1, <1>3, InOrderLists
<1>5. PICK m \in S : m = f[c]
  <2>1. c \in 1 .. c
    BY <1>1, <1>2
  <2> QED BY <1>4, <2>1
<1>6. \A y \in S : m >= y
  <2> SUFFICES ASSUME NEW i \in 1 .. c PROVE m >= f[i]
    BY <1>4
  <2>1. i < c \/ i = c
    OBVIOUS
  <2>2. c \in 1 .. c /\ f[i] \in S /\ f[c] \in S
    <3>1. c \in 1 .. c
      BY <1>1, <1>2
    <3> QED BY <1>4, <3>1
  <2>3. f[i] \in Nat /\ f[c] \in Nat
    BY <2>2
  <2>4. i < c => f[i] < f[c]
    BY <1>4, <2>2
  <2>5. f[c] >= f[i]
    BY <2>1, <2>3, <2>4
  <2> QED BY <1>5, <2>5
<1>7. Max(S) \in S /\ \A y \in S : Max(S) >= y
  BY <1>6 DEF Max
<1>8. \E x \in S : \A y \in S : x =< y
  BY NatMin
<1>9. Min(S) \in S /\ \A y \in S : Min(S) =< y
  BY <1>8 DEF Min
<1> QED BY <1>7, <1>9

-----------------------------------------------------------------------------
(* The listing of agents. *)

ListingType ==
  [pc : {"idle", "count", "select", "done"}, size : Nat \ {0}, cursor : Nat, total : Nat,
   shown : Seq(AgentIds), stable : SUBSET AgentIds, reads : Nat]
Shows(s, i) == \E a \in 1 .. Len(s) : s[a] = i
Rising(s) == \A a, b \in 1 .. Len(s) : a < b => s[a] < s[b]

(* What has been shown ends at the cursor and leaves out nothing stable before it; the *)
(* pages so far were full but for the last.                                            *)
ListingInv ==
  /\ ListingTypeOK /\ listing \in ListingType /\ Rising(listing.shown)
  /\ \A i \in listing.stable : agentRow[i] = "matching"
  /\ listing.pc = "idle" => listing = NoListing
  /\ listing.pc \in {"count", "select"} =>
       /\ \A a \in 1 .. Len(listing.shown) : listing.shown[a] <= listing.cursor
       /\ \A i \in listing.stable : i <= listing.cursor => Shows(listing.shown, i)
       /\ Len(listing.shown) = listing.reads * listing.size
  /\ listing.pc = "done" =>
       /\ \A i \in listing.stable : Shows(listing.shown, i)
       /\ listing.reads <= (Len(listing.shown) \div listing.size) + 1

LEMMA ListingStarts == ListingInit => ListingInv
<1> SUFFICES ASSUME ListingInit PROVE ListingInv
  OBVIOUS
<1> USE ListingAssumption
<1>1. NoListing \in ListingType
  <2>1. <<>> \in Seq(AgentIds)
    OBVIOUS
  <2> QED BY <2>1 DEF NoListing, ListingType
<1>2. listing = NoListing /\ agentRow \in [AgentIds -> {"none", "matching"}]
  BY DEF ListingInit
<1>3. Cardinality(AgentIds) \in Nat
  BY FS_CardinalityType
<1>4. ListingTypeOK
  BY <1>2, <1>3 DEF ListingTypeOK, NoListing
<1>5. Len(<<>>) = 0 /\ 0 * 1 = 0
  OBVIOUS
<1> QED BY <1>1, <1>2, <1>4, <1>5 DEF ListingInv, NoListing, Rising

(* Counting whole pages. *)
LEMMA WholePages ==
  ASSUME NEW r \in Nat, NEW z \in Nat \ {0}, NEW p \in Nat
  PROVE  /\ r * z \in Nat /\ (r + 1) * z = r * z + z
         /\ r + 1 <= ((r * z + p) \div z) + 1
<1>1. PICK x \in Nat : x = r * z
  OBVIOUS
<1>2. PICK q \in Nat : q = (x + p) \div z
  OBVIOUS
<1>3. x + p < (q + 1) * z
  BY <1>2
<1>4. (r + 1) * z = r * z + z
  OBVIOUS
<1>5. q + 1 <= r => (q + 1) * z <= r * z
  OBVIOUS
<1>6. ~(q + 1 <= r)
  BY <1>1, <1>3, <1>5
<1>7. r <= q
  BY <1>6
<1> QED BY <1>1, <1>2, <1>4, <1>7

LEMMA AgentsRead ==
  ASSUME ListingInv, ListByNamespace
  PROVE  ListingInv'
<1> USE ListingAssumption
<1>1. PICK rest : rest = InOrder(WhereClause)
  OBVIOUS
<1>2. PICK page : page = SubSeq(rest, 1, Smaller(listing.size, Len(rest)))
  OBVIOUS
<1>3. PICK next : next = NextCursorOf(page)
  OBVIOUS
<1>4. /\ listing.pc = "select"
      /\ listing' = [listing EXCEPT !.pc = IF next = 0 THEN "done" ELSE "count",
                       !.cursor = next, !.shown = @ \o page, !.reads = @ + 1]
      /\ agentRow' = agentRow
  BY <1>1, <1>2, <1>3 DEF ListByNamespace
<1>5. PICK W \in SUBSET AgentIds : W = WhereClause
  BY DEF WhereClause
<1>6. IsFiniteSet(W) /\ W \in SUBSET Int
  <2>1. IsFiniteSet(W)
    BY FS_Subset
  <2> QED BY <2>1
<1>7. PICK many \in Nat : many = Cardinality(W)
  BY <1>6, FS_CardinalityType
<1>8. /\ rest \in [1 .. many -> W]
      /\ \A m, n \in 1 .. many : m < n => rest[m] < rest[n]
      /\ \A i \in W : \E n \in 1 .. many : rest[n] = i
  BY <1>1, <1>5, <1>6, <1>7, InOrderLists
<1>9. rest \in Seq(AgentIds) /\ Len(rest) = many
  <2>1. rest \in [1 .. many -> AgentIds]
    BY <1>5, <1>8
  <2> QED BY <1>7, <2>1
<1>10. PICK z \in Nat \ {0} : z = listing.size
  BY DEF ListingInv, ListingType
<1>11. PICK k \in Nat : k = Smaller(z, many)
  BY DEF Smaller
<1>12. k <= z /\ k <= many /\ (k # z => k = many)
  BY <1>11 DEF Smaller
<1>13. page \in Seq(AgentIds) /\ Len(page) = k /\ \A n \in 1 .. k : page[n] = rest[n]
  <2>1. page = SubSeq(rest, 1, k)
    BY <1>2, <1>9, <1>10, <1>11
  <2> QED BY <2>1, <1>9, <1>12, SubSeqProperties
<1>14. PICK s \in Seq(AgentIds) : s = listing.shown
  BY DEF ListingInv, ListingType
<1>15. PICK l \in Nat : l = Len(s)
  OBVIOUS
<1>16. PICK t : t = s \o page
  OBVIOUS
<1>17. /\ t \in Seq(AgentIds) /\ Len(t) = l + k
       /\ \A a \in 1 .. l : t[a] = s[a]
       /\ \A a \in (l + 1) .. (l + k) : t[a] = rest[a - l] /\ a - l \in 1 .. many
  <2>1. Len(t) = l + k /\ \A a \in 1 .. l + k : t[a] = IF a <= l THEN s[a] ELSE page[a - l]
    <3>1. /\ Len(s \o page) = Len(s) + Len(page)
          /\ \A a \in 1 .. Len(s) + Len(page) :
               (s \o page)[a] = IF a <= Len(s) THEN s[a] ELSE page[a - Len(s)]
      <4>1. page \in Seq(AgentIds) /\ s \in Seq(AgentIds)
        BY <1>13, <1>14
      <4> QED BY <4>1, ConcatProperties
    <3>2. Len(s) = l /\ Len(page) = k
      BY <1>13, <1>15
    <3> QED BY <1>16, <3>1, <3>2
  <2>2. \A a \in (l + 1) .. (l + k) : a \in 1 .. l + k /\ ~(a <= l) /\ a - l \in 1 .. k /\ a - l \in 1 .. many
    BY <1>7, <1>11, <1>12, <1>15
  <2>3. \A a \in 1 .. l : a \in 1 .. l + k /\ a <= l
    BY <1>11, <1>15
  <2>4. t \in Seq(AgentIds)
    BY <1>13, <1>14, <1>16, ConcatProperties
  <2> QED BY <1>13, <2>1, <2>2, <2>3, <2>4
<1>18. /\ \A a \in 1 .. l : s[a] <= listing.cursor
       /\ \A i \in listing.stable : i <= listing.cursor => Shows(s, i)
       /\ l = listing.reads * z
  BY <1>4, <1>10, <1>14, <1>15 DEF ListingInv
<1>19. \A i \in AgentIds : i \in W <=> agentRow[i] = "matching" /\ i > listing.cursor
  BY <1>5 DEF WhereClause
<1>20. listing.cursor \in Nat
  BY DEF ListingInv, ListingType
<1>21. Rising(t)
  <2> SUFFICES ASSUME NEW a \in 1 .. l + k, NEW b \in 1 .. l + k, a < b PROVE t[a] < t[b]
    BY <1>17 DEF Rising
  <2>1. CASE b \in 1 .. l
    <3>1. a \in 1 .. l
      BY <2>1
    <3> QED BY <1>14, <1>15, <1>17, <2>1, <3>1 DEF ListingInv, Rising
  <2>2. CASE a \in 1 .. l /\ b \in (l + 1) .. (l + k)
    <3>1. t[a] = s[a] /\ s[a] <= listing.cursor /\ s[a] \in Nat
      <4>1. s[a] \in AgentIds
        BY <1>14, <1>15, <2>2
      <4> QED BY <1>17, <1>18, <2>2, <4>1
    <3>2. t[b] \in W
      BY <1>8, <1>17, <2>2
    <3>3. t[b] \in Nat /\ t[b] > listing.cursor
      BY <1>19, <3>2
    <3>4. \A x, y, c \in Nat : x <= c /\ y > c => x < y
      OBVIOUS
    <3> QED BY <1>20, <3>1, <3>3, <3>4
  <2>3. CASE a \in (l + 1) .. (l + k) /\ b \in (l + 1) .. (l + k)
    <3>1. a - l \in 1 .. many /\ b - l \in 1 .. many /\ a - l < b - l
      BY <1>17, <2>3
    <3> QED BY <1>8, <1>17, <2>3, <3>1
  <2>4. b \in 1 .. l \/ b \in (l + 1) .. (l + k)
    OBVIOUS
  <2>5. a \in 1 .. l \/ a \in (l + 1) .. (l + k)
    OBVIOUS
  <2>6. b \in 1 .. l => a \in 1 .. l
    OBVIOUS
  <2> QED BY <2>1, <2>2, <2>3, <2>4, <2>5, <2>6
<1>22. next \in AgentIds \cup {0} /\ (next = 0 <=> k # z) /\ (next # 0 => next = t[l + k] /\ next = rest[k])
  <2>1. next = IF k = z THEN page[k] ELSE 0
    BY <1>3, <1>10, <1>13 DEF NextCursorOf
  <2>2. CASE k = z
    <3>1. k \in 1 .. k /\ k \in 1 .. many /\ l + k \in (l + 1) .. (l + k) /\ l + k - l = k
      BY <1>12, <2>2
    <3>2. page[k] = rest[k] /\ rest[k] \in AgentIds /\ t[l + k] = rest[k]
      BY <1>8, <1>13, <1>17, <3>1
    <3> QED BY <2>1, <2>2, <3>2
  <2>3. CASE k # z
    BY <2>1, <2>3
  <2> QED BY <2>2, <2>3
<1>23. listing' \in ListingType /\ listing'.shown = t /\ listing'.cursor = next
       /\ listing'.size = z /\ listing'.reads = listing.reads + 1 /\ listing'.stable = listing.stable
       /\ listing'.pc = (IF next = 0 THEN "done" ELSE "count") /\ listing'.total = listing.total
  <2>1. listing \in ListingType /\ listing.reads + 1 \in Nat /\ next \in Nat
    BY <1>22 DEF ListingInv, ListingType
  <2> QED BY <1>4, <1>10, <1>14, <1>16, <1>17, <2>1 DEF ListingType
<1>24. ListingTypeOK'
  <2>1. listing'.pc \in {"idle", "count", "select", "done"} /\ listing'.stable \in SUBSET AgentIds
    BY <1>23 DEF ListingType
  <2>2. listing'.size \in 1 .. LargestSize /\ listing'.total \in 0 .. Cardinality(AgentIds)
    BY <1>10, <1>23 DEF ListingTypeOK, ListingInv
  <2> QED BY <1>4, <1>17, <1>22, <1>23, <2>1, <2>2 DEF ListingTypeOK, ListingInv
<1>25. \A i \in listing.stable : Shows(s, i) => Shows(t, i)
  <2> SUFFICES ASSUME NEW i \in listing.stable, NEW a \in 1 .. Len(s), s[a] = i PROVE Shows(t, i)
    BY DEF Shows
  <2>1. a \in 1 .. Len(t) /\ t[a] = i
    BY <1>15, <1>17
  <2> QED BY <2>1 DEF Shows
<1>26. ASSUME NEW i \in listing.stable, i > listing.cursor, next # 0 => i <= next
       PROVE  Shows(t, i)
  <2>1. i \in W
    BY <1>19, <1>26 DEF ListingInv, ListingType
  <2>2. PICK n \in 1 .. many : rest[n] = i
    BY <1>8, <2>1
  <2>3. n <= k
    <3>1. CASE next = 0
      BY <1>12, <1>22, <3>1
    <3>2. CASE next # 0
      <4>1. k \in 1 .. many /\ i <= rest[k]
        BY <1>12, <1>22, <1>26, <3>2
      <4>2. k < n => rest[k] < rest[n]
        BY <1>8, <4>1
      <4>3. rest[k] \in Nat /\ i \in Nat
        BY <1>8, <4>1, <2>1
      <4> QED BY <2>2, <4>1, <4>2, <4>3
    <3> QED BY <3>1, <3>2
  <2>4. l + n \in (l + 1) .. (l + k) /\ l + n - l = n /\ l + n \in 1 .. Len(t)
    BY <1>17, <2>3
  <2>5. t[l + n] = i
    <3>1. t[l + n] = rest[l + n - l]
      BY <1>17, <2>4
    <3> QED BY <2>2, <2>4, <3>1
  <2> QED BY <2>4, <2>5 DEF Shows
<1>27. \A i \in listing.stable : (next # 0 => i <= next) => Shows(t, i)
  <2>1. \A i \in listing.stable : i \in Nat
    BY DEF ListingInv, ListingType
  <2> QED BY <1>18, <1>20, <1>25, <1>26, <2>1
<1>28. listing.reads \in Nat
  BY DEF ListingInv, ListingType
<1>29. CASE next = 0
  <2>1. listing'.reads <= (Len(t) \div z) + 1
    <3>1. PICK r \in Nat : r = listing.reads
      BY <1>28
    <3>2. r + 1 <= ((r * z + k) \div z) + 1
      BY WholePages
    <3>3. Len(t) = r * z + k /\ listing'.reads = r + 1
      BY <1>17, <1>18, <1>23, <3>1
    <3> QED BY <3>2, <3>3
  <2>2. listing'.pc = "done" /\ listing'.pc # "idle"
    BY <1>23, <1>29
  <2>3. \A i \in listing'.stable : Shows(listing'.shown, i) /\ agentRow'[i] = "matching"
    BY <1>4, <1>23, <1>27, <1>29 DEF ListingInv
  <2> QED BY <1>21, <1>23, <1>24, <2>1, <2>2, <2>3 DEF ListingInv
<1>30. CASE next # 0
  <2>1. \A a \in 1 .. Len(t) : t[a] <= next
    <3>1. l + k \in 1 .. Len(t) /\ next = t[l + k] /\ Len(t) = l + k
      BY <1>17, <1>22, <1>30, <1>12
    <3>2. \A a \in 1 .. Len(t) : t[a] \in Nat
      <4>1. t \in Seq(AgentIds)
        BY <1>17
      <4>2. \A a \in 1 .. Len(t) : t[a] \in AgentIds
        BY <4>1
      <4> QED BY <4>2
    <3>3. \A a \in 1 .. Len(t) : a < l + k => t[a] < t[l + k]
      BY <1>21, <3>1 DEF Rising
    <3>4. \A a \in 1 .. l + k : a < l + k \/ a = l + k
      BY <1>11, <1>15
    <3> QED BY <3>1, <3>2, <3>3, <3>4
  <2>2. Len(t) = listing'.reads * listing'.size
    BY <1>17, <1>18, <1>22, <1>23, <1>28, <1>30, WholePages
  <2>3. listing'.pc = "count"
    BY <1>23, <1>30
  <2> QED BY <1>4, <1>21, <1>23, <1>24, <1>27, <1>30, <2>1, <2>2, <2>3 DEF ListingInv
<1> QED BY <1>29, <1>30

LEMMA ListingStepKeeps == ListingInv /\ [ListingNext]_listingVars => ListingInv'
<1> SUFFICES ASSUME ListingInv, [ListingNext]_listingVars PROVE ListingInv'
  OBVIOUS
<1> USE ListingAssumption
<1>1. ASSUME NEW n \in PageSizes, ListAgents(n) PROVE ListingInv'
  <2>1. PICK z \in 1 .. LargestSize : z = Smaller(IF n = 0 THEN DefaultSize ELSE n, LargestSize)
    <3>1. (IF n = 0 THEN DefaultSize ELSE n) \in Nat \ {0}
      OBVIOUS
    <3> QED BY <3>1 DEF Smaller
  <2>2. PICK M \in SUBSET AgentIds : M = {i \in AgentIds : agentRow[i] = "matching"}
    OBVIOUS
  <2>3. listing' = [NoListing EXCEPT !.pc = "count", !.size = z, !.stable = M] /\ agentRow' = agentRow
    BY <1>1, <2>1, <2>2 DEF ListAgents
  <2>4. listing' = [pc |-> "count", size |-> z, cursor |-> 0, total |-> 0, shown |-> <<>>, stable |-> M, reads |-> 0]
    BY <2>3 DEF NoListing
  <2>5. <<>> \in Seq(AgentIds) /\ Len(<<>>) = 0 /\ 0 * z = 0 /\ Cardinality(AgentIds) \in Nat
    BY FS_CardinalityType
  <2>6. listing' \in ListingType
    BY <2>4, <2>5 DEF ListingType
  <2>7. ListingTypeOK'
    <3>1. 0 \in 0 .. Cardinality(AgentIds) /\ 0 \in AgentIds \cup {0} /\ <<>> \in Seq(AgentIds)
      BY <2>5
    <3>2. /\ listing'.pc = "count" /\ listing'.size = z /\ listing'.cursor = 0 /\ listing'.total = 0
          /\ listing'.shown = <<>> /\ listing'.stable = M
      BY <2>4
    <3>3. agentRow' \in [AgentIds -> {"none", "matching", "other", "deleted"}]
      BY <2>3 DEF ListingTypeOK, ListingInv
    <3> QED BY <3>1, <3>2, <3>3 DEF ListingTypeOK
  <2>8. \A i \in M : ~(i <= 0) /\ agentRow[i] = "matching"
    BY <2>2
  <2>9. \A a \in 1 .. Len(<<>>) : FALSE
    BY <2>5
  <2>10. /\ listing'.pc = "count" /\ listing'.size = z /\ listing'.cursor = 0
         /\ listing'.shown = <<>> /\ listing'.stable = M /\ listing'.reads = 0
    BY <2>4
  <2>11. Rising(<<>>)
    BY <2>9 DEF Rising
  <2>12. \A i \in M : ~(i <= 0)
    BY <2>2
  <2>13. Len(listing'.shown) = listing'.reads * listing'.size
    BY <2>5, <2>10
  <2>14. \A a \in 1 .. Len(listing'.shown) : listing'.shown[a] <= listing'.cursor
    BY <2>9, <2>10
  <2>15. \A i \in listing'.stable : ~(i <= listing'.cursor)
    BY <2>10, <2>12
  <2> QED BY <2>3, <2>6, <2>7, <2>8, <2>10, <2>11, <2>13, <2>14, <2>15 DEF ListingInv
<1>2. CASE CountRows
  <2>1. PICK c : c = Cardinality(WhereClause)
    OBVIOUS
  <2>2. c \in 0 .. Cardinality(AgentIds)
    <3>1. WhereClause \in SUBSET AgentIds
      BY DEF WhereClause
    <3>2. IsFiniteSet(WhereClause) /\ Cardinality(WhereClause) <= Cardinality(AgentIds)
      BY <3>1, FS_Subset
    <3> QED BY <2>1, <3>2, FS_CardinalityType
  <2>3. listing.pc = "count" /\ listing' = [listing EXCEPT !.pc = "select", !.total = c] /\ agentRow' = agentRow
    BY <1>2, <2>1 DEF CountRows
  <2>4. c \in Nat
    BY <2>2, FS_CardinalityType
  <2>5. listing' = [pc |-> "select", size |-> listing.size, cursor |-> listing.cursor, total |-> c,
                    shown |-> listing.shown, stable |-> listing.stable, reads |-> listing.reads]
    BY <2>3 DEF ListingInv, ListingType
  <2>6. listing' \in ListingType
    BY <2>4, <2>5 DEF ListingInv, ListingType
  <2>7. ListingTypeOK'
    BY <2>2, <2>3, <2>5 DEF ListingInv, ListingTypeOK
  <2> QED BY <2>3, <2>5, <2>6, <2>7 DEF ListingInv
<1>3. CASE ListByNamespace
  BY <1>3, AgentsRead
<1>4. ASSUME NEW i \in AgentIds, NEW to \in {"matching", "other", "deleted"}, AgentChanges(i, to) PROVE ListingInv'
  <2>1. listing' = [listing EXCEPT !.stable = @ \ {i}] /\ agentRow' = [agentRow EXCEPT ![i] = to]
    BY <1>4 DEF AgentChanges
  <2>2. PICK M \in SUBSET AgentIds : M = listing.stable \ {i}
    BY DEF ListingInv, ListingType
  <2>3. listing' = [pc |-> listing.pc, size |-> listing.size, cursor |-> listing.cursor, total |-> listing.total,
                    shown |-> listing.shown, stable |-> M, reads |-> listing.reads]
    BY <2>1, <2>2 DEF ListingInv, ListingType
  <2>4. listing' \in ListingType
    BY <2>3 DEF ListingInv, ListingType
  <2>5. ListingTypeOK'
    BY <2>1, <2>3 DEF ListingInv, ListingTypeOK
  <2>6. listing.pc = "idle" => listing' = NoListing
    <3> SUFFICES ASSUME listing.pc = "idle" PROVE listing' = NoListing
      OBVIOUS
    <3>1. listing = NoListing
      BY DEF ListingInv
    <3>2. M = {}
      BY <2>2, <3>1 DEF NoListing
    <3> QED BY <2>3, <3>1, <3>2 DEF NoListing
  <2>7. \A j \in M : j \in listing.stable /\ agentRow'[j] = "matching"
    BY <2>1, <2>2 DEF ListingInv, ListingTypeOK
  <2> QED BY <2>3, <2>4, <2>5, <2>6, <2>7 DEF ListingInv
<1>5. CASE UNCHANGED listingVars
  BY <1>5 DEF listingVars, ListingInv, ListingTypeOK
<1> QED BY <1>1, <1>2, <1>3, <1>4, <1>5 DEF ListingNext

LEMMA ListingInvSuffices == ListingInv => AgentsWalked
<1> SUFFICES ASSUME ListingInv PROVE AgentsWalked
  OBVIOUS
<1> USE ListingAssumption
<1>1. listing.pc = "done" => listing.stable \subseteq ToSet(listing.shown)
  <2> SUFFICES ASSUME listing.pc = "done", NEW i \in listing.stable PROVE i \in ToSet(listing.shown)
    OBVIOUS
  <2>1. PICK a \in 1 .. Len(listing.shown) : listing.shown[a] = i
    BY DEF ListingInv, Shows
  <2>2. DOMAIN listing.shown = 1 .. Len(listing.shown)
    BY DEF ListingInv, ListingType
  <2> QED BY <2>1, <2>2 DEF ToSet
<1>2. PICK r \in Nat, z \in Nat \ {0}, l \in Nat : r = listing.reads /\ z = listing.size /\ l = Len(listing.shown)
  BY DEF ListingInv, ListingType
<1>3. r <= (l \div z) + 1
  <2>1. CASE listing.pc = "done"
    BY <1>2, <2>1 DEF ListingInv
  <2>2. CASE listing.pc \in {"count", "select"}
    <3>1. l = r * z
      BY <1>2, <2>2 DEF ListingInv
    <3>2. r + 1 <= ((r * z + 0) \div z) + 1 /\ r * z \in Nat
      BY WholePages
    <3> QED BY <1>2, <3>1, <3>2
  <2>3. CASE listing.pc = "idle"
    <3>1. r = 0
      BY <1>2, <2>3 DEF ListingInv, NoListing
    <3> QED BY <1>2, <3>1
  <2> QED BY <2>1, <2>2, <2>3 DEF ListingInv, ListingType
<1> QED BY <1>1, <1>2, <1>3 DEF ListingInv, AgentsWalked, Rising

(* A caller that pages through the agents of a namespace is shown nothing twice and by the  *)
(* end everything that was there all the time.                                              *)
THEOREM AgentsAreWalked == Spec => []AgentsWalked
<1>1. Init => ListingInv
  BY ListingStarts DEF Init
<1>2. ListingInv /\ [Next]_vars => ListingInv'
  BY ListingMoves, ListingStepKeeps
<1> QED BY <1>1, <1>2, ListingInvSuffices, PTL DEF Spec

-----------------------------------------------------------------------------
(* The observability plane. *)

EntryType == [trace : Traces, spans : Seq(Nat)]

(* An entry of the cache lists what was exported for its trace from its first span on. *)
Rises(s) == \A i, j \in 1 .. Len(s) : i < j => s[i] < s[j]
Lists(s, n) == \E i \in 1 .. Len(s) : s[i] = n
Follows(e, l) ==
  /\ e \in EntryType /\ Len(e.spans) > 0 /\ e.spans[1] \in 1 .. Len(l) /\ Rises(e.spans)
  /\ \A n \in Nat : Lists(e.spans, n) <=> (n \in 1 .. Len(l) /\ n >= e.spans[1] /\ l[n] = e.trace)

(* The cache has an entry per trace, in the order of their first spans. *)
CacheFollows(h, l) ==
  /\ h \in Seq(EntryType)
  /\ \A i \in 1 .. Len(h) : Follows(h[i], l)
  /\ \A i, j \in 1 .. Len(h) : i < j => h[i].trace # h[j].trace /\ h[i].spans[1] < h[j].spans[1]

(* A trace that few others followed is there with all of its spans. *)
LaterIn(l, x) == {y \in Traces \ {x} : \E m, n \in 1 .. Len(l) : m < n /\ l[m] = x /\ l[n] = y}
All(h, l, x) ==
  \A n \in 1 .. Len(l) : l[n] = x => \E i \in 1 .. Len(h) : h[i].trace = x /\ h[i].spans[1] <= n
Retained(h, l) == \A x \in Traces : Cardinality(LaterIn(l, x)) < TraceCap => All(h, l, x)

ObsInv ==
  /\ log \in Seq(Traces) /\ Len(log) <= MaxExports
  /\ CacheFollows(hot, log) /\ Len(hot) <= TraceCap /\ Retained(hot, log)

LEMMA ObsStarts == ObsInit => ObsInv
<1> SUFFICES ASSUME ObsInit PROVE ObsInv
  OBVIOUS
<1>1. hot = <<>> /\ log = <<>> /\ Len(<<>>) = 0
  BY DEF ObsInit
<1>2. <<>> \in Seq(Traces) /\ <<>> \in Seq(EntryType)
  OBVIOUS
<1>3. CacheFollows(hot, log)
  BY <1>1, <1>2 DEF CacheFollows
<1>4. Retained(hot, log)
  BY <1>1 DEF Retained, All
<1> QED BY <1>1, <1>2, <1>3, <1>4, ObservabilityAssumption DEF ObsInv

(* One more export. *)
LEMMA LogGrows ==
  ASSUME NEW l \in Seq(Traces), NEW x \in Traces, NEW m, m = Append(l, x)
  PROVE  /\ m \in Seq(Traces) /\ Len(m) = Len(l) + 1 /\ Len(l) \in Nat
         /\ m[Len(l) + 1] = x /\ \A n \in 1 .. Len(l) : m[n] = l[n]
OBVIOUS

LEMMA LaterGrows ==
  ASSUME NEW l \in Seq(Traces), NEW x \in Traces, NEW m, m = Append(l, x), NEW y \in Traces
  PROVE  /\ IsFiniteSet(LaterIn(m, y)) /\ Cardinality(LaterIn(m, y)) \in Nat
         /\ Cardinality(LaterIn(l, y)) \in Nat /\ Cardinality(LaterIn(l, y)) <= Cardinality(LaterIn(m, y))
<1>1. LaterIn(l, y) \in SUBSET LaterIn(m, y)
  BY LogGrows DEF LaterIn
<1>2. LaterIn(m, y) \in SUBSET Traces
  BY DEF LaterIn
<1>3. IsFiniteSet(LaterIn(m, y))
  BY <1>2, ObservabilityAssumption, FS_Subset
<1> QED BY <1>1, <1>3, FS_Subset, FS_CardinalityType

(* An entry whose trace gets no span, and one whose trace does. *)
LEMMA OthersFollow ==
  ASSUME NEW l \in Seq(Traces), NEW x \in Traces, NEW m, m = Append(l, x), NEW e, Follows(e, l), e.trace # x
  PROVE  Follows(e, m)
<1>1. \A n \in Nat : (n \in 1 .. Len(m) /\ n >= e.spans[1] /\ m[n] = e.trace)
                       <=> (n \in 1 .. Len(l) /\ n >= e.spans[1] /\ l[n] = e.trace)
  BY LogGrows
<1>2. e.spans[1] \in 1 .. Len(m)
  BY LogGrows DEF Follows
<1> QED BY <1>1, <1>2 DEF Follows

Grown(e, d, l, x) ==
  Follows(e, l) /\ e.trace = x /\ d \in EntryType /\ d.trace = x /\ d.spans = Append(e.spans, Len(l) + 1)

LEMMA EntryGrows ==
  ASSUME NEW e, NEW d, NEW l, NEW x, Grown(e, d, l, x), l \in Seq(Traces), x \in Traces, NEW m, m = Append(l, x)
  PROVE  Follows(d, m) /\ d.trace = x /\ d.spans[1] = e.spans[1]
<1>0. Follows(e, l) /\ e.trace = x /\ d \in EntryType /\ d.trace = x /\ d.spans = Append(e.spans, Len(l) + 1)
  BY DEF Grown
<1>1. e \in EntryType /\ Len(e.spans) > 0 /\ e.spans[1] \in 1 .. Len(l) /\ Rises(e.spans)
  BY <1>0 DEF Follows
<1>2. PICK s \in Seq(Nat) : s = e.spans
  BY <1>1 DEF EntryType
<1>3. PICK n \in Nat : n = Len(l) + 1
  BY LogGrows
<1>4. PICK t : t = Append(s, n)
  OBVIOUS
<1>5. /\ t \in Seq(Nat) /\ Len(t) = Len(s) + 1 /\ Len(s) \in Nat \ {0} /\ t[Len(s) + 1] = n
      /\ \A i \in 1 .. Len(s) : t[i] = s[i]
  BY <1>1, <1>2, <1>3, <1>4
<1>6. d.spans = t
  BY <1>0, <1>2, <1>3, <1>4
<1>7. t[1] = s[1] /\ t[1] \in 1 .. Len(m) /\ t[1] <= n
  <2>1. 1 \in 1 .. Len(s) /\ s[1] \in 1 .. Len(l)
    BY <1>1, <1>2, <1>5
  <2>2. PICK f \in 1 .. Len(l) : f = s[1]
    BY <2>1
  <2>3. f \in 1 .. Len(m) /\ f <= n
    BY <1>3, LogGrows
  <2> QED BY <1>5, <2>1, <2>2, <2>3
<1>8. \A i \in 1 .. Len(s) : s[i] < n
  <2> SUFFICES ASSUME NEW i \in 1 .. Len(s) PROVE s[i] < n
    OBVIOUS
  <2>1. s[i] \in Nat
    OBVIOUS
  <2>2. Lists(s, s[i])
    BY DEF Lists
  <2>3. s[i] \in 1 .. Len(l)
    BY <1>0, <1>2, <2>1, <2>2 DEF Follows
  <2> QED BY <1>3, <2>3, LogGrows
<1>9. Rises(t)
  <2> SUFFICES ASSUME NEW i \in 1 .. Len(t), NEW j \in 1 .. Len(t), i < j PROVE t[i] < t[j]
    BY DEF Rises
  <2>1. i \in 1 .. Len(s) /\ (j \in 1 .. Len(s) \/ j = Len(s) + 1)
    <3>1. PICK a \in Nat : a = Len(s) /\ Len(t) = a + 1
      BY <1>5
    <3> QED BY <3>1
  <2>2. CASE j \in 1 .. Len(s)
    BY <1>1, <1>2, <1>5, <2>1, <2>2 DEF Rises
  <2>3. CASE j = Len(s) + 1
    BY <1>5, <1>8, <2>1, <2>3
  <2> QED BY <2>1, <2>2, <2>3
<1>10. ASSUME NEW k \in Nat
       PROVE  Lists(t, k) <=> (k \in 1 .. Len(m) /\ k >= t[1] /\ m[k] = x)
  <2>1. Lists(t, k) <=> (Lists(s, k) \/ k = n)
    <3>1. PICK a \in Nat : a = Len(s) /\ Len(t) = a + 1
      BY <1>5
    <3>2. \A i \in 1 .. Len(t) : i \in 1 .. Len(s) \/ i = Len(s) + 1
      BY <3>1
    <3>3. Len(s) + 1 \in 1 .. Len(t) /\ \A i \in 1 .. Len(s) : i \in 1 .. Len(t)
      BY <3>1
    <3> QED BY <1>5, <3>1, <3>2, <3>3 DEF Lists
  <2>2. Lists(s, k) <=> (k \in 1 .. Len(l) /\ k >= s[1] /\ l[k] = x)
    BY <1>0, <1>2 DEF Follows
  <2>3. k \in 1 .. Len(m) <=> (k \in 1 .. Len(l) \/ k = n)
    BY <1>3, LogGrows
  <2>4. k = n => k \in 1 .. Len(m) /\ m[k] = x /\ k >= t[1]
    BY <1>3, <1>7, <2>3, LogGrows
  <2>5. k \in 1 .. Len(l) => m[k] = l[k]
    BY LogGrows
  <2> QED BY <1>7, <2>1, <2>2, <2>3, <2>4, <2>5
<1>11. d.spans[1] \in 1 .. Len(m) /\ Len(d.spans) > 0 /\ Rises(d.spans)
  <2>1. Len(t) > 0
    BY <1>5
  <2> QED BY <1>6, <1>7, <1>9, <2>1
<1>12. \A k \in Nat : Lists(d.spans, k) <=> (k \in 1 .. Len(m) /\ k >= d.spans[1] /\ m[k] = d.trace)
  BY <1>0, <1>6, <1>10
<1> QED BY <1>0, <1>2, <1>6, <1>7, <1>11, <1>12 DEF Follows

LEMMA NewEntry ==
  ASSUME NEW l \in Seq(Traces), NEW x \in Traces, NEW m, m = Append(l, x),
         NEW d, d = [trace |-> x, spans |-> <<Len(l) + 1>>]
  PROVE  Follows(d, m) /\ d.trace = x /\ d.spans[1] = Len(l) + 1
<1>1. PICK n \in Nat \ {0} : n = Len(l) + 1
  BY LogGrows
<1>2. PICK s : s = <<n>>
  OBVIOUS
<1>3. s \in Seq(Nat) /\ Len(s) = 1 /\ s[1] = n
  BY <1>2
<1>4. d \in EntryType /\ d.trace = x /\ d.spans = s
  BY <1>1, <1>2, <1>3 DEF EntryType
<1>5. Rises(s)
  BY <1>3 DEF Rises
<1>6. ASSUME NEW k \in Nat PROVE Lists(s, k) <=> (k \in 1 .. Len(m) /\ k >= n /\ m[k] = x)
  <2>1. Lists(s, k) <=> k = n
    BY <1>3 DEF Lists
  <2>2. k \in 1 .. Len(m) /\ k >= n <=> k = n
    BY <1>1, LogGrows
  <2> QED BY <1>1, <2>1, <2>2, LogGrows
<1>7. d.spans[1] \in 1 .. Len(m) /\ Len(d.spans) > 0
  BY <1>1, <1>3, <1>4, LogGrows
<1>8. \A k \in Nat : Lists(d.spans, k) <=> (k \in 1 .. Len(m) /\ k >= d.spans[1] /\ m[k] = d.trace)
  BY <1>3, <1>4, <1>6
<1> QED BY <1>1, <1>3, <1>4, <1>5, <1>7, <1>8 DEF Follows

(* The push. *)
LEMMA Pushed ==
  ASSUME ObsInv, NEW x \in Traces, NEW p, p = Push(x, Len(log) + 1), NEW m, m = Append(log, x)
  PROVE  CacheFollows(p, m) /\ Len(p) \in Nat /\ Len(p) <= TraceCap + 1 /\ Retained(p, m)
<1>1. log \in Seq(Traces) /\ CacheFollows(hot, log) /\ Len(hot) <= TraceCap /\ Retained(hot, log)
  BY DEF ObsInv
<1>2. hot \in Seq(EntryType) /\ Len(hot) \in Nat /\ DOMAIN hot = 1 .. Len(hot) /\ TraceCap \in Nat
  BY <1>1, ObservabilityAssumption DEF CacheFollows
<1>3. PICK n \in Nat : n = Len(log) + 1
  BY <1>1
<1>4. CASE x \in HotTraces
  <2>1. PICK c \in 1 .. Len(hot) : hot[c].trace = x
    BY <1>2, <1>4 DEF HotTraces
  <2>2. p = [i \in 1 .. Len(hot) |-> IF hot[i].trace = x THEN [hot[i] EXCEPT !.spans = Append(hot[i].spans, n)] ELSE hot[i]]
    BY <1>2, <1>3, <1>4 DEF Push
  <2>3. ASSUME NEW i \in 1 .. Len(hot)
        PROVE  p[i] \in EntryType /\ Follows(p[i], m) /\ p[i].trace = hot[i].trace /\ p[i].spans[1] = hot[i].spans[1]
    <3>1. Follows(hot[i], log)
      BY <1>1 DEF CacheFollows
    <3>2. CASE hot[i].trace = x
      <4>1. p[i] = [hot[i] EXCEPT !.spans = Append(hot[i].spans, Len(log) + 1)]
        BY <1>3, <2>2, <3>2
      <4>2. PICK e, d : e = hot[i] /\ d = p[i]
        OBVIOUS
      <4>3. Follows(e, log) /\ e.trace = x /\ e \in EntryType /\ Len(log) + 1 \in Nat
        BY <1>1, <3>1, <3>2, <4>2 DEF Follows
      <4>4. d \in EntryType /\ d.trace = x /\ d.spans = Append(e.spans, Len(log) + 1)
        <5>1. Append(e.spans, Len(log) + 1) \in Seq(Nat)
          BY <4>3 DEF EntryType
        <5> QED BY <4>1, <4>2, <4>3, <5>1 DEF EntryType
      <4>5. Grown(e, d, log, x)
        BY <4>3, <4>4 DEF Grown
      <4>6. Follows(d, m) /\ d.trace = x /\ d.spans[1] = e.spans[1]
        BY <1>1, <4>5, EntryGrows
      <4>7. Follows(p[i], m) /\ p[i].trace = x /\ p[i].spans[1] = hot[i].spans[1]
        BY <4>2, <4>6
      <4> QED BY <3>2, <4>7 DEF Follows
    <3>3. CASE hot[i].trace # x
      <4>1. p[i] = hot[i]
        BY <2>2, <3>3
      <4>2. Follows(p[i], m)
        BY <1>1, <3>1, <3>3, <4>1, OthersFollow
      <4> QED BY <4>1, <4>2 DEF Follows
    <3> QED BY <3>2, <3>3
  <2>4. p \in Seq(EntryType) /\ Len(p) = Len(hot)
    <3>1. p \in [1 .. Len(hot) -> EntryType]
      BY <2>2, <2>3
    <3> QED BY <1>2, <3>1
  <2>5. CacheFollows(p, m)
    BY <1>1, <2>3, <2>4 DEF CacheFollows
  <2>6. Retained(p, m)
    <3> SUFFICES ASSUME NEW y \in Traces, Cardinality(LaterIn(m, y)) < TraceCap, NEW k \in 1 .. Len(m), m[k] = y
                 PROVE  \E i \in 1 .. Len(p) : p[i].trace = y /\ p[i].spans[1] <= k
      BY DEF Retained, All
    <3>1. All(hot, log, y)
      <4>1. PICK a, b : a = Cardinality(LaterIn(log, y)) /\ b = Cardinality(LaterIn(m, y))
        OBVIOUS
      <4>2. a \in Nat /\ b \in Nat /\ a <= b
        BY <1>1, <4>1, LaterGrows
      <4>3. a < TraceCap
        BY <1>2, <4>1, <4>2
      <4> QED BY <1>1, <4>1, <4>3 DEF Retained
    <3>2. CASE k \in 1 .. Len(log)
      <4>1. log[k] = y
        BY <1>1, <3>2, LogGrows
      <4>2. PICK i \in 1 .. Len(hot) : hot[i].trace = y /\ hot[i].spans[1] <= k
        BY <3>1, <3>2, <4>1 DEF All
      <4> QED BY <2>3, <2>4, <4>2
    <3>3. CASE k \notin 1 .. Len(log)
      <4>1. k = n /\ y = x
        BY <1>1, <1>3, <3>3, LogGrows
      <4>2. hot[c].spans[1] \in 1 .. Len(log)
        BY <1>1 DEF CacheFollows, Follows
      <4>3. hot[c].spans[1] <= k
        BY <1>1, <1>3, <4>1, <4>2
      <4> QED BY <2>1, <2>3, <2>4, <4>1, <4>3
    <3> QED BY <3>2, <3>3
  <2> QED BY <1>1, <1>2, <2>4, <2>5, <2>6
<1>5. CASE x \notin HotTraces
  <2>1. PICK d : d = [trace |-> x, spans |-> <<Len(log) + 1>>]
    OBVIOUS
  <2>2. Follows(d, m) /\ d.trace = x /\ d.spans[1] = n /\ d \in EntryType
    <3>1. Follows(d, m) /\ d.trace = x /\ d.spans[1] = n
      BY <1>1, <1>3, <2>1, NewEntry
    <3> QED BY <3>1 DEF Follows
  <2>3. p = Append(hot, d)
    BY <1>5, <2>1 DEF Push
  <2>4. /\ p \in Seq(EntryType) /\ Len(p) = Len(hot) + 1 /\ p[Len(hot) + 1] = d
        /\ \A i \in 1 .. Len(hot) : p[i] = hot[i]
    <3>1. d \in EntryType /\ p = Append(hot, d)
      BY <2>2, <2>3
    <3>2. PICK h \in Seq(EntryType) : h = hot
      BY <1>2
    <3>3. /\ Append(h, d) \in Seq(EntryType) /\ Len(Append(h, d)) = Len(h) + 1
          /\ Append(h, d)[Len(h) + 1] = d /\ \A i \in 1 .. Len(h) : Append(h, d)[i] = h[i]
      BY <3>1, AppendProperties
    <3> QED BY <3>1, <3>2, <3>3
  <2>5. \A i \in 1 .. Len(hot) : hot[i].trace # x
    BY <1>2, <1>5 DEF HotTraces
  <2>6. ASSUME NEW i \in 1 .. Len(hot) PROVE Follows(p[i], m) /\ p[i].spans[1] < n
    <3>1. Follows(hot[i], log)
      BY <1>1 DEF CacheFollows
    <3>2. Follows(p[i], m)
      BY <1>1, <2>4, <2>5, <3>1, OthersFollow
    <3>3. hot[i].spans[1] < n
      BY <1>1, <1>3, <3>1 DEF Follows
    <3> QED BY <2>4, <3>2, <3>3
  <2>7. \A i \in 1 .. Len(p) : i \in 1 .. Len(hot) \/ i = Len(hot) + 1
    BY <1>2, <2>4
  <2>8. \A i \in 1 .. Len(p) : Follows(p[i], m)
    BY <2>2, <2>4, <2>6, <2>7
  <2>9. ASSUME NEW i \in 1 .. Len(p), NEW j \in 1 .. Len(p), i < j
        PROVE  p[i].trace # p[j].trace /\ p[i].spans[1] < p[j].spans[1]
    <3>1. i \in 1 .. Len(hot)
      BY <1>2, <2>4, <2>9
    <3>2. CASE j \in 1 .. Len(hot)
      <4>1. hot[i].trace # hot[j].trace /\ hot[i].spans[1] < hot[j].spans[1]
        BY <1>1, <2>9, <3>1, <3>2 DEF CacheFollows
      <4> QED BY <2>4, <3>1, <3>2, <4>1
    <3>3. CASE j = Len(hot) + 1
      BY <2>2, <2>4, <2>5, <2>6, <3>1, <3>3
    <3> QED BY <2>7, <3>2, <3>3
  <2>10. CacheFollows(p, m)
    BY <2>4, <2>8, <2>9 DEF CacheFollows
  <2>11. Retained(p, m)
    <3> SUFFICES ASSUME NEW y \in Traces, Cardinality(LaterIn(m, y)) < TraceCap, NEW k \in 1 .. Len(m), m[k] = y
                 PROVE  \E i \in 1 .. Len(p) : p[i].trace = y /\ p[i].spans[1] <= k
      BY DEF Retained, All
    <3>1. All(hot, log, y)
      <4>1. PICK a, b : a = Cardinality(LaterIn(log, y)) /\ b = Cardinality(LaterIn(m, y))
        OBVIOUS
      <4>2. a \in Nat /\ b \in Nat /\ a <= b
        BY <1>1, <4>1, LaterGrows
      <4>3. a < TraceCap
        BY <1>2, <4>1, <4>2
      <4> QED BY <1>1, <4>1, <4>3 DEF Retained
    <3>2. CASE k \in 1 .. Len(log)
      <4>1. log[k] = y
        BY <1>1, <3>2, LogGrows
      <4>2. PICK i \in 1 .. Len(hot) : hot[i].trace = y /\ hot[i].spans[1] <= k
        BY <3>1, <3>2, <4>1 DEF All
      <4>3. i \in 1 .. Len(p)
        BY <1>2, <2>4
      <4> QED BY <2>4, <4>2, <4>3
    <3>3. CASE k \notin 1 .. Len(log)
      <4>1. k = n /\ y = x
        BY <1>1, <1>3, <3>3, LogGrows
      <4>2. Len(hot) + 1 \in 1 .. Len(p)
        BY <1>2, <2>4
      <4> QED BY <1>3, <2>2, <2>4, <4>1, <4>2
    <3> QED BY <3>2, <3>3
  <2> QED BY <1>1, <1>2, <2>4, <2>10, <2>11
<1> QED BY <1>4, <1>5

(* The eviction: the trace that goes was followed by those that stay. *)
LEMMA Evicted ==
  ASSUME NEW m \in Seq(Traces), NEW p, CacheFollows(p, m), Len(p) = TraceCap + 1, Retained(p, m), NEW h, h = Evict(p)
  PROVE  CacheFollows(h, m) /\ Len(h) = TraceCap /\ Retained(h, m)
<1>1. p \in Seq(EntryType) /\ Len(p) \in Nat /\ TraceCap \in Nat \ {0}
  BY ObservabilityAssumption DEF CacheFollows
<1>2. PICK a \in Nat : a = TraceCap + 1
  BY <1>1
<1>3. h = SubSeq(p, 2, a)
  <2>1. Len(p) - TraceCap + 1 = 2 /\ Len(p) > TraceCap /\ Len(p) = a
    BY <1>1, <1>2
  <2> QED BY <2>1 DEF Evict
<1>4. /\ h \in Seq(EntryType) /\ Len(h) = TraceCap
      /\ \A i \in 1 .. TraceCap : i + 1 \in 1 .. Len(p) /\ h[i] = p[i + 1]
  <2>1. 2 \in 1 .. Len(p) + 1 /\ a \in 1 .. Len(p)
    BY <1>1, <1>2
  <2>2. Len(h) = a - 1 /\ h \in Seq(EntryType) /\ \A i \in 1 .. a - 1 : h[i] = p[i + 1]
    BY <1>1, <1>2, <1>3, <2>1
  <2> QED BY <1>1, <1>2, <2>2
<1>5. \A i \in 1 .. TraceCap : Follows(h[i], m)
  BY <1>4 DEF CacheFollows
<1>6. ASSUME NEW i \in 1 .. TraceCap, NEW j \in 1 .. TraceCap, i < j
      PROVE  h[i].trace # h[j].trace /\ h[i].spans[1] < h[j].spans[1]
  <2>1. PICK b \in 1 .. Len(p), c \in 1 .. Len(p) : b < c /\ h[i] = p[b] /\ h[j] = p[c]
    <3>1. i + 1 < j + 1
      BY <1>6
    <3> QED BY <1>4, <3>1
  <2> QED BY <2>1 DEF CacheFollows
<1>7. CacheFollows(h, m)
  BY <1>4, <1>5, <1>6 DEF CacheFollows
<1>8. PICK z \in Traces, f \in 1 .. Len(m) : z = p[1].trace /\ f = p[1].spans[1] /\ m[f] = z
  <2>1. Follows(p[1], m)
    BY <1>1 DEF CacheFollows
  <2>2. PICK s \in Seq(Nat) : s = p[1].spans /\ Len(s) > 0 /\ s[1] \in 1 .. Len(m)
    BY <2>1 DEF Follows, EntryType
  <2>3. Lists(s, s[1]) /\ s[1] \in Nat
    BY <2>2 DEF Lists
  <2>4. m[s[1]] = p[1].trace
    BY <2>1, <2>2, <2>3 DEF Follows
  <2>5. p[1].trace \in Traces
    BY <2>1 DEF Follows, EntryType
  <2> QED BY <2>2, <2>4, <2>5
<1>9. PICK g : g = [i \in 1 .. TraceCap |-> h[i].trace]
  OBVIOUS
<1>10. g \in Injection(1 .. TraceCap, LaterIn(m, z))
  <2>1. ASSUME NEW i \in 1 .. TraceCap PROVE h[i].trace \in LaterIn(m, z)
    <3>1. PICK s \in Seq(Nat) : s = h[i].spans /\ Len(s) > 0 /\ s[1] \in 1 .. Len(m)
      BY <1>5 DEF Follows, EntryType
    <3>2. Lists(s, s[1]) /\ s[1] \in Nat
      BY <3>1 DEF Lists
    <3>3. m[s[1]] = h[i].trace /\ h[i].trace \in Traces
      BY <1>5, <3>1, <3>2 DEF Follows, EntryType
    <3>4. 1 < i + 1 /\ 1 \in 1 .. Len(p) /\ i + 1 \in 1 .. Len(p) /\ h[i] = p[i + 1]
      BY <1>1, <1>4
    <3>5. h[i].trace # z /\ f < s[1]
      BY <1>8, <3>1, <3>4 DEF CacheFollows
    <3> QED BY <1>8, <3>1, <3>3, <3>5 DEF LaterIn
  <2>2. \A i, j \in 1 .. TraceCap : i # j => h[i].trace # h[j].trace
    <3>1. \A i, j \in 1 .. TraceCap : i # j => i < j \/ j < i
      OBVIOUS
    <3> QED BY <1>6, <3>1
  <2> QED BY <1>9, <2>1, <2>2 DEF Injection, IsInjective
<1>11. Cardinality(LaterIn(m, z)) \in Nat /\ TraceCap <= Cardinality(LaterIn(m, z))
  <2>1. LaterIn(m, z) \in SUBSET Traces
    BY DEF LaterIn
  <2>2. IsFiniteSet(LaterIn(m, z))
    BY <2>1, ObservabilityAssumption, FS_Subset
  <2>3. IsFiniteSet(1 .. TraceCap) /\ Cardinality(1 .. TraceCap) = TraceCap
    BY <1>1, FS_Interval
  <2>4. Cardinality(1 .. TraceCap) <= Cardinality(LaterIn(m, z))
    BY <1>10, <2>2, <2>3, FS_Injection
  <2> QED BY <2>2, <2>3, <2>4, FS_CardinalityType
<1>12. Retained(h, m)
  <2> SUFFICES ASSUME NEW y \in Traces, Cardinality(LaterIn(m, y)) < TraceCap, NEW k \in 1 .. Len(m), m[k] = y
               PROVE  \E i \in 1 .. Len(h) : h[i].trace = y /\ h[i].spans[1] <= k
    BY DEF Retained, All
  <2>1. y # z
    BY <1>1, <1>11
  <2>2. PICK b \in 1 .. Len(p) : p[b].trace = y /\ p[b].spans[1] <= k
    BY DEF Retained, All
  <2>3. b # 1
    BY <1>8, <2>1, <2>2
  <2>4. PICK i \in 1 .. TraceCap : b = i + 1
    BY <1>1, <2>2, <2>3
  <2>5. h[i] = p[b]
    BY <1>4, <2>4
  <2> QED BY <1>4, <2>2, <2>4, <2>5
<1> QED BY <1>4, <1>7, <1>12

LEMMA ObsStepKeeps == ObsInv /\ [ObsNext]_obsVars => ObsInv'
<1> SUFFICES ASSUME ObsInv, [ObsNext]_obsVars PROVE ObsInv'
  OBVIOUS
<1>1. ASSUME NEW x \in Traces, ExportTrace(x) PROVE ObsInv'
  <2>1. PICK p, m : p = Push(x, Len(log) + 1) /\ m = Append(log, x)
    OBVIOUS
  <2>2. hot' = Evict(p) /\ log' = m /\ Len(log) < MaxExports
    BY <1>1, <2>1 DEF ExportTrace
  <2>3. m \in Seq(Traces) /\ Len(m) = Len(log) + 1 /\ Len(log) \in Nat /\ MaxExports \in Nat /\ TraceCap \in Nat
    BY <2>1, LogGrows, ObservabilityAssumption DEF ObsInv
  <2>4. CacheFollows(p, m) /\ Len(p) \in Nat /\ Len(p) <= TraceCap + 1 /\ Retained(p, m)
    BY <2>1, Pushed
  <2>5. CASE Len(p) > TraceCap
    <3>1. Len(p) = TraceCap + 1
      BY <2>3, <2>4, <2>5
    <3>2. CacheFollows(hot', m) /\ Len(hot') = TraceCap /\ Retained(hot', m)
      BY <2>2, <2>3, <2>4, <3>1, Evicted
    <3> QED BY <2>2, <2>3, <3>2 DEF ObsInv
  <2>6. CASE ~(Len(p) > TraceCap)
    <3>1. hot' = p /\ Len(p) <= TraceCap
      BY <2>2, <2>3, <2>4, <2>6 DEF Evict
    <3> QED BY <2>2, <2>3, <2>4, <3>1 DEF ObsInv
  <2> QED BY <2>5, <2>6
<1>2. CASE ObsRestart
  <2>1. ObsInit'
    BY <1>2 DEF ObsRestart, ObsInit
  <2>2. hot' = <<>> /\ log' = <<>> /\ Len(<<>>) = 0
    BY <1>2 DEF ObsRestart
  <2>3. <<>> \in Seq(Traces) /\ <<>> \in Seq(EntryType)
    OBVIOUS
  <2>4. CacheFollows(hot', log')
    BY <2>2, <2>3 DEF CacheFollows
  <2>5. Retained(hot', log')
    BY <2>2 DEF Retained, All
  <2> QED BY <2>2, <2>3, <2>4, <2>5, ObservabilityAssumption DEF ObsInv
<1>3. CASE UNCHANGED obsVars
  BY <1>3 DEF obsVars, ObsInv
<1> QED BY <1>1, <1>2, <1>3 DEF ObsNext

LEMMA ObsInvSuffices == ObsInv => ReplayComplete
<1> SUFFICES ASSUME ObsInv PROVE ReplayComplete
  OBVIOUS
<1>1. /\ log \in Seq(Traces) /\ Len(log) \in Nat /\ DOMAIN log = 1 .. Len(log)
      /\ hot \in Seq(EntryType) /\ Len(hot) \in Nat /\ DOMAIN hot = 1 .. Len(hot)
      /\ CacheFollows(hot, log) /\ Retained(hot, log)
  BY DEF ObsInv, CacheFollows
<1>2. ASSUME NEW i \in 1 .. Len(hot)
      PROVE  hot[i].trace \in Traces /\ hot[i].spans \in Seq(DOMAIN log)
  <2>1. Follows(hot[i], log)
    BY <1>1 DEF CacheFollows
  <2>2. PICK s \in Seq(Nat) : s = hot[i].spans
    BY <2>1 DEF Follows, EntryType
  <2>3. \A k \in 1 .. Len(s) : s[k] \in Nat /\ Lists(s, s[k])
    BY DEF Lists
  <2>4. \A k \in 1 .. Len(s) : s[k] \in DOMAIN log
    BY <1>1, <2>1, <2>2, <2>3 DEF Follows
  <2>5. s \in Seq(DOMAIN log)
    <3>1. Len(s) \in Nat /\ s = [k \in 1 .. Len(s) |-> s[k]]
      OBVIOUS
    <3> QED BY <2>4, <3>1
  <2> QED BY <2>1, <2>2, <2>5 DEF Follows, EntryType
<1>3. ObsTypeOK
  BY <1>1, <1>2 DEF ObsTypeOK, ObsInv
<1>4. ASSUME NEW x \in Traces
      PROVE  \E from \in 1 .. Len(log) + 1 : ShownFrom(from, x) /\ (Cardinality(Later(x)) < TraceCap => from = 1)
  <2>1. Later(x) = LaterIn(log, x)
    BY <1>1 DEF Later, LaterIn
  <2>2. Cardinality(Later(x)) < TraceCap => All(hot, log, x)
    BY <1>1, <2>1 DEF Retained
  <2>3. PICK r : r = GetExecutionReplay(x)
    OBVIOUS
  <2>4. r = Cached(x)
    BY <2>3 DEF GetExecutionReplay, Durable
  <2>5. CASE x \in HotTraces
    <3>1. PICK c \in DOMAIN hot : c = CHOOSE i \in DOMAIN hot : hot[i].trace = x
      BY <2>5 DEF HotTraces
    <3>2. hot[c].trace = x
      BY <2>5, <3>1 DEF HotTraces
    <3>3. r = hot[c].spans
      BY <2>4, <2>5, <3>1 DEF Cached
    <3>4. Follows(hot[c], log)
      BY <1>1, <3>1 DEF CacheFollows
    <3>5. PICK s \in Seq(Nat), f \in 1 .. Len(log) : s = r /\ f = s[1]
      BY <3>3, <3>4 DEF Follows, EntryType
    <3>6. DOMAIN s = 1 .. Len(s) /\ Rises(s)
      BY <3>3, <3>4, <3>5 DEF Follows
    <3>7. \A n \in Nat : Lists(s, n) <=> (n \in 1 .. Len(log) /\ n >= f /\ log[n] = x)
      BY <3>2, <3>3, <3>4, <3>5 DEF Follows
    <3>8. {s[i] : i \in DOMAIN s} = {n \in DOMAIN log : n >= f /\ log[n] = x}
      <4>1. \A i \in 1 .. Len(s) : s[i] \in Nat /\ Lists(s, s[i])
        BY DEF Lists
      <4>2. \A n \in 1 .. Len(log) : n \in Nat
        OBVIOUS
      <4>3. \A n : n \in {s[i] : i \in DOMAIN s} => n \in {k \in DOMAIN log : k >= f /\ log[k] = x}
        BY <1>1, <3>6, <3>7, <4>1
      <4>4. \A n : n \in {k \in DOMAIN log : k >= f /\ log[k] = x} => n \in {s[i] : i \in DOMAIN s}
        BY <1>1, <3>6, <3>7, <4>2 DEF Lists
      <4> QED BY <4>3, <4>4
    <3>9. ShownFrom(f, x)
      BY <2>3, <3>5, <3>6, <3>8 DEF ShownFrom, Rises
    <3>10. ASSUME Cardinality(Later(x)) < TraceCap PROVE ShownFrom(1, x)
      <4>1. ASSUME NEW n \in 1 .. Len(log), log[n] = x PROVE n >= f
        <5>1. PICK i \in 1 .. Len(hot) : hot[i].trace = x /\ hot[i].spans[1] <= n
          BY <2>2, <3>10, <4>1 DEF All
        <5>2. i = c
          <6>1. ~(i < c) /\ ~(c < i)
            BY <1>1, <3>1, <3>2, <5>1 DEF CacheFollows
          <6> QED BY <1>1, <3>1, <6>1
        <5> QED BY <3>3, <3>5, <5>1, <5>2
      <4>2. {n \in DOMAIN log : n >= f /\ log[n] = x} = {n \in DOMAIN log : n >= 1 /\ log[n] = x}
        BY <1>1, <4>1
      <4> QED BY <2>3, <3>5, <3>6, <3>8, <4>2 DEF ShownFrom, Rises
    <3>11. f \in 1 .. Len(log) + 1 /\ 1 \in 1 .. Len(log) + 1
      BY <1>1
    <3> QED BY <3>9, <3>10, <3>11
  <2>6. CASE x \notin HotTraces
    <3>1. r = <<>> /\ DOMAIN r = {}
      BY <2>4, <2>6 DEF Cached
    <3>2. PICK f \in Nat : f = Len(log) + 1
      BY <1>1
    <3>3. {n \in DOMAIN log : n >= f /\ log[n] = x} = {}
      BY <1>1, <3>2
    <3>4. ShownFrom(f, x)
      BY <2>3, <3>1, <3>3 DEF ShownFrom
    <3>5. ASSUME Cardinality(Later(x)) < TraceCap PROVE ShownFrom(1, x)
      <4>1. \A n \in 1 .. Len(log) : log[n] # x
        BY <1>1, <2>2, <2>6, <3>5 DEF All, HotTraces
      <4>2. {n \in DOMAIN log : n >= 1 /\ log[n] = x} = {}
        BY <1>1, <4>1
      <4> QED BY <2>3, <3>1, <4>2 DEF ShownFrom
    <3>6. f \in 1 .. Len(log) + 1 /\ 1 \in 1 .. Len(log) + 1
      BY <1>1, <3>2
    <3> QED BY <3>4, <3>5, <3>6
  <2> QED BY <2>5, <2>6
<1> QED BY <1>3, <1>4 DEF ReplayComplete

(* A replay shows the exports of its execution from some export on, in order and without a *)
(* gap, and all of them while fewer others than the cache has places followed: for every    *)
(* number of executions, every capacity and every order of exports and restarts.            *)
THEOREM ReplaysAreComplete == Spec => []ReplayComplete
<1>1. Init => ObsInv
  BY ObsStarts DEF Init
<1>2. ObsInv /\ [Next]_vars => ObsInv'
  BY ObsMoves, ObsStepKeeps
<1>3. ObsInv => ReplayComplete
  BY ObsInvSuffices
<1> QED BY <1>1, <1>2, <1>3, PTL DEF Spec

-----------------------------------------------------------------------------
(* Service level objectives. *)

Stamped == [at : 0 .. MaxClock, sample : SloSamples]

(* What the tracker keeps are the last samples; they were recorded in the order of time; *)
(* and a snapshot was computed from what is kept now.                                     *)
LastOf(h, s) ==
  /\ Len(h) = IF Len(s) <= MaxHistory THEN Len(s) ELSE MaxHistory
  /\ \A i \in 1 .. Len(h) : h[i] = s[i + (Len(s) - Len(h))]
InTime(s, t) ==
  /\ \A i, j \in 1 .. Len(s) : i <= j => s[i].at <= s[j].at
  /\ \A i \in 1 .. Len(s) : s[i].at <= t
Computed(r) ==
  LET I == Within(history, DOMAIN history, SloWindow) IN
  /\ r.breached \in Breached(history, I) /\ r.consumed \in Consumed(history, I)
  /\ \A w \in BurnWindows : r.burning[w] \in Burning(history, Within(history, I, w))
SloInv ==
  /\ SloTypeOK /\ LastOf(history, sampled) /\ InTime(sampled, sloClock)
  /\ report.made => Computed(report)

LEMMA SloStarts == SloInit => SloInv
<1> SUFFICES ASSUME SloInit PROVE SloInv
  OBVIOUS
<1> USE SloAssumption DEF SloInit
<1>1. <<>> \in Seq(Stamped) /\ Len(<<>>) = 0 /\ 0 \in 0 .. MaxClock /\ 0 <= MaxHistory
  OBVIOUS
<1>2. report.made = FALSE
  BY DEF NoReport
<1>3. SloTypeOK
  BY <1>1, <1>2 DEF SloTypeOK, Stamped
<1>4. \A i \in 1 .. Len(<<>>) : FALSE
  BY <1>1
<1>5. LastOf(history, sampled) /\ InTime(sampled, sloClock)
  BY <1>1, <1>4 DEF LastOf, InTime
<1> QED BY <1>2, <1>3, <1>5 DEF SloInv

LEMMA SampleRecorded ==
  ASSUME SloInv, NEW s \in SloSamples, Record(s)
  PROVE  SloInv'
<1> USE SloAssumption
<1>1. PICK e \in Stamped : e = [at |-> sloClock, sample |-> s]
  BY DEF Stamped, SloInv, SloTypeOK
<1>2. PICK h : h = Append(history, e)
  OBVIOUS
<1>3. PICK kept : kept = Kept(h)
  OBVIOUS
<1>4. PICK t : t = Append(sampled, e)
  OBVIOUS
<1>5. history' = kept /\ sampled' = t /\ report' = NoReport /\ UNCHANGED <<sloType, sloClock>>
  BY <1>1, <1>2, <1>3, <1>4 DEF Record
<1>6. PICK l \in Nat, n \in Nat : l = Len(history) /\ n = Len(sampled)
  BY DEF SloInv, SloTypeOK
<1>7. history \in Seq(Stamped) /\ sampled \in Seq(Stamped) /\ sloClock \in 0 .. MaxClock
  BY DEF SloInv, SloTypeOK, Stamped
<1>8. /\ l = IF n <= MaxHistory THEN n ELSE MaxHistory
      /\ \A i \in 1 .. l : history[i] = sampled[i + (n - l)]
  BY <1>6 DEF SloInv, LastOf
<1>9. /\ h \in Seq(Stamped) /\ Len(h) = l + 1 /\ h[l + 1] = e /\ \A i \in 1 .. l : h[i] = history[i]
  BY <1>1, <1>2, <1>6, <1>7, AppendProperties
<1>10. /\ t \in Seq(Stamped) /\ Len(t) = n + 1 /\ t[n + 1] = e /\ \A i \in 1 .. n : t[i] = sampled[i]
  BY <1>1, <1>4, <1>6, <1>7, AppendProperties
<1>11. \A i \in 1 .. l + 1 : h[i] = t[i + (n - l)] /\ i + (n - l) \in 1 .. n + 1
  <2> SUFFICES ASSUME NEW i \in 1 .. l + 1 PROVE h[i] = t[i + (n - l)] /\ i + (n - l) \in 1 .. n + 1
    OBVIOUS
  <2>1. l <= n
    BY <1>6, <1>8
  <2>2. CASE i = l + 1
    <3>1. i + (n - l) = n + 1 /\ n + 1 \in 1 .. n + 1
      BY <1>6, <2>1, <2>2
    <3> QED BY <1>9, <1>10, <2>2, <3>1
  <2>3. CASE i \in 1 .. l
    <3>1. i + (n - l) \in 1 .. n
      BY <1>6, <2>1, <2>3
    <3> QED BY <1>8, <1>9, <1>10, <2>3, <3>1
  <2> QED BY <1>6, <2>2, <2>3
<1>12. LastOf(kept, t) /\ kept \in Seq(Stamped) /\ Len(kept) <= MaxHistory
  <2>1. CASE l + 1 <= MaxHistory
    <3>1. kept = h /\ n <= MaxHistory /\ n = l /\ n + 1 <= MaxHistory
      BY <1>3, <1>6, <1>8, <1>9, <2>1 DEF Kept
    <3>2. (n + 1) - (l + 1) = n - l
      BY <1>6
    <3> QED BY <1>9, <1>10, <1>11, <2>1, <3>1, <3>2 DEF LastOf
  <2>2. CASE l + 1 > MaxHistory
    <3>1. l = MaxHistory /\ Len(h) - MaxHistory + 1 = 2 /\ n >= MaxHistory /\ ~(n + 1 <= MaxHistory)
      BY <1>6, <1>8, <1>9, <2>2
    <3>2. kept = SubSeq(h, 2, l + 1)
      BY <1>3, <1>9, <2>2, <3>1 DEF Kept
    <3>3. kept \in Seq(Stamped) /\ Len(kept) = l /\ \A i \in 1 .. l : kept[i] = h[i + 1]
      <4>1. l \in Nat \ {0} /\ \A i \in 2 .. l + 1 : h[i] \in Stamped
        BY <1>9, <3>1
      <4>2. (l + 1) - 2 + 1 = l /\ \A i \in 1 .. l : 2 + i - 1 = i + 1
        BY <1>6
      <4> QED BY <1>9, <3>2, <4>1, <4>2
    <3>4. \A i \in 1 .. l : kept[i] = t[i + ((n + 1) - l)]
      <4>1. \A i \in 1 .. l : i + 1 \in 1 .. l + 1 /\ (i + 1) + (n - l) = i + ((n + 1) - l)
        BY <1>6
      <4> QED BY <1>11, <3>3, <4>1
    <3> QED BY <1>10, <3>1, <3>3, <3>4 DEF LastOf
  <2> QED BY <1>6, <2>1, <2>2
<1>13. InTime(t, sloClock)
  <2>1. \A i \in 1 .. n + 1 : t[i].at <= sloClock
    <3>1. \A i \in 1 .. n + 1 : i \in 1 .. n \/ i = n + 1
      BY <1>6
    <3>2. e.at = sloClock /\ sloClock <= sloClock
      BY <1>1, <1>7
    <3> QED BY <1>6, <1>10, <3>1, <3>2 DEF SloInv, InTime
  <2>2. ASSUME NEW i \in 1 .. n + 1, NEW j \in 1 .. n + 1, i <= j PROVE t[i].at <= t[j].at
    <3>1. CASE j = n + 1
      BY <1>1, <1>10, <2>1, <3>1
    <3>2. CASE j \in 1 .. n
      <4>1. i \in 1 .. n
        BY <1>6, <2>2, <3>2
      <4> QED BY <1>6, <1>10, <2>2, <3>2, <4>1 DEF SloInv, InTime
    <3> QED BY <1>6, <3>1, <3>2
  <2> QED BY <1>10, <2>1, <2>2 DEF InTime
<1>14. SloTypeOK'
  BY <1>5, <1>10, <1>12 DEF SloInv, SloTypeOK, Stamped, NoReport
<1>15. report'.made = FALSE
  BY <1>5 DEF NoReport
<1> QED BY <1>5, <1>12, <1>13, <1>14, <1>15 DEF SloInv

LEMMA SloStepKeeps == SloInv /\ [SloNext]_sloVars => SloInv'
<1> SUFFICES ASSUME SloInv, [SloNext]_sloVars PROVE SloInv'
  OBVIOUS
<1> USE SloAssumption
<1>1. CASE ClearSlo
  <2>1. history' = <<>> /\ sampled' = <<>> /\ report' = NoReport /\ UNCHANGED <<sloType, sloClock>>
    BY <1>1 DEF ClearSlo
  <2>2. <<>> \in Seq(Stamped) /\ Len(<<>>) = 0 /\ 0 <= MaxHistory
    OBVIOUS
  <2>3. SloTypeOK'
    BY <2>1, <2>2 DEF SloInv, SloTypeOK, Stamped, NoReport
  <2>4. \A i \in 1 .. Len(<<>>) : FALSE
    BY <2>2
  <2>5. LastOf(history', sampled') /\ InTime(sampled', sloClock')
    BY <2>1, <2>2, <2>4 DEF LastOf, InTime
  <2>6. report'.made = FALSE
    BY <2>1 DEF NoReport
  <2> QED BY <2>3, <2>5, <2>6 DEF SloInv
<1>2. CASE Snapshot
  <2>1. PICK I : I = Within(history, DOMAIN history, SloWindow)
    OBVIOUS
  <2>2. PICK breached \in Breached(history, I), consumed \in Consumed(history, I), burning \in [BurnWindows -> BOOLEAN] :
          /\ \A w \in BurnWindows : burning[w] \in Burning(history, Within(history, I, w))
          /\ report' = [made |-> TRUE, breached |-> breached, consumed |-> consumed, burning |-> burning]
    BY <1>2, <2>1 DEF Snapshot
  <2>3. UNCHANGED <<sloType, history, sloClock, sampled>>
    BY <1>2 DEF Snapshot
  <2>4. report'.made = TRUE /\ report'.breached = breached /\ report'.consumed = consumed /\ report'.burning = burning
    BY <2>2
  <2>5. SloTypeOK'
    BY <2>3, <2>4 DEF SloInv, SloTypeOK
  <2>6. Computed(report')
    BY <2>1, <2>2, <2>4 DEF Computed
  <2>7. Computed(report)'
    <3>1. Within(history, DOMAIN history, SloWindow)' = I
      BY <2>1, <2>3 DEF Within
    <3>2. \A w : Within(history, I, w)' = Within(history, I, w)
      BY <2>3 DEF Within
    <3>3. \A J : /\ Breached(history, J)' = Breached(history, J)
                 /\ Consumed(history, J)' = Consumed(history, J)
                 /\ Burning(history, J)' = Burning(history, J)
      BY <2>3 DEF Breached, Consumed, Burning
    <3> QED BY <2>1, <2>6, <3>1, <3>2, <3>3 DEF Computed
  <2> QED BY <2>3, <2>5, <2>7 DEF SloInv
<1>3. CASE SloTick
  <2>1. sloClock' = sloClock + 1 /\ report' = NoReport /\ sloClock < MaxClock /\ UNCHANGED <<sloType, history, sampled>>
    BY <1>3 DEF SloTick
  <2>2. sloClock \in Nat /\ sampled \in Seq(Stamped) /\ sloClock' \in 0 .. MaxClock
    BY <2>1 DEF SloInv, SloTypeOK, Stamped
  <2>3. report'.made = FALSE
    BY <2>1 DEF NoReport
  <2>4. SloTypeOK'
    BY <2>1, <2>2, <2>3 DEF SloInv, SloTypeOK
  <2>5. InTime(sampled', sloClock')
    <3>1. \A i \in 1 .. Len(sampled) : sampled[i] \in Stamped
      BY <2>2
    <3>2. \A i \in 1 .. Len(sampled) : sampled[i].at \in Nat
      BY <3>1 DEF Stamped
    <3>3. \A i \in 1 .. Len(sampled) : sampled[i].at <= sloClock + 1
      BY <2>2, <3>2 DEF SloInv, InTime
    <3> QED BY <2>1, <3>3 DEF SloInv, InTime
  <2> QED BY <2>1, <2>3, <2>4, <2>5 DEF SloInv
<1>4. CASE UNCHANGED sloVars
  <2>1. UNCHANGED <<sloType, history, sloClock, report, sampled>>
    BY <1>4 DEF sloVars
  <2>2. Computed(report)' <=> Computed(report)
    BY <2>1 DEF Computed, Within, Breached, Consumed, Burning, P95, InBuckets, Requested, Failed,
                FailureShare, AllowedFailures
  <2> QED BY <2>1, <2>2 DEF SloInv, SloTypeOK
<1> QED BY <1>1, <1>2, <1>3, <1>4, SampleRecorded DEF SloNext

(* Sums over the same samples in what is kept and in everything that was recorded. *)
LEMMA SameMeasures ==
  ASSUME SloInv, NEW d \in Nat, d = Len(sampled) - Len(history),
         NEW K \in SUBSET (DOMAIN history)
  PROVE  /\ Requested(history, K) \in Nat /\ Failed(history, K) \in Nat
         /\ Requested(sampled, {i + d : i \in K}) = Requested(history, K)
         /\ Failed(sampled, {i + d : i \in K}) = Failed(history, K)
<1>1. PICK J : J = {i + d : i \in K}
  OBVIOUS
<1>2. history \in Seq(Stamped) /\ DOMAIN history = 1 .. Len(history) /\ Len(history) \in Nat
  BY DEF SloInv, SloTypeOK, Stamped
<1>3. IsFiniteSet(K) /\ K \in SUBSET Nat
  <2>1. PICK l \in Nat : l = Len(history)
    BY <1>2
  <2>2. IsFiniteSet(1 .. l)
    BY FS_Interval
  <2>3. K \in SUBSET (1 .. l)
    BY <1>2, <2>1
  <2> QED BY <2>2, <2>3, FS_Subset
<1>4. \A i \in K : /\ history[i] \in Stamped /\ sampled[i + d] = history[i] /\ i + d \in J
                   /\ history[i].sample.total \in Nat /\ history[i].sample.failed \in Nat
  <2>1. \A i \in K : history[i] \in Stamped /\ sampled[i + d] = history[i]
    BY <1>2 DEF SloInv, LastOf
  <2>2. \A e \in Stamped : e.sample.total \in Nat /\ e.sample.failed \in Nat
    BY SloAssumption DEF Stamped
  <2> QED BY <1>1, <2>1, <2>2
<1>5. Requested(history, K) \in Nat /\ Requested(sampled, J) = Requested(history, K)
  <2>1. PICK f, g : f = [i \in K |-> history[i].sample.total] /\ g = [i \in J |-> sampled[i].sample.total]
    OBVIOUS
  <2>2. \A i \in K : f[i] \in Nat /\ g[i + d] = f[i]
    BY <1>4, <2>1
  <2>3. SumFunctionOnSet(f, K) \in Nat /\ SumFunctionOnSet(g, {i + d : i \in K}) = SumFunctionOnSet(f, K)
    BY <1>3, <2>2, SumShifted
  <2> QED BY <1>1, <2>1, <2>3 DEF Requested
<1>6. Failed(history, K) \in Nat /\ Failed(sampled, J) = Failed(history, K)
  <2>1. PICK f, g : f = [i \in K |-> history[i].sample.failed] /\ g = [i \in J |-> sampled[i].sample.failed]
    OBVIOUS
  <2>2. \A i \in K : f[i] \in Nat /\ g[i + d] = f[i]
    BY <1>4, <2>1
  <2>3. SumFunctionOnSet(f, K) \in Nat /\ SumFunctionOnSet(g, {i + d : i \in K}) = SumFunctionOnSet(f, K)
    BY <1>3, <2>2, SumShifted
  <2> QED BY <1>1, <2>1, <2>3 DEF Failed
<1> QED BY <1>5, <1>6, <1>1

LEMMA SamePercentile ==
  ASSUME SloInv, NEW d \in Nat, d = Len(sampled) - Len(history),
         NEW K \in SUBSET (DOMAIN history)
  PROVE  P95(sampled, {i + d : i \in K}) = P95(history, K)
<1>1. PICK J : J = {i + d : i \in K}
  OBVIOUS
<1>2. \A i \in K : sampled[i + d] = history[i] /\ i + d \in J
  <2>1. DOMAIN history = 1 .. Len(history)
    BY DEF SloInv, SloTypeOK
  <2> QED BY <1>1, <2>1 DEF SloInv, LastOf
<1>3. {sampled[i].sample.bucket : i \in J} = {history[i].sample.bucket : i \in K}
  BY <1>2, <1>1
<1>4. Requested(sampled, J) = Requested(history, K)
  BY <1>1, SameMeasures
<1>5. ASSUME NEW b PROVE InBuckets(sampled, J, b) = InBuckets(history, K, b)
  <2>1. PICK L \in SUBSET (DOMAIN history) : L = {i \in K : history[i].sample.bucket <= b}
    OBVIOUS
  <2>2. {i \in J : sampled[i].sample.bucket <= b} = {i + d : i \in L}
    BY <1>2, <1>1, <2>1
  <2>3. Requested(sampled, {i + d : i \in L}) = Requested(history, L)
    BY SameMeasures
  <2> QED BY <2>1, <2>2, <2>3 DEF InBuckets
<1>6. PICK B : B = {history[i].sample.bucket : i \in K}
  OBVIOUS
<1>7. PICK R : R = {b \in B : 100 * InBuckets(history, K, b) >= 95 * Requested(history, K)}
  OBVIOUS
<1>8. PICK C, Q : /\ C = {sampled[i].sample.bucket : i \in J}
                   /\ Q = {b \in C : 100 * InBuckets(sampled, J, b) >= 95 * Requested(sampled, J)}
  OBVIOUS
<1>9. P95(history, K) = IF Requested(history, K) = 0 THEN 0 ELSE CHOOSE b \in R : \A c \in R : b <= c
  BY <1>6, <1>7 DEF P95
<1>10. P95(sampled, J) = IF Requested(sampled, J) = 0 THEN 0 ELSE CHOOSE b \in Q : \A c \in Q : b <= c
  BY <1>8 DEF P95
<1>11. B = C
  BY <1>3, <1>6, <1>8
<1>12. Q = R
  BY <1>4, <1>5, <1>7, <1>8, <1>11
<1> QED BY <1>4, <1>9, <1>10, <1>12, <1>1

(* When the window holds no more samples than are kept, they are the last places of all. *)
LEMMA WindowKept ==
  ASSUME SloInv, NEW d \in Nat, d = Len(sampled) - Len(history),
         NEW all, all = Within(sampled, DOMAIN sampled, SloWindow), Cardinality(all) <= MaxHistory
  PROVE  all = {i + d : i \in Within(history, DOMAIN history, SloWindow)}
<1> USE SloAssumption
<1>1. PICK n \in Nat, l \in Nat : n = Len(sampled) /\ l = Len(history)
  BY DEF SloInv, SloTypeOK
<1>2. /\ sampled \in Seq(Stamped) /\ DOMAIN sampled = 1 .. n /\ DOMAIN history = 1 .. l
      /\ sloClock \in Nat /\ SloWindow \in Nat
  BY <1>1 DEF SloInv, SloTypeOK, Stamped
<1>3. l <= n /\ d = n - l /\ (n > l => l = MaxHistory)
  BY <1>1 DEF SloInv, LastOf
<1>4. \A i \in 1 .. l : history[i] = sampled[i + d] /\ i + d \in 1 .. n
  <2>1. \A i \in 1 .. l : i + d \in 1 .. n
    BY <1>1, <1>3
  <2> QED BY <1>1, <2>1 DEF SloInv, LastOf
<1>5. all = {i \in 1 .. n : sampled[i].at + SloWindow >= sloClock}
  BY <1>2 DEF Within
<1>6. Within(history, DOMAIN history, SloWindow) = {i \in 1 .. l : sampled[i + d].at + SloWindow >= sloClock}
  BY <1>2, <1>4 DEF Within
<1>7. ASSUME NEW i \in all PROVE i - d \in 1 .. l
  <2>1. i \in 1 .. n
    BY <1>5
  <2>2. ASSUME i <= d PROVE FALSE
    <3>1. l = MaxHistory /\ n > l
      BY <1>1, <1>3, <2>1, <2>2
    <3>2. \A j \in i .. n : j \in all
      <4>1. \A j \in 1 .. n : sampled[j] \in Stamped
        BY <1>1, <1>2
      <4>2. \A j \in 1 .. n : sampled[j].at \in Nat
        BY <4>1 DEF Stamped
      <4>3. \A j \in i .. n : j \in 1 .. n /\ i <= j
        BY <2>1
      <4>4. \A j \in i .. n : sampled[i].at <= sampled[j].at
        BY <1>1, <2>1, <4>3 DEF SloInv, InTime
      <4>5. sampled[i].at + SloWindow >= sloClock
        BY <1>5
      <4>6. \A j \in i .. n : sampled[j].at + SloWindow >= sloClock
        BY <1>2, <2>1, <4>2, <4>3, <4>4, <4>5
      <4> QED BY <1>5, <4>3, <4>6
    <3>3. IsFiniteSet(i .. n) /\ Cardinality(i .. n) = n - i + 1
      <4>1. i \in Int /\ n \in Int /\ ~(i > n)
        BY <2>1
      <4> QED BY <4>1, FS_Interval
    <3>4. IsFiniteSet(all)
      <4>1. IsFiniteSet(1 .. n)
        BY FS_Interval
      <4>2. all \in SUBSET (1 .. n)
        BY <1>5
      <4> QED BY <4>1, <4>2, FS_Subset
    <3>5. Cardinality(i .. n) <= Cardinality(all) /\ Cardinality(all) \in Nat
      <4>1. (i .. n) \in SUBSET all
        BY <3>2
      <4> QED BY <3>4, <4>1, FS_Subset, FS_CardinalityType
    <3>6. n - i + 1 > l
      BY <1>1, <1>3, <2>1, <2>2
    <3>7. n - i + 1 <= MaxHistory
      BY <2>1, <3>3, <3>5
    <3> QED BY <1>1, <2>1, <3>1, <3>6, <3>7
  <2> QED BY <1>1, <1>3, <2>1, <2>2
<1>8. \A i \in all : i = (i - d) + d /\ i \in Nat
  BY <1>5
<1>9. \A i \in 1 .. l : i + d \in all <=> sampled[i + d].at + SloWindow >= sloClock
  BY <1>4, <1>5
<1>10. PICK kept : kept = Within(history, DOMAIN history, SloWindow)
  OBVIOUS
<1>11. \A i \in 1 .. l : i \in kept <=> i + d \in all
  BY <1>6, <1>9, <1>10
<1>12. \A i \in all : i - d \in kept /\ i = (i - d) + d
  BY <1>7, <1>8, <1>11
<1>13. \A i \in kept : i + d \in all
  BY <1>6, <1>10, <1>11
<1>14. all = {i + d : i \in kept}
  BY <1>12, <1>13
<1> QED BY <1>10, <1>14

LEMMA SloInvSuffices == SloInv => ReportSpeaksForAll
<1> SUFFICES ASSUME SloInv PROVE ReportSpeaksForAll
  OBVIOUS
<1> USE SloAssumption
<1>1. PICK all : all = Within(sampled, DOMAIN sampled, SloWindow)
  OBVIOUS
<1>2. PICK I : I = Within(history, DOMAIN history, SloWindow)
  OBVIOUS
<1>3. ASSUME report.made, Cardinality(all) <= MaxHistory
      PROVE  /\ (IF sloType = "latency" THEN P95(sampled, all) > LatencyTarget
                 ELSE FailureShare(sampled, all) > Requested(sampled, all)) =>
                /\ report.breached /\ report.consumed
                /\ \A w \in BurnWindows : w >= SloWindow => report.burning[w]
             /\ (IF sloType = "latency" THEN ~(P95(sampled, all) > LatencyTarget)
                 ELSE FailureShare(sampled, all) < Requested(sampled, all) \/ Failed(sampled, all) = 0) =>
                ~report.breached
  <2>1. PICK d \in Nat : d = Len(sampled) - Len(history)
    <3>1. PICK n \in Nat, l \in Nat : n = Len(sampled) /\ l = Len(history)
      BY DEF SloInv, SloTypeOK
    <3>2. l <= n
      BY <3>1 DEF SloInv, LastOf
    <3> QED BY <3>1, <3>2
  <2>2. all = {i + d : i \in I}
    BY <1>1, <1>2, <1>3, <2>1, WindowKept
  <2>10. I \in SUBSET (DOMAIN history)
    BY <1>2 DEF Within
  <2>3. PICK r \in Nat, f \in Nat : /\ r = Requested(history, I) /\ f = Failed(history, I)
                                    /\ r = Requested(sampled, all) /\ f = Failed(sampled, all)
    <3>1. /\ Requested(history, I) \in Nat /\ Failed(history, I) \in Nat
          /\ Requested(sampled, {i + d : i \in I}) = Requested(history, I)
          /\ Failed(sampled, {i + d : i \in I}) = Failed(history, I)
      BY <2>1, <2>10, SameMeasures
    <3> QED BY <2>2, <3>1
  <2>4. PICK p : p = P95(history, I) /\ p = P95(sampled, all)
    <3>1. P95(sampled, {i + d : i \in I}) = P95(history, I)
      BY <2>1, <2>10, SamePercentile
    <3> QED BY <2>2, <3>1
  <2>5. /\ report.breached \in Breached(history, I) /\ report.consumed \in Consumed(history, I)
        /\ \A w \in BurnWindows : report.burning[w] \in Burning(history, Within(history, I, w))
    BY <1>2, <1>3 DEF SloInv, Computed
  <2>6. \A w \in BurnWindows : w >= SloWindow => Within(history, I, w) = I
    <3> SUFFICES ASSUME NEW w \in BurnWindows, w >= SloWindow PROVE Within(history, I, w) = I
      OBVIOUS
    <3>1. \A i \in DOMAIN history : history[i].at \in Nat
      <4>1. \A i \in DOMAIN history : history[i] \in Stamped
        <5>1. history \in Seq(Stamped)
          BY DEF SloInv, SloTypeOK, Stamped
        <5> QED BY <5>1
      <4> QED BY <4>1 DEF Stamped
    <3>2. w \in Nat /\ SloWindow \in Nat /\ sloClock \in Nat
      BY DEF SloInv, SloTypeOK
    <3>3. \A i \in I : history[i].at + w >= sloClock
      BY <1>2, <3>1, <3>2 DEF Within
    <3> QED BY <3>3 DEF Within
  <2>7. CASE sloType = "latency"
    <3>1. PICK v : v = (p > LatencyTarget)
      OBVIOUS
    <3>2. Breached(history, I) = {v} /\ Consumed(history, I) = {v} /\ Burning(history, I) = {v}
      BY <2>4, <2>7, <3>1 DEF Breached, Consumed, Burning
    <3>3. report.breached = v /\ report.consumed = v
      BY <2>5, <3>2
    <3>4. \A w \in BurnWindows : w >= SloWindow => report.burning[w] = v
      BY <2>5, <2>6, <3>2
    <3> QED BY <2>4, <2>7, <3>1, <3>3, <3>4
  <2>8. CASE sloType # "latency"
    <3>1. PICK a \in Nat : a = AllowedPart * f
      OBVIOUS
    <3>2. PICK A : A = Above(a, r)
      OBVIOUS
    <3>3. report.breached \in A
      BY <2>3, <2>5, <2>8, <3>1, <3>2 DEF Breached, FailureShare
    <3>4. \A w \in BurnWindows : w >= SloWindow => report.burning[w] \in A
      BY <2>3, <2>5, <2>6, <2>8, <3>1, <3>2 DEF Burning, FailureShare
    <3>5. a > r => A = {TRUE}
      <4> SUFFICES ASSUME a > r PROVE A = {TRUE}
        OBVIOUS
      <4>1. a # r /\ (a > r) = TRUE
        OBVIOUS
      <4>2. A = {a > r}
        BY <3>2, <4>1 DEF Above
      <4> QED BY <4>1, <4>2
    <3>6. a < r \/ f = 0 => A = {FALSE}
      <4> SUFFICES ASSUME a < r \/ f = 0 PROVE A = {FALSE}
        OBVIOUS
      <4>1. ~(a = r /\ a # 0) /\ (a > r) = FALSE
        BY <3>1
      <4>2. A = {a > r}
        BY <3>2, <4>1 DEF Above
      <4> QED BY <4>1, <4>2
    <3>7. a > r => report.consumed
      <4> SUFFICES ASSUME a > r PROVE report.consumed
        OBVIOUS
      <4>1. PICK q \in Nat : q = r \div AllowedPart
        OBVIOUS
      <4>2. q <= f
        <5>1. q * AllowedPart <= r
          BY <4>1
        <5>2. q > f => q * AllowedPart >= f * AllowedPart
          OBVIOUS
        <5>3. f * AllowedPart = a /\ q * AllowedPart \in Nat
          BY <3>1
        <5> QED BY <5>1, <5>2, <5>3
      <4>3. \A m \in AllowedFailures(history, I) : f >= m
        <5>1. AllowedFailures(history, I) \in SUBSET {q, q - 1}
          BY <2>3, <4>1 DEF AllowedFailures
        <5>2. f >= q /\ f >= q - 1
          BY <4>2
        <5> QED BY <5>1, <5>2
      <4>4. report.consumed \in {f >= m : m \in AllowedFailures(history, I)}
        BY <2>3, <2>5, <2>8 DEF Consumed
      <4> QED BY <4>3, <4>4
    <3>8. FailureShare(sampled, all) = a /\ Requested(sampled, all) = r /\ Failed(sampled, all) = f
      BY <2>3, <3>1 DEF FailureShare
    <3>9. a > r => /\ report.breached /\ report.consumed
                   /\ \A w \in BurnWindows : w >= SloWindow => report.burning[w]
      <4> SUFFICES ASSUME a > r
                   PROVE  report.breached /\ \A w \in BurnWindows : w >= SloWindow => report.burning[w]
        BY <3>7
      <4>1. A = {TRUE}
        BY <3>5
      <4>2. report.breached = TRUE
        BY <3>3, <4>1
      <4>3. \A w \in BurnWindows : w >= SloWindow => report.burning[w] = TRUE
        BY <3>4, <4>1
      <4> QED BY <4>2, <4>3
    <3>10. a < r \/ f = 0 => ~report.breached
      BY <3>3, <3>6
    <3> QED BY <2>8, <3>8, <3>9, <3>10
  <2> QED BY <2>7, <2>8
<1> QED BY <1>1, <1>3 DEF ReportSpeaksForAll, SloInv

(* While a window holds no more samples than are kept, a snapshot of an objective speaks   *)
(* for all of them, however many were recorded before and were dropped.                     *)
THEOREM ReportsSpeakForAll == Spec => []ReportSpeaksForAll
<1>1. Init => SloInv
  BY SloStarts DEF Init
<1>2. SloInv /\ [Next]_vars => SloInv'
  BY SloMoves, SloStepKeeps
<1>3. SloInv => ReportSpeaksForAll
  BY SloInvSuffices
<1> QED BY <1>1, <1>2, <1>3, PTL DEF Spec

-----------------------------------------------------------------------------
(* The streams of the providers. *)

(* Which lines are complete, what the prompt is known to be after them, and what they yield. *)
Complete(c, n) == Ends(c) <= n /\ \A i \in DOMAIN response.lines : i > c => n < Ends(i)
KnownAfter(c) ==
  IF response.provider = "anthropic" /\ \E k \in 1 .. c : response.lines[k] = "start"
  THEN PromptTokens ELSE 0
DueUpTo(c) ==
  {n \in 1 .. 2 * c :
     LET kind == response.lines[(n + 1) \div 2] IN
     \/ kind = (IF n % 2 = 1 THEN "text" ELSE "usage")
     \/ kind = "both" /\ response.provider # "anthropic"}

(* While the response is open the buffer holds what follows the last complete line. *)
StreamInv ==
  /\ LlmStreamTypeOK /\ received <= Ends(Len(response.lines))
  /\ response.pc = "open" =>
       \E c \in 0 .. Len(response.lines) :
         /\ Complete(c, received)
         /\ lineBuffer = SubSeq(Text, Ends(c) + 1, received)
         /\ promptSeen = KnownAfter(c)
         /\ yielded = Keep(Room, DueUpTo(c))
  /\ response.pc # "open" => yielded = Keep(Room, Due)

(* What is known of the response. *)
LEMMA LinesTyped ==
  ASSUME LlmStreamTypeOK
  PROVE  /\ response.lines \in Seq(Kinds) /\ Len(response.lines) \in Nat
         /\ DOMAIN response.lines = 1 .. Len(response.lines)
         /\ response.provider \in {"anthropic", "ollama", "openai"}
<1>1. response \in [provider : Providers, lines : Streams, pc : {"open", "done", "failed"}]
  BY DEF LlmStreamTypeOK
<1>2. response.lines \in Seq(Kinds) /\ response.provider \in {"anthropic", "ollama", "openai"}
  BY <1>1, StreamAssumption
<1> QED BY <1>2

(* Where the lines end. *)
LEMMA EndsRise ==
  ASSUME LlmStreamTypeOK
  PROVE  /\ \A i \in 0 .. Len(response.lines) : Ends(i) \in Nat
         /\ \A i, j \in 0 .. Len(response.lines) : i < j => Ends(i) < Ends(j)
         /\ Ends(0) = 0
         /\ \A i \in 1 .. Len(response.lines) :
              Ends(i) = Ends(i - 1) + (IF response.lines[i] = "blank" THEN 1 ELSE 3)
<1>1. PICK L \in Nat : L = Len(response.lines)
  BY LinesTyped
<1>2. PICK F : F = [i \in Nat |-> {k \in 1 .. i : response.lines[k] # "blank"}]
  OBVIOUS
<1>3. \A i \in Nat : Ends(i) = i + 2 * Cardinality(F[i])
  BY <1>2 DEF Ends
<1>4. \A i \in Nat : F[i] \in SUBSET (1 .. i)
  BY <1>2
<1>5. \A i \in Nat : IsFiniteSet(F[i])
  BY <1>4, FS_Interval, FS_Subset
<1>6. \A i \in Nat : Cardinality(F[i]) \in Nat
  BY <1>5, FS_CardinalityType
<1>7. ASSUME NEW i \in Nat, NEW j \in Nat, i < j PROVE Cardinality(F[i]) <= Cardinality(F[j])
  <2>1. F[i] \in SUBSET F[j]
    BY <1>2, <1>7
  <2> QED BY <1>5, <2>1, FS_Subset
<1>8. Ends(0) = 0
  <2>1. F[0] = {}
    BY <1>4
  <2>2. Cardinality(F[0]) = 0
    BY <2>1, FS_EmptySet
  <2> QED BY <1>3, <2>2
<1>9. ASSUME NEW i \in 1 .. L
      PROVE Ends(i) = Ends(i - 1) + (IF response.lines[i] = "blank" THEN 1 ELSE 3)
  <2>1. i \in Nat /\ i - 1 \in Nat /\ i \notin 1 .. (i - 1) /\ 1 .. i = (1 .. (i - 1)) \cup {i}
    OBVIOUS
  <2>2. CASE response.lines[i] = "blank"
    <3>1. F[i] = F[i - 1]
      BY <1>2, <2>1, <2>2
    <3>2. Cardinality(F[i]) = Cardinality(F[i - 1])
      BY <3>1
    <3> QED BY <1>3, <1>6, <2>1, <2>2, <3>2
  <2>3. CASE response.lines[i] # "blank"
    <3>1. F[i] = F[i - 1] \cup {i} /\ i \notin F[i - 1]
      BY <1>2, <2>1, <2>3
    <3>2. Cardinality(F[i]) = Cardinality(F[i - 1]) + 1
      BY <1>5, <2>1, <3>1, FS_AddElement
    <3> QED BY <1>3, <1>6, <2>1, <2>3, <3>2
  <2> QED BY <2>2, <2>3
<1>10. \A i \in 0 .. L : Ends(i) \in Nat
  BY <1>3, <1>6
<1>11. ASSUME NEW i \in 0 .. L, NEW j \in 0 .. L, i < j PROVE Ends(i) < Ends(j)
  <2>1. i \in Nat /\ j \in Nat
    OBVIOUS
  <2>2. PICK u \in Nat : u = Cardinality(F[i])
    BY <1>6, <2>1
  <2>3. PICK v \in Nat : v = Cardinality(F[j])
    BY <1>6, <2>1
  <2>4. u <= v
    BY <1>7, <1>11, <2>1, <2>2, <2>3
  <2>5. Ends(i) = i + 2 * u /\ Ends(j) = j + 2 * v
    BY <1>3, <2>1, <2>2, <2>3
  <2> QED BY <1>11, <2>1, <2>4, <2>5
<1> QED BY <1>1, <1>8, <1>9, <1>10, <1>11

(* The number of complete lines. *)
LEMMA SomeComplete ==
  ASSUME LlmStreamTypeOK, NEW n \in Nat
  PROVE  \E c \in 0 .. Len(response.lines) : Complete(c, n)
<1>1. PICK L \in Nat : L = Len(response.lines) /\ DOMAIN response.lines = 1 .. L
  BY LinesTyped
<1>2. PICK S : S = {i \in 0 .. L : Ends(i) <= n}
  OBVIOUS
<1>3. S \in SUBSET Nat /\ IsFiniteSet(S) /\ S # {}
  <2>1. 0 \in S
    BY <1>2, EndsRise
  <2>2. IsFiniteSet(0 .. L)
    BY FS_Interval
  <2> QED BY <1>2, <2>1, <2>2, FS_Subset
<1>4. PICK c \in S : \A y \in S : y <= c
  BY <1>3, Extremes
<1>5. \A i \in 1 .. L : i > c => n < Ends(i)
  <2> SUFFICES ASSUME NEW i \in 1 .. L, i > c PROVE n < Ends(i)
    OBVIOUS
  <2>1. i \in 0 .. L /\ Ends(i) \in Nat
    BY <1>1, EndsRise
  <2>2. ~(i <= c)
    BY <1>2
  <2>3. i \notin S
    BY <1>4, <2>2
  <2> QED BY <1>2, <2>1, <2>3
<1> QED BY <1>1, <1>2, <1>4, <1>5 DEF Complete

(* Each symbol of the text belongs to a line. *)
LEMMA LineOf ==
  ASSUME LlmStreamTypeOK, NEW n \in 1 .. Ends(Len(response.lines))
  PROVE  \E i \in 1 .. Len(response.lines) : Ends(i - 1) < n /\ n <= Ends(i)
<1>1. PICK L \in Nat : L = Len(response.lines) /\ DOMAIN response.lines = 1 .. L
  BY LinesTyped
<1>2. \A i \in 0 .. L : Ends(i) \in Nat
  BY <1>1, EndsRise
<1>3. Ends(L) \in Nat /\ n \in 1 .. Ends(L) /\ n - 1 \in Nat
  BY <1>1, <1>2
<1>4. PICK c \in 0 .. L : Complete(c, n - 1)
  BY <1>1, <1>3, SomeComplete
<1>5. c # L
  BY <1>3, <1>4 DEF Complete
<1>6. c + 1 \in 1 .. L /\ (c + 1) - 1 = c /\ c + 1 > c
  BY <1>5
<1>7. Ends(c) <= n - 1 /\ n - 1 < Ends(c + 1)
  BY <1>1, <1>4, <1>6 DEF Complete
<1>8. Ends(c) \in Nat /\ Ends(c + 1) \in Nat
  BY <1>2, <1>6
<1>9. Ends((c + 1) - 1) < n /\ n <= Ends(c + 1)
  BY <1>3, <1>6, <1>7, <1>8
<1> QED BY <1>1, <1>6, <1>9

(* What stands where in the text. *)
LEMMA TextAt ==
  ASSUME LlmStreamTypeOK
  PROVE  /\ Text \in Seq(Symbols) /\ Len(Text) = Ends(Len(response.lines))
         /\ \A i \in 1 .. Len(response.lines), n \in Nat : Ends(i - 1) < n /\ n <= Ends(i) =>
              Text[n] = IF n = Ends(i) THEN NL ELSE [line |-> i, half |-> n - Ends(i - 1)]
<1>1. PICK L \in Nat : L = Len(response.lines) /\ DOMAIN response.lines = 1 .. L
  BY LinesTyped
<1>2. /\ \A i \in 0 .. L : Ends(i) \in Nat
      /\ \A i, j \in 0 .. L : i < j => Ends(i) < Ends(j)
      /\ Ends(0) = 0
      /\ \A i \in 1 .. L : Ends(i) = Ends(i - 1) + (IF response.lines[i] = "blank" THEN 1 ELSE 3)
  BY <1>1, EndsRise
<1>3. PICK M \in Nat : M = Ends(L)
  BY <1>2
<1>4. ASSUME NEW i \in 1 .. L, NEW n \in Nat, Ends(i - 1) < n, n <= Ends(i)
      PROVE  /\ n \in 1 .. M
             /\ Text[n] = IF n = Ends(i) THEN NL ELSE [line |-> i, half |-> n - Ends(i - 1)]
             /\ Text[n] \in Symbols
  <2>1. i - 1 \in 0 .. L /\ i \in 0 .. L /\ L \in 0 .. L
    OBVIOUS
  <2>2. Ends(i - 1) \in Nat /\ Ends(i) \in Nat /\ Ends(i) <= M
    <3>1. i < L \/ i = L
      OBVIOUS
    <3>2. i < L => Ends(i) < Ends(L)
      BY <1>2, <2>1
    <3>3. Ends(i) \in Nat /\ Ends(i - 1) \in Nat
      BY <1>2, <2>1
    <3> QED BY <1>3, <3>1, <3>2, <3>3
  <2>3. n \in 1 .. M
    BY <1>4, <2>2
  <2>4. \A k \in 1 .. L : Ends(k - 1) < n /\ n <= Ends(k) => k = i
    <3> SUFFICES ASSUME NEW k \in 1 .. L, Ends(k - 1) < n, n <= Ends(k) PROVE k = i
      OBVIOUS
    <3>1. k - 1 \in 0 .. L /\ k \in 0 .. L /\ Ends(k) \in Nat /\ Ends(k - 1) \in Nat
      BY <1>2
    <3>2. ~(k < i)
      <4>1. k < i => k = i - 1 \/ k < i - 1
        OBVIOUS
      <4>2. k < i - 1 => Ends(k) < Ends(i - 1)
        BY <1>2, <2>1, <3>1
      <4>3. k = i - 1 => Ends(k) = Ends(i - 1)
        OBVIOUS
      <4> QED BY <1>4, <2>2, <3>1, <4>1, <4>2, <4>3
    <3>3. ~(i < k)
      <4>1. i < k => i = k - 1 \/ i < k - 1
        OBVIOUS
      <4>2. i < k - 1 => Ends(i) < Ends(k - 1)
        BY <1>2, <2>1, <3>1
      <4>3. i = k - 1 => Ends(i) = Ends(k - 1)
        OBVIOUS
      <4> QED BY <1>4, <2>2, <3>1, <4>1, <4>2, <4>3
    <3> QED BY <3>2, <3>3
  <2>5. (CHOOSE k \in 1 .. L : Ends(k - 1) < n /\ n <= Ends(k)) = i
    BY <1>4, <2>4
  <2>6. Text[n] = IF n = Ends(i) THEN NL ELSE [line |-> i, half |-> n - Ends(i - 1)]
    BY <1>1, <1>3, <2>3, <2>5 DEF Text
  <2>7. n # Ends(i) => n - Ends(i - 1) \in 0 .. 2
    BY <1>2, <1>4, <2>2
  <2>8. i \in Nat
    OBVIOUS
  <2>9. NL \in Symbols
    BY DEF NL, Symbols
  <2>10. n # Ends(i) => [line |-> i, half |-> n - Ends(i - 1)] \in Symbols
    BY <2>7, <2>8 DEF Symbols
  <2> QED BY <2>3, <2>6, <2>9, <2>10
<1>5. ASSUME NEW n \in 1 .. M PROVE Text[n] \in Symbols
  <2>1. PICK i \in 1 .. L : Ends(i - 1) < n /\ n <= Ends(i)
    BY <1>1, <1>3, LineOf
  <2>2. n \in Nat
    OBVIOUS
  <2> QED BY <1>4, <2>1, <2>2
<1>6. Text \in Seq(Symbols) /\ Len(Text) = M
  <2>1. DOMAIN Text = 1 .. M /\ Text = [n \in 1 .. M |-> Text[n]]
    BY <1>1, <1>3 DEF Text
  <2>2. Text \in [1 .. M -> Symbols]
    BY <1>5, <2>1
  <2> QED BY <2>1, <2>2
<1> QED BY <1>1, <1>3, <1>4, <1>6

(* The newlines are where the lines end. *)
LEMMA NewlineAt ==
  ASSUME LlmStreamTypeOK, NEW n \in 1 .. Ends(Len(response.lines))
  PROVE  Text[n] = NL <=> \E i \in 1 .. Len(response.lines) : n = Ends(i)
<1>1. PICK L \in Nat : L = Len(response.lines)
  BY LinesTyped
<1>2. /\ \A i \in 0 .. L : Ends(i) \in Nat
      /\ \A i, j \in 0 .. L : i < j => Ends(i) < Ends(j)
  BY <1>1, EndsRise
<1>3. PICK i \in 1 .. L : Ends(i - 1) < n /\ n <= Ends(i)
  BY <1>1, LineOf
<1>4. i - 1 \in 0 .. L /\ i \in 0 .. L
  OBVIOUS
<1>5. Ends(i) \in Nat /\ Ends(i - 1) \in Nat /\ n \in Nat
  BY <1>1, <1>2, <1>4
<1>6. Text[n] = IF n = Ends(i) THEN NL ELSE [line |-> i, half |-> n - Ends(i - 1)]
  BY <1>1, <1>3, <1>5, TextAt
<1>7. n - Ends(i - 1) # 0
  BY <1>3, <1>5
<1>8. [line |-> i, half |-> n - Ends(i - 1)] # NL
  BY <1>7 DEF NL
<1>9. ASSUME NEW j \in 1 .. L, n = Ends(j) PROVE n = Ends(i)
  <2>1. j \in 0 .. L
    OBVIOUS
  <2>2. i < j => Ends(i) < Ends(j)
    BY <1>2, <1>4, <2>1
  <2>3. j < i => j = i - 1 \/ j < i - 1
    OBVIOUS
  <2>4. j < i - 1 => Ends(j) < Ends(i - 1)
    BY <1>2, <1>4, <2>1
  <2>5. j = i - 1 => Ends(j) = Ends(i - 1)
    OBVIOUS
  <2>6. ~(i < j) /\ ~(j < i)
    BY <1>3, <1>5, <1>9, <2>2, <2>3, <2>4, <2>5
  <2>7. i = j
    BY <2>6
  <2> QED BY <1>9, <2>7
<1> QED BY <1>1, <1>6, <1>8, <1>9

(* The buffer s holds the text from the end of line c up to r, where line d is the last   *)
(* that is complete: it is cut into the lines between, and what follows them is the rest. *)
LEMMA BufferCut ==
  ASSUME LlmStreamTypeOK,
         NEW c \in 0 .. Len(response.lines), NEW d \in 0 .. Len(response.lines), c <= d,
         NEW r \in 0 .. Ends(Len(response.lines)), Complete(d, r),
         NEW s \in Seq(Symbols), Len(s) = r - Ends(c),
         \A n \in 1 .. Len(s) : s[n] = Text[Ends(c) + n]
  PROVE  /\ Len(CompleteLines(s)) = d - c /\ DOMAIN CompleteLines(s) = 1 .. (d - c)
         /\ \A k \in 1 .. (d - c) :
              EventOf(CompleteLines(s)[k]) =
                IF response.lines[c + k] = "blank" THEN [kind |-> "bad", line |-> 0]
                ELSE [kind |-> response.lines[c + k], line |-> c + k]
         /\ Rest(s) = SubSeq(Text, Ends(d) + 1, r)
<1>1. PICK L \in Nat : L = Len(response.lines) /\ DOMAIN response.lines = 1 .. L
  BY LinesTyped
<1>2. /\ \A i \in 0 .. L : Ends(i) \in Nat
      /\ \A i, j \in 0 .. L : i < j => Ends(i) < Ends(j)
      /\ \A i \in 1 .. L : Ends(i) = Ends(i - 1) + (IF response.lines[i] = "blank" THEN 1 ELSE 3)
  BY <1>1, EndsRise
<1>3. c \in 0 .. L /\ d \in 0 .. L /\ r \in Nat /\ Ends(c) \in Nat /\ Ends(d) \in Nat /\ Ends(L) \in Nat
      /\ r <= Ends(L)
  <2>1. L \in 0 .. L
    OBVIOUS
  <2>2. Ends(L) \in Nat
    BY <1>2, <2>1
  <2> QED BY <1>1, <1>2, <2>2
<1>4. Ends(d) <= r /\ \A i \in 1 .. L : i > d => r < Ends(i)
  BY <1>1 DEF Complete
<1>5. Text \in Seq(Symbols) /\ Len(Text) = Ends(L)
  BY <1>1, TextAt
<1>6. PICK m \in Nat : m = d - c
  BY <1>3
<1>7. \A k \in 1 .. m : c + k \in 1 .. L /\ c + k \in 0 .. L /\ (c + k) - 1 = c + (k - 1) /\ c + (k - 1) \in 0 .. L
                        /\ c + k <= d
  BY <1>3, <1>6
<1>8. PICK f : f = [k \in 1 .. m |-> Ends(c + k) - Ends(c)]
  OBVIOUS
<1>9. ASSUME NEW k \in 1 .. m
      PROVE  /\ f[k] \in 1 .. Len(s) /\ Ends(c + k) \in Nat /\ Ends(c) < Ends(c + k)
             /\ Ends(c) + f[k] = Ends(c + k) /\ f[k] = Ends(c + k) - Ends(c)
  <2>1. Ends(c + k) \in Nat /\ Ends(c) < Ends(c + k)
    <3>1. c < c + k
      BY <1>3
    <3> QED BY <1>2, <1>3, <1>7, <3>1
  <2>2. Ends(c + k) <= Ends(d)
    <3>1. c + k < d \/ c + k = d
      <4>1. c \in Nat /\ d \in Nat /\ k \in Nat
        BY <1>3
      <4>2. c + k <= d
        BY <1>7
      <4> QED BY <4>1, <4>2
    <3>2. c + k < d => Ends(c + k) < Ends(d)
      BY <1>2, <1>3, <1>7
    <3> QED BY <1>3, <2>1, <3>1, <3>2
  <2>3. f[k] = Ends(c + k) - Ends(c)
    BY <1>8
  <2>4. PICK x \in Nat : x = Ends(c + k)
    BY <2>1
  <2>5. PICK a \in Nat : a = Ends(c)
    BY <1>3
  <2>6. PICK b \in Nat : b = Ends(d)
    BY <1>3
  <2>7. f[k] = x - a /\ a < x /\ x <= b /\ b <= r /\ Len(s) = r - a
    BY <1>4, <2>1, <2>2, <2>3, <2>4, <2>5, <2>6
  <2>8. f[k] \in 1 .. Len(s) /\ a + f[k] = x
    BY <1>3, <2>7
  <2> QED BY <2>1, <2>3, <2>4, <2>5, <2>8
<1>10. PICK S : S = {i \in DOMAIN s : s[i] = NL}
  OBVIOUS
<1>11. \A n \in 1 .. Len(s) : Ends(c) + n \in 1 .. Ends(L) /\ Ends(c) + n <= r
  BY <1>3
<1>12. f \in [1 .. m -> S]
  <2>1. ASSUME NEW k \in 1 .. m PROVE f[k] \in S
    <3>1. Text[Ends(c + k)] = NL
      BY <1>1, <1>7, <1>9, <1>11, NewlineAt
    <3> QED BY <1>9, <1>10, <3>1
  <2> QED BY <1>8, <2>1
<1>13. \A j, k \in 1 .. m : j < k => f[j] < f[k]
  <2> SUFFICES ASSUME NEW j \in 1 .. m, NEW k \in 1 .. m, j < k PROVE f[j] < f[k]
    OBVIOUS
  <2>1. c + j < c + k
    BY <1>3
  <2>2. Ends(c + j) < Ends(c + k)
    BY <1>2, <1>7, <2>1
  <2>3. PICK x \in Nat : x = Ends(c + j) /\ f[j] = x - Ends(c)
    BY <1>9
  <2>4. PICK y \in Nat : y = Ends(c + k) /\ f[k] = y - Ends(c)
    BY <1>9
  <2>5. PICK a \in Nat : a = Ends(c)
    BY <1>3
  <2>6. x < y /\ f[j] = x - a /\ f[k] = y - a
    BY <2>2, <2>3, <2>4, <2>5
  <2> QED BY <2>6
<1>14. \A x \in S : \E k \in 1 .. m : f[k] = x
  <2> SUFFICES ASSUME NEW x \in S PROVE \E k \in 1 .. m : f[k] = x
    OBVIOUS
  <2>1. x \in 1 .. Len(s) /\ Text[Ends(c) + x] = NL
    BY <1>10
  <2>2. PICK i \in 1 .. L : Ends(c) + x = Ends(i)
    BY <1>1, <1>11, <2>1, NewlineAt
  <2>3. i \in 0 .. L /\ Ends(i) \in Nat
    BY <1>2
  <2>4. ~(i > d)
    BY <1>3, <1>4, <1>11, <2>1, <2>2, <2>3
  <2>5. ~(i <= c)
    <3>1. i < c => Ends(i) < Ends(c)
      BY <1>2, <1>3, <2>3
    <3>2. i = c => Ends(i) = Ends(c)
      OBVIOUS
    <3>3. i <= c => i < c \/ i = c
      BY <1>3
    <3> QED BY <1>3, <2>1, <2>2, <2>3, <3>1, <3>2, <3>3
  <2>6. PICK k \in 1 .. m : k = i - c
    BY <1>3, <1>6, <2>4, <2>5
  <2>7. i = c + k
    BY <1>3, <2>6
  <2>8. f[k] = x
    <3>1. PICK a \in Nat : a = Ends(c)
      BY <1>3
    <3>2. PICK e \in Nat : e = Ends(c + k) /\ f[k] = e - Ends(c)
      BY <1>9
    <3>3. a + x = e /\ f[k] = e - a
      BY <2>2, <2>7, <3>1, <3>2
    <3> QED BY <2>1, <3>3
  <2> QED BY <2>8
<1>15. Newlines(s) = f
  <2>1. S \in SUBSET Int
    BY <1>10
  <2>2. InOrder(S) = f
    BY <1>12, <1>13, <1>14, <2>1, Listed
  <2> QED BY <1>10, <2>2 DEF Newlines
<1>16. DOMAIN f = 1 .. m /\ f \in Seq(Int) /\ Len(f) = m
  <2>1. \A k \in 1 .. m : f[k] \in Int
    BY <1>9
  <2>2. f \in [1 .. m -> Int]
    BY <1>8, <2>1
  <2> QED BY <2>2
<1>17. CompleteLines(s) = [k \in 1 .. m |-> Piece(s, f, k)]
  BY <1>15, <1>16 DEF CompleteLines
<1>18. Len(CompleteLines(s)) = m /\ DOMAIN CompleteLines(s) = 1 .. m
  BY <1>17
<1>19. ASSUME NEW k \in 1 .. m
       PROVE  EventOf(CompleteLines(s)[k]) =
                IF response.lines[c + k] = "blank" THEN [kind |-> "bad", line |-> 0]
                ELSE [kind |-> response.lines[c + k], line |-> c + k]
  <2>1. PICK u \in Nat : u = IF k = 1 THEN 0 ELSE f[k - 1]
    <3>1. k # 1 => k - 1 \in 1 .. m
      OBVIOUS
    <3> QED BY <1>9, <3>1
  <2>2. Ends(c) + u = Ends(c + (k - 1))
    <3>1. CASE k = 1
      BY <1>3, <2>1, <3>1
    <3>2. CASE k # 1
      <4>1. k - 1 \in 1 .. m
        BY <3>2
      <4> QED BY <1>9, <2>1, <3>2, <4>1
    <3> QED BY <3>1, <3>2
  <2>3. /\ Ends(c + (k - 1)) \in Nat
        /\ Ends(c + k) = Ends(c + (k - 1)) + (IF response.lines[c + k] = "blank" THEN 1 ELSE 3)
    BY <1>2, <1>7
  <2>4. PICK e \in 1 .. Len(s) : e = f[k]
    BY <1>9
  <2>5. e = u + (IF response.lines[c + k] = "blank" THEN 1 ELSE 3)
    <3>1. PICK z \in {1, 3} : z = IF response.lines[c + k] = "blank" THEN 1 ELSE 3
      OBVIOUS
    <3>2. PICK a \in Nat : a = Ends(c)
      BY <1>3
    <3>3. Ends(c + k) = (a + u) + z
      BY <2>2, <2>3, <3>1, <3>2
    <3>4. a + e = (a + u) + z
      BY <1>9, <2>4, <3>2, <3>3
    <3>5. e = u + z
      BY <3>4
    <3> QED BY <3>1, <3>5
  <2>6. PICK t : t = SubSeq(s, u + 1, e - 1)
    OBVIOUS
  <2>7. CompleteLines(s)[k] = t
    BY <1>17, <2>1, <2>4, <2>6 DEF Piece
  <2>8. \A i \in (u + 1) .. (e - 1) : i \in 1 .. Len(s) /\ s[i] \in Symbols
    <3>1. \A i \in 1 .. Len(s) : s[i] \in Symbols
      OBVIOUS
    <3> QED BY <3>1
  <2>9. /\ t \in Seq(Symbols)
        /\ Len(t) = IF u + 1 <= e - 1 THEN (e - 1) - (u + 1) + 1 ELSE 0
        /\ \A i \in 1 .. ((e - 1) - (u + 1) + 1) : t[i] = s[(u + 1) + i - 1]
    <3>1. u + 1 \in Int /\ e - 1 \in Int /\ \A i \in (u + 1) .. (e - 1) : s[i] \in Symbols
      BY <2>8
    <3> QED BY <2>6, <3>1, SubSeqProperties
  <2>10. CASE response.lines[c + k] = "blank"
    <3>1. e = u + 1
      BY <2>5, <2>10
    <3>2. Len(t) = 0
      BY <2>9, <3>1
    <3> QED BY <2>7, <2>10, <3>2 DEF EventOf
  <2>11. CASE response.lines[c + k] # "blank"
    <3>1. e = u + 3
      BY <2>5, <2>11
    <3>2. (e - 1) - (u + 1) + 1 = 2 /\ (u + 1) + 1 - 1 = u + 1 /\ (u + 1) + 2 - 1 = u + 2 /\ u + 1 <= e - 1
      BY <3>1
    <3>3. Len(t) = 2 /\ t[1] = s[u + 1] /\ t[2] = s[u + 2]
      <4>1. \A i \in 1 .. 2 : t[i] = s[(u + 1) + i - 1]
        BY <2>9, <3>2
      <4>2. Len(t) = 2
        BY <2>9, <3>2
      <4>3. 1 \in 1 .. 2 /\ 2 \in 1 .. 2
        OBVIOUS
      <4>4. t[1] = s[(u + 1) + 1 - 1] /\ t[2] = s[(u + 1) + 2 - 1]
        BY <4>1, <4>3
      <4> QED BY <3>2, <4>2, <4>4
    <3>4. u + 1 \in 1 .. Len(s) /\ u + 2 \in 1 .. Len(s)
      BY <3>1
    <3>5. s[u + 1] = Text[Ends(c) + (u + 1)] /\ s[u + 2] = Text[Ends(c) + (u + 2)]
      BY <3>4
    <3>6. PICK a \in Nat : a = Ends(c + (k - 1))
      BY <2>3
    <3>7. Ends(c) + (u + 1) = a + 1 /\ Ends(c) + (u + 2) = a + 2 /\ Ends(c + k) = a + 3 /\ Ends((c + k) - 1) = a
      <4>1. PICK z \in Nat : z = Ends(c)
        BY <1>3
      <4>2. z + u = a
        BY <2>2, <3>6, <4>1
      <4>3. z + (u + 1) = a + 1 /\ z + (u + 2) = a + 2
        BY <4>2
      <4>4. Ends(c + k) = a + 3
        BY <2>3, <2>11, <3>6
      <4>5. Ends((c + k) - 1) = a
        BY <1>7, <3>6
      <4> QED BY <4>1, <4>3, <4>4, <4>5
    <3>8. Text[a + 1] = [line |-> c + k, half |-> (a + 1) - a] /\ Text[a + 2] = [line |-> c + k, half |-> (a + 2) - a]
      <4>1. /\ a + 1 \in Nat /\ a < a + 1 /\ a + 1 <= a + 3 /\ a + 1 # a + 3
            /\ a + 2 \in Nat /\ a < a + 2 /\ a + 2 <= a + 3 /\ a + 2 # a + 3
        OBVIOUS
      <4>2. c + k \in 1 .. Len(response.lines)
        BY <1>1, <1>7
      <4>3. PICK i \in 1 .. Len(response.lines) : i = c + k
        BY <4>2
      <4>4. Ends(i) = a + 3 /\ Ends(i - 1) = a
        BY <3>7, <4>3
      <4>5. \A n \in Nat : Ends(i - 1) < n /\ n <= Ends(i) =>
               Text[n] = IF n = Ends(i) THEN NL ELSE [line |-> i, half |-> n - Ends(i - 1)]
        BY TextAt
      <4>6. \A n \in Nat : a < n /\ n <= a + 3 =>
               Text[n] = IF n = a + 3 THEN NL ELSE [line |-> i, half |-> n - a]
        BY <4>4, <4>5
      <4> QED BY <4>1, <4>3, <4>6
    <3>9. (a + 1) - a = 1
      OBVIOUS
    <3>10. t[1].line = c + k /\ t[2].line = c + k /\ t[1].half = 1
      BY <3>3, <3>5, <3>7, <3>8, <3>9
    <3> QED BY <2>7, <2>11, <3>3, <3>10 DEF EventOf
  <2> QED BY <2>10, <2>11
<1>20. PICK w \in Nat : w = Ends(d) - Ends(c)
  <2>1. c < d \/ c = d
    BY <1>3
  <2>2. c < d => Ends(c) < Ends(d)
    BY <1>2, <1>3
  <2> QED BY <1>3, <2>1, <2>2
<1>21. Rest(s) = SubSeq(s, w + 1, Len(s))
  <2>1. CASE m = 0
    <3>1. c = d /\ w = 0
      BY <1>3, <1>6, <1>20, <2>1
    <3>2. f = <<>>
      BY <1>16, <2>1
    <3>3. Rest(s) = s
      BY <1>15, <3>2 DEF Rest
    <3>4. s = SubSeq(s, 1, Len(s))
      OBVIOUS
    <3>5. w + 1 = 1
      BY <3>1
    <3> QED BY <3>3, <3>4, <3>5
  <2>2. CASE m # 0
    <3>1. m \in 1 .. m /\ c + m = d
      BY <1>3, <1>6, <2>2
    <3>2. f[m] = w
      BY <1>9, <1>20, <3>1
    <3>3. f # <<>>
      BY <1>16, <2>2
    <3> QED BY <1>15, <1>16, <3>2, <3>3 DEF Rest
  <2> QED BY <2>1, <2>2
<1>22. Rest(s) = SubSeq(Text, Ends(d) + 1, r)
  <2>1. PICK x : x = SubSeq(s, w + 1, Len(s))
    OBVIOUS
  <2>2. PICK y : y = SubSeq(Text, Ends(d) + 1, r)
    OBVIOUS
  <2>3. \A i \in (w + 1) .. Len(s) : s[i] \in Symbols
    <3>1. \A i \in (w + 1) .. Len(s) : i \in 1 .. Len(s)
      OBVIOUS
    <3>2. \A i \in 1 .. Len(s) : s[i] \in Symbols
      OBVIOUS
    <3> QED BY <3>1, <3>2
  <2>4. \A i \in (Ends(d) + 1) .. r : Text[i] \in Symbols
    <3>1. \A i \in (Ends(d) + 1) .. r : i \in 1 .. Len(Text)
      BY <1>3, <1>5
    <3>2. \A i \in 1 .. Len(Text) : Text[i] \in Symbols
      BY <1>5
    <3> QED BY <3>1, <3>2
  <2>5. /\ x \in Seq(Symbols)
        /\ Len(x) = IF w + 1 <= Len(s) THEN Len(s) - (w + 1) + 1 ELSE 0
        /\ \A i \in 1 .. (Len(s) - (w + 1) + 1) : x[i] = s[(w + 1) + i - 1]
    <3>1. w + 1 \in Int /\ Len(s) \in Int
      OBVIOUS
    <3> QED BY <2>1, <2>3, <3>1, SubSeqProperties
  <2>6. /\ y \in Seq(Symbols)
        /\ Len(y) = IF Ends(d) + 1 <= r THEN r - (Ends(d) + 1) + 1 ELSE 0
        /\ \A i \in 1 .. (r - (Ends(d) + 1) + 1) : y[i] = Text[(Ends(d) + 1) + i - 1]
    <3>1. Ends(d) + 1 \in Int /\ r \in Int
      BY <1>3
    <3> QED BY <2>2, <2>4, <3>1, SubSeqProperties
  <2>7. PICK b \in Nat : b = Ends(d)
    BY <1>3
  <2>8. PICK a \in Nat : a = Ends(c)
    BY <1>3
  <2>9. a + w = b /\ Len(s) = r - a /\ b <= r
    <3>1. w = b - a /\ Len(s) = r - a /\ b <= r
      BY <1>4, <1>20, <2>7, <2>8
    <3> QED BY <3>1
  <2>10. Len(x) = r - b /\ Len(y) = r - b
    <3>1. PICK l \in Nat : l = Len(s)
      OBVIOUS
    <3>2. l = r - a /\ a + w = b /\ b <= r
      BY <2>9, <3>1
    <3>3. Len(x) = IF w + 1 <= l THEN l - (w + 1) + 1 ELSE 0
      BY <2>5, <3>1
    <3>4. Len(y) = IF b + 1 <= r THEN r - (b + 1) + 1 ELSE 0
      BY <2>6, <2>7
    <3>5. Len(x) = r - b
      BY <1>3, <3>2, <3>3
    <3>6. Len(y) = r - b
      BY <1>3, <3>2, <3>4
    <3> QED BY <3>5, <3>6
  <2>11. ASSUME NEW i \in 1 .. (r - b) PROVE x[i] = y[i]
    <3>1. i \in 1 .. (Len(s) - (w + 1) + 1) /\ (w + 1) + i - 1 = w + i /\ w + i \in 1 .. Len(s)
      <4>1. PICK l \in Nat : l = Len(s)
        OBVIOUS
      <4>2. l = r - a /\ a + w = b /\ b <= r
        BY <2>9, <4>1
      <4>3. i \in 1 .. (l - (w + 1) + 1) /\ (w + 1) + i - 1 = w + i /\ w + i \in 1 .. l
        BY <1>3, <4>2
      <4> QED BY <4>1, <4>3
    <3>2. i \in 1 .. (r - (b + 1) + 1) /\ (b + 1) + i - 1 = a + (w + i)
      BY <1>3, <2>9
    <3>3. x[i] = s[w + i] /\ y[i] = Text[a + (w + i)]
      BY <2>5, <2>6, <2>7, <3>1, <3>2
    <3>4. s[w + i] = Text[a + (w + i)]
      BY <2>8, <3>1
    <3> QED BY <3>3, <3>4
  <2>12. x = y
    BY <2>5, <2>6, <2>10, <2>11, SeqEqual
  <2> QED BY <1>21, <2>1, <2>2, <2>12
<1> QED BY <1>6, <1>18, <1>19, <1>22

Chunk == [usage : BOOLEAN, line : Nat, prompt : {0, PromptTokens}]

(* The two places that each line has. *)
LEMMA Halves ==
  ASSUME NEW c \in Nat, NEW n \in Nat \ {0}
  PROVE  /\ (2 * c + n + 1) \div 2 = c + (n + 1) \div 2
         /\ (2 * c + n) % 2 = n % 2
         /\ (n + 1) \div 2 \in Nat
         /\ \A m \in Nat : n <= 2 * m <=> (n + 1) \div 2 <= m
         /\ (n + 1) \div 2 >= 1
OBVIOUS

(* What a kind of line yields, whoever the provider is. *)
LEMMA EventKinds ==
  ASSUME LlmStreamTypeOK
  PROVE  \A kind \in Kinds \cup {"bad"} :
           /\ kind \in Event.delta <=> kind = "text" \/ (kind = "both" /\ response.provider # "anthropic")
           /\ kind \in Event.usage <=> kind = "usage" \/ (kind = "both" /\ response.provider # "anthropic")
           /\ kind \in Event.start <=> kind = "start" /\ response.provider = "anthropic"
           /\ Event.start = {} <=> response.provider # "anthropic"
<1>1. response.provider \in {"anthropic", "ollama", "openai"}
  BY LinesTyped
<1>2. CASE response.provider = "anthropic"
  BY <1>2 DEF Event, AnthropicEvent
<1>3. CASE response.provider = "ollama"
  BY <1>3 DEF Event, OllamaEvent
<1>4. CASE response.provider = "openai"
  BY <1>4 DEF Event, OpenAIEvent, OllamaEvent
<1> QED BY <1>1, <1>2, <1>3, <1>4

(* A place holds a chunk. *)
LEMMA RoomTyped ==
  ASSUME LlmStreamTypeOK
  PROVE  \A n \in 1 .. 2 * Len(response.lines) : Room[n] \in Chunk
<1>1. SUFFICES ASSUME NEW n \in 1 .. 2 * Len(response.lines) PROVE Room[n] \in Chunk
  OBVIOUS
<1>2. Len(response.lines) \in Nat
  BY LinesTyped
<1>3. n \in Nat \ {0} /\ (n + 1) \div 2 \in Nat
  BY <1>2, Halves
<1>4. PICK i \in Nat : i = (n + 1) \div 2
  BY <1>3
<1>5. Room[n] = IF n % 2 = 1 THEN Delta([line |-> i]) ELSE Usage(PromptKnown(i))
  BY <1>4 DEF Room
<1>6. Delta([line |-> i]) \in Chunk
  BY DEF Delta, Chunk
<1>7. PromptKnown(i) \in {0, PromptTokens}
  BY DEF PromptKnown
<1>8. Usage(PromptKnown(i)) \in Chunk
  BY <1>7 DEF Usage, Chunk
<1> QED BY <1>5, <1>6, <1>8

(* The events of the next m lines, those that are blank passed over. *)
LEMMA EventsTaken ==
  ASSUME LlmStreamTypeOK, NEW c \in 0 .. Len(response.lines), NEW m \in Nat, c + m <= Len(response.lines),
         NEW texts, Len(texts) = m, DOMAIN texts = 1 .. m,
         \A k \in 1 .. m :
           EventOf(texts[k]) =
             IF response.lines[c + k] = "blank" THEN [kind |-> "bad", line |-> 0]
             ELSE [kind |-> response.lines[c + k], line |-> c + k],
         promptSeen = KnownAfter(c), yielded = Keep(Room, DueUpTo(c)), Consume(texts)
  PROVE  /\ promptSeen' = KnownAfter(c + m) /\ promptSeen' \in {0, PromptTokens}
         /\ yielded' = Keep(Room, DueUpTo(c + m)) /\ yielded' \in Seq(Chunk)
<1>1. PICK L \in Nat : L = Len(response.lines) /\ DOMAIN response.lines = 1 .. L
  BY LinesTyped
<1>2. c \in Nat /\ \A k \in 1 .. m : c + k \in 1 .. L
  BY <1>1
<1>3. \A i \in 1 .. L : response.lines[i] \in Kinds
  BY <1>1, LinesTyped
<1>4. PICK events : events = [k \in 1 .. m |-> EventOf(texts[k])]
  OBVIOUS
<1>5. ASSUME NEW k \in 1 .. m
      PROVE  LET kind == response.lines[c + k] IN
             /\ events[k].kind \in Event.delta <=> kind = "text" \/ (kind = "both" /\ response.provider # "anthropic")
             /\ events[k].kind \in Event.usage <=> kind = "usage" \/ (kind = "both" /\ response.provider # "anthropic")
             /\ events[k].kind \in Event.start <=> kind = "start" /\ response.provider = "anthropic"
             /\ kind # "blank" => events[k].line = c + k
  <2>1. PICK kind \in Kinds : kind = response.lines[c + k]
    BY <1>2, <1>3
  <2>2. events[k] = IF kind = "blank" THEN [kind |-> "bad", line |-> 0] ELSE [kind |-> kind, line |-> c + k]
    BY <1>4, <2>1
  <2>3. CASE kind = "blank"
    <3>1. events[k].kind = "bad"
      BY <2>2, <2>3
    <3> QED BY <2>1, <2>3, <3>1, EventKinds
  <2>4. CASE kind # "blank"
    <3>1. events[k].kind = kind /\ events[k].line = c + k
      BY <2>2, <2>4
    <3> QED BY <2>1, <3>1, EventKinds
  <2> QED BY <2>3, <2>4
<1>6. PICK prompt : prompt = [k \in 1 .. (m + 1) |->
        IF \E j \in 1 .. m : j < k /\ events[j].kind \in Event.start THEN PromptTokens ELSE promptSeen]
  OBVIOUS
<1>7. PICK told : told = [k \in 1 .. m |-> IF Event.start = {} THEN PromptTokens ELSE prompt[k]]
  OBVIOUS
<1>8. PICK chunks : chunks = [n \in 1 .. 2 * m |->
        IF n % 2 = 1 THEN Delta(events[(n + 1) \div 2]) ELSE Usage(told[(n + 1) \div 2])]
  OBVIOUS
<1>9. PICK yields : yields = {n \in 1 .. 2 * m :
        IF n % 2 = 1 THEN events[(n + 1) \div 2].kind \in Event.delta
        ELSE events[(n + 1) \div 2].kind \in Event.usage}
  OBVIOUS
<1>10. ASSUME NEW n \in 1 .. 2 * m
       PROVE  /\ n \in Nat \ {0} /\ (n + 1) \div 2 \in 1 .. m
              /\ (2 * c + n + 1) \div 2 = c + (n + 1) \div 2 /\ (2 * c + n) % 2 = n % 2
  BY <1>2, Halves
<1>11. promptSeen' = prompt[m + 1] /\ yielded' = yielded \o Keep(chunks, yields)
  <2> DEFINE E == [k \in DOMAIN texts |-> EventOf(texts[k])]
             C == [n \in 1 .. 2 * Len(texts) |->
                     IF n % 2 = 1 THEN Delta(E[(n + 1) \div 2])
                     ELSE Usage(IF Event.start = {} THEN PromptTokens
                                ELSE IF \E j \in DOMAIN E : j < (n + 1) \div 2 /\ E[j].kind \in Event.start
                                     THEN PromptTokens ELSE promptSeen)]
             Y == {n \in DOMAIN C : IF n % 2 = 1 THEN E[(n + 1) \div 2].kind \in Event.delta
                                    ELSE E[(n + 1) \div 2].kind \in Event.usage}
  <2>1. promptSeen' = IF \E j \in DOMAIN E : j < Len(texts) + 1 /\ E[j].kind \in Event.start
                      THEN PromptTokens ELSE promptSeen
    BY Zenon DEF Consume
  <2>2. yielded' = yielded \o Keep(C, Y)
    BY Zenon DEF Consume
  <2>3. E = events /\ DOMAIN E = 1 .. m
    BY <1>4
  <2> HIDE DEF E
  <2>4. DOMAIN C = 1 .. 2 * m
    OBVIOUS
  <2>5. \A n \in 1 .. 2 * m :
          C[n] = IF n % 2 = 1 THEN Delta(events[(n + 1) \div 2])
                 ELSE Usage(IF Event.start = {} THEN PromptTokens
                            ELSE IF \E j \in 1 .. m : j < (n + 1) \div 2 /\ events[j].kind \in Event.start
                                 THEN PromptTokens ELSE promptSeen)
    BY <2>3
  <2>6. C = [n \in 1 .. 2 * m |-> C[n]]
    OBVIOUS
  <2>7. Y = yields
    BY <1>9, <2>3, <2>4
  <2> HIDE DEF C, Y
  <2>8. ASSUME NEW n \in 1 .. 2 * m PROVE C[n] = chunks[n]
    <3>1. PICK k \in 1 .. m : k = (n + 1) \div 2
      BY <1>10
    <3>2. k \in 1 .. (m + 1)
      OBVIOUS
    <3>3. told[k] = IF Event.start = {} THEN PromptTokens
                    ELSE IF \E j \in 1 .. m : j < k /\ events[j].kind \in Event.start
                         THEN PromptTokens ELSE promptSeen
      BY <1>6, <1>7, <3>2
    <3>4. C[n] = IF n % 2 = 1 THEN Delta(events[k])
                 ELSE Usage(IF Event.start = {} THEN PromptTokens
                            ELSE IF \E j \in 1 .. m : j < k /\ events[j].kind \in Event.start
                                 THEN PromptTokens ELSE promptSeen)
      BY <2>5, <3>1
    <3>5. chunks[n] = IF n % 2 = 1 THEN Delta(events[k]) ELSE Usage(told[k])
      BY <1>8, <3>1
    <3> QED BY <3>3, <3>4, <3>5
  <2>9. C = chunks
    <3>1. chunks = [n \in 1 .. 2 * m |-> chunks[n]]
      BY <1>8
    <3>2. [n \in 1 .. 2 * m |-> C[n]] = [n \in 1 .. 2 * m |-> chunks[n]]
      BY <2>8
    <3> QED BY <2>6, <3>1, <3>2
  <2>10. prompt[m + 1] = IF \E j \in 1 .. m : j < m + 1 /\ events[j].kind \in Event.start
                         THEN PromptTokens ELSE promptSeen
    BY <1>6
  <2> QED BY <2>1, <2>2, <2>3, <2>7, <2>9, <2>10
<1>12. \A k \in 1 .. (m + 1) : prompt[k] = KnownAfter(c + k - 1)
  <2> SUFFICES ASSUME NEW k \in 1 .. (m + 1) PROVE prompt[k] = KnownAfter(c + k - 1)
    OBVIOUS
  <2>1. prompt[k] = IF \E j \in 1 .. m : j < k /\ events[j].kind \in Event.start THEN PromptTokens ELSE promptSeen
    BY <1>6
  <2>2. CASE response.provider = "anthropic"
    <3>1. (\E l \in 1 .. (c + k - 1) : response.lines[l] = "start")
             <=> (\E l \in 1 .. c : response.lines[l] = "start") \/ (\E j \in 1 .. m : j < k /\ response.lines[c + j] = "start")
      <4>1. ASSUME NEW l \in 1 .. (c + k - 1), response.lines[l] = "start", ~(l \in 1 .. c)
            PROVE \E j \in 1 .. m : j < k /\ response.lines[c + j] = "start"
        <5>1. PICK j \in 1 .. m : j = l - c
          BY <1>2, <4>1
        <5>2. j < k /\ c + j = l
          BY <1>2, <5>1
        <5> QED BY <4>1, <5>2
      <4>2. \A l \in 1 .. c : l \in 1 .. (c + k - 1)
        BY <1>2
      <4>3. \A j \in 1 .. m : j < k => c + j \in 1 .. (c + k - 1)
        BY <1>2
      <4> QED BY <4>1, <4>2, <4>3
    <3>2. \A j \in 1 .. m : events[j].kind \in Event.start <=> response.lines[c + j] = "start"
      BY <1>5, <2>2
    <3> QED BY <2>1, <2>2, <3>1, <3>2 DEF KnownAfter
  <2>3. CASE response.provider # "anthropic"
    <3>1. \A j \in 1 .. m : ~(events[j].kind \in Event.start)
      BY <1>5, <2>3
    <3> QED BY <2>1, <2>3, <3>1 DEF KnownAfter
  <2> QED BY <2>2, <2>3
<1>13. \A k \in 1 .. m : told[k] = PromptKnown(c + k)
  <2> SUFFICES ASSUME NEW k \in 1 .. m PROVE told[k] = PromptKnown(c + k)
    OBVIOUS
  <2>1. k \in 1 .. (m + 1) /\ c + k - 1 = (c + k) - 1
    BY <1>2
  <2>2. prompt[k] = KnownAfter(c + k - 1)
    BY <1>12, <2>1
  <2>3. Event.start = {} <=> response.provider # "anthropic"
    <3>1. "bad" \in Kinds \cup {"bad"}
      OBVIOUS
    <3> QED BY <3>1, EventKinds
  <2> QED BY <1>7, <2>1, <2>2, <2>3 DEF KnownAfter, PromptKnown
<1>14. ASSUME NEW n \in yields PROVE chunks[n] = Room[2 * c + n]
  <2>1. n \in 1 .. 2 * m
    BY <1>9
  <2>2. PICK k \in 1 .. m : k = (n + 1) \div 2
    BY <1>10, <2>1
  <2>3. 2 * c + n \in 1 .. 2 * L
    <3>1. c + m <= L
      BY <1>1
    <3> QED BY <1>2, <2>1, <3>1
  <2>4. Room[2 * c + n] = IF n % 2 = 1 THEN Delta([line |-> c + k]) ELSE Usage(PromptKnown(c + k))
    BY <1>1, <1>10, <2>1, <2>2, <2>3 DEF Room
  <2>5. chunks[n] = IF n % 2 = 1 THEN Delta(events[k]) ELSE Usage(told[k])
    BY <1>8, <2>1, <2>2
  <2>6. n % 2 = 1 => events[k].kind \in Event.delta
    BY <1>9, <2>2
  <2>7. n % 2 = 1 => events[k].line = c + k
    BY <1>5, <2>6
  <2>8. Delta([line |-> c + k]) = [usage |-> FALSE, line |-> c + k, prompt |-> 0]
    BY DEF Delta
  <2>9. Delta(events[k]) = [usage |-> FALSE, line |-> events[k].line, prompt |-> 0]
    BY DEF Delta
  <2> QED BY <1>13, <2>4, <2>5, <2>7, <2>8, <2>9
<1>15. \A n \in 1 .. 2 * m : 2 * c + n \in DueUpTo(c + m) <=> n \in yields
  <2> SUFFICES ASSUME NEW n \in 1 .. 2 * m PROVE 2 * c + n \in DueUpTo(c + m) <=> n \in yields
    OBVIOUS
  <2>1. PICK k \in 1 .. m : k = (n + 1) \div 2
    BY <1>10
  <2>2. 2 * c + n \in 1 .. 2 * (c + m)
    BY <1>2
  <2>3. (2 * c + n + 1) \div 2 = c + k /\ (2 * c + n) % 2 = n % 2
    BY <1>10, <2>1
  <2>4. 2 * c + n \in DueUpTo(c + m) <=>
           \/ response.lines[c + k] = (IF n % 2 = 1 THEN "text" ELSE "usage")
           \/ response.lines[c + k] = "both" /\ response.provider # "anthropic"
    BY <2>2, <2>3 DEF DueUpTo
  <2>5. n \in yields <=> IF n % 2 = 1 THEN events[k].kind \in Event.delta ELSE events[k].kind \in Event.usage
    BY <1>9, <2>1
  <2> QED BY <1>5, <2>4, <2>5
<1>16. \A n \in 1 .. 2 * c : n \in DueUpTo(c + m) <=> n \in DueUpTo(c)
  <2>1. \A n \in 1 .. 2 * c : n \in 1 .. 2 * (c + m)
    BY <1>2
  <2> QED BY <2>1 DEF DueUpTo
<1>17. /\ Keep(Room, DueUpTo(c + m)) \in Seq(Chunk)
       /\ Keep(Room, DueUpTo(c + m)) = Keep(Room, DueUpTo(c)) \o Keep(chunks, yields)
  <2>1. PICK a \in Nat : a = 2 * c
    BY <1>2
  <2>2. PICK b \in Nat : b = 2 * m
    OBVIOUS
  <2>3. 2 * (c + m) = a + b /\ a + b <= 2 * L
    BY <1>1, <1>2, <2>1, <2>2
  <2>4. PICK s : s = Room
    OBVIOUS
  <2>5. PICK I : I = DueUpTo(c)
    OBVIOUS
  <2>6. PICK K : K = DueUpTo(c + m)
    OBVIOUS
  <2>7. \A n \in 1 .. (a + b) : s[n] \in Chunk
    <3>1. \A n \in 1 .. (a + b) : n \in 1 .. 2 * Len(response.lines)
      BY <1>1, <2>3
    <3> QED BY <2>4, <3>1, RoomTyped
  <2>8. I \in SUBSET (1 .. a) /\ K \in SUBSET (1 .. (a + b)) /\ yields \in SUBSET (1 .. b)
    BY <1>9, <2>1, <2>2, <2>3, <2>5, <2>6 DEF DueUpTo
  <2>9. \A n \in 1 .. a : n \in K <=> n \in I
    BY <1>16, <2>1, <2>5, <2>6
  <2>10. \A n \in 1 .. b : a + n \in K <=> n \in yields
    BY <1>15, <2>1, <2>2, <2>6
  <2>11. \A n \in yields : chunks[n] = s[a + n]
    BY <1>14, <2>1, <2>4
  <2>12. Keep(s, K) \in Seq(Chunk) /\ Keep(s, K) = Keep(s, I) \o Keep(chunks, yields)
    <3>1. Joined(Chunk, a, b, s, chunks, I, yields, K)
      BY <2>7, <2>8, <2>9, <2>10, <2>11 DEF Joined
    <3>2. Keep(s, K) = Keep(s, I) \o Keep(chunks, yields)
      BY <3>1, KeepJoined
    <3>3. Keep(s, K) \in Seq(Chunk)
      BY <3>1, KeepJoined
    <3> QED BY <3>2, <3>3
  <2> QED BY <2>4, <2>5, <2>6, <2>12
<1>18. promptSeen' = KnownAfter(c + m)
  <2>1. m + 1 \in 1 .. (m + 1) /\ c + (m + 1) - 1 = c + m
    BY <1>2
  <2> QED BY <1>11, <1>12, <2>1
<1>19. KnownAfter(c + m) \in {0, PromptTokens}
  BY DEF KnownAfter
<1> QED BY <1>11, <1>17, <1>18, <1>19

(* The text depends on the lines of the response only. *)
LEMMA SameText ==
  ASSUME response'.lines = response.lines, response'.provider = response.provider
  PROVE  /\ Text' = Text /\ Room' = Room
         /\ \A i : Ends(i)' = Ends(i) /\ KnownAfter(i)' = KnownAfter(i) /\ DueUpTo(i)' = DueUpTo(i)
<1>1. \A i : Ends(i)' = Ends(i)
  BY DEF Ends
<1>2. \A i : KnownAfter(i)' = KnownAfter(i)
  BY DEF KnownAfter
<1>3. \A i : DueUpTo(i)' = DueUpTo(i)
  BY DEF DueUpTo
<1>4. Text' = Text
  BY <1>1 DEF Text
<1>5. \A i : PromptKnown(i)' = PromptKnown(i)
  BY DEF PromptKnown
<1>6. Room' = Room
  BY <1>5 DEF Room
<1> QED BY <1>1, <1>2, <1>3, <1>4, <1>6

(* What is due while the response is open, and when it has ended. *)
LEMMA DueOf ==
  ASSUME LlmStreamTypeOK, NEW c \in 0 .. Len(response.lines), NEW d \in 0 .. Len(response.lines),
         \A i \in 1 .. Len(response.lines) : i \in Arrived <=> i <= d,
         d = c \/ (d = c + 1 /\ response.lines[d] = "blank")
  PROVE  Due = DueUpTo(c)
<1>1. PICK L \in Nat : L = Len(response.lines) /\ DOMAIN response.lines = 1 .. L
  BY LinesTyped
<1>2. DOMAIN Room = 1 .. 2 * L
  BY <1>1 DEF Room
<1>3. ASSUME NEW n \in 1 .. 2 * L PROVE n \in Due <=> n \in DueUpTo(c)
  <2>1. PICK i \in 1 .. L : i = (n + 1) \div 2 /\ \A m \in Nat : n <= 2 * m <=> i <= m
    <3>1. n \in Nat \ {0} /\ 0 \in Nat
      BY <1>1
    <3>2. /\ (n + 1) \div 2 \in Nat /\ (n + 1) \div 2 >= 1
          /\ \A m \in Nat : n <= 2 * m <=> (n + 1) \div 2 <= m
      BY <3>1, Halves
    <3>3. (n + 1) \div 2 \in 1 .. L
      BY <3>2
    <3> QED BY <3>2, <3>3
  <2>2. PICK due \in BOOLEAN :
          due = (\/ response.lines[i] = (IF n % 2 = 1 THEN "text" ELSE "usage")
                 \/ response.lines[i] = "both" /\ response.provider # "anthropic")
    OBVIOUS
  <2>3. n \in Due <=> i <= d /\ due
    BY <1>1, <1>2, <2>1, <2>2 DEF Due
  <2>4. n \in DueUpTo(c) <=> i <= c /\ due
    <3>1. c \in Nat /\ n \in Nat \ {0}
      BY <1>1
    <3>2. n \in 1 .. 2 * c <=> i <= c
      BY <2>1, <3>1
    <3> QED BY <2>1, <2>2, <3>2 DEF DueUpTo
  <2>5. i <= d /\ ~(i <= c) => i = d /\ response.lines[d] = "blank"
    BY <1>1
  <2>6. response.lines[i] = "blank" => ~due
    BY <2>2
  <2>7. i <= c => i <= d
    BY <1>1
  <2> QED BY <2>3, <2>4, <2>5, <2>6, <2>7
<1>4. \A n \in DueUpTo(c) : n \in 1 .. 2 * L
  <2>1. \A n \in 1 .. 2 * c : n \in 1 .. 2 * L
    BY <1>1
  <2> QED BY <2>1 DEF DueUpTo
<1>5. \A n \in Due : n \in 1 .. 2 * L
  BY <1>2 DEF Due
<1> QED BY <1>3, <1>4, <1>5

(* The lines that have arrived while the response is not at its end. *)
LEMMA ArrivedBefore ==
  ASSUME LlmStreamTypeOK, response.pc # "done", NEW c \in 0 .. Len(response.lines), Complete(c, received)
  PROVE  Due = DueUpTo(c)
<1>1. PICK L \in Nat : L = Len(response.lines) /\ DOMAIN response.lines = 1 .. L
  BY LinesTyped
<1>2. \A i \in 1 .. L : i \in 0 .. L /\ Ends(i) \in Nat
  BY <1>1, EndsRise
<1>3. received \in Nat /\ Ends(c) \in Nat /\ c \in 0 .. L
  BY <1>1, EndsRise DEF LlmStreamTypeOK
<1>4. Ends(c) <= received /\ \A i \in 1 .. L : i > c => received < Ends(i)
  BY <1>1 DEF Complete
<1>5. ASSUME NEW i \in 1 .. L PROVE i \in Arrived <=> i <= c
  <2>1. i \in Arrived <=> received >= Ends(i)
    <3>1. i \in Arrived <=> received >= Ends(i) - 0
      BY <1>1 DEF Arrived
    <3>2. Ends(i) - 0 = Ends(i)
      BY <1>2
    <3> QED BY <3>1, <3>2
  <2>2. i > c => ~(received >= Ends(i))
    BY <1>2, <1>3, <1>4
  <2>3. i <= c => received >= Ends(i)
    <3>1. i < c => Ends(i) < Ends(c)
      BY <1>1, <1>2, <1>3, EndsRise
    <3>2. i <= c => i < c \/ i = c
      BY <1>3
    <3> QED BY <1>2, <1>3, <1>4, <3>1, <3>2
  <2>4. i > c \/ i <= c
    BY <1>3
  <2> QED BY <2>1, <2>2, <2>3, <2>4
<1> QED BY <1>1, <1>5, DueOf

(* At its end a last line without a newline has arrived too, when it is whole. *)
LEMMA ArrivedAtEnd ==
  ASSUME LlmStreamTypeOK, response.pc = "done", NEW c \in 0 .. Len(response.lines), Complete(c, received),
         received <= Ends(Len(response.lines))
  PROVE  /\ received = Ends(c) => Due = DueUpTo(c)
         /\ received = Ends(c) + 1 => Due = DueUpTo(c)
         /\ received = Ends(c) + 2 => Due = DueUpTo(c + 1)
<1>1. PICK L \in Nat : L = Len(response.lines) /\ DOMAIN response.lines = 1 .. L
  BY LinesTyped
<1>2. /\ \A i \in 0 .. L : Ends(i) \in Nat
      /\ \A i, j \in 0 .. L : i < j => Ends(i) < Ends(j)
      /\ \A i \in 1 .. L : Ends(i) = Ends(i - 1) + (IF response.lines[i] = "blank" THEN 1 ELSE 3)
  BY <1>1, EndsRise
<1>3. received \in Nat /\ Ends(c) \in Nat /\ c \in 0 .. L
  BY <1>1, <1>2 DEF LlmStreamTypeOK
<1>4. Ends(c) <= received /\ \A i \in 1 .. L : i > c => received < Ends(i)
  BY <1>1 DEF Complete
<1>5. \A i \in 1 .. L : i \in Arrived <=> received >= Ends(i) - 1
  BY <1>1 DEF Arrived
<1>6. ASSUME NEW i \in 1 .. L, i <= c PROVE i \in Arrived
  <2>1. i \in 0 .. L /\ Ends(i) \in Nat
    BY <1>2
  <2>2. i < c => Ends(i) < Ends(c)
    BY <1>2, <1>3, <2>1
  <2>3. i < c \/ i = c
    BY <1>3, <1>6
  <2> QED BY <1>3, <1>4, <1>5, <2>1, <2>2, <2>3
<1>7. CASE c = L
  <2>1. received = Ends(c)
    BY <1>1, <1>3, <1>4, <1>7
  <2>2. \A i \in 1 .. L : i <= c
    BY <1>7
  <2>3. Due = DueUpTo(c)
    BY <1>1, <1>6, <2>2, DueOf
  <2> QED BY <1>3, <2>1, <2>3
<1>8. CASE c # L
  <2>1. c + 1 \in 1 .. L /\ (c + 1) - 1 = c /\ c + 1 > c /\ c + 1 \in 0 .. L
    BY <1>3, <1>8
  <2>2. PICK step \in {1, 3} : /\ Ends(c + 1) = Ends(c) + step
                               /\ step = 1 <=> response.lines[c + 1] = "blank"
    BY <1>2, <2>1
  <2>3. received < Ends(c) + step
    BY <1>4, <2>1, <2>2
  <2>4. ASSUME NEW i \in 1 .. L, i > c + 1 PROVE ~(i \in Arrived)
    <3>1. PICK e \in Nat : e = Ends(i)
      BY <1>2
    <3>2. Ends(c + 1) < e
      BY <1>2, <2>1, <2>4, <3>1
    <3>3. Ends(c) + step < e
      BY <2>2, <3>2
    <3>4. ~(received >= e - 1)
      BY <1>3, <2>2, <2>3, <3>1, <3>3
    <3> QED BY <1>5, <3>1, <3>4
  <2>5. c + 1 \in Arrived <=> received >= (Ends(c) + step) - 1
    BY <1>5, <2>1, <2>2
  <2>6. \A i \in 1 .. L : i <= c \/ i = c + 1 \/ i > c + 1
    BY <1>3
  <2>7. ASSUME c + 1 \in Arrived
        PROVE  \A i \in 1 .. L : i \in Arrived <=> i <= c + 1
    <3>1. \A i \in 1 .. L : i <= c + 1 => i <= c \/ i = c + 1
      BY <1>3
    <3>2. \A i \in 1 .. L : i > c + 1 => ~(i <= c + 1)
      BY <1>3
    <3> QED BY <1>6, <2>4, <2>6, <2>7, <3>1, <3>2
  <2>8. ASSUME c + 1 \notin Arrived
        PROVE  \A i \in 1 .. L : i \in Arrived <=> i <= c
    <3>1. \A i \in 1 .. L : i > c + 1 => ~(i <= c)
      BY <1>3
    <3>2. ~(c + 1 <= c)
      BY <1>3
    <3> QED BY <1>6, <2>4, <2>6, <2>8, <3>1, <3>2
  <2>9. received = Ends(c) + 2 => Due = DueUpTo(c + 1)
    <3>1. SUFFICES ASSUME received = Ends(c) + 2 PROVE Due = DueUpTo(c + 1)
      OBVIOUS
    <3>2. c + 1 \in Arrived
      BY <1>3, <2>2, <2>3, <2>5, <3>1
    <3> QED BY <1>1, <2>1, <2>7, <3>2, DueOf
  <2>10. received = Ends(c) + 1 => Due = DueUpTo(c)
    <3>1. SUFFICES ASSUME received = Ends(c) + 1 PROVE Due = DueUpTo(c)
      OBVIOUS
    <3>2. c + 1 \notin Arrived
      BY <1>3, <2>2, <2>3, <2>5, <3>1
    <3> QED BY <1>1, <1>3, <2>8, <3>2, DueOf
  <2>11. received = Ends(c) => Due = DueUpTo(c)
    <3>1. SUFFICES ASSUME received = Ends(c) PROVE Due = DueUpTo(c)
      OBVIOUS
    <3>2. CASE step = 1
      <4>1. c + 1 \in Arrived /\ response.lines[c + 1] = "blank"
        BY <1>3, <2>2, <2>5, <3>1, <3>2
      <4> QED BY <1>1, <1>3, <2>1, <2>7, <4>1, DueOf
    <3>3. CASE step = 3
      <4>1. c + 1 \notin Arrived
        BY <1>3, <2>5, <3>1, <3>3
      <4> QED BY <1>1, <1>3, <2>8, <4>1, DueOf
    <3> QED BY <2>2, <3>2, <3>3
  <2> QED BY <2>9, <2>10, <2>11
<1> QED BY <1>7, <1>8

(* What is yielded at the end, as a formula about one state. *)
AtEnd ==
  LlmStreamTypeOK /\ response.pc = "done" /\ received <= Ends(Len(response.lines)) =>
    \A c \in 0 .. Len(response.lines) : Complete(c, received) =>
      /\ received = Ends(c) => Due = DueUpTo(c)
      /\ received = Ends(c) + 1 => Due = DueUpTo(c)
      /\ received = Ends(c) + 2 => Due = DueUpTo(c + 1)

LEMMA EndSaid == AtEnd
BY ArrivedAtEnd DEF AtEnd

(* At the start no line is complete and nothing has been yielded. *)
LEMMA StreamStarts == LlmStreamInit => StreamInv
<1> SUFFICES ASSUME LlmStreamInit PROVE StreamInv
  OBVIOUS
<1>1. /\ response \in [provider : Providers, lines : Streams, pc : {"open"}]
      /\ received = 0 /\ lineBuffer = <<>> /\ promptSeen = 0 /\ yielded = <<>>
  BY DEF LlmStreamInit
<1>2. LlmStreamTypeOK
  BY <1>1 DEF LlmStreamTypeOK
<1>3. PICK L \in Nat : L = Len(response.lines) /\ DOMAIN response.lines = 1 .. L
  BY <1>2, LinesTyped
<1>4. /\ \A i \in 0 .. L : Ends(i) \in Nat
      /\ \A i, j \in 0 .. L : i < j => Ends(i) < Ends(j)
      /\ Ends(0) = 0
  BY <1>2, <1>3, EndsRise
<1>5. Complete(0, received)
  <2>1. \A i \in 1 .. L : i \in 0 .. L /\ 0 \in 0 .. L /\ 0 < i
    OBVIOUS
  <2>2. \A i \in 1 .. L : Ends(0) < Ends(i)
    BY <1>4, <2>1
  <2> QED BY <1>1, <1>3, <1>4, <2>2 DEF Complete
<1>6. lineBuffer = SubSeq(Text, Ends(0) + 1, received)
  <2>1. Text \in Seq(Symbols)
    BY <1>2, TextAt
  <2>2. SubSeq(Text, 1, 0) = <<>>
    BY <2>1
  <2> QED BY <1>1, <1>4, <2>2
<1>7. promptSeen = KnownAfter(0)
  <2>1. ~ \E k \in 1 .. 0 : response.lines[k] = "start"
    OBVIOUS
  <2> QED BY <1>1, <2>1 DEF KnownAfter
<1>8. yielded = Keep(Room, DueUpTo(0))
  <2>1. \A n \in DueUpTo(0) : n \in 1 .. 2 * 0
    BY DEF DueUpTo
  <2>2. DueUpTo(0) = {}
    BY <2>1
  <2> QED BY <1>1, <2>2, KeepNone
<1>9. 0 \in 0 .. L /\ received <= Ends(L)
  <2>1. L \in 0 .. L
    OBVIOUS
  <2>2. Ends(L) \in Nat
    BY <1>4, <2>1
  <2> QED BY <1>1, <2>2
<1> QED BY <1>1, <1>2, <1>3, <1>5, <1>6, <1>7, <1>8, <1>9 DEF StreamInv

(* A piece of the text arrives. *)
LEMMA PieceRead ==
  ASSUME StreamInv, NEW n \in 1 .. Len(Text), ReadPiece(n)
  PROVE  StreamInv'
<1>1. LlmStreamTypeOK /\ received \in Nat /\ response.pc = "open"
  BY DEF StreamInv, LlmStreamTypeOK, ReadPiece
<1>2. PICK L \in Nat : L = Len(response.lines) /\ DOMAIN response.lines = 1 .. L
  BY <1>1, LinesTyped
<1>3. Text \in Seq(Symbols) /\ Len(Text) = Ends(L) /\ Ends(L) \in Nat
  <2>1. L \in 0 .. L
    OBVIOUS
  <2> QED BY <1>1, <1>2, <2>1, TextAt, EndsRise
<1>4. PICK c \in 0 .. L :
        /\ Complete(c, received)
        /\ lineBuffer = SubSeq(Text, Ends(c) + 1, received)
        /\ promptSeen = KnownAfter(c)
        /\ yielded = Keep(Room, DueUpTo(c))
  BY <1>1, <1>2 DEF StreamInv
<1>5. PICK r \in Nat : r = received + n /\ r <= Ends(L)
  <2>1. received + n <= Len(Text) /\ n \in Nat
    BY <1>3 DEF ReadPiece
  <2> QED BY <1>1, <1>3, <2>1
<1>6. PICK d \in 0 .. L : Complete(d, r)
  BY <1>1, <1>2, SomeComplete
<1>7. PICK a \in Nat : a = Ends(c) /\ a <= received
  <2>1. Ends(c) \in Nat
    BY <1>1, <1>2, EndsRise
  <2> QED BY <1>4, <2>1 DEF Complete
<1>8. c <= d
  <2>1. ASSUME d < c PROVE FALSE
    <3>1. c \in 1 .. L
      BY <2>1
    <3>2. r < Ends(c)
      BY <1>2, <1>6, <2>1, <3>1 DEF Complete
    <3> QED BY <1>1, <1>3, <1>5, <1>7, <3>2
  <2> QED BY <2>1
<1>9. PICK piece : piece = SubSeq(Text, received + 1, received + n)
  OBVIOUS
<1>10. \A i \in 1 .. Ends(L) : Text[i] \in Symbols
  BY <1>3
<1>11. /\ lineBuffer \in Seq(Symbols) /\ Len(lineBuffer) = received - a
       /\ \A i \in 1 .. (received - a) : lineBuffer[i] = Text[a + i]
  <2>1. a + 1 \in Int /\ received \in Int /\ \A i \in (a + 1) .. received : Text[i] \in Symbols
    BY <1>1, <1>3, <1>5, <1>10
  <2>2. /\ lineBuffer \in Seq(Symbols)
        /\ Len(lineBuffer) = IF a + 1 <= received THEN received - (a + 1) + 1 ELSE 0
        /\ \A i \in 1 .. (received - (a + 1) + 1) : lineBuffer[i] = Text[(a + 1) + i - 1]
    BY <1>4, <1>7, <2>1, SubSeqProperties
  <2>3. received - (a + 1) + 1 = received - a /\ \A i \in 1 .. (received - a) : (a + 1) + i - 1 = a + i
    BY <1>1
  <2>4. Len(lineBuffer) = received - a
    <3>1. a + 1 <= received \/ received = a
      BY <1>1, <1>7
    <3> QED BY <1>1, <2>2, <2>3, <3>1
  <2> QED BY <2>2, <2>3, <2>4
<1>12. /\ piece \in Seq(Symbols) /\ Len(piece) = n
       /\ \A i \in 1 .. n : piece[i] = Text[received + i]
  <2>1. /\ received + 1 \in Int /\ received + n \in Int
        /\ \A i \in (received + 1) .. (received + n) : Text[i] \in Symbols
    BY <1>1, <1>3, <1>5, <1>10
  <2>2. /\ piece \in Seq(Symbols)
        /\ Len(piece) = IF received + 1 <= received + n THEN (received + n) - (received + 1) + 1 ELSE 0
        /\ \A i \in 1 .. ((received + n) - (received + 1) + 1) : piece[i] = Text[(received + 1) + i - 1]
    BY <1>9, <2>1, SubSeqProperties
  <2>3. /\ (received + n) - (received + 1) + 1 = n /\ received + 1 <= received + n
        /\ \A i \in 1 .. n : (received + 1) + i - 1 = received + i
    BY <1>1, <1>3
  <2> QED BY <2>2, <2>3
<1>13. PICK s : s = lineBuffer \o piece
  OBVIOUS
<1>14. /\ s \in Seq(Symbols) /\ Len(s) = r - a
       /\ \A i \in 1 .. Len(s) : s[i] = Text[a + i]
  <2>1. /\ s \in Seq(Symbols) /\ Len(s) = (received - a) + n
        /\ \A i \in 1 .. ((received - a) + n) :
             s[i] = IF i <= received - a THEN lineBuffer[i] ELSE piece[i - (received - a)]
    <3>1. /\ s \in Seq(Symbols) /\ Len(s) = Len(lineBuffer) + Len(piece)
          /\ \A i \in 1 .. Len(lineBuffer) + Len(piece) :
               s[i] = IF i <= Len(lineBuffer) THEN lineBuffer[i] ELSE piece[i - Len(lineBuffer)]
      <4>1. lineBuffer \in Seq(Symbols) /\ piece \in Seq(Symbols)
        BY <1>11, <1>12
      <4> QED BY <1>13, <4>1, ConcatProperties
    <3>2. Len(lineBuffer) = received - a /\ Len(piece) = n
      BY <1>11, <1>12
    <3> QED BY <3>1, <3>2
  <2>2. Len(s) = r - a
    BY <1>1, <1>3, <1>5, <2>1
  <2>3. ASSUME NEW i \in 1 .. Len(s) PROVE s[i] = Text[a + i]
    <3>1. CASE i <= received - a
      <4>1. i \in 1 .. (received - a)
        BY <1>1, <3>1
      <4> QED BY <1>11, <2>1, <3>1, <4>1
    <3>2. CASE ~(i <= received - a)
      <4>1. PICK j \in 1 .. n : j = i - (received - a) /\ received + j = a + i
        BY <1>1, <1>3, <2>1, <3>2
      <4> QED BY <1>12, <2>1, <3>2, <4>1
    <3> QED BY <3>1, <3>2
  <2> QED BY <2>1, <2>2, <2>3
<1>15. r \in 0 .. Ends(Len(response.lines)) /\ c \in 0 .. Len(response.lines) /\ d \in 0 .. Len(response.lines)
  BY <1>2, <1>3, <1>5
<1>16. Len(s) = r - Ends(c) /\ \A i \in 1 .. Len(s) : s[i] = Text[Ends(c) + i]
  BY <1>7, <1>14
<1>17. /\ Len(CompleteLines(s)) = d - c /\ DOMAIN CompleteLines(s) = 1 .. (d - c)
       /\ \A k \in 1 .. (d - c) :
            EventOf(CompleteLines(s)[k]) =
              IF response.lines[c + k] = "blank" THEN [kind |-> "bad", line |-> 0]
              ELSE [kind |-> response.lines[c + k], line |-> c + k]
       /\ Rest(s) = SubSeq(Text, Ends(d) + 1, r)
  BY <1>1, <1>6, <1>8, <1>14, <1>15, <1>16, BufferCut
<1>18. PICK m \in Nat : m = d - c /\ c + m = d /\ c + m <= Len(response.lines)
  BY <1>2, <1>8
<1>19. received' = r /\ lineBuffer' = Rest(s) /\ Consume(CompleteLines(s)) /\ response' = response
  BY <1>5, <1>9, <1>13 DEF ReadPiece
<1>20. PICK texts : texts = CompleteLines(s)
  OBVIOUS
<1>21. /\ promptSeen' = KnownAfter(d) /\ promptSeen' \in {0, PromptTokens}
       /\ yielded' = Keep(Room, DueUpTo(d)) /\ yielded' \in Seq(Chunk)
  <2>1. /\ Len(texts) = m /\ DOMAIN texts = 1 .. m
        /\ \A k \in 1 .. m :
             EventOf(texts[k]) =
               IF response.lines[c + k] = "blank" THEN [kind |-> "bad", line |-> 0]
               ELSE [kind |-> response.lines[c + k], line |-> c + k]
    BY <1>17, <1>18, <1>20
  <2>2. Consume(texts)
    BY <1>19, <1>20
  <2>3. /\ promptSeen' = KnownAfter(c + m) /\ promptSeen' \in {0, PromptTokens}
        /\ yielded' = Keep(Room, DueUpTo(c + m)) /\ yielded' \in Seq(Chunk)
    BY <1>1, <1>4, <1>15, <1>18, <2>1, <2>2, EventsTaken
  <2> QED BY <1>18, <2>3
<1>22. PICK rest : rest = SubSeq(Text, Ends(d) + 1, r)
  OBVIOUS
<1>23. rest \in Seq(Symbols)
  <2>1. Ends(d) \in Nat
    BY <1>1, <1>2, EndsRise
  <2>2. Ends(d) + 1 \in Int /\ r \in Int /\ \A i \in (Ends(d) + 1) .. r : Text[i] \in Symbols
    BY <1>3, <1>5, <1>10, <2>1
  <2> QED BY <1>22, <2>2, SubSeqProperties
<1>24. LlmStreamTypeOK'
  <2>1. received' \in Nat /\ lineBuffer' \in Seq(Symbols)
    BY <1>17, <1>19, <1>22, <1>23
  <2> QED BY <1>1, <1>19, <1>21, <2>1 DEF LlmStreamTypeOK, Chunk
<1>25. /\ Text' = Text /\ Room' = Room
       /\ \A i : Ends(i)' = Ends(i) /\ KnownAfter(i)' = KnownAfter(i) /\ DueUpTo(i)' = DueUpTo(i)
  BY <1>19, SameText
<1>26. Complete(d, received)'
  <2>1. Ends(d) <= r /\ \A i \in DOMAIN response.lines : i > d => r < Ends(i)
    BY <1>6 DEF Complete
  <2> QED BY <1>19, <1>25, <2>1 DEF Complete
<1>27. lineBuffer' = SubSeq(Text, Ends(d) + 1, received)'
  BY <1>17, <1>19, <1>25
<1>28. promptSeen' = KnownAfter(d)' /\ yielded' = Keep(Room, DueUpTo(d))'
  <2>1. Keep(Room, DueUpTo(d))' = Keep(Room, DueUpTo(d))
    BY <1>25 DEF Keep
  <2> QED BY <1>21, <1>25, <2>1
<1>29. Len(response.lines)' = L /\ received' <= Ends(Len(response.lines))' /\ response'.pc = "open"
  BY <1>1, <1>2, <1>5, <1>19, <1>25
<1> QED BY <1>24, <1>26, <1>27, <1>28, <1>29 DEF StreamInv

(* A text that is no event yields nothing. *)
LEMMA NothingTaken ==
  ASSUME LlmStreamTypeOK, NEW text, EventOf(text) = [kind |-> "bad", line |-> 0], Consume(<<text>>)
  PROVE  promptSeen' = promptSeen /\ yielded' = yielded
<1> DEFINE E == [k \in DOMAIN <<text>> |-> EventOf(<<text>>[k])]
           C == [n \in 1 .. 2 * Len(<<text>>) |->
                   IF n % 2 = 1 THEN Delta(E[(n + 1) \div 2])
                   ELSE Usage(IF Event.start = {} THEN PromptTokens
                              ELSE IF \E j \in DOMAIN E : j < (n + 1) \div 2 /\ E[j].kind \in Event.start
                                   THEN PromptTokens ELSE promptSeen)]
           Y == {n \in DOMAIN C : IF n % 2 = 1 THEN E[(n + 1) \div 2].kind \in Event.delta
                                  ELSE E[(n + 1) \div 2].kind \in Event.usage}
<1>1. promptSeen' = IF \E j \in DOMAIN E : j < Len(<<text>>) + 1 /\ E[j].kind \in Event.start
                    THEN PromptTokens ELSE promptSeen
  BY Zenon DEF Consume
<1>2. yielded' = yielded \o Keep(C, Y)
  BY Zenon DEF Consume
<1>3. DOMAIN E = {1} /\ E[1].kind = "bad"
  <2>1. DOMAIN <<text>> = {1} /\ <<text>>[1] = text
    OBVIOUS
  <2>2. DOMAIN E = {1} /\ E[1] = EventOf(text)
    BY <2>1
  <2> QED BY <2>2
<1> HIDE DEF E
<1>4. ~("bad" \in Event.delta) /\ ~("bad" \in Event.usage) /\ ~("bad" \in Event.start)
  <2>1. "bad" \in Kinds \cup {"bad"}
    OBVIOUS
  <2> QED BY <2>1, EventKinds
<1>5. promptSeen' = promptSeen
  BY <1>1, <1>3, <1>4
<1>6. Y = {}
  <2>1. DOMAIN C = 1 .. 2
    <3>1. 2 * Len(<<text>>) = 2
      OBVIOUS
    <3> QED BY <3>1
  <2> HIDE DEF C
  <2>2. \A n \in 1 .. 2 : (n + 1) \div 2 = 1
    OBVIOUS
  <2>3. \A n \in 1 .. 2 : E[(n + 1) \div 2].kind = "bad"
    BY <1>3, <2>2
  <2> QED BY <1>4, <2>1, <2>3
<1> HIDE DEF C, Y
<1>7. yielded' = yielded
  <2>1. PICK V : yielded \in Seq(V)
    BY DEF LlmStreamTypeOK
  <2>2. yielded \o <<>> = yielded
    BY <2>1
  <2> QED BY <1>2, <1>6, <2>2, KeepNone
<1> QED BY <1>5, <1>7

(* The response ends: what is left counts as a line. *)
LEMMA StreamEnds ==
  ASSUME StreamInv, ResponseEnds
  PROVE  StreamInv'
<1>1. LlmStreamTypeOK /\ received \in Nat /\ response.pc = "open" /\ received <= Ends(Len(response.lines))
  BY DEF StreamInv, LlmStreamTypeOK, ResponseEnds
<1>2. PICK L \in Nat : L = Len(response.lines) /\ DOMAIN response.lines = 1 .. L
  BY <1>1, LinesTyped
<1>3. /\ Text \in Seq(Symbols) /\ Len(Text) = Ends(L) /\ Ends(L) \in Nat
      /\ \A i \in 0 .. L : Ends(i) \in Nat
      /\ \A i \in 1 .. L : Ends(i) = Ends(i - 1) + (IF response.lines[i] = "blank" THEN 1 ELSE 3)
  <2>1. L \in 0 .. L
    OBVIOUS
  <2> QED BY <1>1, <1>2, <2>1, TextAt, EndsRise
<1>4. PICK c \in 0 .. L :
        /\ Complete(c, received)
        /\ lineBuffer = SubSeq(Text, Ends(c) + 1, received)
        /\ promptSeen = KnownAfter(c)
        /\ yielded = Keep(Room, DueUpTo(c))
  BY <1>1, <1>2 DEF StreamInv
<1>5. PICK a \in Nat : a = Ends(c) /\ a <= received
  <2>1. Ends(c) \in Nat
    BY <1>3
  <2> QED BY <1>4, <2>1 DEF Complete
<1>6. \A i \in 1 .. Ends(L) : Text[i] \in Symbols
  BY <1>3
<1>7. /\ lineBuffer \in Seq(Symbols) /\ Len(lineBuffer) = received - a
      /\ \A i \in 1 .. (received - a) : lineBuffer[i] = Text[a + i]
  <2>1. a + 1 \in Int /\ received \in Int /\ \A i \in (a + 1) .. received : Text[i] \in Symbols
    BY <1>1, <1>2, <1>3, <1>6
  <2>2. /\ lineBuffer \in Seq(Symbols)
        /\ Len(lineBuffer) = IF a + 1 <= received THEN received - (a + 1) + 1 ELSE 0
        /\ \A i \in 1 .. (received - (a + 1) + 1) : lineBuffer[i] = Text[(a + 1) + i - 1]
    BY <1>4, <1>5, <2>1, SubSeqProperties
  <2>3. received - (a + 1) + 1 = received - a /\ \A i \in 1 .. (received - a) : (a + 1) + i - 1 = a + i
    BY <1>1
  <2>4. Len(lineBuffer) = received - a
    <3>1. a + 1 <= received \/ received = a
      BY <1>1, <1>5
    <3> QED BY <1>1, <2>2, <2>3, <3>1
  <2> QED BY <2>2, <2>3, <2>4
<1>8. /\ response' = [response EXCEPT !.pc = "done"] /\ lineBuffer' = <<>> /\ received' = received
      /\ lineBuffer = <<>> => Consume(<<>>)
      /\ lineBuffer # <<>> => Consume(<<lineBuffer>>)
  BY DEF ResponseEnds
<1>9. /\ response'.lines = response.lines /\ response'.provider = response.provider /\ response'.pc = "done"
      /\ response' \in [provider : Providers, lines : Streams, pc : {"open", "done", "failed"}]
  BY <1>1, <1>8 DEF LlmStreamTypeOK
<1>10. /\ Text' = Text /\ Room' = Room
       /\ \A i : Ends(i)' = Ends(i) /\ KnownAfter(i)' = KnownAfter(i) /\ DueUpTo(i)' = DueUpTo(i)
  BY <1>9, SameText
<1>11. Complete(c, received)'
  <2>1. Ends(c) <= received /\ \A i \in DOMAIN response.lines : i > c => received < Ends(i)
    BY <1>4 DEF Complete
  <2> QED BY <1>8, <1>9, <1>10, <2>1 DEF Complete
<1>12. /\ LlmStreamTypeOK' =>
            /\ received = a => Due' = DueUpTo(c)
            /\ received = a + 1 => Due' = DueUpTo(c)
            /\ received = a + 2 => Due' = DueUpTo(c + 1)
  <2>1. AtEnd'
    BY EndSaid, PTL
  <2>2. /\ received' <= Ends(Len(response.lines))' /\ c \in 0 .. Len(response'.lines)
    BY <1>1, <1>2, <1>8, <1>9, <1>10
  <2>3. LlmStreamTypeOK' =>
          /\ received' = Ends(c)' => Due' = DueUpTo(c)'
          /\ received' = Ends(c)' + 1 => Due' = DueUpTo(c)'
          /\ received' = Ends(c)' + 2 => Due' = DueUpTo(c + 1)'
    BY <1>9, <1>11, <2>1, <2>2 DEF AtEnd
  <2>4. received' = received /\ Ends(c)' = a /\ DueUpTo(c)' = DueUpTo(c) /\ DueUpTo(c + 1)' = DueUpTo(c + 1)
    BY <1>5, <1>8, <1>10
  <2> QED BY <2>3, <2>4
<1>13. ASSUME promptSeen' \in {0, PromptTokens}, yielded' \in Seq(Chunk)
       PROVE  LlmStreamTypeOK'
  <2>1. lineBuffer' \in Seq(Symbols) /\ received' \in Nat
    BY <1>1, <1>8
  <2> QED BY <1>9, <1>13, <2>1 DEF LlmStreamTypeOK, Chunk
<1>14. ASSUME LlmStreamTypeOK', yielded' = Keep(Room, Due')
       PROVE  StreamInv'
  <2>1. yielded' = Keep(Room, Due)'
    BY <1>10, <1>14 DEF Keep
  <2>2. received' <= Ends(Len(response.lines))'
    BY <1>1, <1>8, <1>9, <1>10
  <2> QED BY <1>9, <1>14, <2>1, <2>2 DEF StreamInv
<1>15. CASE received = a
  <2>1. lineBuffer = <<>>
    BY <1>1, <1>7, <1>15
  <2>2. PICK texts : texts = <<>>
    OBVIOUS
  <2>3. Len(texts) = 0 /\ DOMAIN texts = 1 .. 0 /\ Consume(texts)
    BY <1>8, <2>1, <2>2
  <2>4. c \in 0 .. Len(response.lines) /\ 0 \in Nat /\ c + 0 <= Len(response.lines) /\ c + 0 = c
    BY <1>2
  <2>5. \A k \in 1 .. 0 : EventOf(texts[k]) =
             IF response.lines[c + k] = "blank" THEN [kind |-> "bad", line |-> 0]
             ELSE [kind |-> response.lines[c + k], line |-> c + k]
    OBVIOUS
  <2>6. /\ promptSeen' = KnownAfter(c + 0) /\ promptSeen' \in {0, PromptTokens}
        /\ yielded' = Keep(Room, DueUpTo(c + 0)) /\ yielded' \in Seq(Chunk)
    BY <1>1, <1>4, <2>3, <2>4, <2>5, EventsTaken
  <2> QED BY <1>12, <1>13, <1>14, <1>15, <2>4, <2>6
<1>16. CASE received = a + 1
  <2>1. Len(lineBuffer) = 1
    BY <1>7, <1>16
  <2>2. EventOf(lineBuffer) = [kind |-> "bad", line |-> 0]
    BY <2>1 DEF EventOf
  <2>3. Consume(<<lineBuffer>>)
    BY <1>8, <2>1
  <2>4. promptSeen' = promptSeen /\ yielded' = yielded
    BY <1>1, <2>2, <2>3, NothingTaken
  <2>5. LlmStreamTypeOK'
    BY <1>1, <1>13, <2>4 DEF LlmStreamTypeOK, Chunk
  <2> QED BY <1>4, <1>12, <1>14, <1>16, <2>4, <2>5
<1>17. ASSUME received # a
       PROVE  /\ c + 1 \in 1 .. L /\ (c + 1) - 1 = c
              /\ received = a + 2 \/ received = a + 1
              /\ received = a + 2 => Ends(c + 1) = a + 3 /\ response.lines[c + 1] # "blank"
  <2>1. c # L
    BY <1>1, <1>2, <1>5, <1>17
  <2>2. c + 1 \in 1 .. L /\ (c + 1) - 1 = c /\ c + 1 > c
    BY <2>1
  <2>3. PICK step \in {1, 3} : /\ Ends(c + 1) = Ends(c) + step
                               /\ step = 1 <=> response.lines[c + 1] = "blank"
    BY <1>3, <2>2
  <2>4. received < a + step
    BY <1>2, <1>4, <1>5, <2>2, <2>3 DEF Complete
  <2>5. received = a + 2 \/ received = a + 1
    BY <1>1, <1>5, <1>17, <2>4
  <2>6. received = a + 2 => step = 3
    BY <2>4
  <2> QED BY <1>5, <2>2, <2>3, <2>5, <2>6
<1>18. CASE received = a + 2
  <2>1. /\ c + 1 \in 1 .. L /\ (c + 1) - 1 = c /\ c + 1 \in 1 .. Len(response.lines)
        /\ Ends(c + 1) = a + 3 /\ response.lines[c + 1] # "blank"
    BY <1>2, <1>17, <1>18
  <2>2. Len(lineBuffer) = 2 /\ lineBuffer[1] = Text[a + 1] /\ lineBuffer[2] = Text[a + 2]
    <3>1. received - a = 2
      BY <1>18
    <3>2. 1 \in 1 .. 2 /\ 2 \in 1 .. 2
      OBVIOUS
    <3> QED BY <1>7, <3>1, <3>2
  <2>3. Text[a + 1] = [line |-> c + 1, half |-> (a + 1) - a] /\ Text[a + 2] = [line |-> c + 1, half |-> (a + 2) - a]
    <3>1. /\ a + 1 \in Nat /\ a < a + 1 /\ a + 1 <= a + 3 /\ a + 1 # a + 3
          /\ a + 2 \in Nat /\ a < a + 2 /\ a + 2 <= a + 3 /\ a + 2 # a + 3
      OBVIOUS
    <3>2. Ends((c + 1) - 1) = a
      BY <1>5, <2>1
    <3>3. PICK i \in 1 .. Len(response.lines) : i = c + 1
      BY <2>1
    <3>4. Ends(i) = a + 3 /\ Ends(i - 1) = a
      BY <2>1, <3>2, <3>3
    <3>5. \A n \in Nat : Ends(i - 1) < n /\ n <= Ends(i) =>
             Text[n] = IF n = Ends(i) THEN NL ELSE [line |-> i, half |-> n - Ends(i - 1)]
      BY <1>1, TextAt
    <3>6. \A n \in Nat : a < n /\ n <= a + 3 =>
             Text[n] = IF n = a + 3 THEN NL ELSE [line |-> i, half |-> n - a]
      BY <3>4, <3>5
    <3> QED BY <3>1, <3>3, <3>6
  <2>4. (a + 1) - a = 1
    OBVIOUS
  <2>5. lineBuffer[1].line = c + 1 /\ lineBuffer[2].line = c + 1 /\ lineBuffer[1].half = 1
    BY <2>2, <2>3, <2>4
  <2>6. EventOf(lineBuffer) = [kind |-> response.lines[c + 1], line |-> c + 1]
    BY <2>2, <2>5 DEF EventOf
  <2>7. PICK texts : texts = <<lineBuffer>>
    OBVIOUS
  <2>8. Len(texts) = 1 /\ DOMAIN texts = 1 .. 1 /\ texts[1] = lineBuffer
    BY <2>7
  <2>9. Consume(texts)
    BY <1>8, <2>2, <2>7
  <2>10. \A k \in 1 .. 1 : EventOf(texts[k]) =
             IF response.lines[c + k] = "blank" THEN [kind |-> "bad", line |-> 0]
             ELSE [kind |-> response.lines[c + k], line |-> c + k]
    <3>1. \A k \in 1 .. 1 : k = 1
      OBVIOUS
    <3> QED BY <2>1, <2>6, <2>8, <3>1
  <2>11. c \in 0 .. Len(response.lines) /\ 1 \in Nat /\ c + 1 <= Len(response.lines)
    BY <1>2, <2>1
  <2>12. /\ promptSeen' = KnownAfter(c + 1) /\ promptSeen' \in {0, PromptTokens}
         /\ yielded' = Keep(Room, DueUpTo(c + 1)) /\ yielded' \in Seq(Chunk)
    BY <1>1, <1>4, <2>8, <2>9, <2>10, <2>11, EventsTaken
  <2> QED BY <1>12, <1>13, <1>14, <1>18, <2>12
<1> QED BY <1>15, <1>16, <1>17, <1>18

(* The response breaks off: what has been yielded stays what was due. *)
LEMMA StreamFails ==
  ASSUME StreamInv, ResponseFails
  PROVE  StreamInv'
<1>1. LlmStreamTypeOK /\ response.pc = "open" /\ received <= Ends(Len(response.lines))
  BY DEF StreamInv, ResponseFails
<1>2. PICK c \in 0 .. Len(response.lines) : Complete(c, received) /\ yielded = Keep(Room, DueUpTo(c))
  BY <1>1 DEF StreamInv
<1>3. yielded = Keep(Room, Due)
  <2>1. Due = DueUpTo(c)
    BY <1>1, <1>2, ArrivedBefore
  <2> QED BY <1>2, <2>1
<1>4. /\ response' = [response EXCEPT !.pc = "failed"]
      /\ received' = received /\ lineBuffer' = lineBuffer /\ promptSeen' = promptSeen /\ yielded' = yielded
  BY DEF ResponseFails
<1>5. /\ response'.lines = response.lines /\ response'.provider = response.provider /\ response'.pc = "failed"
      /\ response' \in [provider : Providers, lines : Streams, pc : {"open", "done", "failed"}]
  BY <1>1, <1>4 DEF LlmStreamTypeOK
<1>6. Room' = Room /\ \A i : Ends(i)' = Ends(i)
  BY <1>5, SameText
<1>7. Arrived' = Arrived
  BY <1>1, <1>4, <1>5, <1>6 DEF Arrived
<1>8. Due' = Due
  BY <1>5, <1>6, <1>7 DEF Due
<1>9. yielded' = Keep(Room, Due)'
  BY <1>3, <1>4, <1>6, <1>8 DEF Keep
<1>10. LlmStreamTypeOK' /\ received' <= Ends(Len(response.lines))'
  BY <1>1, <1>4, <1>5, <1>6 DEF LlmStreamTypeOK
<1> QED BY <1>5, <1>9, <1>10 DEF StreamInv

(* Every step of the generator keeps the invariant. *)
LEMMA StreamStepKeeps == StreamInv /\ [LlmStreamNext]_streamVars => StreamInv'
<1> SUFFICES ASSUME StreamInv, [LlmStreamNext]_streamVars PROVE StreamInv'
  OBVIOUS
<1>1. ASSUME NEW n \in 1 .. Len(Text), ReadPiece(n) PROVE StreamInv'
  BY <1>1, PieceRead
<1>2. CASE ResponseEnds
  BY <1>2, StreamEnds
<1>3. CASE ResponseFails
  BY <1>3, StreamFails
<1>4. CASE UNCHANGED streamVars
  <2>1. /\ response' = response /\ received' = received /\ lineBuffer' = lineBuffer
        /\ promptSeen' = promptSeen /\ yielded' = yielded
    BY <1>4 DEF streamVars
  <2>2. /\ Text' = Text /\ Room' = Room
        /\ \A i : Ends(i)' = Ends(i) /\ KnownAfter(i)' = KnownAfter(i) /\ DueUpTo(i)' = DueUpTo(i)
    BY <2>1, SameText
  <2>3. \A i : Complete(i, received)' <=> Complete(i, received)
    BY <2>1, <2>2 DEF Complete
  <2>4. Due' = Due
    <3>1. Arrived' = Arrived
      BY <2>1, <2>2 DEF Arrived
    <3> QED BY <2>1, <2>2, <3>1 DEF Due
  <2>5. Keep(Room, Due)' = Keep(Room, Due) /\ \A i : Keep(Room, DueUpTo(i))' = Keep(Room, DueUpTo(i))
    BY <2>2, <2>4 DEF Keep
  <2>6. LlmStreamTypeOK'
    BY <2>1 DEF StreamInv, LlmStreamTypeOK
  <2>7. received' <= Ends(Len(response.lines))'
    BY <2>1, <2>2 DEF StreamInv
  <2>8. ASSUME response'.pc = "open"
        PROVE  \E c \in 0 .. Len(response'.lines) :
                 /\ Complete(c, received)'
                 /\ lineBuffer' = SubSeq(Text', Ends(c)' + 1, received')
                 /\ promptSeen' = KnownAfter(c)'
                 /\ yielded' = Keep(Room, DueUpTo(c))'
    <3>1. PICK c \in 0 .. Len(response.lines) :
            /\ Complete(c, received)
            /\ lineBuffer = SubSeq(Text, Ends(c) + 1, received)
            /\ promptSeen = KnownAfter(c)
            /\ yielded = Keep(Room, DueUpTo(c))
      BY <2>1, <2>8 DEF StreamInv
    <3> QED BY <2>1, <2>2, <2>3, <2>5, <3>1
  <2>9. response'.pc # "open" => yielded' = Keep(Room, Due)'
    BY <2>1, <2>5 DEF StreamInv
  <2> QED BY <2>6, <2>7, <2>8, <2>9 DEF StreamInv
<1> QED BY <1>1, <1>2, <1>3, <1>4 DEF LlmStreamNext

(* What follows from the invariant. *)
LEMMA StreamInvSuffices == StreamInv => FramesInOrder
<1> SUFFICES ASSUME StreamInv PROVE FramesInOrder
  OBVIOUS
<1>1. LlmStreamTypeOK
  BY DEF StreamInv
<1>2. CASE response.pc = "open"
  <2>1. PICK c \in 0 .. Len(response.lines) : Complete(c, received) /\ yielded = Keep(Room, DueUpTo(c))
    BY <1>2 DEF StreamInv
  <2>2. Due = DueUpTo(c)
    BY <1>1, <1>2, <2>1, ArrivedBefore
  <2> QED BY <1>1, <2>1, <2>2 DEF FramesInOrder
<1>3. CASE response.pc # "open"
  BY <1>3 DEF StreamInv, FramesInOrder
<1> QED BY <1>2, <1>3

(* However the bytes of a response are cut into pieces, and wherever it breaks off, each   *)
(* text that arrived in whole is yielded once and in order, and no usage is lost.          *)
THEOREM FramesStayInOrder == Spec => []FramesInOrder
<1>1. Init => StreamInv
  BY StreamStarts DEF Init
<1>2. StreamInv /\ [Next]_vars => StreamInv'
  BY StreamMoves, StreamStepKeeps
<1>3. StreamInv => FramesInOrder
  BY StreamInvSuffices
<1> QED BY <1>1, <1>2, <1>3, PTL DEF Spec

=============================================================================
