-------------------------- MODULE SimulatorProofs --------------------------
(***************************************************************************)
(* The loops of the built-in simulator compute what the gates mean, for    *)
(* every circuit that passes the policy; their weights sum up to one; the  *)
(* counts of a finished run are possible outcomes, and the executor        *)
(* accepts them.                                                           *)
(*                                                                         *)
(* First sums over finite sets, then the bits of an index, the inductive   *)
(* invariant of the loops, and the mapping to Statevector.                 *)
(***************************************************************************)
EXTENDS Simulator, ProtocolProofs, SequenceTheorems

(* The element a fold takes first.                                         *)
chosen(s) == CHOOSE x \in s : TRUE

(* What a function has to satisfy to be the sums over the subsets of S.    *)
step(g, f, S) ==
    [s \in SUBSET S |-> IF s = {} THEN 0
                        ELSE f[chosen(s)] + g[s \ {chosen(s)}]]

total(f, S) == FoldFunctionOnSet(+, 0, f, S)

(* The fold of the library is the value such a function has at S.          *)
LEMMA TotalUnfold ==
    ASSUME NEW f, NEW S
    PROVE  total(f, S) = (CHOOSE g : g = step(g, f, S))[S]
BY Zenon DEF total, FoldFunctionOnSet, MapThenFoldSet, step, chosen

LEMMA ChosenIn ==
    ASSUME NEW s, s # {} PROVE chosen(s) \in s
BY DEF chosen

(* A subset without one of its elements.                                   *)
LEMMA OneLess ==
    ASSUME NEW S, IsFiniteSet(S), NEW s \in SUBSET S, NEW x \in s
    PROVE  /\ IsFiniteSet(s)
           /\ Cardinality(s) \in Nat \ {0}
           /\ s \ {x} \in SUBSET S
           /\ Cardinality(s \ {x}) = Cardinality(s) - 1
<1>1. IsFiniteSet(s)
  BY FS_Subset
<1>2. /\ Cardinality(s) \in Nat
      /\ Cardinality(s \ {x}) = Cardinality(s) - 1
      /\ Cardinality(s \ {x}) \in Nat
  <2>1. IsFiniteSet(s \ {x})
    BY <1>1, FS_RemoveElement
  <2> QED BY <1>1, <2>1, FS_RemoveElement, FS_CardinalityType
<1> QED BY <1>1, <1>2

(* Such a function exists for every finite set, by induction on the size   *)
(* of the subsets.                                                         *)
LEMMA StepExists ==
    ASSUME NEW f, NEW S, IsFiniteSet(S)
    PROVE  \E g : g = step(g, f, S)
<1> DEFINE upto(g, n) == \A s \in SUBSET S :
                            Cardinality(s) <= n => g[s] = step(g, f, S)[s]
           bad == {n \in Nat : ~ \E g : upto(g, n)}
<1>1. \A s \in SUBSET S : IsFiniteSet(s) /\ Cardinality(s) \in Nat
  BY FS_Subset, FS_CardinalityType
<1>2. 0 \notin bad
  <2> DEFINE g == [s \in SUBSET S |-> 0]
  <2>1. \A s \in SUBSET S : Cardinality(s) <= 0 => s = {}
    BY <1>1, FS_EmptySet
  <2>2. upto(g, 0)
    BY <2>1 DEF step
  <2> QED BY <2>2
<1>3. ASSUME NEW n \in Nat, n \notin bad
      PROVE  n + 1 \notin bad
  <2>1. PICK g : upto(g, n)
    BY <1>3
  <2> DEFINE h == step(g, f, S)
  <2>2. ASSUME NEW s \in SUBSET S, Cardinality(s) <= n + 1
        PROVE  h[s] = step(h, f, S)[s]
    <3>1. CASE s = {}
      BY <3>1 DEF step
    <3>2. CASE s # {}
      <4> DEFINE rest == s \ {chosen(s)}
      <4>1. /\ rest \in SUBSET S
            /\ Cardinality(rest) <= n
        BY <3>2, <2>2, <1>1, ChosenIn, OneLess
      <4>2. g[rest] = h[rest]
        BY <4>1, <2>1
      <4> QED BY <3>2, <4>2 DEF step
    <3> QED BY <3>1, <3>2
  <2>3. upto(h, n + 1)
    BY <2>2
  <2> HIDE DEF h, upto
  <2> QED BY <2>3
<1>4. bad = {}
  <2> SUFFICES ASSUME bad # {} PROVE FALSE
    OBVIOUS
  <2>1. bad \in SUBSET Nat
    OBVIOUS
  <2> HIDE DEF bad
  <2>2. PICK m \in bad : \A j \in bad : m <= j
    BY <2>1, SmallestNumber
  <2>3. m \in Nat /\ m # 0
    BY <2>1, <2>2, <1>2
  <2>4. m - 1 \in Nat /\ m - 1 + 1 = m /\ ~ m <= m - 1
    BY <2>3
  <2>5. m - 1 \notin bad
    BY <2>4, <2>2
  <2> QED BY <2>4, <2>5, <2>2, <1>3
<1>5. PICK g : upto(g, Cardinality(S))
  BY <1>4, <1>1
<1>6. \A s \in SUBSET S : g[s] = step(g, f, S)[s]
  <2>1. \A s \in SUBSET S : Cardinality(s) <= Cardinality(S)
    BY FS_Subset
  <2> QED BY <2>1, <1>5
<1>7. step(g, f, S) = step(step(g, f, S), f, S)
  <2> DEFINE h == step(g, f, S)
  <2>1. \A s \in SUBSET S : s # {} => s \ {chosen(s)} \in SUBSET S
    OBVIOUS
  <2>2. \A s \in SUBSET S : s # {} => g[s \ {chosen(s)}] = h[s \ {chosen(s)}]
    BY <2>1, <1>6
  <2> HIDE DEF h
  <2>3. step(g, f, S) = step(h, f, S)
    BY <2>2, Zenon DEF step
  <2> QED BY <2>3 DEF h
<1> QED BY <1>7

(* Two sums over a set on which the functions agree.                       *)
LEMMA StepsAgree ==
    ASSUME NEW f, NEW S, IsFiniteSet(S), NEW g, g = step(g, f, S),
           NEW e, NEW T, IsFiniteSet(T), NEW h, h = step(h, e, T),
           NEW s, s \subseteq S, s \subseteq T,
           \A x \in s : f[x] = e[x]
    PROVE  g[s] = h[s]
<1> DEFINE differ == {u \in SUBSET s : g[u] # h[u]}
           bad    == {Cardinality(u) : u \in differ}
<1> SUFFICES ASSUME bad # {} PROVE FALSE
  OBVIOUS
<1>1. \A u \in SUBSET s : u \in SUBSET S /\ u \in SUBSET T
  OBVIOUS
<1>2. bad \in SUBSET Nat
  BY <1>1, FS_Subset, FS_CardinalityType
<1>3. PICK m \in bad : \A j \in bad : m <= j
  <2> HIDE DEF bad
  <2> QED BY <1>2, SmallestNumber
<1>4. PICK u \in differ : m = Cardinality(u)
  BY <1>3
<1>5. g[u] = (IF u = {} THEN 0 ELSE f[chosen(u)] + g[u \ {chosen(u)}])
  BY <1>1, Zenon DEF step
<1>6. h[u] = (IF u = {} THEN 0 ELSE e[chosen(u)] + h[u \ {chosen(u)}])
  BY <1>1, Zenon DEF step
<1>7. u # {}
  BY <1>4, <1>5, <1>6
<1> DEFINE rest == u \ {chosen(u)}
<1>8. /\ rest \in SUBSET s
      /\ Cardinality(rest) < m
  BY <1>7, <1>4, <1>3, <1>2, ChosenIn, OneLess
<1>9. g[rest] = h[rest]
  BY <1>8, <1>3, <1>2
<1>10. f[chosen(u)] = e[chosen(u)]
  BY <1>7, <1>4, ChosenIn
<1> QED BY <1>4, <1>5, <1>6, <1>9, <1>10

(* The sum of nothing.                                                     *)
LEMMA TotalEmpty == ASSUME NEW f PROVE total(f, {}) = 0
<1>1. PICK g : g = step(g, f, {})
  BY StepExists, FS_EmptySet
<1>2. total(f, {}) = step(CHOOSE h : h = step(h, f, {}), f, {})[{}]
  BY <1>1, TotalUnfold, Zenon
<1> QED BY <1>2, Zenon DEF step

(* The element taken first, and the sum over the others.                   *)
LEMMA TotalChosen ==
    ASSUME NEW f, NEW S, IsFiniteSet(S), S # {}
    PROVE  total(f, S) = f[chosen(S)] + total(f, S \ {chosen(S)})
<1> DEFINE g == CHOOSE h : h = step(h, f, S)
           R == S \ {chosen(S)}
           r == CHOOSE h : h = step(h, f, R)
<1>1. IsFiniteSet(R)
  BY FS_Subset
<1>2. g = step(g, f, S) /\ r = step(r, f, R)
  BY <1>1, StepExists, Zenon
<1>3. total(f, S) = g[S] /\ total(f, R) = r[R]
  BY TotalUnfold
<1> HIDE DEF g, r
<1>4. g[R] = r[R]
  <2>1. R \subseteq S /\ R \subseteq R
    OBVIOUS
  <2> HIDE DEF R
  <2> QED BY <2>1, <1>1, <1>2, StepsAgree
<1>5. S \in SUBSET S
  OBVIOUS
<1>6. g[S] = f[chosen(S)] + g[R]
  <2>1. g[S] = step(g, f, S)[S]
    BY <1>2
  <2> QED BY <2>1, <1>5, Zenon DEF step
<1> QED BY <1>3, <1>4, <1>6

(* The sum depends on the terms only.                                      *)
LEMMA TotalsAgree ==
    ASSUME NEW f, NEW e, NEW S, IsFiniteSet(S), \A x \in S : f[x] = e[x]
    PROVE  total(f, S) = total(e, S)
<1> DEFINE g == CHOOSE h : h = step(h, f, S)
           r == CHOOSE h : h = step(h, e, S)
<1>1. g = step(g, f, S) /\ r = step(r, e, S)
  BY StepExists, Zenon
<1>2. total(f, S) = g[S] /\ total(e, S) = r[S]
  BY TotalUnfold
<1> HIDE DEF g, r
<1> QED BY <1>1, <1>2, StepsAgree

(* A statement about subsets of a finite set holds if it holds for a set   *)
(* whenever it holds for all smaller ones.                                 *)
LEMMA Smallest ==
    ASSUME NEW S, IsFiniteSet(S), NEW bad \in SUBSET (SUBSET S), bad # {}
    PROVE  \E u \in bad : \A x \in u : u \ {x} \notin bad
<1> DEFINE sizes == {Cardinality(u) : u \in bad}
<1>1. sizes \in SUBSET Nat /\ sizes # {}
  BY FS_Subset, FS_CardinalityType
<1>2. PICK m \in sizes : \A j \in sizes : m <= j
  <2> HIDE DEF sizes
  <2> QED BY <1>1, SmallestNumber
<1>3. PICK u \in bad : m = Cardinality(u)
  BY <1>2
<1>4. ASSUME NEW x \in u, u \ {x} \in bad PROVE FALSE
  <2>1. Cardinality(u \ {x}) = Cardinality(u) - 1 /\ Cardinality(u) \in Nat
    BY <1>3, OneLess
  <2>2. m <= Cardinality(u \ {x})
    BY <1>2, <1>4
  <2> QED BY <2>1, <2>2, <1>3
<1> QED BY <1>4, <1>3

(* Integers have an integer sum.                                           *)
LEMMA TotalType ==
    ASSUME NEW f, NEW S, IsFiniteSet(S), \A x \in S : f[x] \in Int
    PROVE  total(f, S) \in Int
<1> DEFINE bad == {u \in SUBSET S : total(f, u) \notin Int}
<1> SUFFICES ASSUME bad # {} PROVE FALSE
  <2>1. S \in SUBSET S
    OBVIOUS
  <2> QED BY <2>1
<1>1. PICK u \in bad : \A x \in u : u \ {x} \notin bad
  <2>1. bad \in SUBSET (SUBSET S)
    OBVIOUS
  <2> HIDE DEF bad
  <2> QED BY <2>1, Smallest
<1>2. u # {} /\ IsFiniteSet(u)
  <2>1. u \in SUBSET S /\ u \in bad
    BY <1>1
  <2>2. u # {}
    BY <2>1, TotalEmpty
  <2> QED BY <2>1, <2>2, FS_Subset
<1>3. total(f, u) = f[chosen(u)] + total(f, u \ {chosen(u)})
  BY <1>2, TotalChosen
<1>4. chosen(u) \in u /\ chosen(u) \in S
  BY <1>2, ChosenIn
<1>5. total(f, u \ {chosen(u)}) \in Int
  BY <1>1, <1>4
<1> QED BY <1>3, <1>4, <1>5

(* Any element may be taken first.                                         *)
LEMMA TotalAny ==
    ASSUME NEW f, NEW S, IsFiniteSet(S), \A x \in S : f[x] \in Int,
           NEW y \in S
    PROVE  total(f, S) = f[y] + total(f, S \ {y})
<1> DEFINE bad == {u \in SUBSET S : \E x \in u :
                        total(f, u) # f[x] + total(f, u \ {x})}
<1> SUFFICES ASSUME bad # {} PROVE FALSE
  <2>1. S \in SUBSET S
    OBVIOUS
  <2> QED BY <2>1
<1>1. PICK u \in bad : \A x \in u : u \ {x} \notin bad
  <2>1. bad \in SUBSET (SUBSET S)
    OBVIOUS
  <2> HIDE DEF bad
  <2> QED BY <2>1, Smallest
<1>2. PICK x \in u : total(f, u) # f[x] + total(f, u \ {x})
  OBVIOUS
<1> DEFINE c == chosen(u)
<1>3. /\ c \in u
      /\ total(f, u) = f[c] + total(f, u \ {c})
  <2>1. u # {} /\ IsFiniteSet(u)
    BY FS_Subset
  <2> QED BY <2>1, TotalChosen, ChosenIn
<1> HIDE DEF c
<1>4. c # x
  BY <1>2, <1>3
<1>5. /\ total(f, u \ {c}) = f[x] + total(f, (u \ {c}) \ {x})
      /\ total(f, u \ {x}) = f[c] + total(f, (u \ {x}) \ {c})
  <2>1. u \ {c} \in SUBSET S /\ u \ {x} \in SUBSET S
    OBVIOUS
  <2>2. x \in u \ {c} /\ c \in u \ {x}
    BY <1>3, <1>4
  <2> QED BY <2>1, <2>2, <1>1, <1>3
<1>6. (u \ {c}) \ {x} = (u \ {x}) \ {c}
  OBVIOUS
<1>7. /\ f[x] \in Int /\ f[c] \in Int
      /\ total(f, (u \ {x}) \ {c}) \in Int
  <2>1. /\ IsFiniteSet((u \ {x}) \ {c})
        /\ \A z \in (u \ {x}) \ {c} : f[z] \in Int
    BY FS_Subset
  <2> QED BY <2>1, <1>3, TotalType
<1> DEFINE both == total(f, (u \ {x}) \ {c})
<1>8. /\ total(f, u) = f[c] + (f[x] + both)
      /\ f[x] + total(f, u \ {x}) = f[x] + (f[c] + both)
  BY <1>3, <1>5, <1>6, Zenon
<1>9. f[x] \in Int /\ f[c] \in Int /\ both \in Int
  BY <1>7
<1> HIDE DEF both
<1>10. f[c] + (f[x] + both) = f[x] + (f[c] + both)
  BY <1>9
<1> QED BY <1>2, <1>8, <1>10, Zenon

(* Twice the terms, twice the sum.                                         *)
LEMMA TotalDouble ==
    ASSUME NEW f, NEW e, NEW S, IsFiniteSet(S),
           \A x \in S : f[x] \in Int /\ e[x] = 2 * f[x]
    PROVE  total(e, S) = 2 * total(f, S)
<1> DEFINE bad == {u \in SUBSET S : total(e, u) # 2 * total(f, u)}
<1> SUFFICES ASSUME bad # {} PROVE FALSE
  <2>1. S \in SUBSET S
    OBVIOUS
  <2> QED BY <2>1
<1>1. PICK u \in bad : \A x \in u : u \ {x} \notin bad
  <2>1. bad \in SUBSET (SUBSET S)
    OBVIOUS
  <2> HIDE DEF bad
  <2> QED BY <2>1, Smallest
<1>2. u # {} /\ IsFiniteSet(u)
  <2>1. u \in SUBSET S /\ u \in bad
    BY <1>1
  <2>2. u # {}
    BY <2>1, TotalEmpty
  <2> QED BY <2>1, <2>2, FS_Subset
<1> DEFINE c == chosen(u)
<1>3. c \in u /\ c \in S
  BY <1>2, ChosenIn
<1>4. /\ total(f, u) = f[c] + total(f, u \ {c})
      /\ total(e, u) = e[c] + total(e, u \ {c})
  BY <1>2, TotalChosen
<1>5. total(e, u \ {c}) = 2 * total(f, u \ {c})
  BY <1>1, <1>3
<1>6. total(f, u \ {c}) \in Int
  <2>1. IsFiniteSet(u \ {c}) /\ \A z \in u \ {c} : f[z] \in Int
    BY FS_Subset
  <2> QED BY <2>1, TotalType
<1> HIDE DEF c
<1> QED BY <1>3, <1>4, <1>5, <1>6

(* Zeros sum up to zero.                                                   *)
LEMMA TotalZero ==
    ASSUME NEW f, NEW S, IsFiniteSet(S), \A x \in S : f[x] = 0
    PROVE  total(f, S) = 0
<1>1. total(f, S) = 2 * total(f, S)
  BY TotalDouble
<1>2. total(f, S) \in Int
  BY TotalType
<1> QED BY <1>1, <1>2

(* Two terms change, and the others stay.                                  *)
LEMMA TotalTwo ==
    ASSUME NEW f, NEW e, NEW S, IsFiniteSet(S),
           \A x \in S : f[x] \in Int /\ e[x] \in Int,
           NEW i \in S, NEW j \in S, i # j,
           \A x \in S \ {i, j} : e[x] = f[x],
           e[i] + e[j] = f[i] + f[j]
    PROVE  total(e, S) = total(f, S)
<1> DEFINE rest == (S \ {i}) \ {j}
<1>1. IsFiniteSet(S \ {i}) /\ IsFiniteSet(rest)
  BY FS_Subset
<1>2. /\ total(f, S) = f[i] + (f[j] + total(f, rest))
      /\ total(e, S) = e[i] + (e[j] + total(e, rest))
  <2>1. /\ total(f, S) = f[i] + total(f, S \ {i})
        /\ total(e, S) = e[i] + total(e, S \ {i})
    BY TotalAny
  <2>2. j \in S \ {i}
    OBVIOUS
  <2>3. \A x \in S \ {i} : f[x] \in Int /\ e[x] \in Int
    OBVIOUS
  <2>4. /\ total(f, S \ {i}) = f[j] + total(f, rest)
        /\ total(e, S \ {i}) = e[j] + total(e, rest)
    BY <1>1, <2>2, <2>3, TotalAny
  <2> QED BY <2>1, <2>4
<1>3. total(f, rest) = total(e, rest) /\ total(f, rest) \in Int
  BY <1>1, TotalsAgree, TotalType
<1> HIDE DEF rest
<1> QED BY <1>2, <1>3

(* One term grows by one.                                                  *)
LEMMA TotalOne ==
    ASSUME NEW f, NEW e, NEW S, IsFiniteSet(S),
           \A x \in S : f[x] \in Int,
           NEW i \in S, e[i] = f[i] + 1,
           \A x \in S \ {i} : e[x] = f[x]
    PROVE  total(e, S) = total(f, S) + 1
<1>1. IsFiniteSet(S \ {i})
  BY FS_Subset
<1>2. \A x \in S : e[x] \in Int
  OBVIOUS
<1>3. /\ total(f, S) = f[i] + total(f, S \ {i})
      /\ total(e, S) = e[i] + total(e, S \ {i})
  BY <1>2, TotalAny
<1>4. total(f, S \ {i}) = total(e, S \ {i}) /\ total(f, S \ {i}) \in Int
  BY <1>1, TotalsAgree, TotalType
<1> QED BY <1>3, <1>4

(* A term is added.                                                        *)
LEMMA TotalMore ==
    ASSUME NEW f, NEW e, NEW S, IsFiniteSet(S), NEW i, i \notin S,
           \A x \in S : f[x] \in Int /\ e[x] = f[x],
           e[i] \in Int
    PROVE  total(e, S \cup {i}) = e[i] + total(f, S)
<1>1. IsFiniteSet(S \cup {i}) /\ (S \cup {i}) \ {i} = S
  BY FS_AddElement
<1>2. \A x \in S \cup {i} : e[x] \in Int
  OBVIOUS
<1>3. total(e, S \cup {i}) = e[i] + total(e, S)
  BY <1>1, <1>2, TotalAny
<1> QED BY <1>3, TotalsAgree

-----------------------------------------------------------------------------
(* The powers of two that 1 << q takes.                                    *)
LEMMA Shifts ==
    /\ shift[0] = 1 /\ shift[1] = 2 /\ shift[2] = 4 /\ shift[3] = 8
    /\ shift[4] = 16 /\ shift[5] = 32 /\ shift[6] = 64 /\ shift[7] = 128
    /\ shift[8] = 256
<1> DEFINE double(s) == [q \in 0 .. 8 |-> IF q = 0 THEN 1 ELSE 2 * s[q - 1]]
           w == [q \in 0 .. 8 |-> <<1, 2, 4, 8, 16, 32, 64, 128, 256>>[q + 1]]
<1>1. w = double(w)
  OBVIOUS
<1>2. shift = double(shift)
  <2> HIDE DEF w
  <2> QED BY <1>1, Zenon DEF shift
<1>3. /\ shift[0] = 1
      /\ \A q \in 1 .. 8 : shift[q] = 2 * shift[q - 1]
  BY <1>2
<1>4. /\ shift[1] = 2 * shift[0] /\ shift[2] = 2 * shift[1]
      /\ shift[3] = 2 * shift[2] /\ shift[4] = 2 * shift[3]
      /\ shift[5] = 2 * shift[4] /\ shift[6] = 2 * shift[5]
      /\ shift[7] = 2 * shift[6] /\ shift[8] = 2 * shift[7]
  BY <1>3
<1> QED BY <1>3, <1>4


(* The bits of a number as digits, and the number they stand for.          *)
bit(i, q) == IF bit_set(i, q) THEN 1 ELSE 0

value(b) == b[0] + 2 * b[1] + 4 * b[2] + 8 * b[3] + 16 * b[4] + 32 * b[5]
               + 64 * b[6] + 128 * b[7]

(* The bits of a number that is put together from bits.                    *)
LEMMA DigitsOfValue ==
    ASSUME NEW b \in [0 .. 7 -> {0, 1}]
    PROVE  /\ value(b) \in 0 .. 255
           /\ \A q \in 0 .. 7 : bit_set(value(b), q) <=> b[q] = 1
<1>1. /\ b[0] \in 0 .. 1 /\ b[1] \in 0 .. 1 /\ b[2] \in 0 .. 1
      /\ b[3] \in 0 .. 1 /\ b[4] \in 0 .. 1 /\ b[5] \in 0 .. 1
      /\ b[6] \in 0 .. 1 /\ b[7] \in 0 .. 1
  OBVIOUS
<1>2. value(b) \in 0 .. 255
  BY <1>1 DEF value
<1>3. (value(b) \div 1) % 2 = b[0]
  BY <1>1 DEF value
<1>4. (value(b) \div 2) % 2 = b[1]
  BY <1>1 DEF value
<1>5. (value(b) \div 4) % 2 = b[2]
  BY <1>1 DEF value
<1>6. (value(b) \div 8) % 2 = b[3]
  BY <1>1 DEF value
<1>7. (value(b) \div 16) % 2 = b[4]
  BY <1>1 DEF value
<1>8. (value(b) \div 32) % 2 = b[5]
  BY <1>1 DEF value
<1>9. (value(b) \div 64) % 2 = b[6]
  BY <1>1 DEF value
<1>10. (value(b) \div 128) % 2 = b[7]
  BY <1>1 DEF value
<1>11. \A q \in 0 .. 7 : (value(b) \div shift[q]) % 2 = b[q]
  BY <1>3, <1>4, <1>5, <1>6, <1>7, <1>8, <1>9, <1>10, Shifts
<1> QED BY <1>2, <1>11 DEF bit_set

(* A number below 256 is put together from its bits.                       *)
LEMMA ValueOfDigits ==
    ASSUME NEW i \in 0 .. 255
    PROVE  i = value([q \in 0 .. 7 |-> bit(i, q)])
<1>1. \A q \in 0 .. 7 : bit(i, q) = (i \div shift[q]) % 2
  BY Shifts DEF bit, bit_set
<1>2. i = (i % 2) + 2 * ((i \div 2) % 2) + 4 * ((i \div 4) % 2)
             + 8 * ((i \div 8) % 2) + 16 * ((i \div 16) % 2)
             + 32 * ((i \div 32) % 2) + 64 * ((i \div 64) % 2)
             + 128 * ((i \div 128) % 2)
  OBVIOUS
<1> DEFINE b == [q \in 0 .. 7 |-> bit(i, q)]
<1>3. \A q \in 0 .. 7 : b[q] = (i \div shift[q]) % 2
  BY <1>1
<1> HIDE DEF b
<1>4. /\ b[0] = i % 2 /\ b[1] = (i \div 2) % 2
      /\ b[2] = (i \div 4) % 2 /\ b[3] = (i \div 8) % 2
      /\ b[4] = (i \div 16) % 2 /\ b[5] = (i \div 32) % 2
      /\ b[6] = (i \div 64) % 2 /\ b[7] = (i \div 128) % 2
  BY <1>3, Shifts
<1>5. i = value(b)
  BY <1>2, <1>4 DEF value
<1> QED BY <1>5 DEF b

(* The indices of n qubits are the numbers whose other bits are clear.     *)
LEMMA IndexBits ==
    ASSUME NEW n \in 1 .. 8, NEW i \in 0 .. 255
    PROVE  i \in 0 .. shift[n] - 1 <=> \A q \in n .. 7 : ~ bit_set(i, q)
<1>7. i \in 0 .. 127 <=> i \in 0 .. 255 /\ ~ bit_set(i, 7)
  <2>1. shift[7] = 128
    BY Shifts
  <2> QED BY <2>1 DEF bit_set
<1>6. i \in 0 .. 63 <=> i \in 0 .. 127 /\ ~ bit_set(i, 6)
  <2>1. shift[6] = 64
    BY Shifts
  <2> QED BY <2>1 DEF bit_set
<1>5. i \in 0 .. 31 <=> i \in 0 .. 63 /\ ~ bit_set(i, 5)
  <2>1. shift[5] = 32
    BY Shifts
  <2> QED BY <2>1 DEF bit_set
<1>4. i \in 0 .. 15 <=> i \in 0 .. 31 /\ ~ bit_set(i, 4)
  <2>1. shift[4] = 16
    BY Shifts
  <2> QED BY <2>1 DEF bit_set
<1>3. i \in 0 .. 7 <=> i \in 0 .. 15 /\ ~ bit_set(i, 3)
  <2>1. shift[3] = 8
    BY Shifts
  <2> QED BY <2>1 DEF bit_set
<1>2. i \in 0 .. 3 <=> i \in 0 .. 7 /\ ~ bit_set(i, 2)
  <2>1. shift[2] = 4
    BY Shifts
  <2> QED BY <2>1 DEF bit_set
<1>1. i \in 0 .. 1 <=> i \in 0 .. 3 /\ ~ bit_set(i, 1)
  <2>1. shift[1] = 2
    BY Shifts
  <2> QED BY <2>1 DEF bit_set
<1>8. CASE n = 8
  <2>1. i \in 0 .. shift[n] - 1
    BY <1>8, Shifts
  <2> QED BY <2>1, <1>8
<1>9. CASE n = 7
  <2>1. i \in 0 .. 127 <=> /\ ~ bit_set(i, 7)
    BY <1>7
  <2>2. (\A q \in n .. 7 : ~ bit_set(i, q))
            <=> /\ ~ bit_set(i, 7)
    BY <1>9
  <2>3. shift[n] - 1 = 127
    BY <1>9, Shifts
  <2> QED BY <2>1, <2>2, <2>3
<1>10. CASE n = 6
  <2>1. i \in 0 .. 63 <=> /\ ~ bit_set(i, 6) /\ ~ bit_set(i, 7)
    BY <1>7, <1>6
  <2>2. (\A q \in n .. 7 : ~ bit_set(i, q))
            <=> /\ ~ bit_set(i, 6) /\ ~ bit_set(i, 7)
    BY <1>10
  <2>3. shift[n] - 1 = 63
    BY <1>10, Shifts
  <2> QED BY <2>1, <2>2, <2>3
<1>11. CASE n = 5
  <2>1. i \in 0 .. 31 <=> /\ ~ bit_set(i, 5) /\ ~ bit_set(i, 6)
                          /\ ~ bit_set(i, 7)
    BY <1>7, <1>6, <1>5
  <2>2. (\A q \in n .. 7 : ~ bit_set(i, q))
            <=> /\ ~ bit_set(i, 5) /\ ~ bit_set(i, 6)
                /\ ~ bit_set(i, 7)
    BY <1>11
  <2>3. shift[n] - 1 = 31
    BY <1>11, Shifts
  <2> QED BY <2>1, <2>2, <2>3
<1>12. CASE n = 4
  <2>1. i \in 0 .. 15 <=> /\ ~ bit_set(i, 4) /\ ~ bit_set(i, 5)
                          /\ ~ bit_set(i, 6) /\ ~ bit_set(i, 7)
    BY <1>7, <1>6, <1>5, <1>4
  <2>2. (\A q \in n .. 7 : ~ bit_set(i, q))
            <=> /\ ~ bit_set(i, 4) /\ ~ bit_set(i, 5)
                /\ ~ bit_set(i, 6) /\ ~ bit_set(i, 7)
    BY <1>12
  <2>3. shift[n] - 1 = 15
    BY <1>12, Shifts
  <2> QED BY <2>1, <2>2, <2>3
<1>13. CASE n = 3
  <2>1. i \in 0 .. 7 <=> /\ ~ bit_set(i, 3) /\ ~ bit_set(i, 4)
                         /\ ~ bit_set(i, 5) /\ ~ bit_set(i, 6)
                         /\ ~ bit_set(i, 7)
    BY <1>7, <1>6, <1>5, <1>4, <1>3
  <2>2. (\A q \in n .. 7 : ~ bit_set(i, q))
            <=> /\ ~ bit_set(i, 3) /\ ~ bit_set(i, 4)
                /\ ~ bit_set(i, 5) /\ ~ bit_set(i, 6)
                /\ ~ bit_set(i, 7)
    BY <1>13
  <2>3. shift[n] - 1 = 7
    BY <1>13, Shifts
  <2> QED BY <2>1, <2>2, <2>3
<1>14. CASE n = 2
  <2>1. i \in 0 .. 3 <=> /\ ~ bit_set(i, 2) /\ ~ bit_set(i, 3)
                         /\ ~ bit_set(i, 4) /\ ~ bit_set(i, 5)
                         /\ ~ bit_set(i, 6) /\ ~ bit_set(i, 7)
    BY <1>7, <1>6, <1>5, <1>4, <1>3, <1>2
  <2>2. (\A q \in n .. 7 : ~ bit_set(i, q))
            <=> /\ ~ bit_set(i, 2) /\ ~ bit_set(i, 3)
                /\ ~ bit_set(i, 4) /\ ~ bit_set(i, 5)
                /\ ~ bit_set(i, 6) /\ ~ bit_set(i, 7)
    BY <1>14
  <2>3. shift[n] - 1 = 3
    BY <1>14, Shifts
  <2> QED BY <2>1, <2>2, <2>3
<1>15. CASE n = 1
  <2>1. i \in 0 .. 1 <=> /\ ~ bit_set(i, 1) /\ ~ bit_set(i, 2)
                         /\ ~ bit_set(i, 3) /\ ~ bit_set(i, 4)
                         /\ ~ bit_set(i, 5) /\ ~ bit_set(i, 6)
                         /\ ~ bit_set(i, 7)
    BY <1>7, <1>6, <1>5, <1>4, <1>3, <1>2, <1>1
  <2>2. (\A q \in n .. 7 : ~ bit_set(i, q))
            <=> /\ ~ bit_set(i, 1) /\ ~ bit_set(i, 2)
                /\ ~ bit_set(i, 3) /\ ~ bit_set(i, 4)
                /\ ~ bit_set(i, 5) /\ ~ bit_set(i, 6)
                /\ ~ bit_set(i, 7)
    BY <1>15
  <2>3. shift[n] - 1 = 1
    BY <1>15, Shifts
  <2> QED BY <2>1, <2>2, <2>3
<1> QED BY <1>8, <1>9, <1>10, <1>11, <1>12, <1>13, <1>14, <1>15

(* The index whose bit q is the other one.                                 *)
flipped(i, q) == IF bit_set(i, q) THEN i - shift[q] ELSE i + shift[q]

(* Only bit q is another one.                                              *)
LEMMA FlipBits ==
    ASSUME NEW q \in 0 .. 7, NEW i \in 0 .. 255
    PROVE  /\ flipped(i, q) \in 0 .. 255
           /\ bit_set(flipped(i, q), q) <=> ~ bit_set(i, q)
           /\ \A r \in 0 .. 7 :
                 r # q => (bit_set(flipped(i, q), r) <=> bit_set(i, r))
<1> DEFINE b == [r \in 0 .. 7 |-> bit(i, r)]
           c == [b EXCEPT ![q] = 1 - b[q]]
<1>1. /\ b \in [0 .. 7 -> {0, 1}]
      /\ \A r \in 0 .. 7 : b[r] = 1 <=> bit_set(i, r)
  BY DEF bit
<1>2. i = value(b)
  BY ValueOfDigits
<1> HIDE DEF b
<1>3. /\ c \in [0 .. 7 -> {0, 1}]
      /\ \A r \in 0 .. 7 : c[r] = IF r = q THEN 1 - b[q] ELSE b[r]
  BY <1>1
<1> HIDE DEF c
<1>4. value(c) = flipped(i, q)
  <2>1. \A r \in 0 .. 7 : b[r] \in 0 .. 1
    BY <1>1
  <2>2. value(c) = value(b) + shift[q] * (1 - 2 * b[q])
    <3>1. CASE q = 0
      BY <3>1, <2>1, <1>3, Shifts DEF value
    <3>2. CASE q = 1
      BY <3>2, <2>1, <1>3, Shifts DEF value
    <3>3. CASE q = 2
      BY <3>3, <2>1, <1>3, Shifts DEF value
    <3>4. CASE q = 3
      BY <3>4, <2>1, <1>3, Shifts DEF value
    <3>5. CASE q = 4
      BY <3>5, <2>1, <1>3, Shifts DEF value
    <3>6. CASE q = 5
      BY <3>6, <2>1, <1>3, Shifts DEF value
    <3>7. CASE q = 6
      BY <3>7, <2>1, <1>3, Shifts DEF value
    <3>8. CASE q = 7
      BY <3>8, <2>1, <1>3, Shifts DEF value
    <3> QED BY <3>1, <3>2, <3>3, <3>4, <3>5, <3>6, <3>7, <3>8
  <2>3. b[q] = IF bit_set(i, q) THEN 1 ELSE 0
    BY <1>1
  <2>4. shift[q] \in Int
    BY Shifts
  <2> QED BY <1>2, <2>2, <2>3, <2>4 DEF flipped
<1>5. /\ flipped(i, q) \in 0 .. 255
      /\ \A r \in 0 .. 7 : bit_set(flipped(i, q), r) <=> c[r] = 1
  BY <1>3, <1>4, DigitsOfValue
<1>6. b[q] \in {0, 1}
  BY <1>1
<1> QED BY <1>1, <1>3, <1>5, <1>6

(* The same among the indices of n qubits.                                 *)
LEMMA Flip ==
    ASSUME NEW n \in 1 .. 8, NEW q \in 0 .. n - 1, NEW i \in 0 .. shift[n] - 1
    PROVE  /\ flipped(i, q) \in 0 .. shift[n] - 1
           /\ flipped(i, q) # i
           /\ flipped(flipped(i, q), q) = i
           /\ bit_set(flipped(i, q), q) <=> ~ bit_set(i, q)
           /\ \A r \in 0 .. n - 1 :
                 r # q => (bit_set(flipped(i, q), r) <=> bit_set(i, r))
           /\ bit_set(i, q) => flipped(i, q) < i
           /\ ~ bit_set(i, q) => i < flipped(i, q)
<1>1. i \in 0 .. 255 /\ q \in 0 .. 7 /\ shift[q] \in Nat \ {0}
  BY Shifts
<1>2. /\ flipped(i, q) \in 0 .. 255
      /\ bit_set(flipped(i, q), q) <=> ~ bit_set(i, q)
      /\ \A r \in 0 .. 7 :
            r # q => (bit_set(flipped(i, q), r) <=> bit_set(i, r))
  BY <1>1, FlipBits
<1>3. flipped(i, q) \in 0 .. shift[n] - 1
  <2>1. \A r \in n .. 7 : ~ bit_set(i, r)
    BY <1>1, IndexBits
  <2>2. \A r \in n .. 7 : r \in 0 .. 7 /\ r # q
    OBVIOUS
  <2>3. \A r \in n .. 7 : ~ bit_set(flipped(i, q), r)
    BY <2>1, <2>2, <1>2
  <2> QED BY <2>3, <1>2, IndexBits
<1>4. flipped(flipped(i, q), q) = i
  BY <1>1, <1>2 DEF flipped
<1> QED BY <1>1, <1>2, <1>3, <1>4 DEF flipped

(* Two indices with the same bits are the same index.                      *)
LEMMA SameBits ==
    ASSUME NEW n \in 1 .. 8,
           NEW i \in 0 .. shift[n] - 1, NEW j \in 0 .. shift[n] - 1,
           \A q \in 0 .. n - 1 : bit_set(i, q) <=> bit_set(j, q)
    PROVE  i = j
<1>1. i \in 0 .. 255 /\ j \in 0 .. 255
  BY Shifts
<1>2. \A q \in n .. 7 : ~ bit_set(i, q) /\ ~ bit_set(j, q)
  BY <1>1, IndexBits
<1>3. \A q \in 0 .. 7 : bit_set(i, q) <=> bit_set(j, q)
  BY <1>2
<1>4. [q \in 0 .. 7 |-> bit(i, q)] = [q \in 0 .. 7 |-> bit(j, q)]
  BY <1>3 DEF bit
<1> QED BY <1>1, <1>4, ValueOfDigits

(* Every choice of bits has an index.                                      *)
LEMMA SomeIndex ==
    ASSUME NEW n \in 1 .. 8, NEW b \in [0 .. n - 1 -> {0, 1}]
    PROVE  \E i \in 0 .. shift[n] - 1 :
              \A q \in 0 .. n - 1 : bit_set(i, q) <=> b[q] = 1
<1> DEFINE c == [q \in 0 .. 7 |-> IF q < n THEN b[q] ELSE 0]
<1>1. /\ c \in [0 .. 7 -> {0, 1}]
      /\ \A q \in 0 .. n - 1 : c[q] = b[q]
      /\ \A q \in n .. 7 : c[q] # 1
  <2>1. \A q \in 0 .. 7 : c[q] \in {0, 1}
    OBVIOUS
  <2> QED BY <2>1
<1> HIDE DEF c
<1>2. /\ value(c) \in 0 .. 255
      /\ \A q \in 0 .. 7 : bit_set(value(c), q) <=> c[q] = 1
  BY <1>1, DigitsOfValue
<1>3. value(c) \in 0 .. shift[n] - 1
  <2>1. \A q \in n .. 7 : q \in 0 .. 7
    OBVIOUS
  <2>2. \A q \in n .. 7 : ~ bit_set(value(c), q)
    <3> SUFFICES ASSUME NEW q \in n .. 7 PROVE ~ bit_set(value(c), q)
      OBVIOUS
    <3>1. c[q] # 1 /\ q \in 0 .. 7
      BY <2>1, <1>1
    <3> QED BY <3>1, <1>2
  <2> QED BY <2>2, <1>2, IndexBits
<1> QED BY <1>1, <1>2, <1>3
-----------------------------------------------------------------------------
(* The qubit whose bit tells the two indices of a pair apart: the target   *)
(* of a CX, the only qubit of the other gates.                             *)
target == current.qubits[Len(current.qubits)]

(* The index at which the loop comes to the pair of i.                     *)
lower(i) == IF bit_set(i, target) THEN flipped(i, target) ELSE i

(* What a gate makes of the amplitude at i.                                *)
result(i) ==
    LET set   == bit_set(i, current.qubits[1])
        other == before[flipped(i, target)]
    IN  CASE current.op = "CX" -> IF set THEN other ELSE before[i]
          [] current.op = "H"  -> IF set THEN other - before[i]
                                  ELSE before[i] + other
          [] current.op = "X"  -> other
          [] current.op = "Z"  -> IF set THEN - before[i] ELSE before[i]

(* The term of index i in a sum that an H, doubling it pair by pair, does  *)
(* not change: the pairs still to come count twice.                        *)
halfway == [i \in 0 .. size - 1 |->
               IF /\ applied < Len(circuit.gates)
                  /\ current.op = "H"
                  /\ index <= lower(i)
               THEN 2 * (state[i] * state[i])
               ELSE state[i] * state[i]]

Shape ==
    /\ circuit \in Circuit
    /\ applied \in 0 .. Len(circuit.gates)
    /\ index \in 0 .. size
    /\ state \in [0 .. size - 1 -> Int]
    /\ before \in [0 .. size - 1 -> Int]
    /\ scale \in Int

(* Half of the pairs have been dealt with, and each of them once.          *)
InPlace ==
    /\ applied < Len(circuit.gates) =>
          \A i \in 0 .. size - 1 :
             state[i] = IF lower(i) < index THEN result(i) ELSE before[i]
    /\ applied = Len(circuit.gates) => index = 0 /\ state = before

Balance ==
    total(halfway, 0 .. size - 1) =
        IF applied < Len(circuit.gates) /\ current.op = "H"
        THEN 2 * scale ELSE scale

Counting ==
    /\ IsFiniteSet(DOMAIN counts)
    /\ counts = [k \in DOMAIN counts |-> counts[k]]
    /\ \A k \in DOMAIN counts :
          /\ counts[k] \in Nat \ {0}
          /\ applied = Len(circuit.gates)
          /\ \E i \in 0 .. size - 1 : k = key(i) /\ state[i] # 0
    /\ total(counts, DOMAIN counts) \in 0 .. circuit.shots

SimulatorInv == Shape /\ InPlace /\ Balance /\ Counting

(* The limits of a circuit.                                                *)
LEMMA CircuitFacts ==
    ASSUME circuit \in Circuit
    PROVE  /\ circuit.qubits \in 1 .. 8
           /\ circuit.shots \in Nat \ {0}
           /\ Len(circuit.gates) \in Nat
           /\ size \in 1 .. 256
           /\ IsFiniteSet(0 .. size - 1)
<1>1. /\ circuit.qubits \in 1 .. 8
      /\ circuit.shots \in Nat \ {0}
      /\ circuit.gates \in Seq([op : {"H", "X", "Z", "CX"}, qubits : Seq(Int)])
  BY CircuitAssumption
<1>2. Len(circuit.gates) \in Nat
  BY <1>1, LenProperties
<1>3. size \in 1 .. 256
  <2>1. \A n \in 1 .. 8 : shift[n] \in 1 .. 256
    BY Shifts
  <2> QED BY <2>1, <1>1 DEF size
<1>4. IsFiniteSet(0 .. size - 1)
  BY <1>3, FS_Interval
<1> QED BY <1>1, <1>2, <1>3, <1>4

(* The gate the loop is about is one that policy_checks let pass.          *)
LEMMA GateFacts ==
    ASSUME circuit \in Circuit, applied \in 0 .. Len(circuit.gates),
           applied < Len(circuit.gates)
    PROVE  /\ current.op \in {"H", "X", "Z", "CX"}
           /\ current.qubits[1] \in 0 .. circuit.qubits - 1
           /\ target \in 0 .. circuit.qubits - 1
           /\ current.op = "CX" => /\ target = current.qubits[2]
                                   /\ target # current.qubits[1]
           /\ current.op # "CX" => target = current.qubits[1]
<1> DEFINE G == [op : {"H", "X", "Z", "CX"}, qubits : Seq(Int)]
<1>1. /\ circuit.gates \in Seq(G)
      /\ \A i \in DOMAIN circuit.gates :
            gate_valid(circuit.gates[i], circuit.qubits)
  BY CircuitAssumption
<1>2. applied + 1 \in DOMAIN circuit.gates /\ current \in G
  <2> HIDE DEF G
  <2>1. applied + 1 \in 1 .. Len(circuit.gates)
    BY <1>1, LenProperties
  <2>2. DOMAIN circuit.gates = 1 .. Len(circuit.gates)
    BY <1>1, LenProperties
  <2> QED BY <2>1, <2>2, <1>1, ElementOfSeq DEF current
<1>3. gate_valid(current, circuit.qubits)
  BY <1>1, <1>2 DEF current
<1>4. /\ Len(current.qubits) = IF current.op = "CX" THEN 2 ELSE 1
      /\ DOMAIN current.qubits = 1 .. Len(current.qubits)
  BY <1>2, <1>3, LenProperties DEF gate_valid
<1>5. /\ \A i, j \in 1 .. Len(current.qubits) :
            i # j => current.qubits[i] # current.qubits[j]
      /\ \A i \in 1 .. Len(current.qubits) :
            current.qubits[i] \in 0 .. circuit.qubits - 1
  BY <1>3, <1>4 DEF gate_valid
<1>6. CASE current.op = "CX"
  BY <1>2, <1>4, <1>5, <1>6 DEF target
<1>7. CASE current.op # "CX"
  BY <1>2, <1>4, <1>5, <1>7 DEF target
<1> QED BY <1>6, <1>7

(* The two indices of a pair have the same lower index.                    *)
LEMMA Pairs ==
    ASSUME circuit \in Circuit, applied \in 0 .. Len(circuit.gates),
           applied < Len(circuit.gates), NEW i \in 0 .. size - 1
    PROVE  LET j == flipped(i, target) IN
           /\ j \in 0 .. size - 1
           /\ j # i
           /\ flipped(j, target) = i
           /\ bit_set(j, target) <=> ~ bit_set(i, target)
           /\ \A r \in 0 .. circuit.qubits - 1 :
                 r # target => (bit_set(j, r) <=> bit_set(i, r))
           /\ lower(i) \in 0 .. size - 1
           /\ lower(i) = lower(j)
           /\ lower(i) = i <=> ~ bit_set(i, target)
           /\ ~ bit_set(lower(i), target)
           /\ \A k \in 0 .. size - 1 : lower(k) = lower(i) => k \in {i, j}
<1>1. target \in 0 .. circuit.qubits - 1 /\ circuit.qubits \in 1 .. 8
  BY GateFacts, CircuitFacts
<1>2. \A k \in 0 .. size - 1 :
         /\ flipped(k, target) \in 0 .. size - 1
         /\ flipped(k, target) # k
         /\ flipped(flipped(k, target), target) = k
         /\ bit_set(flipped(k, target), target) <=> ~ bit_set(k, target)
         /\ \A r \in 0 .. circuit.qubits - 1 :
               r # target =>
                  (bit_set(flipped(k, target), r) <=> bit_set(k, r))
  BY <1>1, Flip DEF size
<1> QED BY <1>2, Zenon DEF lower

(* One round of the inner loop: a pair is dealt with when the loop comes   *)
(* to its lower index, and nothing else changes.                           *)
LEMMA PairStep ==
    ASSUME Shape, InPlace, Pair
    PROVE  /\ state' \in [0 .. size - 1 -> Int]
           /\ \A i \in 0 .. size - 1 :
                 state'[i] = IF lower(i) = index THEN result(i) ELSE state[i]
<1> DEFINE j == flipped(index, target)
           q == current.qubits[1]
           Claim == /\ state' \in [0 .. size - 1 -> Int]
                    /\ \A i \in 0 .. size - 1 :
                          state'[i] = IF lower(i) = index THEN result(i)
                                      ELSE state[i]
<1> SUFFICES Claim
  OBVIOUS
<1> HIDE DEF Claim
<1>1. /\ circuit \in Circuit
      /\ applied \in 0 .. Len(circuit.gates)
      /\ applied < Len(circuit.gates)
      /\ index \in 0 .. size - 1
      /\ state \in [0 .. size - 1 -> Int]
      /\ before \in [0 .. size - 1 -> Int]
  <2>1. circuit \in Circuit /\ applied < Len(circuit.gates) /\ index < size
    BY Zenon DEF Shape, Pair
  <2>2. size \in 1 .. 256
    BY <2>1, CircuitFacts
  <2> QED BY <2>1, <2>2 DEF Shape
<1>2. /\ current.op \in {"H", "X", "Z", "CX"}
      /\ q \in 0 .. circuit.qubits - 1
      /\ current.op = "CX" => target = current.qubits[2] /\ target # q
      /\ current.op # "CX" => target = q
  BY <1>1, GateFacts
<1>3. /\ j \in 0 .. size - 1
      /\ j # index
      /\ flipped(j, target) = index
      /\ bit_set(j, target) <=> ~ bit_set(index, target)
      /\ target # q => (bit_set(j, q) <=> bit_set(index, q))
  <2>1. /\ j \in 0 .. size - 1
        /\ j # index
        /\ flipped(j, target) = index
        /\ bit_set(j, target) <=> ~ bit_set(index, target)
        /\ \A r \in 0 .. circuit.qubits - 1 :
              r # target => (bit_set(j, r) <=> bit_set(index, r))
    BY <1>1, Pairs
  <2> QED BY <2>1, <1>2
<1>4. \A i \in 0 .. size - 1 :
         lower(i) = index <=> /\ ~ bit_set(index, target)
                              /\ i \in {index, j}
  BY <1>1, <1>3, Pairs
<1>5. ~ bit_set(index, target) =>
         /\ j = index + shift[target]
         /\ state[index] = before[index]
         /\ state[j] = before[j]
  <2>1. \A i \in 0 .. size - 1 :
           lower(i) = index => state[i] = before[i]
    BY <1>1 DEF InPlace
  <2> QED BY <2>1, <1>1, <1>3, <1>4 DEF flipped
<1>6. ASSUME state' = state,
             \A i \in 0 .. size - 1 :
                lower(i) = index => result(i) = before[i]
      PROVE  Claim
  <2>1. \A i \in 0 .. size - 1 : lower(i) = index => state[i] = before[i]
    BY <1>4, <1>5
  <2> QED BY <1>1, <1>6, <2>1, Zenon DEF Claim
<1>7. ASSUME ~ bit_set(index, target),
             state' = [state EXCEPT ![index] = result(index),
                                    ![j] = result(j)],
             result(index) \in Int, result(j) \in Int
      PROVE  Claim
  <2> HIDE DEF j
  <2> QED BY <1>1, <1>3, <1>4, <1>7, Zenon DEF Claim
<1>8. /\ result(index) =
            CASE current.op = "CX" -> IF bit_set(index, q) THEN before[j]
                                      ELSE before[index]
              [] current.op = "H"  -> IF bit_set(index, q)
                                      THEN before[j] - before[index]
                                      ELSE before[index] + before[j]
              [] current.op = "X"  -> before[j]
              [] current.op = "Z"  -> IF bit_set(index, q)
                                      THEN - before[index]
                                      ELSE before[index]
      /\ result(j) =
            CASE current.op = "CX" -> IF bit_set(j, q) THEN before[index]
                                      ELSE before[j]
              [] current.op = "H"  -> IF bit_set(j, q)
                                      THEN before[index] - before[j]
                                      ELSE before[j] + before[index]
              [] current.op = "X"  -> before[index]
              [] current.op = "Z"  -> IF bit_set(j, q) THEN - before[j]
                                      ELSE before[j]
  BY <1>3, Zenon DEF result
<1>9. before[index] \in Int /\ before[j] \in Int
  BY <1>1, <1>3
<1> HIDE DEF j, q
<1>10. CASE current.op = "CX"
  <2>1. state' = IF bit_set(index, q) /\ ~ bit_set(index, target)
                 THEN [state EXCEPT ![index] = state[index + shift[target]],
                                    ![index + shift[target]] = state[index]]
                 ELSE state
    BY <1>2, <1>10, Zenon DEF Pair, controlled, q
  <2>2. CASE bit_set(index, q) /\ ~ bit_set(index, target)
    <3>1. result(index) = before[j] /\ result(j) = before[index]
      BY <2>2, <1>2, <1>3, <1>8, <1>10
    <3> QED BY <3>1, <2>1, <2>2, <1>5, <1>7, <1>9
  <2>3. CASE ~ (bit_set(index, q) /\ ~ bit_set(index, target))
    <3>1. \A i \in 0 .. size - 1 : lower(i) = index => result(i) = before[i]
      <4>1. \/ result(index) = before[index] /\ result(j) = before[j]
            \/ bit_set(index, target)
        BY <2>3, <1>2, <1>3, <1>8, <1>10
      <4> QED BY <4>1, <1>4
    <3> QED BY <3>1, <2>1, <2>3, <1>6, <1>10
  <2> QED BY <2>2, <2>3
<1>11. CASE current.op # "CX"
  <2>1. target = q /\ state' = single(index, current)
    BY <1>2, <1>11 DEF Pair
  <2>2. CASE bit_set(index, target)
    <3>1. state' = state
      BY <2>1, <2>2, <1>2, <1>11 DEF single, q
    <3> QED BY <3>1, <2>2, <1>4, <1>6
  <2>3. CASE ~ bit_set(index, target)
    <3>1. /\ current.op = "H" => result(index) = before[index] + before[j]
                                 /\ result(j) = before[index] - before[j]
          /\ current.op = "X" => result(index) = before[j]
                                 /\ result(j) = before[index]
          /\ current.op = "Z" => result(index) = before[index]
                                 /\ result(j) = - before[j]
      BY <2>1, <2>3, <1>3, <1>8, <1>11
    <3>2. CASE current.op = "H"
      <4>1. state' = [state EXCEPT ![index] = @ + state[j],
                                   ![j] = state[index] - @]
        BY <3>2, <2>1, <2>3, <1>5, Zenon DEF single, q
      <4>2. state' = [state EXCEPT ![index] = state[index] + state[j],
                                   ![j] = state[index] - state[j]]
        BY <4>1, <1>1, <1>3, Zenon
      <4>3. /\ result(index) \in Int /\ result(j) \in Int
            /\ result(index) = state[index] + state[j]
            /\ result(j) = state[index] - state[j]
        BY <3>1, <3>2, <2>3, <1>5, <1>9
      <4> QED BY <4>2, <4>3, <2>3, <1>7
    <3>3. CASE current.op = "X"
      <4>1. state' = [state EXCEPT ![index] = state[j], ![j] = state[index]]
        BY <3>3, <2>1, <2>3, <1>5, Zenon DEF single, q
      <4> QED BY <4>1, <3>1, <3>3, <2>3, <1>5, <1>7, <1>9
    <3>4. CASE current.op = "Z"
      <4>1. state' = [state EXCEPT ![j] = - state[j]]
        BY <3>4, <2>1, <2>3, <1>5, Zenon DEF single, q
      <4>2. state' = [state EXCEPT ![index] = state[index], ![j] = - state[j]]
        BY <4>1, <1>1, <1>3
      <4>3. /\ result(index) \in Int /\ result(j) \in Int
            /\ result(index) = state[index]
            /\ result(j) = - state[j]
        BY <3>1, <3>4, <2>3, <1>5, <1>9
      <4> QED BY <4>2, <4>3, <2>3, <1>7
    <3> QED BY <3>2, <3>3, <3>4, <1>2, <1>11
  <2> QED BY <2>2, <2>3
<1> QED BY <1>10, <1>11

(* What a round of the inner loop leaves alone.                            *)
LEMMA PairShape ==
    ASSUME Shape, InPlace, Pair
    PROVE  /\ Shape'
           /\ size' = size /\ current' = current /\ target' = target
           /\ applied' = applied /\ applied < Len(circuit.gates)
           /\ circuit' = circuit /\ before' = before /\ scale' = scale
           /\ index' = index + 1 /\ index \in 0 .. size - 1
<1>1. /\ circuit' = circuit /\ before' = before /\ scale' = scale
      /\ applied' = applied /\ applied < Len(circuit.gates)
      /\ index' = index + 1 /\ index < size
  BY Zenon DEF Pair
<1>2. size' = size /\ current' = current
  BY <1>1, Zenon DEF size, current
<1>3. target' = target
  BY <1>2, Zenon DEF target
<1>4. size \in 1 .. 256 /\ index \in 0 .. size - 1
  <2>1. circuit \in Circuit /\ index \in 0 .. size
    BY Zenon DEF Shape
  <2>2. size \in 1 .. 256
    BY <2>1, CircuitFacts
  <2> QED BY <2>1, <2>2, <1>1
<1>5. index + 1 \in 0 .. size
  BY <1>4
<1>6. state' \in [0 .. size - 1 -> Int]
  BY PairStep
<1>7. Shape'
  BY <1>1, <1>2, <1>5, <1>6, Zenon DEF Shape
<1> QED BY <1>1, <1>2, <1>3, <1>4, <1>7

(* The pair is dealt with, and no other.                                   *)
LEMMA PairInPlace ==
    ASSUME Shape, InPlace, Pair
    PROVE  InPlace'
<1>1. /\ size' = size /\ current' = current /\ target' = target
      /\ applied' = applied /\ circuit' = circuit /\ before' = before
      /\ index' = index + 1 /\ index \in 0 .. size - 1
      /\ applied < Len(circuit.gates)
  BY PairShape
<1>2. /\ circuit \in Circuit
      /\ applied \in 0 .. Len(circuit.gates)
      /\ Len(circuit.gates) \in Nat
  BY CircuitFacts DEF Shape
<1>3. ASSUME NEW i \in 0 .. size - 1
      PROVE  state'[i] = IF lower(i)' < index' THEN result(i)' ELSE before'[i]
  <2>1. lower(i)' = lower(i) /\ result(i)' = result(i)
    BY <1>1, Zenon DEF lower, result
  <2>2. state'[i] = IF lower(i) = index THEN result(i) ELSE state[i]
    BY PairStep, <1>3
  <2>3. state[i] = IF lower(i) < index THEN result(i) ELSE before[i]
    BY <1>1, <1>3, Zenon DEF InPlace
  <2>4. lower(i) \in 0 .. size - 1
    BY <1>1, <1>2, <1>3, Pairs
  <2>5. lower(i) < index + 1 <=> lower(i) < index \/ lower(i) = index
    BY <2>4, <1>1
  <2> QED BY <1>1, <2>1, <2>2, <2>3, <2>5
<1>4. ~ applied' = Len(circuit'.gates)
  BY <1>1, <1>2
<1> QED BY <1>1, <1>3, <1>4, Zenon DEF InPlace

(* The squares of a pair, before and after the gate.                       *)
LEMMA Squares ==
    ASSUME NEW a \in Int, NEW b \in Int
    PROVE  /\ a * a \in Int
           /\ (a + b) * (a + b) + (a - b) * (a - b)
                  = 2 * (a * a) + 2 * (b * b)
           /\ (- a) * (- a) = a * a
OBVIOUS

(* The two terms of the pair keep their sum.                               *)
LEMMA PairBalance ==
    ASSUME Shape, InPlace, Balance, Pair
    PROVE  Balance'
<1> DEFINE S == 0 .. size - 1
           j == flipped(index, target)
<1>1. /\ size' = size /\ current' = current /\ target' = target
      /\ applied' = applied /\ circuit' = circuit /\ before' = before
      /\ index' = index + 1 /\ index \in S /\ scale' = scale
      /\ applied < Len(circuit.gates)
  BY PairShape
<1>2. /\ circuit \in Circuit
      /\ applied \in 0 .. Len(circuit.gates)
      /\ IsFiniteSet(S)
      /\ state \in [S -> Int] /\ before \in [S -> Int]
      /\ state' \in [S -> Int]
  BY CircuitFacts, PairStep DEF Shape
<1> DEFINE h == current.op = "H"
           old(i) == IF h /\ index <= lower(i)
                     THEN 2 * (state[i] * state[i])
                     ELSE state[i] * state[i]
           new(i) == IF h /\ index + 1 <= lower(i)
                     THEN 2 * (state'[i] * state'[i])
                     ELSE state'[i] * state'[i]
<1>3. /\ halfway = [i \in S |-> old(i)]
      /\ halfway' = [i \in S |-> new(i)]
  <2>1. \A i \in S : lower(i)' = lower(i)
    BY <1>1, Zenon DEF lower
  <2>2. halfway = [i \in S |-> old(i)]
    BY <1>1, Zenon DEF halfway
  <2>3. halfway' = [i \in 0 .. size' - 1 |->
               IF /\ applied' < Len(circuit'.gates)
                  /\ current'.op = "H"
                  /\ index' <= lower(i)'
               THEN 2 * (state'[i] * state'[i])
               ELSE state'[i] * state'[i]]
    BY Zenon DEF halfway
  <2>4. halfway' = [i \in S |-> IF h /\ index + 1 <= lower(i)'
                                THEN 2 * (state'[i] * state'[i])
                                ELSE state'[i] * state'[i]]
    BY <2>3, <1>1, Zenon
  <2> QED BY <2>1, <2>2, <2>4, Zenon
<1>4. \A i \in S : old(i) \in Int /\ new(i) \in Int
  BY <1>2
<1>5. \A i \in S : lower(i) \in S
  BY <1>1, <1>2, Pairs
<1>6. /\ j \in S /\ j # index
      /\ flipped(j, target) = index
      /\ bit_set(j, target) <=> ~ bit_set(index, target)
      /\ lower(j) = lower(index)
      /\ \A i \in S : lower(i) = index <=> /\ ~ bit_set(index, target)
                                           /\ i \in {index, j}
  BY <1>1, <1>2, Pairs
<1>7. \A i \in S : lower(i) # index => new(i) = old(i)
  <2> SUFFICES ASSUME NEW i \in S, lower(i) # index PROVE new(i) = old(i)
    OBVIOUS
  <2>1. state'[i] = state[i]
    BY PairStep
  <2>2. index <= lower(i) <=> index + 1 <= lower(i)
    BY <1>1, <1>5
  <2> QED BY <2>1, <2>2
<1>8. CASE bit_set(index, target)
  <2>1. \A i \in S : halfway[i] = halfway'[i]
    <3>1. \A i \in S : halfway[i] = old(i) /\ halfway'[i] = new(i)
      BY <1>3, Zenon
    <3>2. \A i \in S : new(i) = old(i)
      BY <1>6, <1>7, <1>8, Zenon
    <3> QED BY <3>1, <3>2, Zenon
  <2>2. total(halfway, S) = total(halfway', S)
    <3> HIDE DEF S
    <3> QED BY <2>1, <1>2, TotalsAgree
  <2> QED BY <2>2, <1>1, Zenon DEF Balance
<1>9. CASE ~ bit_set(index, target)
  <2>1. /\ state'[index] = result(index) /\ state'[j] = result(j)
        /\ state[index] = before[index] /\ state[j] = before[j]
    <3>1. lower(index) = index /\ lower(j) = index
      BY <1>1, <1>6, <1>9
    <3>2. ~ index < index
      BY <1>1
    <3> QED BY <3>1, <3>2, <1>1, <1>6, PairStep, Zenon DEF InPlace
  <2>2. new(index) + new(j) = old(index) + old(j)
    <3> DEFINE a == before[index]
               b == before[j]
    <3>1. /\ a \in Int /\ b \in Int
          /\ lower(index) = index /\ lower(j) = index
          /\ index <= index /\ ~ index + 1 <= index
      BY <1>1, <1>2, <1>6, <1>9
    <3>2. /\ new(index) = result(index) * result(index)
          /\ new(j) = result(j) * result(j)
          /\ old(index) = IF h THEN 2 * (a * a) ELSE a * a
          /\ old(j) = IF h THEN 2 * (b * b) ELSE b * b
      BY <2>1, <3>1, Zenon
    <3>3. /\ result(index) =
               CASE current.op = "CX" -> IF bit_set(index, current.qubits[1])
                                         THEN b ELSE a
                 [] current.op = "H"  -> IF bit_set(index, current.qubits[1])
                                         THEN b - a ELSE a + b
                 [] current.op = "X"  -> b
                 [] current.op = "Z"  -> IF bit_set(index, current.qubits[1])
                                         THEN - a ELSE a
          /\ result(j) =
               CASE current.op = "CX" -> IF bit_set(j, current.qubits[1])
                                         THEN a ELSE b
                 [] current.op = "H"  -> IF bit_set(j, current.qubits[1])
                                         THEN a - b ELSE b + a
                 [] current.op = "X"  -> a
                 [] current.op = "Z"  -> IF bit_set(j, current.qubits[1])
                                         THEN - b ELSE b
      BY <1>6, Zenon DEF result
    <3>4. /\ current.op \in {"H", "X", "Z", "CX"}
          /\ current.op # "CX" => target = current.qubits[1]
          /\ current.op = "CX" =>
                (bit_set(j, current.qubits[1])
                    <=> bit_set(index, current.qubits[1]))
      <4>1. /\ current.op \in {"H", "X", "Z", "CX"}
            /\ current.qubits[1] \in 0 .. circuit.qubits - 1
            /\ current.op = "CX" => target # current.qubits[1]
            /\ current.op # "CX" => target = current.qubits[1]
        BY <1>1, <1>2, GateFacts
      <4>2. \A r \in 0 .. circuit.qubits - 1 :
               r # target => (bit_set(j, r) <=> bit_set(index, r))
        BY <1>1, <1>2, Pairs
      <4> QED BY <4>1, <4>2
    <3> HIDE DEF a, b, j, new, old
    <3>5. CASE current.op = "H"
      <4>1. result(index) = a + b /\ result(j) = a - b
        BY <3>3, <3>4, <3>5, <1>6, <1>9
      <4> QED BY <4>1, <3>1, <3>2, <3>5, Squares
    <3>6. CASE current.op # "H"
      <4>1. \/ result(index) = a /\ result(j) = b
            \/ result(index) = b /\ result(j) = a
            \/ result(index) = a /\ result(j) = - b
        BY <3>3, <3>4, <3>6, <1>6, <1>9
      <4>2. (- b) * (- b) = b * b /\ a * a \in Int /\ b * b \in Int
        BY <3>1, Squares
      <4>3. a * a + b * b = b * b + a * a
        BY <4>2
      <4> QED BY <4>1, <4>2, <4>3, <3>2, <3>6, Zenon
    <3> QED BY <3>5, <3>6
  <2>3. /\ \A i \in S : halfway[i] \in Int /\ halfway'[i] \in Int
        /\ \A i \in S \ {index, j} : halfway'[i] = halfway[i]
        /\ halfway'[index] + halfway'[j] = halfway[index] + halfway[j]
    <3> HIDE DEF old, new, j, S
    <3>1. \A i \in S : halfway[i] = old(i) /\ halfway'[i] = new(i)
      BY <1>3
    <3>2. \A i \in S \ {index, j} : i \in S /\ lower(i) # index
      BY <1>6
    <3> QED BY <3>1, <3>2, <2>2, <1>1, <1>4, <1>6, <1>7
  <2>4. total(halfway', S) = total(halfway, S)
    <3> HIDE DEF j, S
    <3>1. IsFiniteSet(S) /\ index \in S /\ j \in S /\ index # j
      BY <1>1, <1>2, <1>6
    <3> DEFINE e == halfway'
               f == halfway
    <3>2. /\ \A x \in S : f[x] \in Int /\ e[x] \in Int
          /\ \A x \in S \ {index, j} : e[x] = f[x]
          /\ e[index] + e[j] = f[index] + f[j]
      BY <2>3, Zenon
    <3> HIDE DEF e, f
    <3>3. total(e, S) = total(f, S)
      BY ONLY <3>1, <3>2, TotalTwo
    <3> QED BY <3>3 DEF e, f
  <2> QED BY <2>4, <1>1, Zenon DEF Balance
<1> QED BY <1>8, <1>9

(* A step that leaves the counts, the circuit and the gates done alone.    *)
LEMMA CountingKept ==
    ASSUME Counting, circuit \in Circuit, applied \in 0 .. Len(circuit.gates),
           applied < Len(circuit.gates),
           circuit' = circuit, counts' = counts,
           applied' \in 0 .. Len(circuit.gates)
    PROVE  Counting'
<1>1. Len(circuit.gates) \in Nat
  BY CircuitFacts
<1>2. DOMAIN counts = {}
  <2>1. applied # Len(circuit.gates)
    BY <1>1
  <2> QED BY <2>1, Zenon DEF Counting
<1>3. DOMAIN counts' = {}
  BY <1>2
<1>4. total(counts', {}) = 0 /\ circuit.shots \in Nat
  BY TotalEmpty, CircuitFacts
<1> QED BY <1>2, <1>3, <1>4 DEF Counting

(* The end of the inner loop: every pair has been dealt with, and none of  *)
(* the next gate.                                                          *)
LEMMA LoopDone ==
    ASSUME Shape, InPlace, NextGate
    PROVE  /\ applied < Len(circuit.gates)
           /\ \A i \in 0 .. size - 1 : lower(i) < index
           /\ \A i \in 0 .. size - 1 : state[i] = result(i)
<1>1. /\ applied < Len(circuit.gates) /\ index = size
      /\ circuit \in Circuit /\ applied \in 0 .. Len(circuit.gates)
  BY Zenon DEF NextGate, Shape
<1>2. size \in 1 .. 256
  BY <1>1, CircuitFacts
<1>3. \A i \in 0 .. size - 1 : lower(i) \in 0 .. size - 1
  BY <1>1, Pairs
<1>4. \A i \in 0 .. size - 1 : lower(i) < index
  BY <1>1, <1>2, <1>3
<1> QED BY <1>1, <1>4, Zenon DEF InPlace

(* What the end of a loop changes.                                         *)
LEMMA NextGateShape ==
    ASSUME Shape, InPlace, NextGate
    PROVE  /\ Shape'
           /\ size' = size /\ circuit' = circuit
           /\ state' = state /\ before' = state
           /\ index' = 0 /\ applied' = applied + 1
           /\ applied' \in 0 .. Len(circuit.gates)
<1>1. /\ circuit' = circuit /\ state' = state /\ before' = state
      /\ index' = 0 /\ applied' = applied + 1
      /\ applied < Len(circuit.gates)
      /\ scale' = IF current.op = "H" THEN 2 * scale ELSE scale
  BY Zenon DEF NextGate
<1>2. /\ circuit \in Circuit /\ applied \in 0 .. Len(circuit.gates)
      /\ state \in [0 .. size - 1 -> Int] /\ scale \in Int
  BY Zenon DEF Shape
<1>3. size' = size
  BY <1>1, Zenon DEF size
<1>4. /\ Len(circuit.gates) \in Nat /\ size \in 1 .. 256
  BY <1>2, CircuitFacts
<1>5. /\ applied + 1 \in 0 .. Len(circuit.gates) /\ 0 \in 0 .. size
      /\ scale' \in Int
  BY <1>1, <1>2, <1>4
<1>6. Shape'
  BY <1>1, <1>2, <1>3, <1>5, Zenon DEF Shape
<1> QED BY <1>1, <1>3, <1>5, <1>6

(* Before the loop over a gate begins, no pair has been dealt with.        *)
LEMMA LoopBegins ==
    ASSUME Shape, state = before, index = 0
    PROVE  InPlace
<1>1. ASSUME applied < Len(circuit.gates), NEW i \in 0 .. size - 1
      PROVE  ~ lower(i) < index
  <2>1. circuit \in Circuit /\ applied \in 0 .. Len(circuit.gates)
    BY Zenon DEF Shape
  <2>2. size \in 1 .. 256 /\ lower(i) \in 0 .. size - 1
    BY <1>1, <2>1, CircuitFacts, Pairs
  <2> QED BY <2>2
<1> QED BY <1>1, Zenon DEF InPlace

(* The sum the doubling leaves alone, before the loop over a gate begins.  *)
LEMMA BalanceBegins ==
    ASSUME Shape, index = 0
    PROVE  Balance <=> total(weights, 0 .. size - 1) = scale
<1> DEFINE S == 0 .. size - 1
           h == applied < Len(circuit.gates) /\ current.op = "H"
<1>1. /\ circuit \in Circuit /\ applied \in 0 .. Len(circuit.gates)
      /\ IsFiniteSet(S) /\ size \in 1 .. 256
      /\ state \in [S -> Int] /\ scale \in Int
  BY CircuitFacts DEF Shape
<1>2. weights = [i \in S |-> state[i] * state[i]]
  BY <1>1 DEF weights
<1>3. \A i \in S : weights[i] \in Int
  BY <1>1, <1>2
<1>4. \A i \in S : halfway[i] = IF h THEN 2 * weights[i] ELSE weights[i]
  <2>1. \A i \in S : applied < Len(circuit.gates) => index <= lower(i)
    BY <1>1, Pairs
  <2>2. halfway = [i \in S |-> IF h /\ index <= lower(i)
                               THEN 2 * (state[i] * state[i])
                               ELSE state[i] * state[i]]
    BY Zenon DEF halfway
  <2> QED BY <2>1, <2>2, <1>2, Zenon
<1>5. total(weights, S) \in Int
  BY <1>1, <1>3, TotalType
<1>6. CASE h
  <2>1. \A i \in S : halfway[i] = 2 * weights[i]
    BY <1>4, <1>6
  <2>2. total(halfway, S) = 2 * total(weights, S)
    <3> HIDE DEF S, h
    <3> QED BY <2>1, <1>1, <1>3, TotalDouble
  <2>3. Balance <=> total(halfway, S) = 2 * scale
    BY <1>6, Zenon DEF Balance
  <2> QED BY <2>2, <2>3, <1>1, <1>5
<1>7. CASE ~ h
  <2>1. \A i \in S : halfway[i] = weights[i]
    BY <1>4, <1>7
  <2>2. total(halfway, S) = total(weights, S)
    <3> HIDE DEF S, h
    <3> QED BY <2>1, <1>1, TotalsAgree
  <2>3. Balance <=> total(halfway, S) = scale
    BY <1>7, Zenon DEF Balance
  <2> QED BY <2>2, <2>3
<1> QED BY <1>6, <1>7

(* After the loop every term counts once again.                            *)
LEMMA NextGateBalance ==
    ASSUME Shape, InPlace, Balance, NextGate
    PROVE  total(weights', 0 .. size - 1) = scale'
<1> DEFINE S == 0 .. size - 1
<1>1. \A i \in S : lower(i) < index
  BY LoopDone
<1>2. /\ \A i \in S : lower(i) \in Int
      /\ index \in Int
      /\ DOMAIN state = S
  <2>1. /\ circuit \in Circuit /\ applied \in 0 .. Len(circuit.gates)
        /\ state \in [S -> Int] /\ index \in 0 .. size
    BY Zenon DEF Shape
  <2>2. size \in 1 .. 256
    BY <2>1, CircuitFacts
  <2>3. applied < Len(circuit.gates)
    BY LoopDone
  <2>4. \A i \in S : lower(i) \in S
    BY <2>1, <2>3, Pairs
  <2> QED BY <2>1, <2>2, <2>4
<1>3. \A i \in S : ~ index <= lower(i)
  BY <1>1, <1>2
<1>4. halfway = weights
  BY <1>2, <1>3, Zenon DEF halfway, weights
<1>5. weights' = weights /\ applied < Len(circuit.gates)
      /\ scale' = IF current.op = "H" THEN 2 * scale ELSE scale
  BY Zenon DEF NextGate, weights
<1> QED BY <1>4, <1>5, Zenon DEF Balance

-----------------------------------------------------------------------------
(* The list [1.0, 0.0, ...], and no gate applied.                          *)
LEMMA InvInit == Init => SimulatorInv
<1> SUFFICES ASSUME Init PROVE SimulatorInv
  OBVIOUS
<1> DEFINE S == 0 .. size - 1
<1>1. /\ circuit \in Circuit /\ applied = 0 /\ index = 0 /\ scale = 1
      /\ state = [i \in S |-> IF i = 0 THEN 1 ELSE 0]
      /\ before = state
      /\ counts = [k \in {} |-> 0]
  BY Zenon DEF Init
<1>2. /\ Len(circuit.gates) \in Nat /\ size \in 1 .. 256 /\ IsFiniteSet(S)
      /\ circuit.shots \in Nat
  BY <1>1, CircuitFacts
<1>3. Shape
  BY <1>1, <1>2 DEF Shape
<1>4. InPlace
  BY <1>1, <1>3, LoopBegins
<1>5. Balance
  <2>1. weights = [i \in S |-> IF i = 0 THEN 1 ELSE 0]
    BY <1>1 DEF weights
  <2>2. 0 \in S /\ IsFiniteSet(S \ {0})
    BY <1>2, FS_Subset
  <2>3. total(weights, S \ {0}) = 0
    BY <2>1, <2>2, TotalZero
  <2>4. total(weights, S) = weights[0] + total(weights, S \ {0})
    <3>1. \A i \in S : weights[i] \in Int
      BY <2>1
    <3> HIDE DEF S
    <3> QED BY <1>2, <2>2, <3>1, TotalAny
  <2>5. total(weights, S) = scale
    BY <1>1, <2>1, <2>2, <2>3, <2>4
  <2> QED BY <1>1, <1>3, <2>5, BalanceBegins
<1>6. Counting
  <2>1. DOMAIN counts = {} /\ total(counts, {}) = 0
    BY <1>1, TotalEmpty
  <2> QED BY <1>1, <1>2, <2>1, FS_EmptySet DEF Counting
<1> QED BY <1>3, <1>4, <1>5, <1>6 DEF SimulatorInv

(* A round of the inner loop.                                              *)
LEMMA InvPair == SimulatorInv /\ Pair => SimulatorInv'
<1> SUFFICES ASSUME SimulatorInv, Pair PROVE SimulatorInv'
  OBVIOUS
<1>1. Shape /\ InPlace /\ Balance /\ Counting
  BY DEF SimulatorInv
<1>2. /\ circuit \in Circuit /\ applied \in 0 .. Len(circuit.gates)
      /\ applied < Len(circuit.gates)
      /\ circuit' = circuit /\ counts' = counts /\ applied' = applied
  BY <1>1, Zenon DEF Shape, Pair
<1>3. Counting'
  BY <1>1, <1>2, CountingKept
<1> QED BY <1>1, <1>3, PairShape, PairInPlace, PairBalance DEF SimulatorInv

(* The end of the inner loop.                                              *)
LEMMA InvNextGate == SimulatorInv /\ NextGate => SimulatorInv'
<1> SUFFICES ASSUME SimulatorInv, NextGate PROVE SimulatorInv'
  OBVIOUS
<1>1. Shape /\ InPlace /\ Balance /\ Counting
  BY DEF SimulatorInv
<1>2. /\ Shape' /\ size' = size /\ circuit' = circuit
      /\ index' = 0 /\ state' = before'
      /\ applied' \in 0 .. Len(circuit.gates)
  BY <1>1, NextGateShape
<1>3. InPlace'
  <2>1. (Shape /\ state = before /\ index = 0 => InPlace)'
    BY LoopBegins, PTL
  <2> QED BY <2>1, <1>2
<1>4. Balance'
  <2>1. (Shape /\ index = 0 =>
            (Balance <=> total(weights, 0 .. size - 1) = scale))'
    BY BalanceBegins, PTL
  <2>2. total(weights', 0 .. size - 1) = scale'
    BY <1>1, NextGateBalance
  <2>3. (total(weights, 0 .. size - 1) = scale)'
    BY <2>2, <1>2, Zenon
  <2> QED BY <2>1, <2>3, <1>2
<1>5. Counting'
  <2>1. /\ circuit \in Circuit /\ applied \in 0 .. Len(circuit.gates)
        /\ applied < Len(circuit.gates) /\ counts' = counts
    BY <1>1, Zenon DEF Shape, NextGate
  <2> QED BY <2>1, <1>1, <1>2, CountingKept
<1> QED BY <1>2, <1>3, <1>4, <1>5 DEF SimulatorInv

(* How many shots have been drawn.                                         *)
LEMMA DrawnIsTotal == drawn = total(counts, DOMAIN counts)
BY Zenon DEF drawn, FoldFunction, total

(* One more shot, for an outcome counted before or for a new one.          *)
LEMMA SampleCounting ==
    ASSUME Shape, Counting, Sample
    PROVE  Counting'
<1>1. /\ circuit \in Circuit /\ DOMAIN state = 0 .. size - 1
      /\ state \in [0 .. size - 1 -> Int]
      /\ applied = Len(circuit.gates)
      /\ circuit' = circuit /\ applied' = applied /\ state' = state
      /\ drawn < circuit.shots
  BY DEF Shape, Sample
<1> DEFINE D == DOMAIN counts
<1>2. PICK i \in 0 .. size - 1 :
         /\ weights[i] > 0
         /\ counts' = [k \in D \cup {key(i)} |->
                         (IF k \in D THEN counts[k] ELSE 0)
                         + (IF k = key(i) THEN 1 ELSE 0)]
  BY <1>1, Zenon DEF Sample
<1> DEFINE new == key(i)
<1>3. state[i] # 0
  BY <1>1, <1>2 DEF weights
<1>4. /\ IsFiniteSet(D)
      /\ \A k \in D : counts[k] \in Nat \ {0}
      /\ \A k \in D : \E j \in 0 .. size - 1 : k = key(j) /\ state[j] # 0
      /\ total(counts, D) \in 0 .. circuit.shots
  BY Zenon DEF Counting
<1> HIDE DEF new, D
<1>5. /\ DOMAIN counts' = D \cup {new}
      /\ \A k \in D : counts'[k] = IF k = new THEN counts[k] + 1 ELSE counts[k]
      /\ new \notin D => counts'[new] = 1
      /\ counts' = [k \in DOMAIN counts' |-> counts'[k]]
  <2>1. counts' = [k \in D \cup {new} |->
                         (IF k \in D THEN counts[k] ELSE 0)
                         + (IF k = new THEN 1 ELSE 0)]
    BY <1>2, Zenon DEF new
  <2>2. \A k \in D \cup {new} :
           counts'[k] = (IF k \in D THEN counts[k] ELSE 0)
                        + (IF k = new THEN 1 ELSE 0)
    BY <2>1, Zenon
  <2>3. DOMAIN counts' = D \cup {new}
        /\ counts' = [k \in DOMAIN counts' |-> counts'[k]]
    BY <2>1, Zenon
  <2> QED BY <1>4, <2>2, <2>3
<1>6. IsFiniteSet(D \cup {new})
  BY <1>4, FS_AddElement
<1>7. total(counts', D \cup {new}) = total(counts, D) + 1
  <2>1. CASE new \in D
    <3>1. D \cup {new} = D
      BY <2>1
    <3>2. counts'[new] = counts[new] + 1
          /\ \A k \in D \ {new} : counts'[k] = counts[k]
      BY <1>5, <2>1
    <3>3. \A k \in D : counts[k] \in Int
      BY <1>4
    <3>4. total(counts', D) = total(counts, D) + 1
      BY <3>2, <3>3, <1>4, <2>1, TotalOne
    <3> QED BY <3>1, <3>4, Zenon
  <2>2. CASE new \notin D
    <3>1. /\ \A k \in D : counts[k] \in Int /\ counts'[k] = counts[k]
          /\ counts'[new] = 1 /\ counts'[new] \in Int
      BY <1>4, <1>5, <2>2
    <3>2. total(counts', D \cup {new}) = counts'[new] + total(counts, D)
      BY <3>1, <1>4, <2>2, TotalMore
    <3> QED BY <3>1, <3>2, <1>4
  <2> QED BY <2>1, <2>2
<1>8. total(counts, D) < circuit.shots /\ circuit.shots \in Nat
  BY <1>1, DrawnIsTotal, CircuitFacts DEF D
<1>9. \A k \in D \cup {new} : counts'[k] \in Nat \ {0}
  BY <1>4, <1>5
<1>10. /\ size' = size
       /\ \A j : key(j)' = key(j)
  BY <1>1, Zenon DEF size, key
<1>11. \A k \in D \cup {new} :
          \E j \in 0 .. size' - 1 : k = key(j)' /\ state'[j] # 0
  BY <1>1, <1>2, <1>3, <1>4, <1>10, Zenon DEF new
<1>12. total(counts', D \cup {new}) \in 0 .. circuit.shots
  BY <1>4, <1>7, <1>8
<1> QED BY <1>1, <1>5, <1>6, <1>9, <1>11, <1>12, Zenon DEF Counting

(* A choice of rng.choices changes nothing but the counts.                 *)
LEMMA InvSample == SimulatorInv /\ Sample => SimulatorInv'
<1> SUFFICES ASSUME SimulatorInv, Sample PROVE SimulatorInv'
  OBVIOUS
<1>1. /\ UNCHANGED <<circuit, applied, index, state, scale, before>>
  BY Zenon DEF Sample
<1>2. Shape' /\ InPlace' /\ Balance'
  <2>1. size' = size /\ current' = current
    BY <1>1, Zenon DEF size, current
  <2>2. target' = target
    BY <2>1, Zenon DEF target
  <2>3. \A i : lower(i)' = lower(i) /\ result(i)' = result(i)
    BY <1>1, <2>1, <2>2, Zenon DEF lower, result
  <2>4. Shape'
    BY <1>1, <2>1 DEF SimulatorInv, Shape
  <2>5. InPlace'
    BY <1>1, <2>1, <2>3, Zenon DEF SimulatorInv, InPlace
  <2>6. halfway' = halfway
    BY <1>1, <2>1, <2>3, Zenon DEF halfway
  <2>7. Balance'
    BY <1>1, <2>1, <2>6, Zenon DEF SimulatorInv, Balance
  <2> QED BY <2>4, <2>5, <2>7
<1> QED BY <1>2, SampleCounting DEF SimulatorInv

(* Nothing happens.                                                        *)
LEMMA InvStutter == SimulatorInv /\ UNCHANGED vars => SimulatorInv'
<1> SUFFICES ASSUME SimulatorInv, UNCHANGED vars PROVE SimulatorInv'
  OBVIOUS
<1>1. UNCHANGED <<circuit, applied, index, state, scale, before, counts>>
  BY DEF vars
<1>2. size' = size /\ current' = current
  BY <1>1, Zenon DEF size, current
<1>3. target' = target
  BY <1>2, Zenon DEF target
<1>4. \A i : /\ lower(i)' = lower(i) /\ result(i)' = result(i)
             /\ key(i)' = key(i)
  BY <1>1, <1>2, <1>3, Zenon DEF lower, result, key
<1>5. Shape' /\ InPlace'
  BY <1>1, <1>2, <1>4, Zenon DEF SimulatorInv, Shape, InPlace
<1>6. halfway' = halfway
  BY <1>1, <1>2, <1>4, Zenon DEF halfway
<1>7. Balance'
  BY <1>1, <1>2, <1>6, Zenon DEF SimulatorInv, Balance
<1>8. Counting'
  BY <1>1, <1>2, <1>4, Zenon DEF SimulatorInv, Counting
<1> QED BY <1>5, <1>7, <1>8 DEF SimulatorInv

(* The inductive invariant: the list is half the old state and half the    *)
(* new one, its weights keep their sum, and the counts are of outcomes     *)
(* the list makes possible.                                                *)
THEOREM SimulatorInvariant == Spec => []SimulatorInv
<1>1. Init => SimulatorInv
  BY InvInit
<1>2. SimulatorInv /\ [Next]_vars => SimulatorInv'
  BY InvPair, InvNextGate, InvSample, InvStutter DEF Next, Finished
<1> QED BY <1>1, <1>2, PTL DEF Spec

(* The types; no more shots are drawn than were asked for.                 *)
THEOREM SimulatorTypes == Spec => []TypeOK
<1>1. SimulatorInv => TypeOK
  <2> SUFFICES ASSUME SimulatorInv PROVE TypeOK
    OBVIOUS
  <2>1. /\ circuit \in Circuit
        /\ applied \in 0 .. Len(circuit.gates)
        /\ index \in 0 .. size
        /\ state \in [0 .. size - 1 -> Int]
    BY DEF SimulatorInv, Shape
  <2>2. DOMAIN state = 0 .. size - 1 /\ Range(state) \subseteq Int
    BY <2>1 DEF Range
  <2>3. drawn \in 0 .. circuit.shots
    BY DrawnIsTotal, Zenon DEF SimulatorInv, Counting
  <2> QED BY <2>1, <2>2, <2>3 DEF TypeOK
<1> QED BY <1>1, SimulatorInvariant, PTL

(* Whatever gates have been applied, the weights rng.choices draws from    *)
(* sum up to one.                                                          *)
THEOREM WeightsNormalised == Spec => []Normalised
<1>1. SimulatorInv => Normalised
  <2> SUFFICES ASSUME SimulatorInv, index = 0
               PROVE  FoldFunction(+, 0, weights) = scale
    BY DEF Normalised
  <2>1. total(weights, 0 .. size - 1) = scale
    BY BalanceBegins DEF SimulatorInv
  <2>2. DOMAIN weights = 0 .. size - 1
    BY DEF SimulatorInv, Shape, weights
  <2>3. FoldFunction(+, 0, weights) = total(weights, DOMAIN weights)
    BY Zenon DEF FoldFunction, total
  <2> QED BY <2>1, <2>2, <2>3
<1> QED BY <1>1, SimulatorInvariant, PTL

(* A key has one digit for every qubit.                                    *)
LEMMA KeyShape ==
    ASSUME circuit \in Circuit, NEW i
    PROVE  /\ Len(key(i)) = circuit.qubits
           /\ Range(key(i)) \subseteq {0, 1}
<1>1. circuit.qubits \in 1 .. 8
  BY CircuitFacts
<1>2. key(i) \in [1 .. circuit.qubits -> {0, 1}]
  BY DEF key
<1>3. key(i) \in Seq({0, 1}) /\ DOMAIN key(i) = 1 .. circuit.qubits
  BY <1>1, <1>2
<1>4. Len(key(i)) = circuit.qubits
  BY <1>1, <1>3, LenProperties
<1> QED BY <1>2, <1>4 DEF Range

(* What a finished run returns passes _check_counts of the executor.       *)
THEOREM CountsPassCheck == Spec => []CountsAccepted
<1>1. SimulatorInv => CountsAccepted
  <2> SUFFICES ASSUME SimulatorInv, drawn = circuit.shots
               PROVE  check_counts(counts, circuit) = OK
    BY DEF CountsAccepted
  <2>1. /\ circuit \in Circuit
        /\ circuit.shots \in Nat \ {0}
        /\ circuit.qubits \in 1 .. 8
    BY CircuitFacts DEF SimulatorInv, Shape
  <2>2. FoldFunction(+, 0, counts) = circuit.shots
    BY Zenon DEF drawn
  <2>3. DOMAIN counts # {}
    <3>1. total(counts, DOMAIN counts) # 0
      BY <2>1, DrawnIsTotal
    <3> QED BY <3>1, TotalEmpty
  <2>4. ASSUME NEW k \in DOMAIN counts
        PROVE  /\ Len(k) = circuit.qubits
               /\ Range(k) \subseteq {0, 1}
               /\ counts[k] > 0
    <3>1. counts[k] \in Nat \ {0} /\ \E i \in 0 .. size - 1 : k = key(i)
      BY Zenon DEF SimulatorInv, Counting
    <3> QED BY <3>1, <2>1, KeyShape
  <2> QED BY <2>2, <2>3, <2>4, Zenon DEF check_counts, require
<1> QED BY <1>1, SimulatorInvariant, PTL

-----------------------------------------------------------------------------
(* The mapping to Statevector: indices and assignments of bits correspond  *)
(* one to one.                                                             *)
LEMMA AssignmentBits ==
    ASSUME circuit \in Circuit, NEW i \in 0 .. size - 1
    PROVE  /\ assignment(i) \in [0 .. circuit.qubits - 1 -> {0, 1}]
           /\ \A q \in 0 .. circuit.qubits - 1 :
                 assignment(i)[q] = IF bit_set(i, q) THEN 1 ELSE 0
BY DEF assignment

(* The mapping, as an operator on the number of qubits and on a list.      *)
Amplitudes(n, list) ==
    [b \in [0 .. n - 1 -> {0, 1}] |->
        list[CHOOSE i \in 0 .. shift[n] - 1 :
                [q \in 0 .. n - 1 |-> IF bit_set(i, q) THEN 1 ELSE 0] = b]]

(* The mapping is that operator on the history.                            *)
LEMMA AmplitudesMap == amplitude = Amplitudes(circuit.qubits, before)
BY Zenon DEF amplitude, index_of, assignment, size, Amplitudes

(* The index of the bits of i is i.                                        *)
LEMMA IndexOfAssignment ==
    ASSUME circuit \in Circuit, NEW i \in 0 .. size - 1
    PROVE  index_of(assignment(i)) = i
<1>1. ASSUME NEW j \in 0 .. size - 1, assignment(j) = assignment(i)
      PROVE  j = i
  <2>1. \A q \in 0 .. circuit.qubits - 1 : bit_set(j, q) <=> bit_set(i, q)
    BY <1>1, AssignmentBits
  <2>2. circuit.qubits \in 1 .. 8
    BY CircuitFacts
  <2> QED BY <2>1, <2>2, SameBits DEF size
<1>2. /\ index_of(assignment(i)) \in 0 .. size - 1
      /\ assignment(index_of(assignment(i))) = assignment(i)
  BY Zenon DEF index_of
<1> QED BY <1>1, <1>2, Zenon

(* The index of an assignment of bits has those bits.                      *)
LEMMA AssignmentOfIndex ==
    ASSUME circuit \in Circuit, NEW b \in [0 .. circuit.qubits - 1 -> {0, 1}]
    PROVE  /\ index_of(b) \in 0 .. size - 1
           /\ assignment(index_of(b)) = b
<1>1. circuit.qubits \in 1 .. 8
  BY CircuitFacts
<1>2. PICK i \in 0 .. size - 1 :
         \A q \in 0 .. circuit.qubits - 1 : bit_set(i, q) <=> b[q] = 1
  BY <1>1, SomeIndex DEF size
<1>3. assignment(i) = b
  <2>1. \A q \in 0 .. circuit.qubits - 1 : assignment(i)[q] = b[q]
    BY <1>2, AssignmentBits
  <2>2. assignment(i) \in [0 .. circuit.qubits - 1 -> {0, 1}]
    BY AssignmentBits
  <2> DEFINE found == assignment(i)
  <2>3. /\ found = [q \in 0 .. circuit.qubits - 1 |-> found[q]]
        /\ b = [q \in 0 .. circuit.qubits - 1 |-> b[q]]
        /\ \A q \in 0 .. circuit.qubits - 1 : found[q] = b[q]
    BY <2>1, <2>2
  <2> HIDE DEF found
  <2>4. found = b
    BY <2>3
  <2> QED BY <2>4 DEF found
<1> QED BY <1>3, Zenon DEF index_of

(* An index holds the amplitude of its bits.                               *)
LEMMA AmplitudeAt ==
    ASSUME circuit \in Circuit, NEW i \in 0 .. size - 1
    PROVE  amplitude[assignment(i)] = before[i]
BY AssignmentBits, IndexOfAssignment, Zenon DEF amplitude

(* The other index of a pair has the flipped assignment.                   *)
LEMMA FlippedAssignment ==
    ASSUME circuit \in Circuit, NEW i \in 0 .. size - 1,
           NEW q \in 0 .. circuit.qubits - 1
    PROVE  /\ flipped(i, q) \in 0 .. size - 1
           /\ assignment(flipped(i, q)) = Meaning!flip(assignment(i), q)
<1>1. /\ flipped(i, q) \in 0 .. size - 1
      /\ bit_set(flipped(i, q), q) <=> ~ bit_set(i, q)
      /\ \A r \in 0 .. circuit.qubits - 1 :
            r # q => (bit_set(flipped(i, q), r) <=> bit_set(i, r))
  BY CircuitFacts, Flip DEF size
<1>2. \A r \in 0 .. circuit.qubits - 1 :
         assignment(flipped(i, q))[r] =
             IF r = q THEN 1 - assignment(i)[r] ELSE assignment(i)[r]
  BY <1>1, AssignmentBits
<1> QED BY <1>1, <1>2, AssignmentBits DEF Meaning!flip

(* A gate applied to the whole state at once gives what the loop writes.   *)
LEMMA AfterAt ==
    ASSUME circuit \in Circuit, applied \in 0 .. Len(circuit.gates),
           applied < Len(circuit.gates),
           before \in [0 .. size - 1 -> Int], NEW i \in 0 .. size - 1
    PROVE  Meaning!after(current, amplitude)[assignment(i)] = result(i)
<1> DEFINE q == current.qubits[1]
           b == assignment(i)
           j == flipped(i, target)
           c == assignment(j)
<1>1. /\ current.op \in {"H", "X", "Z", "CX"}
      /\ q \in 0 .. circuit.qubits - 1
      /\ target \in 0 .. circuit.qubits - 1
      /\ current.op = "CX" => target = current.qubits[2]
      /\ current.op # "CX" => target = q
  BY GateFacts
<1>2. /\ j \in 0 .. size - 1
      /\ c = Meaning!flip(b, target)
  BY <1>1, FlippedAssignment
<1>3. /\ b \in [0 .. circuit.qubits - 1 -> {0, 1}]
      /\ b[q] = IF bit_set(i, q) THEN 1 ELSE 0
      /\ c = [b EXCEPT ![target] = 1 - b[target]]
  BY <1>1, <1>2, AssignmentBits DEF Meaning!flip
<1>4. /\ amplitude[b] = before[i] /\ amplitude[c] = before[j]
      /\ before[i] \in Int /\ before[j] \in Int
      /\ b \in DOMAIN amplitude
  BY <1>2, <1>3, AmplitudeAt DEF amplitude
<1>5. result(i) =
         CASE current.op = "CX" -> IF bit_set(i, q) THEN before[j]
                                   ELSE before[i]
           [] current.op = "H"  -> IF bit_set(i, q) THEN before[j] - before[i]
                                   ELSE before[i] + before[j]
           [] current.op = "X"  -> before[j]
           [] current.op = "Z"  -> IF bit_set(i, q) THEN - before[i]
                                   ELSE before[i]
  BY Zenon DEF result
<1>6. Meaning!after(current, amplitude)[b] =
         CASE current.op = "H"  -> amplitude[[b EXCEPT ![q] = 0]]
                                   + (1 - 2 * b[q])
                                     * amplitude[[b EXCEPT ![q] = 1]]
           [] current.op = "X"  -> amplitude[Meaning!flip(b, q)]
           [] current.op = "Z"  -> (1 - 2 * b[q]) * amplitude[b]
           [] current.op = "CX" ->
                 amplitude[IF b[q] = 1
                           THEN Meaning!flip(b, current.qubits[2]) ELSE b]
  BY <1>4, Zenon DEF Meaning!after, Meaning!gated
<1> SUFFICES Meaning!after(current, amplitude)[b] = result(i)
  OBVIOUS
<1> HIDE DEF b, c, j, q
<1>7. CASE current.op = "CX"
  <2>1. result(i) = IF bit_set(i, q) THEN before[j] ELSE before[i]
    BY <1>5, <1>7
  <2>2. Meaning!after(current, amplitude)[b]
            = amplitude[IF b[q] = 1
                        THEN Meaning!flip(b, current.qubits[2]) ELSE b]
    BY <1>6, <1>7
  <2>3. b[q] = 1 <=> bit_set(i, q)
    BY <1>3
  <2> QED BY <2>1, <2>2, <2>3, <1>1, <1>2, <1>4, <1>7, Zenon
<1>8. CASE current.op = "X"
  <2>1. result(i) = before[j]
    BY <1>5, <1>8
  <2>2. Meaning!after(current, amplitude)[b] = amplitude[Meaning!flip(b, q)]
    BY <1>6, <1>8
  <2>3. target = q
    BY <1>1, <1>8
  <2> QED BY <2>1, <2>2, <2>3, <1>2, <1>4, Zenon
<1>9. CASE current.op = "Z"
  <2>1. result(i) = IF bit_set(i, q) THEN - before[i] ELSE before[i]
    BY <1>5, <1>9
  <2>2. Meaning!after(current, amplitude)[b] = (1 - 2 * b[q]) * amplitude[b]
    BY <1>6, <1>9
  <2> QED BY <2>1, <2>2, <1>3, <1>4
<1>10. CASE current.op = "H"
  <2>1. result(i) = IF bit_set(i, q) THEN before[j] - before[i]
                    ELSE before[i] + before[j]
    BY <1>5, <1>10
  <2>2. Meaning!after(current, amplitude)[b]
            = amplitude[[b EXCEPT ![q] = 0]]
              + (1 - 2 * b[q]) * amplitude[[b EXCEPT ![q] = 1]]
    BY <1>6, <1>10
  <2>3. /\ c = [b EXCEPT ![q] = 1 - b[q]] /\ b[q] \in {0, 1}
        /\ b[q] = 1 <=> bit_set(i, q)
        /\ [b EXCEPT ![q] = b[q]] = b
    <3>1. target = q
      BY <1>1, <1>10
    <3>2. b \in [0 .. circuit.qubits - 1 -> {0, 1}]
          /\ q \in 0 .. circuit.qubits - 1
      BY <1>1, <1>3
    <3>3. [b EXCEPT ![q] = b[q]] = b
      BY <3>2
    <3>4. c = [b EXCEPT ![q] = 1 - b[q]]
      BY <3>1, <1>3, Zenon
    <3>5. b[q] \in {0, 1} /\ (b[q] = 1 <=> bit_set(i, q))
      BY <3>2, <1>3
    <3> QED BY <3>3, <3>4, <3>5, Zenon
  <2>4. CASE b[q] = 1
    <3>1. c = [b EXCEPT ![q] = 0] /\ b = [b EXCEPT ![q] = 1]
      BY <2>3, <2>4
    <3>2. Meaning!after(current, amplitude)[b]
              = before[j] + (1 - 2 * b[q]) * before[i]
      BY <2>2, <3>1, <1>4, Zenon
    <3> QED BY <3>2, <2>1, <2>3, <2>4, <1>4
  <2>5. CASE b[q] = 0
    <3>1. b = [b EXCEPT ![q] = 0] /\ c = [b EXCEPT ![q] = 1]
      BY <2>3, <2>5
    <3>2. Meaning!after(current, amplitude)[b]
              = before[i] + (1 - 2 * b[q]) * before[j]
      BY <2>2, <3>1, <1>4, Zenon
    <3> QED BY <3>2, <2>1, <2>3, <2>5, <1>4
  <2> QED BY <2>3, <2>4, <2>5
<1> QED BY <1>1, <1>7, <1>8, <1>9, <1>10

(* [1.0, 0.0, ...] is the state in which all qubits are 0.                 *)
LEMMA MeaningInit == Init => Meaning!Init
<1> SUFFICES ASSUME Init PROVE Meaning!Init
  OBVIOUS
<1> DEFINE B == [0 .. circuit.qubits - 1 -> {0, 1}]
<1>1. /\ circuit \in Circuit /\ applied = 0 /\ scale = 1
      /\ before = [i \in 0 .. size - 1 |-> IF i = 0 THEN 1 ELSE 0]
  BY Zenon DEF Init
<1>2. circuit.qubits \in 1 .. 8 /\ 0 \in 0 .. size - 1
  <2>1. circuit.qubits \in 1 .. 8 /\ size \in 1 .. 256
    BY <1>1, CircuitFacts
  <2> QED BY <2>1
<1>3. ASSUME NEW b \in B
      PROVE  index_of(b) = 0 <=> Meaning!Range(b) = {0}
  <2> DEFINE i == index_of(b)
  <2>1. i \in 0 .. size - 1 /\ assignment(i) = b
    BY <1>1, AssignmentOfIndex
  <2> HIDE DEF i
  <2>2. \A q \in 0 .. circuit.qubits - 1 :
           b[q] = IF bit_set(i, q) THEN 1 ELSE 0
    BY <1>1, <2>1, AssignmentBits
  <2>3. \A q \in 0 .. circuit.qubits - 1 : ~ bit_set(0, q)
    BY <1>2, Shifts DEF bit_set
  <2>4. i = 0 <=> \A q \in 0 .. circuit.qubits - 1 : ~ bit_set(i, q)
    BY <1>2, <2>1, <2>3, SameBits DEF size
  <2>5. Meaning!Range(b) = {0} <=> \A q \in 0 .. circuit.qubits - 1 : b[q] = 0
    <3>1. 0 \in 0 .. circuit.qubits - 1 /\ DOMAIN b = 0 .. circuit.qubits - 1
      BY <1>2
    <3> QED BY <3>1 DEF Meaning!Range
  <2> QED BY <2>2, <2>4, <2>5 DEF i
<1>4. amplitude = [b \in B |-> IF Meaning!Range(b) = {0} THEN 1 ELSE 0]
  <2>1. \A b \in B : before[index_of(b)]
                         = IF Meaning!Range(b) = {0} THEN 1 ELSE 0
    BY <1>1, <1>3, AssignmentOfIndex
  <2> QED BY <2>1, Zenon DEF amplitude
<1> QED BY <1>1, <1>4, Zenon DEF Meaning!Init, Meaning!Basis


(* The end of the loop over a gate is the moment the gate is applied.      *)
LEMMA MeaningApply ==
    ASSUME SimulatorInv, NextGate
    PROVE  Meaning!Apply
<1>1. /\ circuit \in Circuit /\ applied \in 0 .. Len(circuit.gates)
      /\ before \in [0 .. size - 1 -> Int]
      /\ Shape /\ InPlace
  BY DEF SimulatorInv, Shape
<1>2. /\ applied < Len(circuit.gates)
      /\ circuit' = circuit /\ before' = state /\ applied' = applied + 1
      /\ scale' = IF current.op = "H" THEN 2 * scale ELSE scale
  BY Zenon DEF NextGate
<1> DEFINE B == [0 .. circuit.qubits - 1 -> {0, 1}]
<1>3. amplitude' = [b \in B |-> state[index_of(b)]]
  <2>0. (amplitude = Amplitudes(circuit.qubits, before))'
    BY AmplitudesMap, PTL
  <2>1. amplitude' = Amplitudes(circuit'.qubits, before')
    BY <2>0
  <2>2. amplitude' = Amplitudes(circuit.qubits, state)
    BY <2>1, <1>2
  <2> QED BY <2>2, Zenon DEF Amplitudes, index_of, assignment, size
<1>4. ASSUME NEW b \in B
      PROVE  state[index_of(b)] = Meaning!after(current, amplitude)[b]
  <2>1. index_of(b) \in 0 .. size - 1 /\ assignment(index_of(b)) = b
    BY <1>1, AssignmentOfIndex
  <2>2. state[index_of(b)] = result(index_of(b))
    BY <1>1, <2>1, LoopDone
  <2>3. Meaning!after(current, amplitude)[assignment(index_of(b))]
            = result(index_of(b))
    BY <1>1, <1>2, <2>1, AfterAt
  <2> QED BY <2>1, <2>2, <2>3
<1>5. Meaning!after(current, amplitude)
          = [b \in B |-> Meaning!after(current, amplitude)[b]]
  <2>1. DOMAIN amplitude = B
    BY DEF amplitude
  <2>2. DOMAIN Meaning!after(current, amplitude) = B
        /\ Meaning!after(current, amplitude)
              = [b \in DOMAIN Meaning!after(current, amplitude) |->
                    Meaning!after(current, amplitude)[b]]
    <3>1. DOMAIN Meaning!after(current, amplitude) = DOMAIN amplitude
      BY Zenon DEF Meaning!after
    <3>2. Meaning!after(current, amplitude)
              = [b \in DOMAIN Meaning!after(current, amplitude) |->
                    Meaning!after(current, amplitude)[b]]
      BY DEF Meaning!after
    <3> QED BY <2>1, <3>1, <3>2, Zenon
  <2> QED BY <2>2, Zenon
<1>6. amplitude' = Meaning!after(current, amplitude)
  <2> DEFINE new == Meaning!after(current, amplitude)
  <2> HIDE DEF new, B
  <2>1. \A b \in B : state[index_of(b)] = new[b]
    BY <1>4 DEF new
  <2>2. new = [b \in B |-> new[b]]
    BY <1>5 DEF new
  <2>3. amplitude' = new
    BY <1>3, <2>1, <2>2, Zenon
  <2> QED BY <2>3 DEF new
<1> QED BY <1>2, <1>6, Zenon DEF Meaning!Apply, current

(* Whatever leaves the history of the loop alone is invisible.             *)
LEMMA MeaningStutters ==
    ASSUME UNCHANGED <<circuit, applied, scale, before>>
    PROVE  UNCHANGED <<circuit, applied, amplitude, scale>>
<1>0. (amplitude = Amplitudes(circuit.qubits, before))'
  BY AmplitudesMap, PTL
<1>1. amplitude' = Amplitudes(circuit'.qubits, before')
  BY <1>0
<1> QED BY <1>1, AmplitudesMap

(* The loops, which change the list while they read it, do to the state    *)
(* what the gates mean: every gate maps the whole state at once, at the    *)
(* moment its loop ends, and nothing else changes the state.               *)
THEOREM LoopsImplementGates == Spec => ImplementsStatevector
<1>1. Init => Meaning!Init
  BY MeaningInit
<1>2. SimulatorInv /\ [Next]_vars
          => [Meaning!Apply]_<<circuit, applied, amplitude, scale>>
  <2> SUFFICES ASSUME SimulatorInv, [Next]_vars
               PROVE  Meaning!Apply
                      \/ UNCHANGED <<circuit, applied, amplitude, scale>>
    OBVIOUS
  <2>1. CASE NextGate
    BY <2>1, MeaningApply
  <2>2. CASE Pair \/ Sample \/ Finished \/ UNCHANGED vars
    <3>1. UNCHANGED <<circuit, applied, scale, before>>
      BY <2>2, Zenon DEF Pair, Sample, Finished, vars
    <3> QED BY <3>1, MeaningStutters
  <2> QED BY <2>1, <2>2 DEF Next
<1> QED BY <1>1, <1>2, SimulatorInvariant, PTL
        DEF Spec, ImplementsStatevector, Meaning!Spec

(* Every key that is counted is an outcome with an amplitude that is not   *)
(* zero, read with the last qubit leftmost.                                *)
THEOREM CountedIsPossible == Spec => []CountsPossible
<1>1. SimulatorInv => CountsPossible
  <2> SUFFICES ASSUME SimulatorInv, NEW k \in DOMAIN counts
               PROVE  amplitude[[q \in 0 .. circuit.qubits - 1 |->
                                    k[circuit.qubits - q]]] # 0
    BY DEF CountsPossible
  <2>1. circuit \in Circuit
    BY DEF SimulatorInv, Shape
  <2>2. /\ applied = Len(circuit.gates)
        /\ \E i \in 0 .. size - 1 : k = key(i) /\ state[i] # 0
    BY Zenon DEF SimulatorInv, Counting
  <2>3. PICK i \in 0 .. size - 1 : k = key(i) /\ state[i] # 0
    BY <2>2
  <2>4. state = before
    BY <2>2 DEF SimulatorInv, InPlace
  <2>5. [q \in 0 .. circuit.qubits - 1 |-> k[circuit.qubits - q]]
            = assignment(i)
    <3>1. circuit.qubits \in 1 .. 8
      BY <2>1, CircuitFacts
    <3>2. \A q \in 0 .. circuit.qubits - 1 :
             /\ circuit.qubits - q \in 1 .. circuit.qubits
             /\ circuit.qubits - (circuit.qubits - q) = q
      BY <3>1
    <3>3. \A q \in 0 .. circuit.qubits - 1 :
             k[circuit.qubits - q] = IF bit_set(i, q) THEN 1 ELSE 0
      BY <3>2, <2>3, Zenon DEF key
    <3> QED BY <3>3, Zenon DEF assignment
  <2>6. amplitude[assignment(i)] = before[i]
    BY <2>1, AmplitudeAt
  <2> QED BY <2>3, <2>4, <2>5, <2>6
<1> QED BY <1>1, SimulatorInvariant, PTL

=============================================================================
