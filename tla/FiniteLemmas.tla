------------------------------ MODULE FiniteLemmas ------------------------------
(***************************************************************************)
(* Facts about least numbers and about sums over finite sets, for the      *)
(* operators Min and SumFunction of the community modules, and about       *)
(* counting down.  Every induction is a choice of a minimal counterexample *)
(* among the subsets of a finite set.                                      *)
(***************************************************************************)
EXTENDS Integers, FiniteSetsExt, Functions, FiniteSetTheorems,
        WellFoundedInduction, TLAPS

\* A family of subsets of a finite set has a minimal member.
LEMMA MinimalSubset ==
  ASSUME NEW S, IsFiniteSet(S), NEW family, family \subseteq SUBSET S, family # {}
  PROVE  \E A \in family : \A B \in family : B \subseteq A => B = A
<1>1. IsWellFoundedOn(StrictSubsetOrdering(S), FiniteSubsetsOf(S))
  BY FS_StrictSubsetOrderingWellFounded
<1>2. family \subseteq FiniteSubsetsOf(S)
  BY FS_FiniteSubsetsOfFinite
<1>3. \E A \in family : \A B \in family : <<B, A>> \notin StrictSubsetOrdering(S)
  BY <1>1, <1>2, WFMin
<1> QED BY <1>3 DEF StrictSubsetOrdering

\* A set of natural numbers has a least one.
LEMMA MinIsLeast ==
  ASSUME NEW S, S \subseteq Nat, S # {}
  PROVE  Min(S) \in S /\ \A k \in S : Min(S) <= k
<1>1. PICK n \in S : TRUE
  OBVIOUS
<1> DEFINE whole  == 1 .. n
           family == {1 .. k : k \in {j \in S : j <= n}}
<1>2. PICK A \in family : \A B \in family : B \subseteq A => B = A
  <2>1. IsFiniteSet(whole)
    BY FS_Interval
  <2>2. family \subseteq SUBSET whole /\ family # {}
    BY <1>1
  <2> HIDE DEF whole, family
  <2> QED BY <2>1, <2>2, MinimalSubset
<1>3. PICK m \in S : m <= n /\ A = 1 .. m
  OBVIOUS
<1>4. \A k \in S : m <= k
  <2> SUFFICES ASSUME NEW k \in S, k < m PROVE FALSE
    BY <1>1
  <2>1. 1 .. k \in family
    BY <1>1, <1>3
  <2>2. 1 .. k \subseteq 1 .. m
    OBVIOUS
  <2>3. 1 .. k = 1 .. m
    BY <1>2, <1>3, <2>1, <2>2
  <2>4. m \in 1 .. m /\ m \notin 1 .. k
    OBVIOUS
  <2> QED BY <2>3, <2>4
<1> QED BY <1>3, <1>4 DEF Min
--------------------------------------------------------------------------------
(* Sums. *)

\* The recursion SumFunctionOnSet is defined by.
Taken(s) == CHOOSE x \in s : TRUE
Adds(h, S, f) ==
  h = [s \in SUBSET S |-> IF s = {} THEN 0 ELSE f[Taken(s)] + h[s \ {Taken(s)}]]

LEMMA TakenIsIn == \A s : s # {} => Taken(s) \in s
  BY DEF Taken

LEMMA SumIs ==
  ASSUME NEW f, NEW S
  PROVE  SumFunctionOnSet(f, S) = (CHOOSE h : Adds(h, S, f))[S]
  BY DEF SumFunctionOnSet, FoldFunctionOnSet, MapThenFoldSet, Adds, Taken

\* Two such functions agree where both are defined.
LEMMA AddsAgree ==
  ASSUME NEW f, NEW S, IsFiniteSet(S), NEW R, R \subseteq S,
         NEW g, Adds(g, S, f), NEW h, Adds(h, R, f)
  PROVE  \A s \in SUBSET R : g[s] = h[s]
<1> DEFINE bad == {s \in SUBSET R : g[s] # h[s]}
<1> SUFFICES ASSUME bad # {} PROVE FALSE
  OBVIOUS
<1>1. PICK A \in bad : \A B \in bad : B \subseteq A => B = A
  <2>1. IsFiniteSet(R)
    BY FS_Subset
  <2>2. bad \subseteq SUBSET R
    OBVIOUS
  <2> HIDE DEF bad
  <2> QED BY <2>1, <2>2, MinimalSubset
<1>2. g[{}] = 0 /\ h[{}] = 0
  BY DEF Adds
<1>3. A # {} /\ A \in SUBSET R /\ A \in SUBSET S
  BY <1>2
<1> DEFINE rest == A \ {Taken(A)}
<1>4. rest \in SUBSET R /\ rest \subseteq A /\ rest # A
  BY <1>3, TakenIsIn
<1>5. g[rest] = h[rest]
  BY <1>1, <1>4
<1>6. g[A] = f[Taken(A)] + g[rest] /\ h[A] = f[Taken(A)] + h[rest]
  BY <1>3 DEF Adds
<1> QED BY <1>5, <1>6

LEMMA AddsExists ==
  ASSUME NEW f, NEW S, IsFiniteSet(S)
  PROVE  \E h : Adds(h, S, f)
<1> DEFINE bad == {s \in SUBSET S : ~ \E h : Adds(h, s, f)}
<1> SUFFICES ASSUME bad # {} PROVE FALSE
  OBVIOUS
<1>1. PICK A \in bad : \A B \in bad : B \subseteq A => B = A
  <2> HIDE DEF bad
  <2>1. bad \subseteq SUBSET S
    BY DEF bad
  <2> QED BY <2>1, MinimalSubset
<1> DEFINE of(s) == CHOOSE h : Adds(h, s, f)
           all   == [s \in SUBSET A |-> IF s = {} THEN 0
                                        ELSE f[Taken(s)] + of(s \ {Taken(s)})[s \ {Taken(s)}]]
<1>2. \A s \in SUBSET A : s # A => Adds(of(s), s, f)
  BY <1>1
<1>3. \A s \in SUBSET A : s # A => of(s)[s] = all[s]
  <2> SUFFICES ASSUME NEW s \in SUBSET A, s # A PROVE of(s)[s] = all[s]
    OBVIOUS
  <2>1. CASE s = {}
    <3>1. Adds(of({}), {}, f)
      BY <1>2, <2>1
    <3>2. all[{}] = 0
      OBVIOUS
    <3> HIDE DEF of, all
    <3>3. of({})[{}] = 0
      BY <3>1 DEF Adds
    <3> QED BY <2>1, <3>2, <3>3
  <2>2. CASE s # {}
    <3> DEFINE rest == s \ {Taken(s)}
    <3>1. rest \in SUBSET A /\ rest # A /\ rest \subseteq s
      OBVIOUS
    <3>2. Adds(of(s), s, f) /\ Adds(of(rest), rest, f)
      BY <1>2, <3>1
    <3>3. IsFiniteSet(s)
      BY FS_Subset
    <3> HIDE DEF of, rest
    <3>4. of(s)[rest] = of(rest)[rest]
      BY <3>1, <3>2, <3>3, AddsAgree
    <3>5. of(s)[s] = f[Taken(s)] + of(s)[rest]
      BY <2>2, <3>2 DEF Adds, rest
    <3> QED BY <2>2, <3>4, <3>5 DEF rest
  <2> QED BY <2>1, <2>2
<1>4. \A s \in SUBSET A : s # {} => all[s \ {Taken(s)}] = of(s \ {Taken(s)})[s \ {Taken(s)}]
  <2> SUFFICES ASSUME NEW s \in SUBSET A, s # {}
               PROVE  all[s \ {Taken(s)}] = of(s \ {Taken(s)})[s \ {Taken(s)}]
    OBVIOUS
  <2>1. s \ {Taken(s)} \in SUBSET A /\ s \ {Taken(s)} # A
    BY TakenIsIn
  <2> HIDE DEF of, all
  <2> QED BY <1>3, <2>1
<1> HIDE DEF of
<1>5. Adds(all, A, f)
  BY <1>4 DEF Adds
<1> QED BY <1>5

\* The recursion is well-founded: the sum of a set is what it says.
LEMMA SumTaken ==
  ASSUME NEW f, NEW S, IsFiniteSet(S)
  PROVE  SumFunctionOnSet(f, S) =
           IF S = {} THEN 0
           ELSE f[Taken(S)] + SumFunctionOnSet(f, S \ {Taken(S)})
<1> DEFINE of(s) == CHOOSE h : Adds(h, s, f)
           rest  == S \ {Taken(S)}
<1>1. IsFiniteSet(rest) /\ rest \subseteq S
  BY FS_RemoveElement
<1>2. Adds(of(S), S, f) /\ Adds(of(rest), rest, f)
  BY <1>1, AddsExists
<1>3. SumFunctionOnSet(f, S) = of(S)[S] /\ SumFunctionOnSet(f, rest) = of(rest)[rest]
  BY SumIs
<1> HIDE DEF of, rest
<1>4. of(S)[rest] = of(rest)[rest]
  BY <1>1, <1>2, AddsAgree
<1>5. of(S)[S] = IF S = {} THEN 0 ELSE f[Taken(S)] + of(S)[rest]
  BY <1>2 DEF Adds, rest
<1> QED BY <1>3, <1>4, <1>5 DEF rest

LEMMA SumEmpty == ASSUME NEW f PROVE SumFunctionOnSet(f, {}) = 0
  BY SumTaken, FS_EmptySet

\* A sum of integers is one, whichever member is taken first.
LEMMA SumRemove ==
  ASSUME NEW f, NEW S, IsFiniteSet(S), \A x \in S : f[x] \in Int
  PROVE  /\ SumFunctionOnSet(f, S) \in Int
         /\ \A x \in S : SumFunctionOnSet(f, S) = f[x] + SumFunctionOnSet(f, S \ {x})
<1> DEFINE sum(s) == SumFunctionOnSet(f, s)
           fine(s) == sum(s) \in Int /\ \A x \in s : sum(s) = f[x] + sum(s \ {x})
           bad == {s \in SUBSET S : ~ fine(s)}
<1> SUFFICES ASSUME bad # {} PROVE FALSE
  OBVIOUS
<1>1. PICK A \in bad : \A B \in bad : B \subseteq A => B = A
  <2>1. bad \subseteq SUBSET S
    OBVIOUS
  <2> HIDE DEF bad
  <2> QED BY <2>1, MinimalSubset
<1>2. A \in SUBSET S /\ IsFiniteSet(A)
  BY FS_Subset
<1>3. fine({})
  BY SumEmpty
<1>4. A # {}
  <2> HIDE DEF fine
  <2> QED BY <1>3
<1> DEFINE t == Taken(A)
<1>5. t \in A /\ sum(A) = f[t] + sum(A \ {t})
  BY <1>2, <1>4, SumTaken, TakenIsIn
<1>6. \A s \in SUBSET A : s # A => fine(s)
  BY <1>1, <1>2
<1>7. ~ fine(A)
  BY <1>1
<1> HIDE DEF sum, t, bad
<1>8. sum(A) \in Int
  BY <1>2, <1>5, <1>6
<1>9. ASSUME NEW x \in A, x # t PROVE sum(A) = f[x] + sum(A \ {x})
  <2> DEFINE rest == (A \ {t}) \ {x}
  <2>1. rest = (A \ {x}) \ {t}
    OBVIOUS
  <2>2. sum(A \ {t}) = f[x] + sum(rest)
    BY <1>5, <1>6, <1>9
  <2>3. sum(A \ {x}) = f[t] + sum(rest)
    BY <1>5, <1>6, <1>9, <2>1
  <2>4. sum(rest) \in Int /\ f[x] \in Int /\ f[t] \in Int
    BY <1>2, <1>5, <1>6, <1>9
  <2> HIDE DEF rest
  <2> QED BY <1>5, <2>2, <2>3, <2>4
<1> QED BY <1>5, <1>7, <1>8, <1>9

\* A sum depends on the values it adds only.
LEMMA SumSame ==
  ASSUME NEW f, NEW g, NEW S, IsFiniteSet(S), \A x \in S : f[x] = g[x]
  PROVE  SumFunctionOnSet(f, S) = SumFunctionOnSet(g, S)
<1> DEFINE bad == {s \in SUBSET S : SumFunctionOnSet(f, s) # SumFunctionOnSet(g, s)}
<1> SUFFICES ASSUME bad # {} PROVE FALSE
  OBVIOUS
<1>1. PICK A \in bad : \A B \in bad : B \subseteq A => B = A
  <2>1. bad \subseteq SUBSET S
    OBVIOUS
  <2> HIDE DEF bad
  <2> QED BY <2>1, MinimalSubset
<1>2. A \in SUBSET S /\ IsFiniteSet(A)
  BY FS_Subset
<1>3. A # {}
  BY SumEmpty
<1> DEFINE rest == A \ {Taken(A)}
<1>4. /\ SumFunctionOnSet(f, A) = f[Taken(A)] + SumFunctionOnSet(f, rest)
      /\ SumFunctionOnSet(g, A) = g[Taken(A)] + SumFunctionOnSet(g, rest)
  BY <1>2, <1>3, SumTaken
<1>5. rest \in SUBSET S /\ rest \subseteq A /\ rest # A /\ Taken(A) \in S
  BY <1>2, <1>3, TakenIsIn
<1>6. SumFunctionOnSet(f, rest) = SumFunctionOnSet(g, rest)
  BY <1>1, <1>5
<1> QED BY <1>4, <1>5, <1>6

\* What one value grows by, the sum grows by.
LEMMA SumGrows ==
  ASSUME NEW f, NEW g, NEW S, IsFiniteSet(S), \A x \in S : f[x] \in Int,
         NEW d \in S, NEW n \in Int, g[d] = f[d] + n, \A x \in S \ {d} : g[x] = f[x]
  PROVE  SumFunctionOnSet(g, S) = SumFunctionOnSet(f, S) + n
<1> DEFINE rest == S \ {d}
<1>1. IsFiniteSet(rest)
  BY FS_RemoveElement
<1>2. SumFunctionOnSet(f, rest) = SumFunctionOnSet(g, rest)
  BY <1>1, SumSame
<1>3. SumFunctionOnSet(f, rest) \in Int
  BY <1>1, SumRemove
<1>4. \A x \in S : g[x] \in Int
  OBVIOUS
<1>5. /\ SumFunctionOnSet(f, S) = f[d] + SumFunctionOnSet(f, rest)
      /\ SumFunctionOnSet(g, S) = g[d] + SumFunctionOnSet(g, rest)
  BY <1>4, SumRemove
<1> HIDE DEF rest
<1> QED BY <1>2, <1>3, <1>5

\* Zeros may be left out.
LEMMA SumDropsZeros ==
  ASSUME NEW f, NEW S, IsFiniteSet(S), \A x \in S : f[x] \in Int,
         NEW R, R \subseteq S, \A x \in S \ R : f[x] = 0
  PROVE  SumFunctionOnSet(f, S) = SumFunctionOnSet(f, R)
<1> DEFINE sum(s) == SumFunctionOnSet(f, s)
           zeros  == S \ R
           bad    == {s \in SUBSET zeros : sum(R \cup s) # sum(R)}
<1> SUFFICES ASSUME bad # {} PROVE FALSE
  <2>1. R \cup zeros = S /\ zeros \in SUBSET zeros
    OBVIOUS
  <2>2. sum(R \cup zeros) = sum(R)
    BY <2>1
  <2> QED BY <2>1, <2>2
<1>1. PICK A \in bad : \A B \in bad : B \subseteq A => B = A
  <2>1. bad \subseteq SUBSET zeros /\ IsFiniteSet(zeros)
    BY FS_Subset
  <2> HIDE DEF bad, zeros
  <2> QED BY <2>1, MinimalSubset
<1>2. A # {}
  <2>1. R \cup {} = R
    OBVIOUS
  <2> QED BY <2>1
<1>3. PICK x \in A : TRUE
  BY <1>2
<1>4. A \ {x} \notin bad /\ A \ {x} \in SUBSET zeros
  BY <1>1
<1>5. sum(R \cup (A \ {x})) = sum(R)
  BY <1>4
<1>6. x \in R \cup A /\ (R \cup A) \ {x} = R \cup (A \ {x}) /\ f[x] = 0
  OBVIOUS
<1>7. IsFiniteSet(R \cup A) /\ IsFiniteSet(R) /\ \A y \in R \cup A : f[y] \in Int
  BY FS_Subset
<1>8. sum(R \cup A) = f[x] + sum((R \cup A) \ {x}) /\ sum(R) \in Int
  BY <1>6, <1>7, SumRemove
<1>9. sum(R \cup A) = sum(R)
  <2>1. sum((R \cup A) \ {x}) = sum(R)
    BY <1>5, <1>6
  <2> HIDE DEF sum
  <2> QED BY <1>6, <1>8, <2>1
<1> QED BY <1>9

\* The sum of one more.
LEMMA SumAppends ==
  ASSUME NEW f, NEW n \in Nat, \A i \in 1 .. (n + 1) : f[i] \in Int
  PROVE  /\ SumFunctionOnSet(f, 1 .. n) \in Int
         /\ SumFunctionOnSet(f, 1 .. (n + 1)) = SumFunctionOnSet(f, 1 .. n) + f[n + 1]
<1>1. IsFiniteSet(1 .. n) /\ IsFiniteSet(1 .. (n + 1))
  BY FS_Interval
<1>2. (1 .. (n + 1)) \ {n + 1} = 1 .. n /\ n + 1 \in 1 .. (n + 1)
  OBVIOUS
<1>3. SumFunctionOnSet(f, 1 .. n) \in Int
  BY <1>1, SumRemove
<1>4. SumFunctionOnSet(f, 1 .. (n + 1)) = f[n + 1] + SumFunctionOnSet(f, 1 .. n)
  <2> DEFINE whole == 1 .. (n + 1)
  <2>1. whole \ {n + 1} = 1 .. n /\ n + 1 \in whole
    BY <1>2
  <2>2. IsFiniteSet(whole) /\ \A i \in whole : f[i] \in Int
    BY <1>1
  <2> HIDE DEF whole
  <2>3. SumFunctionOnSet(f, whole) = f[n + 1] + SumFunctionOnSet(f, whole \ {n + 1})
    BY <2>1, <2>2, SumRemove
  <2> QED BY <2>1, <2>3 DEF whole
<1> QED BY <1>2, <1>3, <1>4
--------------------------------------------------------------------------------
(* Counting down. *)

\* The later it is, the nearer the end.
LEMMA LaterIsNearer ==
  ASSUME NEW end \in Nat, NEW now \in Nat, NEW later \in Nat, now < later
  PROVE  end + 3 - later < end + 3 - now
  OBVIOUS

\* Passing a stage outweighs any number of tries up to m + 1.
LEMMA StageOutweighsTries ==
  ASSUME NEW p \in Nat, NEW q \in Nat, NEW m \in Nat, NEW t \in 0 .. (m + 1), NEW u \in Nat,
         q < p \/ (q <= p /\ t < u)
  PROVE  q * (m + 2) + t < p * (m + 2) + u
<1>1. CASE q < p
  <2>1. q + 1 <= p
    BY <1>1
  <2>2. (q + 1) * (m + 2) <= p * (m + 2)
    BY <2>1
  <2>3. (q + 1) * (m + 2) = q * (m + 2) + (m + 2)
    OBVIOUS
  <2>4. q * (m + 2) \in Nat /\ p * (m + 2) \in Nat
    OBVIOUS
  <2> QED BY <2>2, <2>3, <2>4
<1>2. CASE q <= p /\ t < u
  <2>1. q * (m + 2) <= p * (m + 2)
    BY <1>2
  <2>2. q * (m + 2) \in Nat /\ p * (m + 2) \in Nat
    OBVIOUS
  <2> QED BY <1>2, <2>1, <2>2
<1> QED BY <1>1, <1>2
================================================================================
