---------------------------- MODULE DataTheorems ----------------------------
(***************************************************************************)
(* What the models compute from sets and lists of data, for all of them:     *)
(* the sums of the community modules, whatever order their CHOOSE takes the  *)
(* elements in, the sorted and filtered lists of Lists, and the lines        *)
(* through the places of a curve.  The library's induction theorems take a   *)
(* predicate as a parameter; here a least counterexample among the subsets   *)
(* of the finite set (WFMin) stands for the induction.                       *)
(***************************************************************************)
EXTENDS Lists, FiniteSetsExt, Functions, FiniteSetTheorems, SequenceTheorems, TLAPS

Picked(s) == CHOOSE x \in s : TRUE

\* The recursion behind SumFunctionOnSet, on the subsets of S.
Unfolds(g, f, S) ==
  g = [s \in SUBSET S |-> IF s = {} THEN 0 ELSE f[Picked(s)] + g[s \ {Picked(s)}]]
PartialSums(f, S) == CHOOSE g : Unfolds(g, f, S)

LEMMA SumIsRecursion == \A f, S : SumFunctionOnSet(f, S) = PartialSums(f, S)[S]
BY DEF SumFunctionOnSet, FoldFunctionOnSet, MapThenFoldSet, PartialSums, Unfolds, Picked

LEMMA PickedIn == \A s : s # {} => Picked(s) \in s
BY DEF Picked

\* Induction over the subsets of a finite set: a set of counterexamples that is not
\* empty has a least member.
LEMMA LeastSubset ==
  ASSUME NEW S, IsFiniteSet(S), NEW bad, bad \subseteq SUBSET S, bad # {}
  PROVE  \E s \in bad : \A t \in bad : t \subseteq s => t = s
<1>1. IsWellFoundedOn(StrictSubsetOrdering(S), SUBSET S)
  BY FS_StrictSubsetOrderingWellFounded, FS_FiniteSubsetsOfFinite
<1>2. PICK s \in bad : \A t \in bad : ~ (<<t, s>> \in StrictSubsetOrdering(S))
  BY <1>1, WFMin
<1>3. ASSUME NEW t \in bad, t \subseteq s
      PROVE  t = s
  BY <1>2, <1>3 DEF StrictSubsetOrdering
<1> QED BY <1>3

\* Two solutions of the recursion agree where both are defined.
LEMMA UnfoldsAgree ==
  ASSUME NEW f, NEW R, NEW T, NEW g, NEW h, Unfolds(g, f, R), Unfolds(h, f, T),
         NEW S, IsFiniteSet(S), S \subseteq R, S \subseteq T
  PROVE  g[S] = h[S]
<1> DEFINE bad == {s \in SUBSET S : g[s] # h[s]}
<1>1. SUFFICES ASSUME bad # {} PROVE FALSE
  OBVIOUS
<1>2. PICK s \in bad : \A t \in bad : t \subseteq s => t = s
  <2> HIDE DEF bad
  <2>1. bad \subseteq SUBSET S
    BY DEF bad
  <2> QED BY <1>1, <2>1, LeastSubset
<1>3. s \subseteq R /\ s \subseteq T /\ g[s] # h[s] /\ s \subseteq S
  BY <1>2
<1>4. /\ g[s] = IF s = {} THEN 0 ELSE f[Picked(s)] + g[s \ {Picked(s)}]
      /\ h[s] = IF s = {} THEN 0 ELSE f[Picked(s)] + h[s \ {Picked(s)}]
  BY <1>3 DEF Unfolds
<1>5. s # {} /\ g[s \ {Picked(s)}] # h[s \ {Picked(s)}]
  BY <1>3, <1>4
<1>6. s \ {Picked(s)} \in bad /\ Picked(s) \in s
  BY <1>3, <1>5, PickedIn
<1> QED BY <1>2, <1>6

LEMMA UnfoldsExists ==
  ASSUME NEW f, NEW S, IsFiniteSet(S)
  PROVE  \E g : Unfolds(g, f, S)
<1> DEFINE bad == {s \in SUBSET S : ~ \E g : Unfolds(g, f, s)}
<1>1. SUFFICES ASSUME bad # {} PROVE FALSE
  BY DEF bad
<1>2. PICK s \in bad : \A t \in bad : t \subseteq s => t = s
  <2> HIDE DEF bad
  <2>1. bad \subseteq SUBSET S
    BY DEF bad
  <2> QED BY <1>1, <2>1, LeastSubset
<1>3. \A t \in SUBSET s : t # s => Unfolds(PartialSums(f, t), f, t)
  BY <1>2 DEF PartialSums
<1> DEFINE Below(t) == PartialSums(f, t \ {Picked(t)})[t \ {Picked(t)}]
           g == [t \in SUBSET s |-> IF t = {} THEN 0 ELSE f[Picked(t)] + Below(t)]
<1>4. ASSUME NEW t \in SUBSET s, t # s
      PROVE  g[t] = PartialSums(f, t)[t]
  <2>1. PartialSums(f, t)[t] =
          IF t = {} THEN 0 ELSE f[Picked(t)] + PartialSums(f, t)[t \ {Picked(t)}]
    BY <1>3, <1>4 DEF Unfolds
  <2>2. CASE t # {}
    <3> DEFINE u == t \ {Picked(t)}
    <3>1. u \in SUBSET s /\ u # s /\ u \subseteq t
      BY <1>4, PickedIn
    <3>2. IsFiniteSet(u)
      BY <1>2, <3>1, FS_Subset
    <3>3. PartialSums(f, t)[u] = PartialSums(f, u)[u]
      BY <1>3, <1>4, <3>1, <3>2, UnfoldsAgree
    <3> QED BY <2>1, <2>2, <3>3
  <2> QED BY <2>1, <2>2
<1>5. \A t \in SUBSET s : t # {} => Below(t) = g[t \ {Picked(t)}]
  <2> SUFFICES ASSUME NEW t \in SUBSET s, t # {} PROVE Below(t) = g[t \ {Picked(t)}]
    OBVIOUS
  <2>1. t \ {Picked(t)} \in SUBSET s /\ t \ {Picked(t)} # s
    BY PickedIn
  <2> QED BY <1>4, <2>1
<1>6. Unfolds(g, f, s)
  BY <1>5 DEF Unfolds
<1> QED BY <1>2, <1>6

LEMMA SumUnfolds ==
  ASSUME NEW f, NEW S, IsFiniteSet(S)
  PROVE  SumFunctionOnSet(f, S) =
           IF S = {} THEN 0
           ELSE f[Picked(S)] + SumFunctionOnSet(f, S \ {Picked(S)})
<1> DEFINE T == S \ {Picked(S)}
<1>1. IsFiniteSet(T) /\ T \subseteq S
  BY FS_Subset
<1>2. Unfolds(PartialSums(f, S), f, S) /\ Unfolds(PartialSums(f, T), f, T)
  BY <1>1, UnfoldsExists DEF PartialSums
<1>3. PartialSums(f, S)[T] = PartialSums(f, T)[T]
  BY <1>1, <1>2, UnfoldsAgree
<1>4. PartialSums(f, S)[S] =
        IF S = {} THEN 0 ELSE f[Picked(S)] + PartialSums(f, S)[T]
  BY <1>2 DEF Unfolds
<1> QED BY <1>3, <1>4, SumIsRecursion

LEMMA SumOfNone == \A f : SumFunctionOnSet(f, {}) = 0
BY SumUnfolds, FS_EmptySet

LEMMA SumIsInt ==
  ASSUME NEW S, IsFiniteSet(S), NEW f, \A x \in S : f[x] \in Int
  PROVE  SumFunctionOnSet(f, S) \in Int
<1> DEFINE bad == {s \in SUBSET S : SumFunctionOnSet(f, s) \notin Int}
<1>1. SUFFICES ASSUME bad # {} PROVE FALSE
  OBVIOUS
<1>2. PICK s \in bad : \A t \in bad : t \subseteq s => t = s
  <2> HIDE DEF bad
  <2>1. bad \subseteq SUBSET S
    BY DEF bad
  <2> QED BY <1>1, <2>1, LeastSubset
<1>3. s \subseteq S /\ SumFunctionOnSet(f, s) \notin Int /\ IsFiniteSet(s)
  BY <1>2, FS_Subset
<1>4. s # {}
  BY <1>3, SumOfNone
<1>5. Picked(s) \in s /\ f[Picked(s)] \in Int
  BY <1>3, <1>4, PickedIn
<1>6. SumFunctionOnSet(f, s \ {Picked(s)}) \in Int
  BY <1>2, <1>3, <1>5
<1> QED BY <1>3, <1>4, <1>5, <1>6, SumUnfolds

\* Any element can be taken out first.
LEMMA SumTakesOut ==
  ASSUME NEW S, IsFiniteSet(S), NEW f, \A x \in S : f[x] \in Int, NEW a \in S
  PROVE  SumFunctionOnSet(f, S) = f[a] + SumFunctionOnSet(f, S \ {a})
<1> DEFINE bad == {s \in SUBSET S : \E x \in s :
                     SumFunctionOnSet(f, s) # f[x] + SumFunctionOnSet(f, s \ {x})}
<1>1. SUFFICES ASSUME bad # {} PROVE FALSE
  OBVIOUS
<1>2. PICK s \in bad : \A t \in bad : t \subseteq s => t = s
  <2> HIDE DEF bad
  <2>1. bad \subseteq SUBSET S
    BY DEF bad
  <2> QED BY <1>1, <2>1, LeastSubset
<1>3. PICK x \in s : SumFunctionOnSet(f, s) # f[x] + SumFunctionOnSet(f, s \ {x})
  BY <1>2
<1> DEFINE c == Picked(s)
<1>4. s \subseteq S /\ IsFiniteSet(s) /\ s # {} /\ c \in s
  BY <1>2, <1>3, FS_Subset, PickedIn
<1>5. SumFunctionOnSet(f, s) = f[c] + SumFunctionOnSet(f, s \ {c})
  BY <1>4, SumUnfolds
<1>6. x # c
  BY <1>3, <1>5
<1>7. /\ SumFunctionOnSet(f, s \ {c}) = f[x] + SumFunctionOnSet(f, (s \ {c}) \ {x})
      /\ SumFunctionOnSet(f, s \ {x}) = f[c] + SumFunctionOnSet(f, (s \ {x}) \ {c})
  <2>1. /\ s \ {c} \notin bad /\ s \ {c} \in SUBSET S /\ x \in s \ {c}
        /\ s \ {x} \notin bad /\ s \ {x} \in SUBSET S /\ c \in s \ {x}
    BY <1>2, <1>4, <1>6
  <2> QED BY <2>1
<1>8. (s \ {c}) \ {x} = (s \ {x}) \ {c}
  OBVIOUS
<1>9. SumFunctionOnSet(f, (s \ {x}) \ {c}) \in Int /\ f[x] \in Int /\ f[c] \in Int
  <2>1. (s \ {x}) \ {c} \subseteq S
    BY <1>4
  <2>2. IsFiniteSet((s \ {x}) \ {c})
    BY <2>1, FS_Subset
  <2> QED BY <1>4, <2>1, <2>2, SumIsInt
<1> DEFINE rest == SumFunctionOnSet(f, (s \ {x}) \ {c})
<1>10. /\ SumFunctionOnSet(f, s) = f[c] + (f[x] + rest)
       /\ SumFunctionOnSet(f, s \ {x}) = f[c] + rest
       /\ rest \in Int /\ f[x] \in Int /\ f[c] \in Int
  BY <1>5, <1>7, <1>8, <1>9
<1> HIDE DEF rest, c, bad
<1> QED BY <1>3, <1>10

LEMMA SumTakesIn ==
  ASSUME NEW S, IsFiniteSet(S), NEW f, \A x \in S : f[x] \in Int,
         NEW a, a \notin S, f[a] \in Int
  PROVE  SumFunctionOnSet(f, S \cup {a}) = SumFunctionOnSet(f, S) + f[a]
<1>1. IsFiniteSet(S \cup {a}) /\ (S \cup {a}) \ {a} = S
  BY FS_AddElement
<1>2. SumFunctionOnSet(f, S \cup {a}) = f[a] + SumFunctionOnSet(f, S)
  BY <1>1, SumTakesOut
<1> QED BY <1>2, SumIsInt

\* Only the values on the set count.
LEMMA SumOfEquals ==
  ASSUME NEW S, IsFiniteSet(S), NEW f, NEW g, \A x \in S : f[x] = g[x]
  PROVE  SumFunctionOnSet(f, S) = SumFunctionOnSet(g, S)
<1> DEFINE bad == {s \in SUBSET S : SumFunctionOnSet(f, s) # SumFunctionOnSet(g, s)}
<1>1. SUFFICES ASSUME bad # {} PROVE FALSE
  OBVIOUS
<1>2. PICK s \in bad : \A t \in bad : t \subseteq s => t = s
  <2> HIDE DEF bad
  <2>1. bad \subseteq SUBSET S
    BY DEF bad
  <2> QED BY <1>1, <2>1, LeastSubset
<1>3. s \subseteq S /\ SumFunctionOnSet(f, s) # SumFunctionOnSet(g, s) /\ IsFiniteSet(s)
  BY <1>2, FS_Subset
<1>4. s # {}
  BY <1>3, SumOfNone
<1>5. Picked(s) \in s /\ f[Picked(s)] = g[Picked(s)]
  BY <1>3, <1>4, PickedIn
<1>6. SumFunctionOnSet(f, s \ {Picked(s)}) = SumFunctionOnSet(g, s \ {Picked(s)})
  BY <1>2, <1>3, <1>5
<1> QED BY <1>3, <1>4, <1>5, <1>6, SumUnfolds

\* One value changes: the sum changes by the difference.
LEMMA SumAfterUpdate ==
  ASSUME NEW S, IsFiniteSet(S), NEW f, NEW g, NEW a \in S,
         \A x \in S : f[x] \in Int, g[a] \in Int,
         \A x \in S : x # a => g[x] = f[x]
  PROVE  SumFunctionOnSet(g, S) = SumFunctionOnSet(f, S) + (g[a] - f[a])
<1>1. IsFiniteSet(S \ {a})
  BY FS_Subset
<1>2. \A x \in S : g[x] \in Int
  OBVIOUS
<1>3. SumFunctionOnSet(f, S) = f[a] + SumFunctionOnSet(f, S \ {a})
  BY SumTakesOut
<1>4. SumFunctionOnSet(g, S) = g[a] + SumFunctionOnSet(g, S \ {a})
  BY <1>2, SumTakesOut
<1>5. SumFunctionOnSet(g, S \ {a}) = SumFunctionOnSet(f, S \ {a})
  BY <1>1, SumOfEquals
<1>6. SumFunctionOnSet(f, S \ {a}) \in Int
  BY <1>1, SumIsInt
<1> QED BY <1>3, <1>4, <1>5, <1>6

\* What is worth nothing can be left out.
LEMMA SumOfPart ==
  ASSUME NEW T, IsFiniteSet(T), NEW S, S \subseteq T, NEW f, \A x \in T : f[x] \in Int,
         \A x \in T \ S : f[x] = 0
  PROVE  SumFunctionOnSet(f, T) = SumFunctionOnSet(f, S)
<1> DEFINE bad == {t \in SUBSET T : S \subseteq t /\ SumFunctionOnSet(f, t) # SumFunctionOnSet(f, S)}
<1>1. SUFFICES ASSUME bad # {} PROVE FALSE
  OBVIOUS
<1>2. PICK t \in bad : \A u \in bad : u \subseteq t => u = t
  <2> HIDE DEF bad
  <2>1. bad \subseteq SUBSET T
    BY DEF bad
  <2> QED BY <1>1, <2>1, LeastSubset
<1>3. /\ t \subseteq T /\ S \subseteq t /\ IsFiniteSet(t) /\ IsFiniteSet(S)
      /\ SumFunctionOnSet(f, t) # SumFunctionOnSet(f, S)
  BY <1>2, FS_Subset
<1>4. PICK x \in t : x \notin S
  BY <1>3
<1>5. SumFunctionOnSet(f, t \ {x}) = SumFunctionOnSet(f, S)
  BY <1>2, <1>3, <1>4
<1>6. SumFunctionOnSet(f, t) = f[x] + SumFunctionOnSet(f, t \ {x}) /\ f[x] = 0
  BY <1>3, <1>4, SumTakesOut
<1>7. SumFunctionOnSet(f, S) \in Int
  BY <1>3, SumIsInt
<1> QED BY <1>3, <1>5, <1>6, <1>7

LEMMA SumNotNegative ==
  ASSUME NEW S, IsFiniteSet(S), NEW f, \A x \in S : f[x] \in Nat
  PROVE  SumFunctionOnSet(f, S) \in Nat
<1> DEFINE bad == {s \in SUBSET S : SumFunctionOnSet(f, s) \notin Nat}
<1>1. SUFFICES ASSUME bad # {} PROVE FALSE
  OBVIOUS
<1>2. PICK s \in bad : \A t \in bad : t \subseteq s => t = s
  <2> HIDE DEF bad
  <2>1. bad \subseteq SUBSET S
    BY DEF bad
  <2> QED BY <1>1, <2>1, LeastSubset
<1>3. s \subseteq S /\ SumFunctionOnSet(f, s) \notin Nat /\ IsFiniteSet(s)
  BY <1>2, FS_Subset
<1>4. s # {}
  BY <1>3, SumOfNone
<1>5. Picked(s) \in s /\ f[Picked(s)] \in Nat
  BY <1>3, <1>4, PickedIn
<1>6. SumFunctionOnSet(f, s \ {Picked(s)}) \in Nat
  BY <1>2, <1>3, <1>5
<1> QED BY <1>3, <1>4, <1>5, <1>6, SumUnfolds

LEMMA SumsAdd ==
  ASSUME NEW S, IsFiniteSet(S), NEW f, NEW g, NEW h,
         \A x \in S : f[x] \in Int /\ g[x] \in Int /\ h[x] = f[x] + g[x]
  PROVE  SumFunctionOnSet(h, S) = SumFunctionOnSet(f, S) + SumFunctionOnSet(g, S)
<1> DEFINE bad == {s \in SUBSET S : SumFunctionOnSet(h, s)
                                     # SumFunctionOnSet(f, s) + SumFunctionOnSet(g, s)}
<1>1. SUFFICES ASSUME bad # {} PROVE FALSE
  OBVIOUS
<1>2. PICK s \in bad : \A t \in bad : t \subseteq s => t = s
  <2> HIDE DEF bad
  <2>1. bad \subseteq SUBSET S
    BY DEF bad
  <2> QED BY <1>1, <2>1, LeastSubset
<1>3. /\ s \subseteq S /\ IsFiniteSet(s)
      /\ SumFunctionOnSet(h, s) # SumFunctionOnSet(f, s) + SumFunctionOnSet(g, s)
  BY <1>2, FS_Subset
<1>4. s # {}
  BY <1>3, SumOfNone
<1> DEFINE c == Picked(s)
           r == s \ {c}
<1>5. c \in s /\ r \in SUBSET S /\ IsFiniteSet(r) /\ r \notin bad
  BY <1>2, <1>3, <1>4, PickedIn, FS_Subset
<1>6. SumFunctionOnSet(h, r) = SumFunctionOnSet(f, r) + SumFunctionOnSet(g, r)
  BY <1>5
<1>7. SumFunctionOnSet(f, r) \in Int /\ SumFunctionOnSet(g, r) \in Int
  BY <1>5, SumIsInt
<1>8. f[c] \in Int /\ g[c] \in Int /\ h[c] = f[c] + g[c]
  BY <1>3, <1>5
<1>9. /\ SumFunctionOnSet(h, s) = h[c] + SumFunctionOnSet(h, r)
      /\ SumFunctionOnSet(f, s) = f[c] + SumFunctionOnSet(f, r)
      /\ SumFunctionOnSet(g, s) = g[c] + SumFunctionOnSet(g, r)
  BY <1>3, <1>4, SumUnfolds
<1> HIDE DEF bad, c, r
<1> QED BY <1>3, <1>6, <1>7, <1>8, <1>9

\* A sum is at most another whose elements cover its own one by one.
LEMMA SumIsCovered ==
  ASSUME NEW S, IsFiniteSet(S), NEW T, IsFiniteSet(T), NEW f, NEW g, NEW h,
         \A x \in S : f[x] \in Int /\ h[x] \in T /\ f[x] <= g[h[x]],
         \A x, y \in S : h[x] = h[y] => x = y,
         \A y \in T : g[y] \in Nat
  PROVE  SumFunctionOnSet(f, S) <= SumFunctionOnSet(g, T)
<1> DEFINE bad == {s \in SUBSET S : \E t \in SUBSET T : /\ \A x \in s : h[x] \in t
                                 /\ ~ (SumFunctionOnSet(f, s) <= SumFunctionOnSet(g, t))}
<1>1. SUFFICES ASSUME bad # {} PROVE FALSE
  OBVIOUS
<1>2. PICK s \in bad : \A t \in bad : t \subseteq s => t = s
  <2> HIDE DEF bad
  <2>1. bad \subseteq SUBSET S
    BY DEF bad
  <2> QED BY <1>1, <2>1, LeastSubset
<1>3. PICK t \in SUBSET T : /\ \A x \in s : h[x] \in t
                            /\ ~ (SumFunctionOnSet(f, s) <= SumFunctionOnSet(g, t))
  BY <1>2
<1>4. s \subseteq S /\ IsFiniteSet(s) /\ IsFiniteSet(t)
  BY <1>2, <1>3, FS_Subset
<1>5. SumFunctionOnSet(g, t) \in Nat
  BY <1>3, <1>4, SumNotNegative
<1>6. s # {}
  BY <1>3, <1>5, SumOfNone
<1> DEFINE c == Picked(s)
           e == h[c]
<1>7. c \in s /\ e \in t /\ f[c] \in Int /\ g[e] \in Nat /\ f[c] <= g[e]
  BY <1>3, <1>4, <1>6, PickedIn
<1>8. /\ SumFunctionOnSet(f, s) = f[c] + SumFunctionOnSet(f, s \ {c})
      /\ SumFunctionOnSet(g, t) = g[e] + SumFunctionOnSet(g, t \ {e})
  <2>1. (\A x \in s : f[x] \in Int) /\ \A y \in t : g[y] \in Int
    BY <1>3, <1>4
  <2> QED BY <1>4, <1>7, <2>1, SumTakesOut
<1>9. SumFunctionOnSet(f, s \ {c}) \in Int /\ SumFunctionOnSet(g, t \ {e}) \in Int
  <2>1. IsFiniteSet(s \ {c}) /\ IsFiniteSet(t \ {e})
    BY <1>4, FS_Subset
  <2>2. (\A x \in s \ {c} : f[x] \in Int) /\ \A y \in t \ {e} : g[y] \in Int
    BY <1>3, <1>4
  <2> QED BY <2>1, <2>2, SumIsInt
<1>10. SumFunctionOnSet(f, s \ {c}) <= SumFunctionOnSet(g, t \ {e})
  <2>1. s \ {c} \in SUBSET S /\ s \ {c} \notin bad
    BY <1>2, <1>4, <1>7
  <2>2. t \ {e} \in SUBSET T /\ \A x \in s \ {c} : h[x] \in t \ {e}
    BY <1>3, <1>4, <1>7
  <2> QED BY <2>1, <2>2
<1> DEFINE before == SumFunctionOnSet(f, s \ {c})
           after == SumFunctionOnSet(g, t \ {e})
           low == f[c]
           high == g[e]
<1>11. /\ before \in Int /\ after \in Int /\ low \in Int /\ high \in Int
       /\ before <= after /\ low <= high
       /\ ~ (low + before <= high + after)
  BY <1>3, <1>7, <1>8, <1>9, <1>10
<1> HIDE DEF before, after, low, high, bad
<1> QED BY <1>11

\* The same terms under other names have the same sum.
LEMMA SumRenamed ==
  ASSUME NEW S, IsFiniteSet(S), NEW p, NEW f, NEW g,
         \A x \in S : f[x] = g[p[x]], \A x \in S : f[x] \in Int,
         \A x, y \in S : x # y => p[x] # p[y]
  PROVE  SumFunctionOnSet(f, S) = SumFunctionOnSet(g, {p[x] : x \in S})
<1> DEFINE image(s) == {p[x] : x \in s}
           bad == {s \in SUBSET S : SumFunctionOnSet(f, s) # SumFunctionOnSet(g, image(s))}
<1>1. SUFFICES ASSUME bad # {} PROVE FALSE
  BY DEF bad
<1>2. PICK s \in bad : \A t \in bad : t \subseteq s => t = s
  <2> HIDE DEF bad
  <2>1. bad \subseteq SUBSET S
    BY DEF bad
  <2> QED BY <1>1, <2>1, LeastSubset
<1>3. s \subseteq S /\ SumFunctionOnSet(f, s) # SumFunctionOnSet(g, image(s)) /\ IsFiniteSet(s)
  BY <1>2, FS_Subset
<1>4. s # {}
  <2>1. image({}) = {}
    OBVIOUS
  <2> QED BY <1>3, <2>1, SumOfNone
<1>5. PICK a \in s : TRUE
  BY <1>4
<1> DEFINE t == s \ {a}
<1>6. SumFunctionOnSet(f, t) = SumFunctionOnSet(g, image(t))
  BY <1>2, <1>3
<1>7. SumFunctionOnSet(f, s) = f[a] + SumFunctionOnSet(f, t)
  BY <1>3, SumTakesOut
<1>8. IsFiniteSet(image(s))
  <2> DEFINE q == [x \in s |-> p[x]]
  <2>1. q \in Surjection(s, image(s))
    BY DEF Surjection
  <2> QED BY <1>3, <2>1, FS_Surjection
<1>9. \A y \in image(s) : g[y] \in Int
  BY <1>3
<1>10. p[a] \in image(s) /\ image(t) = image(s) \ {p[a]} /\ f[a] = g[p[a]]
  BY <1>3
<1>11. SumFunctionOnSet(g, image(s)) = g[p[a]] + SumFunctionOnSet(g, image(s) \ {p[a]})
  <2> HIDE DEF image
  <2> QED BY <1>8, <1>9, <1>10, SumTakesOut
<1> QED BY <1>3, <1>6, <1>7, <1>10, <1>11
-----------------------------------------------------------------------------
\* The sets of places ahead of each make a strict total order.
Orders(ahead) ==
  /\ \A i \in DOMAIN ahead : ahead[i] \subseteq DOMAIN ahead /\ i \notin ahead[i]
  /\ \A i, j \in DOMAIN ahead : i \in ahead[j] => ahead[i] \subseteq ahead[j]
  /\ \A i, j \in DOMAIN ahead : i # j => i \in ahead[j] \/ j \in ahead[i]

\* Fewer places are ahead of one than there are in all.
LEMMA AheadIsBelow ==
  ASSUME NEW ahead, IsFiniteSet(DOMAIN ahead), Orders(ahead), NEW i \in DOMAIN ahead
  PROVE  /\ IsFiniteSet(ahead[i])
         /\ Cardinality(ahead[i]) \in 0..Cardinality(DOMAIN ahead) - 1
<1>1. ahead[i] \subseteq DOMAIN ahead /\ i \notin ahead[i]
  BY DEF Orders
<1>2. /\ IsFiniteSet(ahead[i]) /\ Cardinality(ahead[i]) <= Cardinality(DOMAIN ahead)
      /\ Cardinality(DOMAIN ahead) # Cardinality(ahead[i])
  BY <1>1, FS_Subset
<1>3. Cardinality(ahead[i]) \in Nat /\ Cardinality(DOMAIN ahead) \in Nat
  BY <1>2, FS_CardinalityType
<1> QED BY <1>2, <1>3

\* More places are ahead of a later one.
LEMMA AheadGrows ==
  ASSUME NEW ahead, IsFiniteSet(DOMAIN ahead), Orders(ahead),
         NEW i \in DOMAIN ahead, NEW j \in DOMAIN ahead, i \in ahead[j]
  PROVE  Cardinality(ahead[i]) < Cardinality(ahead[j])
<1>1. ahead[i] \subseteq ahead[j] /\ i \notin ahead[i]
  BY DEF Orders
<1>2. /\ IsFiniteSet(ahead[j]) /\ Cardinality(ahead[i]) \in Int /\ Cardinality(ahead[j]) \in Int
  BY AheadIsBelow, FS_CardinalityType
<1>3. /\ Cardinality(ahead[i]) <= Cardinality(ahead[j])
      /\ Cardinality(ahead[j]) # Cardinality(ahead[i])
  BY <1>1, <1>2, FS_Subset
<1> QED BY <1>2, <1>3

\* Every place is listed once, and in order: how many are ahead of a place is an
\* injection into numbers of which there are no more than places.
LEMMA InOrderLists ==
  ASSUME NEW ahead, IsFiniteSet(DOMAIN ahead), Orders(ahead)
  PROVE  LET place == InOrder(ahead)
             D == DOMAIN ahead
             n == Cardinality(D)
         IN  /\ n \in Nat
             /\ place \in [1..n -> D]
             /\ \A k, l \in 1..n : k < l => place[k] \in ahead[place[l]]
             /\ \A k, l \in 1..n : k # l => place[k] # place[l]
             /\ \A i \in D : \E k \in 1..n : place[k] = i
<1> DEFINE place == InOrder(ahead)
           D == DOMAIN ahead
           n == Cardinality(D)
           rank == [i \in D |-> Cardinality(ahead[i])]
           ranks == 0..n - 1
<1>1. n \in Nat
  BY FS_CardinalityType
<1>2. IsFiniteSet(ranks) /\ Cardinality(ranks) = n
  <2> DEFINE top == n - 1
  <2>1. top \in Int
    BY <1>1
  <2> HIDE DEF top
  <2>2. IsFiniteSet(0..top) /\ Cardinality(0..top) = IF 0 > top THEN 0 ELSE top - 0 + 1
    BY <2>1, FS_Interval
  <2> QED BY <1>1, <2>2 DEF top
<1>3. \A i \in D : rank[i] \in ranks
  BY AheadIsBelow
<1>4. \A i, j \in D : i # j => rank[i] # rank[j]
  <2> SUFFICES ASSUME NEW i \in D, NEW j \in D, i # j PROVE rank[i] # rank[j]
    OBVIOUS
  <2>1. rank[i] \in Int /\ rank[j] \in Int
    BY <1>1, <1>3
  <2>2. i \in ahead[j] \/ j \in ahead[i]
    BY DEF Orders
  <2>3. rank[i] < rank[j] \/ rank[j] < rank[i]
    BY <2>2, AheadGrows
  <2> QED BY <2>1, <2>3
<1>5. \A k \in 1..n : \E i \in D : rank[i] = k - 1
  <2> HIDE DEF ranks, n
  <2>1. rank \in [D -> ranks]
    BY <1>3
  <2> HIDE DEF rank
  <2>2. rank \in Injection(D, ranks)
    BY <1>4, <2>1 DEF Injection, IsInjective
  <2>3. rank \in Surjection(D, ranks)
    BY <1>2, <2>2, FS_Injection DEF n
  <2>4. \A r \in ranks : \E i \in D : rank[i] = r
    BY <2>3 DEF Surjection
  <2>5. \A k \in 1..n : k - 1 \in ranks
    BY <1>1 DEF ranks
  <2> QED BY <2>4, <2>5
<1>6. \A k \in 1..n : place[k] \in D /\ rank[place[k]] = k - 1
  <2> SUFFICES ASSUME NEW k \in 1..n PROVE place[k] \in D /\ rank[place[k]] = k - 1
    OBVIOUS
  <2>1. place[k] = CHOOSE i \in D : Cardinality(ahead[i]) = k - 1
    BY DEF InOrder
  <2>2. \E i \in D : Cardinality(ahead[i]) = k - 1
    BY <1>5
  <2> HIDE DEF place
  <2>3. place[k] \in D /\ Cardinality(ahead[place[k]]) = k - 1
    BY <2>1, <2>2
  <2> QED BY <2>3
<1>7. place \in [1..n -> D]
  BY <1>6 DEF InOrder
<1>8. \A k, l \in 1..n : k # l => place[k] # place[l]
  <2> HIDE DEF place, rank
  <2> QED BY <1>1, <1>6
<1>9. \A k, l \in 1..n : k < l => place[k] \in ahead[place[l]]
  <2> SUFFICES ASSUME NEW k \in 1..n, NEW l \in 1..n, k < l PROVE place[k] \in ahead[place[l]]
    OBVIOUS
  <2> HIDE DEF place
  <2>1. /\ Cardinality(ahead[place[k]]) = k - 1 /\ Cardinality(ahead[place[l]]) = l - 1
        /\ place[k] \in D /\ place[l] \in D
    BY <1>6
  <2> HIDE DEF n, rank, ranks
  <2>2. k \in Int /\ l \in Int
    BY <1>1
  <2>3. place[k] # place[l]
    BY <2>1, <2>2
  <2>4. ~ (place[l] \in ahead[place[k]])
    <3>1. SUFFICES ASSUME place[l] \in ahead[place[k]] PROVE FALSE
      OBVIOUS
    <3>2. Cardinality(ahead[place[l]]) < Cardinality(ahead[place[k]])
      BY <2>1, <3>1, AheadGrows
    <3> QED BY <2>1, <2>2, <3>2
  <2> QED BY <2>1, <2>3, <2>4 DEF Orders
<1>10. \A i \in D : \E k \in 1..n : place[k] = i
  <2> SUFFICES ASSUME NEW i \in D PROVE \E k \in 1..n : place[k] = i
    OBVIOUS
  <2>1. rank[i] \in 0..n - 1
    BY <1>3
  <2> HIDE DEF place, n, rank, ranks
  <2>2. rank[i] + 1 \in 1..n /\ (rank[i] + 1) - 1 = rank[i]
    BY <1>1, <2>1
  <2>3. place[rank[i] + 1] \in D /\ rank[place[rank[i] + 1]] = rank[i]
    BY <1>6, <2>2
  <2>4. place[rank[i] + 1] = i
    BY <1>4, <2>3
  <2> QED BY <2>2, <2>4
<1> HIDE DEF place, n
<1>11. place \in [1..n -> D] /\ \A k, l \in 1..n : k < l => place[k] \in ahead[place[l]]
  BY <1>7, <1>9
<1> QED BY <1>1, <1>8, <1>10, <1>11 DEF place, n

\* What is listed is the list's, at the places in order.
LEMMA ListedIs ==
  ASSUME NEW s, NEW ahead, IsFiniteSet(DOMAIN ahead), Orders(ahead)
  PROVE  LET place == InOrder(ahead)
         IN  Listed(s, ahead) = [k \in 1..Cardinality(DOMAIN ahead) |-> s[place[k]]]
BY DEF Listed, InOrder

\* What a filter keeps, in the order of the list.
Ascending(D) == [i \in D |-> {j \in D : j < i}]

LEMMA AscendingOrders ==
  ASSUME NEW D, D \subseteq Int
  PROVE  Orders(Ascending(D)) /\ DOMAIN Ascending(D) = D
<1> DEFINE a == Ascending(D)
<1>1. DOMAIN a = D /\ \A i \in D : a[i] = {j \in D : j < i}
  BY DEF Ascending
<1> HIDE DEF a
<1>2. ASSUME NEW i \in D
      PROVE  a[i] \subseteq D /\ i \notin a[i]
  <2>1. i \in Int
    OBVIOUS
  <2> QED BY <1>1, <2>1
<1>3. ASSUME NEW i \in D, NEW j \in D, i \in a[j]
      PROVE  a[i] \subseteq a[j]
  <2>1. i \in Int /\ j \in Int /\ i < j
    BY <1>1, <1>3
  <2>2. ASSUME NEW h \in a[i]
        PROVE  h \in a[j]
    <3>1. h \in D /\ h \in Int /\ h < i
      BY <1>1, <2>2
    <3> QED BY <1>1, <2>1, <3>1
  <2> QED BY <2>2
<1>4. ASSUME NEW i \in D, NEW j \in D, i # j
      PROVE  i \in a[j] \/ j \in a[i]
  <2>1. i \in Int /\ j \in Int
    OBVIOUS
  <2> QED BY <1>1, <1>4, <2>1
<1>5. Orders(a)
  BY <1>1, <1>2, <1>3, <1>4 DEF Orders
<1> QED BY <1>1, <1>5 DEF a

LEMMA KeptInOrder ==
  ASSUME NEW n \in Nat, NEW D, D \subseteq 1..n
  PROVE  LET place == InOrder(Ascending(D))
             m == Cardinality(D)
         IN  /\ IsFiniteSet(D) /\ m \in Nat /\ m <= n
             /\ place \in [1..m -> D]
             /\ \A k, l \in 1..m : k < l => place[k] < place[l]
             /\ \A i \in D : \E k \in 1..m : place[k] = i
<1> DEFINE a == Ascending(D)
           place == InOrder(a)
           m == Cardinality(D)
<1>1. IsFiniteSet(D) /\ m \in Nat /\ m <= n
  <2>1. IsFiniteSet(1..n) /\ Cardinality(1..n) = n
    BY FS_Interval
  <2> QED BY <2>1, FS_Subset, FS_CardinalityType
<1>2. Orders(a) /\ DOMAIN a = D /\ \A i \in D : a[i] = {j \in D : j < i}
  <2>1. D \subseteq Int
    OBVIOUS
  <2>2. \A i \in D : a[i] = {j \in D : j < i}
    BY DEF Ascending
  <2> HIDE DEF a
  <2>3. Orders(a) /\ DOMAIN a = D
    BY <2>1, AscendingOrders DEF a
  <2> QED BY <2>2, <2>3
<1> HIDE DEF a
<1>3. /\ place \in [1..m -> D]
      /\ \A k, l \in 1..m : k < l => place[k] \in a[place[l]]
      /\ \A i \in D : \E k \in 1..m : place[k] = i
  BY <1>1, <1>2, InOrderLists
<1>4. \A k, l \in 1..m : k < l => place[k] < place[l]
  <2> HIDE DEF place
  <2> QED BY <1>2, <1>3
<1> HIDE DEF place, m
<1>5. place \in [1..m -> D] /\ \A i \in D : \E k \in 1..m : place[k] = i
  BY <1>3
<1> QED BY <1>1, <1>4, <1>5 DEF place, a, m

\* A filter that keeps a prefix lists the prefix.
LEMMA PrefixInOrder ==
  ASSUME NEW m \in Nat
  PROVE  InOrder(Ascending(1..m)) = [k \in 1..m |-> k]
<1> DEFINE D == 1..m
           a == Ascending(D)
           c(i) == Cardinality(a[i])
<1>1. Cardinality(D) = m /\ DOMAIN a = D
  BY FS_Interval DEF Ascending
<1>2. ASSUME NEW i \in D
      PROVE  c(i) = i - 1
  <2>1. a[i] = 1..i - 1
    BY DEF Ascending
  <2> DEFINE top == i - 1
  <2>2. top \in Nat
    OBVIOUS
  <2> HIDE DEF top
  <2>3. Cardinality(1..top) = top
    BY <2>2, FS_Interval
  <2> QED BY <2>1, <2>3 DEF top
<1>3. InOrder(a) = [k \in 1..m |-> CHOOSE i \in D : c(i) = k - 1]
  BY <1>1 DEF InOrder
<1> HIDE DEF c
<1>4. ASSUME NEW k \in 1..m
      PROVE  (CHOOSE i \in D : c(i) = k - 1) = k
  <2>1. k \in D /\ c(k) = k - 1
    BY <1>2
  <2>2. \A i \in D : c(i) = k - 1 => i = k
    BY <1>2
  <2> QED BY <2>1, <2>2
<1> QED BY <1>3, <1>4

\* A filter that keeps what is before whatever it keeps keeps a prefix.
LEMMA DownwardClosed ==
  ASSUME NEW n \in Nat, NEW D, D \subseteq 1..n,
         \A i, j \in 1..n : j \in D /\ i < j => i \in D
  PROVE  \E m \in 0..n : D = 1..m
<1>1. CASE D = {}
  <2>1. D = 1..0 /\ 0 \in 0..n
    BY <1>1
  <2> QED BY <2>1
<1>2. CASE D # {}
  <2> DEFINE place == InOrder(Ascending(D))
             c == Cardinality(D)
  <2>1. /\ IsFiniteSet(D) /\ c \in Nat
        /\ place \in [1..c -> D]
        /\ \A k, l \in 1..c : k < l => place[k] < place[l]
        /\ \A i \in D : \E k \in 1..c : place[k] = i
    BY KeptInOrder
  <2>2. c # 0
    BY <1>2, <2>1, FS_EmptySet
  <2> HIDE DEF place, c
  <2> DEFINE m == place[c]
  <2>3. c \in 1..c
    BY <2>1, <2>2
  <2>4. m \in D
    BY <2>1, <2>3
  <2>5. ASSUME NEW i \in D
        PROVE  i <= m
    <3>1. PICK k \in 1..c : place[k] = i
      BY <2>1
    <3>2. k < c \/ k = c
      BY <2>1
    <3>3. k < c => i < m
      BY <2>1, <2>3, <3>1
    <3>4. k = c => i = m
      BY <3>1
    <3> HIDE DEF m
    <3>5. i \in 1..n /\ m \in 1..n
      BY <2>4
    <3> QED BY <3>2, <3>3, <3>4, <3>5
  <2> HIDE DEF m
  <2>6. m \in 1..n
    BY <2>4
  <2>7. \A i \in 1..m : i \in D
    BY <2>4, <2>6
  <2>8. ASSUME NEW i \in D
        PROVE  i \in 1..m
    <3>1. i \in 1..n /\ i <= m
      BY <2>5
    <3> QED BY <2>6, <3>1
  <2>9. D = 1..m
    BY <2>7, <2>8
  <2> QED BY <2>6, <2>9
<1> QED BY <1>1, <1>2

\* There is a first place.
LEMMA OneIsForemost ==
  ASSUME NEW ahead, IsFiniteSet(DOMAIN ahead), Orders(ahead), DOMAIN ahead # {}
  PROVE  \E i \in DOMAIN ahead : \A j \in DOMAIN ahead \ {i} : i \in ahead[j]
<1> DEFINE D == DOMAIN ahead
           place == InOrder(ahead)
           n == Cardinality(D)
<1>1. /\ n \in Nat
      /\ place \in [1..n -> D]
      /\ \A k, l \in 1..n : k < l => place[k] \in ahead[place[l]]
      /\ \A i \in D : \E k \in 1..n : place[k] = i
  BY InOrderLists
<1>2. n # 0
  BY FS_EmptySet
<1> HIDE DEF place, n
<1>3. 1 \in 1..n /\ place[1] \in D
  BY <1>1, <1>2
<1>4. ASSUME NEW j \in D \ {place[1]}
      PROVE  place[1] \in ahead[j]
  <2>1. PICK k \in 1..n : place[k] = j
    BY <1>1
  <2>2. 1 < k
    BY <1>1, <1>4, <2>1
  <2> QED BY <1>1, <1>3, <2>1, <2>2
<1> QED BY <1>3, <1>4

\* Sorting is a bijection of the places.
LEMMA SortedIs ==
  ASSUME NEW n \in Nat, NEW s, DOMAIN s = 1..n,
         NEW ahead, DOMAIN ahead = 1..n, Orders(ahead)
  PROVE  LET place == InOrder(ahead)
         IN  /\ place \in [1..n -> 1..n]
             /\ Listed(s, ahead) = [k \in 1..n |-> s[place[k]]]
             /\ \A k, l \in 1..n : k < l => place[k] \in ahead[place[l]]
             /\ \A k, l \in 1..n : k # l => place[k] # place[l]
             /\ \A i \in 1..n : \E k \in 1..n : place[k] = i
<1> DEFINE D == 1..n
           place == InOrder(ahead)
<1>1. IsFiniteSet(D) /\ Cardinality(D) = n
  BY FS_Interval
<1>2. /\ place \in [1..n -> D]
      /\ \A k, l \in 1..n : k < l => place[k] \in ahead[place[l]]
      /\ \A k, l \in 1..n : k # l => place[k] # place[l]
      /\ \A i \in D : \E k \in 1..n : place[k] = i
  <2> HIDE DEF D
  <2>1. DOMAIN ahead = D
    BY DEF D
  <2>2. Cardinality(DOMAIN ahead) = n /\ IsFiniteSet(DOMAIN ahead)
    BY <1>1, <2>1
  <2> QED BY <2>1, <2>2, InOrderLists
<1>3. Listed(s, ahead) = [k \in 1..n |-> s[place[k]]]
  BY <1>1, ListedIs
<1> QED BY <1>2, <1>3

\* A product is as large as another when a positive multiple of it is.
LEMMA CancelFactor ==
  ASSUME NEW x \in Int, NEW y \in Int, NEW d \in Int, d > 0
  PROVE  /\ d * x >= d * y <=> x >= y
         /\ d * x > d * y <=> x > y
OBVIOUS

\* Fractions compared by cross-multiplying are ordered.
LEMMA FractionsTransitive ==
  ASSUME NEW a \in Int, NEW b \in Int, NEW c \in Int,
         NEW k \in Int, NEW l \in Int, NEW m \in Int, k > 0, l > 0, m > 0,
         a * l >= b * k, b * m >= c * l
  PROVE  /\ a * m >= c * k
         /\ a * l > b * k => a * m > c * k
         /\ b * m > c * l => a * m > c * k
<1> DEFINE al == a * l
           bk == b * k
           bm == b * m
           cl == c * l
           am == a * m
           ck == c * k
<1>1. al \in Int /\ bk \in Int /\ bm \in Int /\ cl \in Int /\ am \in Int /\ ck \in Int
  OBVIOUS
<1>2. m * al = l * am /\ m * bk = k * bm /\ k * cl = l * ck
  OBVIOUS
<1> HIDE DEF al, bk, bm, cl, am, ck
<1>3. al >= bk /\ bm >= cl
  BY DEF al, bk, bm, cl
<1>4. m * al >= m * bk /\ k * bm >= k * cl
  BY <1>1, <1>3, CancelFactor
<1>5. l * am >= l * ck
  BY <1>1, <1>2, <1>4
<1>6. am >= ck
  BY <1>1, <1>5, CancelFactor
<1>7. ASSUME al > bk
      PROVE  am > ck
  <2>1. m * al > m * bk
    BY <1>1, <1>7, CancelFactor
  <2>2. l * am > l * ck
    BY <1>1, <1>2, <1>4, <2>1
  <2> QED BY <1>1, <2>2, CancelFactor
<1>8. ASSUME bm > cl
      PROVE  am > ck
  <2>1. k * bm > k * cl
    BY <1>1, <1>8, CancelFactor
  <2>2. l * am > l * ck
    BY <1>1, <1>2, <1>4, <2>1
  <2> QED BY <1>1, <2>2, CancelFactor
<1> QED BY <1>6, <1>7, <1>8 DEF al, bk, bm, cl, am, ck

\* A stable sort by a fraction, the largest first, orders the places.
LEMMA FractionsOrder ==
  ASSUME NEW D, D \subseteq Int, NEW num, NEW den,
         \A i \in D : num[i] \in Int /\ den[i] \in Int /\ den[i] > 0,
         NEW ahead, DOMAIN ahead = D, \A i \in D : ahead[i] \subseteq D,
         \A i, j \in D : i \in ahead[j] <=>
           (num[i] * den[j] > num[j] * den[i]) \/ (i < j /\ ~ (num[j] * den[i] > num[i] * den[j]))
  PROVE  Orders(ahead)
<1> DEFINE Wins(i, j) == num[i] * den[j] > num[j] * den[i]
           AtLeast(i, j) == num[i] * den[j] >= num[j] * den[i]
<1>1. ASSUME NEW i \in D, NEW j \in D
      PROVE  /\ i \in ahead[j] <=> Wins(i, j) \/ (i < j /\ ~ Wins(j, i))
             /\ ~ Wins(j, i) <=> AtLeast(i, j)
             /\ Wins(i, j) => AtLeast(i, j)
             /\ i \in Int /\ j \in Int
  <2> DEFINE x == num[i] * den[j]
             y == num[j] * den[i]
  <2>1. x \in Int /\ y \in Int
    OBVIOUS
  <2>2. i \in ahead[j] <=> x > y \/ (i < j /\ ~ (y > x))
    OBVIOUS
  <2> HIDE DEF x, y
  <2>3. (~ (y > x) <=> x >= y) /\ (x > y => x >= y)
    BY <2>1
  <2> QED BY <2>2, <2>3 DEF x, y
<1>2. ASSUME NEW h \in D, NEW i \in D, NEW j \in D, AtLeast(h, i), AtLeast(i, j)
      PROVE  /\ AtLeast(h, j)
             /\ Wins(h, i) => Wins(h, j)
             /\ Wins(i, j) => Wins(h, j)
  <2> DEFINE a == num[h]
             b == num[i]
             c == num[j]
             k == den[h]
             l == den[i]
             m == den[j]
  <2>1. /\ a \in Int /\ b \in Int /\ c \in Int /\ k \in Int /\ l \in Int /\ m \in Int
        /\ k > 0 /\ l > 0 /\ m > 0
    OBVIOUS
  <2>2. a * l >= b * k /\ b * m >= c * l
    BY <1>2
  <2> HIDE DEF a, b, c, k, l, m
  <2>3. /\ a * m >= c * k
        /\ a * l > b * k => a * m > c * k
        /\ b * m > c * l => a * m > c * k
    BY <2>1, <2>2, FractionsTransitive
  <2> QED BY <2>3 DEF a, b, c, k, l, m
<1> HIDE DEF Wins, AtLeast
<1>3. ASSUME NEW i \in D
      PROVE  ahead[i] \subseteq D /\ i \notin ahead[i]
  <2>1. ~ (i < i)
    BY <1>1
  <2> QED BY <1>1, <2>1
<1>4. ASSUME NEW i \in D, NEW j \in D, i \in ahead[j]
      PROVE  ahead[i] \subseteq ahead[j]
  <2>1. SUFFICES ASSUME NEW h \in ahead[i] PROVE h \in ahead[j]
    OBVIOUS
  <2>2. h \in D
    OBVIOUS
  <2>3. AtLeast(h, i) /\ AtLeast(i, j)
    BY <1>1, <1>4, <2>1, <2>2
  <2>4. Wins(h, i) \/ (h < i /\ ~ Wins(i, h))
    BY <1>1, <2>1, <2>2
  <2>5. Wins(i, j) \/ (i < j /\ ~ Wins(j, i))
    BY <1>1, <1>4
  <2>6. AtLeast(h, j)
    BY <1>2, <2>2, <2>3
  <2>7. CASE Wins(h, i) \/ Wins(i, j)
    BY <1>1, <1>2, <2>2, <2>3, <2>7
  <2>8. CASE h < i /\ i < j
    <3>1. h \in Int /\ i \in Int /\ j \in Int
      BY <2>2
    <3>2. h < j
      BY <2>8, <3>1
    <3> QED BY <1>1, <2>2, <2>6, <3>2
  <2> QED BY <2>4, <2>5, <2>7, <2>8
<1>5. ASSUME NEW i \in D, NEW j \in D, i # j
      PROVE  i \in ahead[j] \/ j \in ahead[i]
  <2>1. i \in Int /\ j \in Int
    OBVIOUS
  <2>2. i < j \/ j < i
    BY <1>5, <2>1
  <2> QED BY <1>1, <2>2
<1> QED BY <1>3, <1>4, <1>5 DEF Orders
-----------------------------------------------------------------------------
(* Induction up to a number and down from it, and what follows by it.       *)

\* Induction up to a number, on the set of what is proved so far.
LEMMA CountingUp ==
  ASSUME NEW n \in Nat, NEW D, 0 \in D, \A i \in 0..n - 1 : i \in D => i + 1 \in D
  PROVE  \A i \in 0..n : i \in D
<1> DEFINE G == {i \in 1..n : \A j \in 0..i : j \in D}
<1>1. \E m \in 0..n : G = 1..m
  <2>1. G \subseteq 1..n
    OBVIOUS
  <2>2. ASSUME NEW i \in 1..n, NEW j \in 1..n, j \in G, i < j
        PROVE  i \in G
    <3>1. 0..i \subseteq 0..j
      BY <2>2
    <3> QED BY <2>2, <3>1
  <2> HIDE DEF G
  <2>3. \A i, j \in 1..n : j \in G /\ i < j => i \in G
    BY <2>2
  <2> QED BY <2>1, <2>3, DownwardClosed
<1>2. PICK m \in 0..n : G = 1..m
  BY <1>1
<1>3. \A j \in 0..m : j \in D
  <2>1. CASE m = 0
    BY <2>1
  <2>2. CASE m # 0
    <3>1. m \in 1..m
      BY <2>2
    <3>2. m \in G
      BY <1>2, <3>1
    <3> QED BY <3>2
  <2> QED BY <2>1, <2>2
<1>4. m = n
  <2> SUFFICES ASSUME m # n PROVE FALSE
    OBVIOUS
  <2>1. m \in 0..n - 1 /\ m \in 0..m
    OBVIOUS
  <2>2. m + 1 \in D
    BY <1>3, <2>1
  <2>3. m + 1 \in 1..n /\ \A j \in 0..m + 1 : j \in 0..m \/ j = m + 1
    OBVIOUS
  <2>4. m + 1 \in G
    BY <1>3, <2>2, <2>3
  <2>5. m + 1 \notin 1..m
    OBVIOUS
  <2> QED BY <1>2, <2>4, <2>5
<1> QED BY <1>3, <1>4

\* And down from it.
LEMMA CountingDown ==
  ASSUME NEW n \in Nat, NEW k \in 0..n, NEW D, n \in D,
         \A i \in k + 1..n : i \in D => i - 1 \in D
  PROVE  \A i \in k..n : i \in D
<1> DEFINE h == n - k
           E == {i \in 0..h : n - i \in D}
<1>1. h \in Nat /\ 0 \in E
  OBVIOUS
<1>2. ASSUME NEW i \in 0..h - 1, i \in E
      PROVE  i + 1 \in E
  <2>1. n - i \in D /\ n - i \in k + 1..n
    BY <1>2
  <2>2. (n - i) - 1 \in D
    BY <2>1
  <2>3. (n - i) - 1 = n - (i + 1) /\ i + 1 \in 0..h
    OBVIOUS
  <2> QED BY <2>2, <2>3
<1> HIDE DEF E
<1>3. \A i \in 0..h : i \in E
  <2> HIDE DEF h
  <2> QED BY <1>1, <1>2, CountingUp
<1>4. ASSUME NEW i \in k..n
      PROVE  i \in D
  <2>1. n - i \in 0..h
    OBVIOUS
  <2>2. n - (n - i) \in D
    BY <1>3, <2>1 DEF E
  <2> QED BY <2>2
<1> QED BY <1>4

\* A sum of differences is the difference of the ends.
LEMMA SumTelescopes ==
  ASSUME NEW n \in Nat, NEW F, \A i \in 0..n : F[i] \in Int,
         NEW d, \A i \in 1..n : d[i] = F[i] - F[i - 1]
  PROVE  SumFunctionOnSet(d, 1..n) = F[n] - F[0]
<1> DEFINE D == {i \in 0..n : SumFunctionOnSet(d, 1..i) = F[i] - F[0]}
<1>1. 0 \in D
  <2>1. 1..0 = {} /\ 0 \in 0..n
    OBVIOUS
  <2>2. SumFunctionOnSet(d, 1..0) = 0 /\ F[0] \in Int
    BY <2>1, SumOfNone
  <2> QED BY <2>1, <2>2
<1>2. ASSUME NEW i \in 0..n - 1, i \in D
      PROVE  i + 1 \in D
  <2>1. SumFunctionOnSet(d, 1..i) = F[i] - F[0]
    BY <1>2
  <2> DEFINE S == 1..i
             a == i + 1
  <2>2. a \in 1..n /\ a \in 0..n /\ a \notin S /\ 1..a = S \cup {a} /\ a - 1 = i /\ i \in 0..n
    OBVIOUS
  <2>3. d[a] = F[a] - F[i] /\ F[a] \in Int /\ F[i] \in Int /\ F[0] \in Int
    BY <2>2
  <2>4. IsFiniteSet(S)
    BY FS_Interval
  <2>5. \A x \in S : d[x] \in Int
    <3> SUFFICES ASSUME NEW x \in S PROVE d[x] \in Int
      OBVIOUS
    <3>1. x \in 1..n /\ x \in 0..n /\ x - 1 \in 0..n
      OBVIOUS
    <3> QED BY <3>1
  <2>6. SumFunctionOnSet(d, S) = F[i] - F[0]
    BY <2>1
  <2>7. SumFunctionOnSet(d, 1..a) = SumFunctionOnSet(d, S \cup {a})
    BY <2>2
  <2> HIDE DEF S, a
  <2>8. SumFunctionOnSet(d, S \cup {a}) = SumFunctionOnSet(d, S) + d[a]
    BY <2>2, <2>3, <2>4, <2>5, SumTakesIn
  <2>9. SumFunctionOnSet(d, 1..a) = F[a] - F[0]
    BY <2>3, <2>8, <2>6, <2>7
  <2> QED BY <2>2, <2>9 DEF a
<1> HIDE DEF D
<1>3. n \in D
  BY <1>1, <1>2, CountingUp
<1> QED BY <1>3 DEF D

\* The highest number of a set.
LEMMA Highest ==
  ASSUME NEW n \in Nat, NEW D, D \subseteq 1..n, D # {}
  PROVE  \E k \in D : \A j \in D : j <= k
<1> DEFINE G == {i \in 1..n : \E j \in D : i <= j}
<1>1. \A i, j \in 1..n : j \in G /\ i < j => i \in G
  OBVIOUS
<1>2. D \subseteq G /\ G \subseteq 1..n
  OBVIOUS
<1>3. \A i \in G : \E j \in D : i <= j
  OBVIOUS
<1> HIDE DEF G
<1>4. PICK t \in 0..n : G = 1..t
  BY <1>1, <1>2, DownwardClosed
<1>5. t \in G
  <2>1. t # 0
    <3>1. PICK e \in D : TRUE
      OBVIOUS
    <3>2. e \in 1..t
      BY <1>2, <1>4
    <3> QED BY <3>2
  <2>2. t \in 1..t
    BY <2>1
  <2> QED BY <1>4, <2>2
<1>6. PICK k \in D : t <= k
  BY <1>3, <1>5
<1>7. \A j \in D : j \in 1..t
  BY <1>2, <1>4
<1> QED BY <1>6, <1>7

-----------------------------------------------------------------------------
(* A list cut and extended.                                                 *)

\* A stretch of a list.
LEMMA SliceIs ==
  ASSUME NEW m \in Nat, NEW s, NEW k \in 0..m, NEW l \in k..m
  PROVE  /\ SubSeq(s, k + 1, l) = [x \in 1..l - k |-> s[x + k]]
         /\ Len(SubSeq(s, k + 1, l)) = l - k
<1> DEFINE u == SubSeq(s, k + 1, l)
           S == {s[b] : b \in 1..m}
           h == l - k
           a == k + 1
<1>1. h \in Nat /\ a \in Int /\ l \in Int /\ l - a + 1 = h /\ (a <= l <=> h > 0)
  OBVIOUS
<1>2. \A i \in a..l : s[i] \in S
  OBVIOUS
<1>3. \A x \in 1..h : a + x - 1 = x + k
  OBVIOUS
<1> HIDE DEF S, h, a
<1>4. /\ SubSeq(s, a, l) \in Seq(S)
      /\ Len(SubSeq(s, a, l)) = IF a <= l THEN l - a + 1 ELSE 0
      /\ \A i \in 1..l - a + 1 : SubSeq(s, a, l)[i] = s[a + i - 1]
  BY <1>1, <1>2, SubSeqProperties
<1>5. u \in Seq(S) /\ Len(u) = h /\ \A x \in 1..h : u[x] = s[x + k]
  BY <1>1, <1>3, <1>4 DEF a
<1> HIDE DEF u
<1>6. u = [x \in 1..h |-> u[x]]
  BY <1>5
<1>7. [x \in 1..h |-> u[x]] = [x \in 1..h |-> s[x + k]]
  BY <1>5
<1> QED BY <1>5, <1>6, <1>7 DEF h, u

LEMMA SliceOfAll ==
  ASSUME NEW m \in Nat, NEW s, s = [b \in 1..m |-> s[b]]
  PROVE  SubSeq(s, 1, m) = s /\ Len(s) = m
<1>1. Len(s) = m
  OBVIOUS
<1>2. 0 \in 0..m /\ m \in 0..m /\ 0 + 1 = 1 /\ m - 0 = m /\ \A x \in 1..m : x + 0 = x
  OBVIOUS
<1>3. SubSeq(s, 0 + 1, m) = [x \in 1..m - 0 |-> s[x + 0]]
  BY <1>2, SliceIs
<1> QED BY <1>1, <1>2, <1>3

\* A list with one more.
LEMMA AppendIs ==
  ASSUME NEW k \in Nat, NEW s, s = [x \in 1..k |-> s[x]], NEW e
  PROVE  Append(s, e) = [x \in 1..k + 1 |-> IF x <= k THEN s[x] ELSE e]
<1> DEFINE S == {s[x] : x \in 1..k} \cup {e}
           t == Append(s, e)
<1>1. s \in Seq(S) /\ e \in S /\ Len(s) = k
  <2>1. \A x \in 1..k : s[x] \in S
    OBVIOUS
  <2>2. e \in S
    OBVIOUS
  <2> HIDE DEF S
  <2>3. [x \in 1..k |-> s[x]] \in Seq(S)
    BY <2>1
  <2> QED BY <2>2, <2>3
<1> HIDE DEF S
<1>2. /\ t \in Seq(S) /\ Len(t) = k + 1
      /\ \A x \in 1..k : t[x] = s[x]
      /\ t[k + 1] = e
  BY <1>1, AppendProperties
<1> HIDE DEF t
<1>3. t = [x \in 1..k + 1 |-> t[x]]
  BY <1>2
<1>4. \A x \in 1..k + 1 : t[x] = IF x <= k THEN s[x] ELSE e
  <2> SUFFICES ASSUME NEW x \in 1..k + 1 PROVE t[x] = IF x <= k THEN s[x] ELSE e
    OBVIOUS
  <2>1. x \in 1..k \/ x = k + 1
    OBVIOUS
  <2> QED BY <1>2, <2>1
<1> QED BY <1>3, <1>4 DEF t

-----------------------------------------------------------------------------
(* Lines through the places of a curve with heights F above the points H.   *)

\* A place above the first of two chords, the second flatter, is above the chord of both.
LEMMA LeftOfBend ==
  ASSUME NEW u \in Int, NEW v \in Int, NEW dx \in Int, NEW dy \in Int, NEW ex \in Int, NEW ey \in Int,
         dx > 0, ex > 0, u >= 0, v * dx >= dy * u, dy * ex >= ey * dx
  PROVE  v * (dx + ex) >= (dy + ey) * u
<1> DEFINE X == v * dx
           Y == dy * u
           W == dy * ex
           Z == ey * dx
           d == dx + ex
           A == v * (dx + ex)
           B == (dy + ey) * u
<1>1. X \in Int /\ Y \in Int /\ W \in Int /\ Z \in Int /\ d \in Int /\ A \in Int /\ B \in Int /\ d > 0
  OBVIOUS
<1>2. dx * A = d * X
  OBVIOUS
<1>3. dx * B = dx * Y + u * Z
  OBVIOUS
<1>4. d * Y = dx * Y + u * W
  OBVIOUS
<1>5. X >= Y /\ W >= Z
  OBVIOUS
<1> HIDE DEF X, Y, W, Z, d, A, B
<1>6. d * X >= d * Y
  BY <1>1, <1>5, CancelFactor
<1>7. u * W >= u * Z
  <2>1. CASE u = 0
    BY <1>1, <2>1
  <2>2. CASE u > 0
    BY <1>1, <1>5, <2>2, CancelFactor
  <2> QED BY <2>1, <2>2
<1>8. dx * A >= dx * B
  <2> DEFINE a == dx * A
             b == dx * B
             x == d * X
             y == d * Y
             z == u * Z
             w == u * W
             t == dx * Y
  <2>1. a \in Int /\ b \in Int /\ x \in Int /\ y \in Int /\ z \in Int /\ w \in Int /\ t \in Int
    BY <1>1
  <2>2. a = x /\ b = t + z /\ y = t + w /\ x >= y /\ w >= z
    BY <1>2, <1>3, <1>4, <1>6, <1>7
  <2> HIDE DEF a, b, x, y, z, w, t
  <2>3. a >= b
    BY <2>1, <2>2
  <2> QED BY <2>3 DEF a, b
<1>9. A >= B
  BY <1>1, <1>8, CancelFactor
<1> QED BY <1>9 DEF A, B

\* And so is one above the second.
LEMMA RightOfBend ==
  ASSUME NEW u \in Int, NEW v \in Int, NEW dx \in Int, NEW dy \in Int, NEW ex \in Int, NEW ey \in Int,
         dx > 0, ex > 0, u <= ex, v * ex >= ey * u, dy * ex >= ey * dx
  PROVE  (dy + v) * (dx + ex) >= (dy + ey) * (dx + u)
<1> DEFINE h == ex - u
           z == ey - v
\* Seen from the other end.
<1>1. h \in Int /\ z \in Int /\ h >= 0
  OBVIOUS
<1>2. (-z) * ex >= (-ey) * h
  <2>1. (-z) * ex = v * ex - ey * ex /\ (-ey) * h = ey * u - ey * ex
    OBVIOUS
  <2> DEFINE a == v * ex
             b == ey * u
             c == ey * ex
             e == (-z) * ex
             f == (-ey) * h
  <2>2. a \in Int /\ b \in Int /\ c \in Int /\ a >= b /\ e = a - c /\ f = b - c
    BY <2>1
  <2> HIDE DEF a, b, c, e, f
  <2>3. e >= f
    BY <2>2
  <2> QED BY <2>3 DEF e, f
<1>3. (-ey) * dx >= (-dy) * ex
  <2> DEFINE a == dy * ex
             b == ey * dx
             e == (-ey) * dx
             f == (-dy) * ex
  <2>1. a \in Int /\ b \in Int /\ a >= b /\ e = -b /\ f = -a
    OBVIOUS
  <2> HIDE DEF a, b, e, f
  <2>2. e >= f
    BY <2>1
  <2> QED BY <2>2 DEF e, f
<1> DEFINE a == -z
           b == -ey
           c == -dy
<1>4. a \in Int /\ b \in Int /\ c \in Int
  OBVIOUS
<1> HIDE DEF a, b, c, h, z
<1>5. a * ex >= b * h /\ b * dx >= c * ex
  BY <1>2, <1>3 DEF a, b, c
<1>6. a * (ex + dx) >= (b + c) * h
  BY <1>1, <1>4, <1>5, LeftOfBend
<1>7. (dy + v) * (dx + ex) - (dy + ey) * (dx + u) = a * (ex + dx) - (b + c) * h
  BY DEF a, b, c, h, z
<1> DEFINE p == (dy + v) * (dx + ex)
           q == (dy + ey) * (dx + u)
           x == a * (ex + dx)
           y == (b + c) * h
<1>8. p \in Int /\ q \in Int /\ x \in Int /\ y \in Int /\ p - q = x - y /\ x >= y
  BY <1>1, <1>4, <1>6, <1>7
<1> HIDE DEF p, q, x, y
<1>9. p >= q
  BY <1>8
<1> QED BY <1>9 DEF p, q

\* What lies left of a chord and above its line lies above a steeper line through its end.
LEMMA LeftOfSteeper ==
  ASSUME NEW w \in Int, NEW z \in Int, NEW dx \in Int, NEW dy \in Int, NEW ex \in Int, NEW ey \in Int,
         dx > 0, ex > 0, w >= 0, dy * w >= z * dx, ey * dx >= dy * ex
  PROVE  ey * w >= z * ex
<1> DEFINE A == ey * w
           B == z * ex
           p == ey * dx
           q == dy * ex
           r == dy * w
           s == z * dx
<1>1. A \in Int /\ B \in Int /\ p \in Int /\ q \in Int /\ r \in Int /\ s \in Int
  OBVIOUS
<1>2. dx * A = w * p /\ w * q = ex * r /\ dx * B = ex * s /\ p >= q /\ r >= s
  OBVIOUS
<1> HIDE DEF A, B, p, q, r, s
<1>3. ex * r >= ex * s
  BY <1>1, <1>2, CancelFactor
<1>4. w * p >= w * q
  <2>1. CASE w = 0
    BY <1>1, <2>1
  <2>2. CASE w > 0
    BY <1>1, <1>2, <2>2, CancelFactor
  <2> QED BY <2>1, <2>2
<1>5. dx * A >= dx * B
  <2> DEFINE f == dx * A
             g == dx * B
             h == w * p
             i == w * q
             j == ex * r
             k == ex * s
  <2>1. f \in Int /\ g \in Int /\ h \in Int /\ i \in Int /\ j \in Int /\ k \in Int
    BY <1>1
  <2>2. f = h /\ i = j /\ g = k /\ j >= k /\ h >= i
    BY <1>2, <1>3, <1>4
  <2> HIDE DEF f, g, h, i, j, k
  <2>3. f >= g
    BY <2>1, <2>2
  <2> QED BY <2>3 DEF f, g
<1>6. A >= B
  BY <1>1, <1>5, CancelFactor
<1> QED BY <1>6 DEF A, B

\* Place p is on or above the line through l and r, and the line through l and r is no
\* flatter than the one through a and b.
Above(F, H, l, r, p) == (F[p] - F[l]) * (H[r] - H[l]) >= (F[r] - F[l]) * (H[p] - H[l])

NoFlatter(F, H, l, r, a, b) == (F[r] - F[l]) * (H[b] - H[a]) >= (F[b] - F[a]) * (H[r] - H[l])

\* Left or right of where a line bends up, a place above its part is above the chord.
LEMMA AboveLeftOfBend ==
  ASSUME NEW F, NEW H, NEW l, NEW c, NEW r, NEW p,
         \A x \in {l, c, r, p} : F[x] \in Int /\ H[x] \in Int,
         H[l] < H[c], H[c] < H[r], H[l] <= H[p],
         Above(F, H, l, c, p), NoFlatter(F, H, l, c, c, r)
  PROVE  Above(F, H, l, r, p)
<1> DEFINE u == H[p] - H[l]
           v == F[p] - F[l]
           dx == H[c] - H[l]
           dy == F[c] - F[l]
           ex == H[r] - H[c]
           ey == F[r] - F[c]
<1>1. u \in Int /\ v \in Int /\ dx \in Int /\ dy \in Int /\ ex \in Int /\ ey \in Int
      /\ dx > 0 /\ ex > 0 /\ u >= 0
  OBVIOUS
<1>2. H[r] - H[l] = dx + ex /\ F[r] - F[l] = dy + ey
  OBVIOUS
<1>3. v * dx >= dy * u /\ dy * ex >= ey * dx
  BY DEF Above, NoFlatter
<1>4. Above(F, H, l, r, p) <=> v * (dx + ex) >= (dy + ey) * u
  BY <1>2 DEF Above
<1> HIDE DEF u, v, dx, dy, ex, ey
<1> QED BY <1>1, <1>3, <1>4, LeftOfBend

LEMMA AboveRightOfBend ==
  ASSUME NEW F, NEW H, NEW l, NEW c, NEW r, NEW p,
         \A x \in {l, c, r, p} : F[x] \in Int /\ H[x] \in Int,
         H[l] < H[c], H[c] < H[r], H[p] <= H[r],
         Above(F, H, c, r, p), NoFlatter(F, H, l, c, c, r)
  PROVE  Above(F, H, l, r, p)
<1> DEFINE u == H[p] - H[c]
           v == F[p] - F[c]
           dx == H[c] - H[l]
           dy == F[c] - F[l]
           ex == H[r] - H[c]
           ey == F[r] - F[c]
<1>1. u \in Int /\ v \in Int /\ dx \in Int /\ dy \in Int /\ ex \in Int /\ ey \in Int
      /\ dx > 0 /\ ex > 0 /\ u <= ex
  OBVIOUS
<1>2. /\ H[r] - H[l] = dx + ex /\ F[r] - F[l] = dy + ey
      /\ H[p] - H[l] = dx + u /\ F[p] - F[l] = dy + v
  OBVIOUS
<1>3. v * ex >= ey * u /\ dy * ex >= ey * dx
  BY DEF Above, NoFlatter
<1>4. Above(F, H, l, r, p) <=> (dy + v) * (dx + ex) >= (dy + ey) * (dx + u)
  BY <1>2 DEF Above
<1> HIDE DEF u, v, dx, dy, ex, ey
<1> QED BY <1>1, <1>3, <1>4, RightOfBend

\* A place above a line lies left of the start of a steeper one, or is followed by one.
LEMMA AboveSteeperLeft ==
  ASSUME NEW F, NEW H, NEW a, NEW l, NEW r, NEW p,
         \A x \in {a, l, r, p} : F[x] \in Int /\ H[x] \in Int,
         H[a] < H[l], H[l] < H[r], H[p] <= H[l],
         Above(F, H, a, l, p), NoFlatter(F, H, l, r, a, l)
  PROVE  Above(F, H, l, r, p)
<1> DEFINE w == H[l] - H[p]
           z == F[l] - F[p]
           dx == H[l] - H[a]
           dy == F[l] - F[a]
           ex == H[r] - H[l]
           ey == F[r] - F[l]
<1>1. w \in Int /\ z \in Int /\ dx \in Int /\ dy \in Int /\ ex \in Int /\ ey \in Int
      /\ dx > 0 /\ ex > 0 /\ w >= 0
  OBVIOUS
<1>2. /\ H[p] - H[a] = dx - w /\ F[p] - F[a] = dy - z
      /\ H[p] - H[l] = -w /\ F[p] - F[l] = -z
  OBVIOUS
<1>3. (dy - z) * dx >= dy * (dx - w) /\ ey * dx >= dy * ex
  BY <1>2 DEF Above, NoFlatter
<1>4. Above(F, H, l, r, p) <=> (-z) * ex >= ey * (-w)
  BY <1>2 DEF Above
<1> HIDE DEF w, z, dx, dy, ex, ey
<1>5. dy * w >= z * dx
  <2> DEFINE x == dy * dx
             y == z * dx
             t == dy * w
  <2>1. (dy - z) * dx = x - y /\ dy * (dx - w) = x - t /\ x \in Int /\ y \in Int /\ t \in Int
    BY <1>1
  <2>2. x - y >= x - t
    BY <1>3, <2>1
  <2> HIDE DEF x, y, t
  <2>3. t >= y
    BY <2>1, <2>2
  <2> QED BY <2>3 DEF t, y
<1>6. ey * w >= z * ex
  BY <1>1, <1>3, <1>5, LeftOfSteeper
<1>7. (-z) * ex >= ey * (-w)
  <2> DEFINE x == ey * w
             y == z * ex
             s == (-z) * ex
             t == ey * (-w)
  <2>1. s = -y /\ t = -x /\ x \in Int /\ y \in Int /\ x >= y
    BY <1>1, <1>6
  <2> HIDE DEF x, y, s, t
  <2>2. s >= t
    BY <2>1
  <2> QED BY <2>2 DEF s, t
<1> QED BY <1>4, <1>7

LEMMA AboveSteeperRight ==
  ASSUME NEW F, NEW H, NEW a, NEW b, NEW l, NEW r,
         \A x \in {a, b, l, r} : F[x] \in Int /\ H[x] \in Int,
         Above(F, H, a, b, l), NoFlatter(F, H, l, r, a, b)
  PROVE  Above(F, H, a, b, r)
<1> DEFINE dx == H[b] - H[a]
           dy == F[b] - F[a]
           ex == H[r] - H[l]
           ey == F[r] - F[l]
           u == H[l] - H[a]
           v == F[l] - F[a]
<1>1. u \in Int /\ v \in Int /\ dx \in Int /\ dy \in Int /\ ex \in Int /\ ey \in Int
  OBVIOUS
<1>2. H[r] - H[a] = u + ex /\ F[r] - F[a] = v + ey
  OBVIOUS
<1>3. v * dx >= dy * u /\ ey * dx >= dy * ex
  BY DEF Above, NoFlatter
<1>4. Above(F, H, a, b, r) <=> (v + ey) * dx >= dy * (u + ex)
  BY <1>2 DEF Above
<1> HIDE DEF u, v, dx, dy, ex, ey
<1>5. (v + ey) * dx = v * dx + ey * dx /\ dy * (u + ex) = dy * u + dy * ex
  BY <1>1
<1> DEFINE w == v * dx
           x == ey * dx
           y == dy * u
           z == dy * ex
<1>6. w \in Int /\ x \in Int /\ y \in Int /\ z \in Int /\ w >= y /\ x >= z
  BY <1>1, <1>3
<1>7. Above(F, H, a, b, r) <=> w + x >= y + z
  BY <1>4, <1>5
<1> HIDE DEF w, x, y, z
<1> QED BY <1>6, <1>7

\* No flatter than what is no flatter.
LEMMA Steepening ==
  ASSUME NEW F, NEW H, NEW a, NEW b, NEW l, NEW r, NEW x, NEW y,
         \A z \in {a, b, l, r, x, y} : F[z] \in Int /\ H[z] \in Int,
         H[a] < H[b], H[l] < H[r], H[x] < H[y],
         NoFlatter(F, H, x, y, l, r), NoFlatter(F, H, l, r, a, b)
  PROVE  NoFlatter(F, H, x, y, a, b)
<1> DEFINE n1 == F[y] - F[x]
           n2 == F[r] - F[l]
           n3 == F[b] - F[a]
           q1 == H[y] - H[x]
           q2 == H[r] - H[l]
           q3 == H[b] - H[a]
<1>1. n1 \in Int /\ n2 \in Int /\ n3 \in Int /\ q1 \in Int /\ q2 \in Int /\ q3 \in Int
      /\ q1 > 0 /\ q2 > 0 /\ q3 > 0
  OBVIOUS
<1>2. n1 * q2 >= n2 * q1 /\ n2 * q3 >= n3 * q2
  BY DEF NoFlatter
<1>3. NoFlatter(F, H, x, y, a, b) <=> n1 * q3 >= n3 * q1
  BY DEF NoFlatter
<1> HIDE DEF n1, n2, n3, q1, q2, q3
<1> QED BY <1>1, <1>2, <1>3, FractionsTransitive

\* The stretch to a block's end from a place above its line is no steeper than it.
LEMMA NoSteeperFromAbove ==
  ASSUME NEW F, NEW H, NEW a, NEW r, NEW l,
         \A x \in {a, r, l} : F[x] \in Int /\ H[x] \in Int, Above(F, H, a, r, l)
  PROVE  NoFlatter(F, H, a, r, l, r)
<1> DEFINE dx == H[r] - H[a]
           dy == F[r] - F[a]
           w == H[r] - H[l]
           z == F[r] - F[l]
<1>1. dx \in Int /\ dy \in Int /\ w \in Int /\ z \in Int
  OBVIOUS
<1>2. H[l] - H[a] = dx - w /\ F[l] - F[a] = dy - z
  OBVIOUS
<1>3. (dy - z) * dx >= dy * (dx - w)
  BY <1>2 DEF Above
<1>4. NoFlatter(F, H, a, r, l, r) <=> dy * w >= z * dx
  BY DEF NoFlatter
<1> HIDE DEF dx, dy, w, z
<1> DEFINE x == dy * dx
           y == z * dx
           t == dy * w
<1>5. (dy - z) * dx = x - y /\ dy * (dx - w) = x - t /\ x \in Int /\ y \in Int /\ t \in Int
  BY <1>1
<1>6. x - y >= x - t
  BY <1>3, <1>5
<1>7. NoFlatter(F, H, a, r, l, r) <=> t >= y
  BY <1>4
<1> HIDE DEF x, y, t
<1> QED BY <1>5, <1>6, <1>7

\* Sums F and counts H up to each of N bins; every bin counts.
Curve(F, H, N) ==
  /\ N \in Nat
  /\ \A x \in 0..N : F[x] \in Int /\ H[x] \in Int
  /\ \A x \in 0..N : \A y \in 0..N : x < y => H[x] < H[y]

\* Of the stretches from one place on, one is the flattest.
LEMMA OneIsFlattest ==
  ASSUME NEW N, NEW F, NEW H, Curve(F, H, N), NEW i \in 1..N, NEW l \in 0..i - 1
  PROVE  \E t \in i..N : \A k \in i..N : NoFlatter(F, H, l, k, l, t)
<1> DEFINE D == i..N
           num == [k \in D |-> F[l] - F[k]]
           den == [k \in D |-> H[k] - H[l]]
           ahead == [k \in D |-> {j \in D : (num[j] * den[k] > num[k] * den[j])
                                             \/ (j < k /\ ~ (num[k] * den[j] > num[j] * den[k]))}]
<1>1. N \in Nat /\ l \in 0..N /\ F[l] \in Int /\ H[l] \in Int
  BY DEF Curve
<1>2. ASSUME NEW k \in D
      PROVE  num[k] \in Int /\ den[k] \in Int /\ den[k] > 0 /\ F[k] \in Int /\ H[k] \in Int
             /\ num[k] = F[l] - F[k] /\ den[k] = H[k] - H[l]
  <2>1. k \in 0..N /\ l < k
    BY <1>1
  <2>2. F[k] \in Int /\ H[k] \in Int /\ H[l] < H[k]
    BY <1>1, <2>1 DEF Curve
  <2> QED BY <1>1, <2>2
<1>3. D \subseteq Int /\ IsFiniteSet(D) /\ D # {}
  <2>1. i \in D
    BY <1>1
  <2>2. IsFiniteSet(D)
    BY <1>1, FS_Interval
  <2> QED BY <2>1, <2>2
<1> HIDE DEF D, num, den
<1>4. DOMAIN ahead = D /\ (\A k \in D : ahead[k] \subseteq D)
      /\ \A j, k \in D : j \in ahead[k] <=>
           (num[j] * den[k] > num[k] * den[j]) \/ (j < k /\ ~ (num[k] * den[j] > num[j] * den[k]))
  OBVIOUS
<1> HIDE DEF ahead
<1>5. \A k \in D : num[k] \in Int /\ den[k] \in Int /\ den[k] > 0
  BY <1>2
<1>6. Orders(ahead)
  BY <1>3, <1>4, <1>5, FractionsOrder
<1>7. PICK t \in D : \A k \in D \ {t} : t \in ahead[k]
  <2>1. IsFiniteSet(DOMAIN ahead) /\ DOMAIN ahead # {}
    BY <1>3, <1>4
  <2>2. \E t \in DOMAIN ahead : \A k \in DOMAIN ahead \ {t} : t \in ahead[k]
    BY <1>6, <2>1, OneIsForemost
  <2> QED BY <1>4, <2>2
<1>8. ASSUME NEW k \in D
      PROVE  NoFlatter(F, H, l, k, l, t)
  <2> DEFINE x == num[t] * den[k]
             y == num[k] * den[t]
             v == (F[k] - F[l]) * (H[t] - H[l])
             w == (F[t] - F[l]) * (H[k] - H[l])
  <2>1. x \in Int /\ y \in Int
    BY <1>2
  <2>2. x >= y
    <3>1. CASE k = t
      BY <2>1, <3>1
    <3>2. CASE k # t
      <4>1. (x > y) \/ ~ (y > x)
        BY <1>4, <1>7, <3>2
      <4> HIDE DEF x, y
      <4> QED BY <2>1, <4>1
    <3> QED BY <3>1, <3>2
  <2>3. x = -w /\ y = -v /\ v \in Int /\ w \in Int
    <3>1. /\ F[k] \in Int /\ H[k] \in Int /\ F[t] \in Int /\ H[t] \in Int
          /\ num[k] = F[l] - F[k] /\ den[k] = H[k] - H[l]
          /\ num[t] = F[l] - F[t] /\ den[t] = H[t] - H[l]
      BY <1>2
    <3> QED BY <1>1, <3>1
  <2>4. NoFlatter(F, H, l, k, l, t) <=> v >= w
    BY DEF NoFlatter
  <2> HIDE DEF x, y, v, w
  <2> QED BY <2>1, <2>2, <2>3, <2>4
<1> QED BY <1>7, <1>8 DEF D
=============================================================================
