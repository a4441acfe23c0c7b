----------------------------- MODULE TurtleProofs -----------------------------
(***************************************************************************)
(* Lemmas about the operators that the backtests are built from, for every *)
(* value of their arguments: Min and Max of a finite set, sums over a      *)
(* function, products and quotients, the types of the channels, of N and   *)
(* of the signals, and how a sequence grows.  Inductions go over sets of   *)
(* numbers or of sets, by the well-foundedness of their order.             *)
(***************************************************************************)
EXTENDS Turtle, Functions, TLAPS, FiniteSetTheorems, WellFoundedInduction

-----------------------------------------------------------------------------
(* Induction, over sets of numbers and of sets *)

LEMMA LessThanWellFounded ==
  \E R : IsWellFoundedOn(R, Nat) /\ \A m, n \in Nat : m < n => <<m, n>> \in R
<1>1. \A m, n \in Nat : m < n => <<m, n>> \in OpToRel(<, Nat)
  BY DEF OpToRel
<1> QED BY <1>1, NatLessThanWellFounded, Zenon

LEMMA HasLeast ==
  ASSUME NEW S \in SUBSET Nat, S # {}
  PROVE  \E n \in S : \A x \in S : n <= x
<1>1. PICK R : IsWellFoundedOn(R, Nat) /\ \A m, n \in Nat : m < n => <<m, n>> \in R
  BY LessThanWellFounded
<1>2. S \subseteq Nat
  OBVIOUS
<1>3. \E n \in S : \A m \in S : ~(<<m, n>> \in R)
  <2>1. IsWellFoundedOn(R, Nat) /\ S # {}
    BY <1>1
  <2> QED BY <2>1, <1>2, WFMin
<1>4. PICK n \in S : \A m \in S : ~(<<m, n>> \in R)
  BY <1>3, Zenon
<1>5. ASSUME NEW m \in S PROVE n <= m
  <2>1. m \in Nat /\ n \in Nat /\ ~(<<m, n>> \in R)
    BY <1>2, <1>4, Zenon
  <2>2. ~(m < n)
    BY <1>1, <2>1, Zenon
  <2> QED BY <2>1, <2>2
<1> QED BY <1>5

LEMMA NumberInduction ==
  ASSUME NEW P, 0 \in P, \A n \in Nat : n \in P => n + 1 \in P
  PROVE  Nat \subseteq P
<1> SUFFICES ASSUME Nat \ P # {} PROVE FALSE
  OBVIOUS
<1>1. PICK n \in Nat \ P : \A x \in Nat \ P : n <= x
  BY HasLeast
<1>2. n # 0
  OBVIOUS
<1>3. n - 1 \in Nat /\ n - 1 + 1 = n /\ ~(n <= n - 1)
  BY <1>2
<1>4. n - 1 \in P
  BY <1>1, <1>3
<1> QED BY <1>3, <1>4

LEMMA SetInduction ==
  ASSUME NEW S, IsFiniteSet(S), NEW P, {} \in P,
         \A s \in SUBSET S : s # {} /\ (\A x \in s : s \ {x} \in P) => s \in P
  PROVE  SUBSET S \subseteq P
<1> DEFINE Q == {n \in Nat : \A s \in SUBSET S : Cardinality(s) = n => s \in P}
<1>1. 0 \in Q
  <2>1. \A s \in SUBSET S : Cardinality(s) = 0 => s = {}
    BY FS_Subset, FS_EmptySet
  <2> QED BY <2>1
<1>2. ASSUME NEW n \in Nat, n \in Q PROVE n + 1 \in Q
  <2> SUFFICES ASSUME NEW s \in SUBSET S, Cardinality(s) = n + 1 PROVE s \in P
    OBVIOUS
  <2>1. IsFiniteSet(s)
    BY FS_Subset
  <2>2. s # {}
    <3>1. Cardinality({}) = 0 /\ n + 1 # 0
      BY FS_EmptySet
    <3> QED BY <3>1
  <2>3. ASSUME NEW x \in s PROVE s \ {x} \in P
    <3>1. Cardinality(s \ {x}) = Cardinality(s) - 1
      BY <2>1, FS_RemoveElement
    <3>2. Cardinality(s \ {x}) = n
      BY <3>1
    <3> QED BY <3>2, <1>2
  <2> QED BY <2>2, <2>3
<1>3. Nat \subseteq Q
  <2> HIDE DEF Q
  <2> QED BY <1>1, <1>2, NumberInduction
<1>4. ASSUME NEW s \in SUBSET S PROVE s \in P
  <2>1. Cardinality(s) \in Nat
    BY FS_Subset, FS_CardinalityType
  <2> QED BY <2>1, <1>3
<1> QED BY <1>4

-----------------------------------------------------------------------------
(* Sums *)

First(s) == CHOOSE x \in s : TRUE

Sums(f, D, g) == g = [s \in D |-> IF s = {} THEN 0 ELSE f[First(s)] + g[s \ {First(s)}]]

LEMMA FirstIn == \A s : s # {} => First(s) \in s
  BY DEF First

LEMMA SumIsChosen ==
  ASSUME NEW f, NEW S
  PROVE  SumFunctionOnSet(f, S) = (CHOOSE g : Sums(f, SUBSET S, g))[S]
  BY DEF SumFunctionOnSet, FoldFunctionOnSet, MapThenFoldSet, Sums, First

LEMMA SumsExist ==
  ASSUME NEW f, NEW S, IsFiniteSet(S)
  PROVE  \E g : Sums(f, SUBSET S, g)
<1> DEFINE D(n) == {s \in SUBSET S : Cardinality(s) <= n}
           P == {n \in Nat : \E g : Sums(f, D(n), g)}
<1>0. \A s \in SUBSET S : IsFiniteSet(s) /\ Cardinality(s) \in Nat /\ (Cardinality(s) = 0 <=> s = {})
  BY FS_Subset, FS_EmptySet, FS_CardinalityType
<1>1. 0 \in P
  <2> DEFINE g == [s \in D(0) |-> 0]
  <2>1. \A s \in D(0) : s = {}
    BY <1>0
  <2>2. Sums(f, D(0), g)
    BY <2>1 DEF Sums
  <2> QED BY <2>2
<1>2. ASSUME NEW n \in Nat, n \in P PROVE n + 1 \in P
  <2>1. PICK g : Sums(f, D(n), g)
    BY <1>2
  <2> DEFINE h == [s \in D(n + 1) |-> IF s = {} THEN 0 ELSE f[First(s)] + g[s \ {First(s)}]]
  <2>2. ASSUME NEW s \in D(n) PROVE h[s] = g[s]
    <3>1. s \in D(n + 1)
      BY <1>0
    <3> QED BY <2>1, <3>1 DEF Sums
  <2>3. ASSUME NEW s \in D(n + 1), s # {} PROVE s \ {First(s)} \in D(n)
    <3>1. First(s) \in s
      BY <2>3, FirstIn
    <3>2. Cardinality(s \ {First(s)}) = Cardinality(s) - 1
      BY <1>0, <3>1, FS_RemoveElement
    <3> QED BY <1>0, <3>2
  <2>4. ASSUME NEW s \in D(n + 1)
        PROVE  h[s] = IF s = {} THEN 0 ELSE f[First(s)] + h[s \ {First(s)}]
    BY <2>2, <2>3
  <2>5. h = [s \in D(n + 1) |-> IF s = {} THEN 0 ELSE f[First(s)] + h[s \ {First(s)}]]
    <3> HIDE DEF D
    <3>1. h = [s \in D(n + 1) |-> h[s]]
      OBVIOUS
    <3> HIDE DEF h
    <3> QED BY <2>4, <3>1
  <2> HIDE DEF h
  <2>6. Sums(f, D(n + 1), h)
    BY <2>5 DEF Sums
  <2> QED BY <2>6
<1>3. Nat \subseteq P
  <2> HIDE DEF P
  <2> QED BY <1>1, <1>2, NumberInduction
<1>4. Cardinality(S) \in P
  BY <1>3, FS_CardinalityType
<1>5. D(Cardinality(S)) = SUBSET S
  <2>1. \A s \in SUBSET S : Cardinality(s) <= Cardinality(S)
    BY FS_Subset
  <2> QED BY <2>1
<1> QED BY <1>4, <1>5

LEMMA SumsAgree ==
  \A f, S, T, g, h :
    IsFiniteSet(S) /\ T \subseteq S /\ Sums(f, SUBSET S, g) /\ Sums(f, SUBSET T, h) => g[T] = h[T]
<1> SUFFICES ASSUME NEW f, NEW S, NEW T, NEW g, NEW h, IsFiniteSet(S), T \subseteq S,
                    Sums(f, SUBSET S, g), Sums(f, SUBSET T, h)
             PROVE  g[T] = h[T]
  OBVIOUS
<1> DEFINE P == {s \in SUBSET T : g[s] = h[s]}
<1>0. IsFiniteSet(T)
  BY FS_Subset
<1>1. \A s \in SUBSET T :
        /\ g[s] = IF s = {} THEN 0 ELSE f[First(s)] + g[s \ {First(s)}]
        /\ h[s] = IF s = {} THEN 0 ELSE f[First(s)] + h[s \ {First(s)}]
  <2>1. SUBSET T \subseteq SUBSET S
    OBVIOUS
  <2> QED BY <2>1 DEF Sums
<1>2. {} \in P
  BY <1>1
<1>3. ASSUME NEW s \in SUBSET T, s # {}, \A x \in s : s \ {x} \in P PROVE s \in P
  <2>1. First(s) \in s
    BY <1>3, FirstIn
  <2>2. s \ {First(s)} \in P
    BY <1>3, <2>1
  <2> QED BY <1>1, <1>3, <2>2
<1>4. SUBSET T \subseteq P
  <2> HIDE DEF P
  <2> QED BY <1>0, <1>2, <1>3, SetInduction
<1> QED BY <1>4

LEMMA SumUnfolds ==
  ASSUME NEW f, NEW S, IsFiniteSet(S)
  PROVE  SumFunctionOnSet(f, S) =
           IF S = {} THEN 0 ELSE f[First(S)] + SumFunctionOnSet(f, S \ {First(S)})
<1> DEFINE rest == S \ {First(S)}
           whole == CHOOSE k : Sums(f, SUBSET S, k)
           part == CHOOSE k : Sums(f, SUBSET rest, k)
<1>1. IsFiniteSet(rest) /\ rest \subseteq S
  BY FS_Subset
<1>2. Sums(f, SUBSET S, whole)
  BY SumsExist
<1>3. Sums(f, SUBSET rest, part)
  <2> HIDE DEF rest
  <2> QED BY <1>1, SumsExist
<1>4. SumFunctionOnSet(f, S) = whole[S] /\ SumFunctionOnSet(f, rest) = part[rest]
  BY SumIsChosen
<1> HIDE DEF whole, part
<1>5. whole[rest] = part[rest]
  <2> HIDE DEF rest
  <2> QED BY <1>1, <1>2, <1>3, SumsAgree
<1>6. whole[S] = IF S = {} THEN 0 ELSE f[First(S)] + whole[rest]
  BY <1>2 DEF Sums
<1> QED BY <1>4, <1>5, <1>6

LEMMA SumEmpty == \A f : SumFunctionOnSet(f, {}) = 0
  BY SumUnfolds, FS_EmptySet

LEMMA SumOnSetInt ==
  ASSUME NEW S, IsFiniteSet(S), NEW f, \A x \in S : f[x] \in Int
  PROVE  SumFunctionOnSet(f, S) \in Int
<1> DEFINE P == {s \in SUBSET S : SumFunctionOnSet(f, s) \in Int}
<1>1. {} \in P
  BY SumEmpty
<1>2. ASSUME NEW s \in SUBSET S, s # {}, \A x \in s : s \ {x} \in P PROVE s \in P
  <2>1. First(s) \in s /\ IsFiniteSet(s)
    BY <1>2, FirstIn, FS_Subset
  <2>2. SumFunctionOnSet(f, s) = f[First(s)] + SumFunctionOnSet(f, s \ {First(s)})
    BY <1>2, <2>1, SumUnfolds
  <2>3. f[First(s)] \in Int /\ SumFunctionOnSet(f, s \ {First(s)}) \in Int
    BY <1>2, <2>1
  <2> QED BY <2>2, <2>3
<1>3. SUBSET S \subseteq P
  <2> HIDE DEF P
  <2> QED BY <1>1, <1>2, SetInduction
<1> QED BY <1>3

LEMMA SumOnSetNat ==
  ASSUME NEW S, IsFiniteSet(S), NEW f, \A x \in S : f[x] \in Nat
  PROVE  SumFunctionOnSet(f, S) \in Nat
<1> DEFINE P == {s \in SUBSET S : SumFunctionOnSet(f, s) \in Nat}
<1>1. {} \in P
  BY SumEmpty
<1>2. ASSUME NEW s \in SUBSET S, s # {}, \A x \in s : s \ {x} \in P PROVE s \in P
  <2>1. First(s) \in s /\ IsFiniteSet(s)
    BY <1>2, FirstIn, FS_Subset
  <2>2. SumFunctionOnSet(f, s) = f[First(s)] + SumFunctionOnSet(f, s \ {First(s)})
    BY <1>2, <2>1, SumUnfolds
  <2>3. f[First(s)] \in Nat /\ SumFunctionOnSet(f, s \ {First(s)}) \in Nat
    BY <1>2, <2>1
  <2> QED BY <2>2, <2>3
<1>3. SUBSET S \subseteq P
  <2> HIDE DEF P
  <2> QED BY <1>1, <1>2, SetInduction
<1> QED BY <1>3

\* Sums over one set of equal values are equal.
LEMMA SumOnSetSame ==
  ASSUME NEW S, IsFiniteSet(S), NEW f, NEW g, \A x \in S : f[x] = g[x]
  PROVE  SumFunctionOnSet(f, S) = SumFunctionOnSet(g, S)
<1> DEFINE P == {s \in SUBSET S : SumFunctionOnSet(f, s) = SumFunctionOnSet(g, s)}
<1>1. {} \in P
  BY SumEmpty
<1>2. ASSUME NEW s \in SUBSET S, s # {}, \A x \in s : s \ {x} \in P PROVE s \in P
  <2>1. First(s) \in s /\ IsFiniteSet(s)
    BY <1>2, FirstIn, FS_Subset
  <2>2. /\ SumFunctionOnSet(f, s) = f[First(s)] + SumFunctionOnSet(f, s \ {First(s)})
        /\ SumFunctionOnSet(g, s) = g[First(s)] + SumFunctionOnSet(g, s \ {First(s)})
    BY <1>2, <2>1, SumUnfolds
  <2>3. f[First(s)] = g[First(s)]
        /\ SumFunctionOnSet(f, s \ {First(s)}) = SumFunctionOnSet(g, s \ {First(s)})
    BY <1>2, <2>1
  <2> QED BY <2>2, <2>3
<1>3. SUBSET S \subseteq P
  <2> HIDE DEF P
  <2> QED BY <1>1, <1>2, SetInduction
<1> QED BY <1>3

\* Any element may be taken out first.
LEMMA SumOnSetWithout ==
  ASSUME NEW S, IsFiniteSet(S), NEW f, \A x \in S : f[x] \in Int, NEW y \in S
  PROVE  SumFunctionOnSet(f, S) = f[y] + SumFunctionOnSet(f, S \ {y})
<1> DEFINE Total(s) == SumFunctionOnSet(f, s)
           P == {s \in SUBSET S : \A x \in s : Total(s) = f[x] + Total(s \ {x})}
<1>1. {} \in P
  OBVIOUS
<1>2. ASSUME NEW s \in SUBSET S, s # {}, \A x \in s : s \ {x} \in P PROVE s \in P
  <2> DEFINE z == First(s)
  <2> SUFFICES ASSUME NEW x \in s PROVE Total(s) = f[x] + Total(s \ {x})
    OBVIOUS
  <2>1. z \in s /\ IsFiniteSet(s) /\ IsFiniteSet(s \ {x})
    BY <1>2, FirstIn, FS_Subset
  <2>2. Total(s) = f[z] + Total(s \ {z})
    BY <1>2, <2>1, SumUnfolds
  <2> HIDE DEF z
  <2>3. CASE x = z
    BY <2>2, <2>3
  <2>4. CASE x # z
    <3>1. Total(s \ {z}) = f[x] + Total((s \ {z}) \ {x})
      BY <1>2, <2>1, <2>4
    <3>2. Total(s \ {x}) = f[z] + Total((s \ {x}) \ {z})
      BY <1>2, <2>1, <2>4
    <3>3. (s \ {z}) \ {x} = (s \ {x}) \ {z}
      OBVIOUS
    <3> DEFINE rest == Total((s \ {x}) \ {z})
    <3>4. rest \in Int
      <4>1. IsFiniteSet((s \ {x}) \ {z}) /\ \A t \in (s \ {x}) \ {z} : f[t] \in Int
        BY FS_Subset
      <4> QED BY <4>1, SumOnSetInt
    <3>5. f[x] \in Int /\ f[z] \in Int
      BY <2>1
    <3>6. Total(s \ {z}) = f[x] + rest /\ Total(s \ {x}) = f[z] + rest
      BY <3>1, <3>2, <3>3
    <3> HIDE DEF rest, Total
    <3> QED BY <2>2, <3>4, <3>5, <3>6
  <2> QED BY <2>3, <2>4
<1>3. SUBSET S \subseteq P
  <2> HIDE DEF P
  <2> QED BY <1>1, <1>2, SetInduction
<1> QED BY <1>3

\* The same of the sum of a whole function.
LEMMA SumNone == \A f : DOMAIN f = {} => SumFunction(f) = 0
  BY SumEmpty DEF SumFunction

LEMMA SumInt ==
  ASSUME NEW f, IsFiniteSet(DOMAIN f), \A x \in DOMAIN f : f[x] \in Int
  PROVE  SumFunction(f) \in Int
  BY SumOnSetInt DEF SumFunction

LEMMA SumNat ==
  ASSUME NEW f, IsFiniteSet(DOMAIN f), \A x \in DOMAIN f : f[x] \in Nat
  PROVE  SumFunction(f) \in Nat
  BY SumOnSetNat DEF SumFunction

\* One more value is added.
LEMMA SumWith ==
  ASSUME NEW f, NEW g, NEW y, y \notin DOMAIN f, DOMAIN g = DOMAIN f \cup {y},
         IsFiniteSet(DOMAIN f), \A x \in DOMAIN f : g[x] = f[x], \A x \in DOMAIN g : g[x] \in Int
  PROVE  SumFunction(g) = g[y] + SumFunction(f)
<1> DEFINE D == DOMAIN f
           E == DOMAIN g
<1>1. IsFiniteSet(E) /\ y \in E /\ E \ {y} = D
  <2>1. IsFiniteSet(D \cup {y})
    BY FS_AddElement
  <2> QED BY <2>1
<1>2. \A x \in E : g[x] \in Int
  OBVIOUS
<1>3. \A x \in D : g[x] = f[x]
  OBVIOUS
<1>4. IsFiniteSet(D)
  OBVIOUS
<1> HIDE DEF D, E
<1>5. SumFunctionOnSet(g, E) = g[y] + SumFunctionOnSet(g, E \ {y})
  BY <1>1, <1>2, SumOnSetWithout
<1>6. SumFunctionOnSet(g, D) = SumFunctionOnSet(f, D)
  BY <1>3, <1>4, SumOnSetSame
<1> QED BY <1>1, <1>5, <1>6 DEF SumFunction, D, E

\* One value is replaced.
LEMMA SumBut ==
  ASSUME NEW f, NEW g, NEW y, y \in DOMAIN f, DOMAIN g = DOMAIN f, IsFiniteSet(DOMAIN f),
         \A x \in DOMAIN f : f[x] \in Int /\ g[x] \in Int /\ (x # y => g[x] = f[x])
  PROVE  SumFunction(g) = SumFunction(f) - f[y] + g[y]
<1> DEFINE D == DOMAIN f
           rest == D \ {y}
<1>1. IsFiniteSet(D) /\ IsFiniteSet(rest) /\ y \in D
  BY FS_Subset
<1>2. \A x \in D : f[x] \in Int /\ g[x] \in Int
  OBVIOUS
<1>3. \A x \in rest : f[x] = g[x] /\ f[x] \in Int
  OBVIOUS
<1>4. DOMAIN f = D /\ DOMAIN g = D
  OBVIOUS
<1> HIDE DEF D
<1>5. /\ SumFunctionOnSet(f, D) = f[y] + SumFunctionOnSet(f, rest)
      /\ SumFunctionOnSet(g, D) = g[y] + SumFunctionOnSet(g, rest)
  BY <1>1, <1>2, SumOnSetWithout
<1> HIDE DEF rest
<1>6. SumFunctionOnSet(f, rest) = SumFunctionOnSet(g, rest) /\ SumFunctionOnSet(f, rest) \in Int
  BY <1>1, <1>3, SumOnSetSame, SumOnSetInt
<1> QED BY <1>1, <1>2, <1>4, <1>5, <1>6 DEF SumFunction

LEMMA SumSame ==
  ASSUME NEW f, NEW g, DOMAIN f = DOMAIN g, IsFiniteSet(DOMAIN f), \A x \in DOMAIN f : f[x] = g[x]
  PROVE  SumFunction(f) = SumFunction(g)
  BY SumOnSetSame DEF SumFunction

-----------------------------------------------------------------------------
(* The greatest and the least of a finite set *)

LEMMA ImageFinite ==
  ASSUME NEW S, IsFiniteSet(S), NEW f
  PROVE  IsFiniteSet({f[x] : x \in S})
<1> DEFINE P == {s \in SUBSET S : IsFiniteSet({f[x] : x \in s})}
<1>1. {} \in P
  <2>1. {f[x] : x \in {}} = {}
    OBVIOUS
  <2> QED BY <2>1, FS_EmptySet
<1>2. ASSUME NEW s \in SUBSET S, s # {}, \A x \in s : s \ {x} \in P PROVE s \in P
  <2>1. PICK y \in s : TRUE
    BY <1>2
  <2> DEFINE T == {f[x] : x \in s \ {y}}
  <2>2. IsFiniteSet(T)
    BY <1>2, <2>1
  <2>3. {f[x] : x \in s} = T \cup {f[y]}
    BY <2>1
  <2>4. IsFiniteSet(T \cup {f[y]})
    <3> HIDE DEF T
    <3> QED BY <2>2, FS_AddElement
  <2> QED BY <2>3, <2>4
<1>3. SUBSET S \subseteq P
  <2> HIDE DEF P
  <2> QED BY <1>1, <1>2, SetInduction
<1> QED BY <1>3

LEMMA HasExtremes ==
  ASSUME NEW S, IsFiniteSet(S), S \subseteq Int, S # {}
  PROVE  (\E z \in S : \A y \in S : y <= z) /\ (\E z \in S : \A y \in S : z <= y)
<1> DEFINE P == {s \in SUBSET S : s = {} \/ /\ \E z \in s : \A y \in s : y <= z
                                            /\ \E z \in s : \A y \in s : z <= y}
<1>1. {} \in P
  OBVIOUS
<1>2. ASSUME NEW s \in SUBSET S, s # {}, \A x \in s : s \ {x} \in P PROVE s \in P
  <2>1. PICK x \in s : TRUE
    BY <1>2
  <2>2. s \ {x} \in P /\ s \subseteq Int /\ x \in Int
    BY <1>2, <2>1
  <2>3. CASE s \ {x} = {}
    <3>1. \A y \in s : y = x
      BY <2>3
    <3> QED BY <2>1, <2>2, <3>1
  <2>4. CASE s \ {x} # {}
    <3>1. PICK a \in s \ {x} : \A y \in s \ {x} : y <= a
      BY <2>2, <2>4
    <3>2. PICK b \in s \ {x} : \A y \in s \ {x} : b <= y
      BY <2>2, <2>4
    <3>3. \E z \in s : \A y \in s : y <= z
      <4>1. CASE x <= a
        BY <2>2, <3>1, <4>1
      <4>2. CASE ~(x <= a)
        <5>1. \A y \in s : y <= x
          BY <2>2, <3>1, <4>2
        <5> QED BY <2>1, <5>1
      <4> QED BY <4>1, <4>2
    <3>4. \E z \in s : \A y \in s : z <= y
      <4>1. CASE b <= x
        BY <2>2, <3>2, <4>1
      <4>2. CASE ~(b <= x)
        <5>1. \A y \in s : x <= y
          BY <2>2, <3>2, <4>2
        <5> QED BY <2>1, <5>1
      <4> QED BY <4>1, <4>2
    <3> QED BY <3>3, <3>4
  <2> QED BY <2>3, <2>4
<1>3. SUBSET S \subseteq P
  <2> HIDE DEF P
  <2> QED BY <1>1, <1>2, SetInduction
<1> QED BY <1>3

LEMMA Extremes ==
  ASSUME NEW S, IsFiniteSet(S), S \subseteq Int, S # {}
  PROVE  /\ Max(S) \in S /\ \A y \in S : y <= Max(S)
         /\ Min(S) \in S /\ \A y \in S : Min(S) <= y
<1>1. PICK a \in S : \A y \in S : y <= a
  BY HasExtremes
<1>2. \A y \in S : a >= y
  BY <1>1
<1>3. Max(S) \in S /\ \A y \in S : Max(S) >= y
  BY <1>1, <1>2 DEF Max
<1>4. PICK b \in S : \A y \in S : b <= y
  BY HasExtremes
<1>5. Min(S) \in S /\ \A y \in S : Min(S) <= y
  BY <1>4 DEF Min
<1> QED BY <1>3, <1>5

\* Of two numbers.
LEMMA GreaterOf ==
  ASSUME NEW x \in Int, NEW y \in Int
  PROVE  Max({x, y}) = (IF x <= y THEN y ELSE x) /\ Min({x, y}) = (IF x <= y THEN x ELSE y)
<1>1. IsFiniteSet({x, y})
  <2>1. IsFiniteSet({x}) /\ {x} \cup {y} = {x, y}
    BY FS_Singleton
  <2> QED BY <2>1, FS_AddElement
<1>2. /\ Max({x, y}) \in {x, y} /\ \A z \in {x, y} : z <= Max({x, y})
      /\ Min({x, y}) \in {x, y} /\ \A z \in {x, y} : Min({x, y}) <= z
  BY <1>1, Extremes
<1> QED BY <1>2

-----------------------------------------------------------------------------
(* Arithmetic that the solver does not find by itself *)

LEMMA ProductNat == \A x, y \in Nat : x * y \in Nat
  OBVIOUS

LEMMA ProductInt == \A x, y \in Int : x * y \in Int
  OBVIOUS

LEMMA QuotientNat == \A x \in Nat, d \in Nat \ {0} : x \div d \in Nat
  OBVIOUS

LEMMA QuotientInt == \A x \in Int, d \in Nat \ {0} : x \div d \in Int
  OBVIOUS

-----------------------------------------------------------------------------
(* Indicators *)

LEMMA BarPrices ==
  ASSUME NEW b \in Bar
  PROVE  /\ b.open \in Price /\ b.high \in Price /\ b.low \in Price /\ b.close \in Price
         /\ b.volume \in Nat
         /\ b.low <= b.open /\ b.open <= b.high /\ b.low <= b.close /\ b.close <= b.high
  BY DEF Bar

LEMMA Levels ==
  ASSUME NEW bars \in Seq(Bar), NEW period \in Nat \ {0}
  PROVE  ChannelHigh(bars, period) \subseteq Price /\ ChannelLow(bars, period) \subseteq Price
<1> SUFFICES ASSUME ~(Len(bars) < period)
             PROVE  /\ Max({b.high : b \in Window(bars, period)}) \in Price
                    /\ Min({b.low : b \in Window(bars, period)}) \in Price
  BY DEF ChannelHigh, ChannelLow
<1> DEFINE I == (Len(bars) - period + 1)..Len(bars)
           highs == [i \in I |-> bars[i].high]
           lows == [i \in I |-> bars[i].low]
<1>1. IsFiniteSet(I) /\ I # {} /\ \A i \in I : bars[i] \in Bar
  <2>1. Len(bars) \in Nat /\ Len(bars) - period + 1 \in Int
    OBVIOUS
  <2>2. IsFiniteSet(I)
    BY <2>1, FS_Interval
  <2>3. Len(bars) \in I /\ I \subseteq 1..Len(bars)
    BY <2>1
  <2>4. \A i \in 1..Len(bars) : bars[i] \in Bar
    OBVIOUS
  <2> HIDE DEF I
  <2> QED BY <2>2, <2>3, <2>4
<1>2. /\ {b.high : b \in Window(bars, period)} = {highs[i] : i \in I}
      /\ {b.low : b \in Window(bars, period)} = {lows[i] : i \in I}
  BY DEF Window
<1>3. \A i \in I : highs[i] \in Price /\ lows[i] \in Price
  BY <1>1, BarPrices
<1> HIDE DEF I, highs, lows
<1> DEFINE H == {highs[i] : i \in I}
           L == {lows[i] : i \in I}
<1>4. IsFiniteSet(H) /\ IsFiniteSet(L)
  BY <1>1, ImageFinite
<1>5. H \subseteq Price /\ L \subseteq Price /\ H # {} /\ L # {} /\ Price \subseteq Int
  BY <1>1, <1>3 DEF Price
<1>6. {b.high : b \in Window(bars, period)} = H /\ {b.low : b \in Window(bars, period)} = L
  BY <1>2
<1> HIDE DEF H, L
<1>7. Max(H) \in H /\ Min(L) \in L
  <2>1. H \subseteq Int /\ L \subseteq Int
    BY <1>5
  <2> QED BY <1>4, <1>5, <2>1, Extremes
<1> QED BY <1>5, <1>6, <1>7

LEMMA TrueRangeNat ==
  ASSUME NEW b \in Bar, NEW previous \in Bar
  PROVE  TrueRange(b, previous) \in Nat
<1> DEFINE x == b.high - b.low
           y == Distance(b.high, previous.close)
           z == Distance(b.low, previous.close)
<1>1. x \in Nat /\ y \in Nat /\ z \in Nat
  BY BarPrices DEF Price, Distance
<1>2. TrueRange(b, previous) = Max({x, y, z})
  BY DEF TrueRange
<1> HIDE DEF x, y, z
<1>3. IsFiniteSet({x, y, z})
  <2>1. IsFiniteSet({x})
    BY FS_Singleton
  <2>2. IsFiniteSet({x} \cup {y})
    BY <2>1, FS_AddElement
  <2>3. IsFiniteSet(({x} \cup {y}) \cup {z})
    BY <2>2, FS_AddElement
  <2>4. ({x} \cup {y}) \cup {z} = {x, y, z}
    OBVIOUS
  <2> QED BY <2>3, <2>4
<1>4. {x, y, z} \subseteq Int /\ {x, y, z} # {}
  BY <1>1
<1>5. Max({x, y, z}) \in {x, y, z}
  BY <1>3, <1>4, Extremes
<1> QED BY <1>1, <1>2, <1>5

LEMMA RangeSumNat ==
  ASSUME NEW bars \in Seq(Bar), NEW first \in Nat, 2 <= first, NEW last \in Nat, last <= Len(bars)
  PROVE  RangeSum(bars, first, last) \in Nat
<1> DEFINE f == [i \in first..last |-> TrueRange(bars[i], bars[i - 1])]
<1>1. \A i \in first..last : bars[i] \in Bar /\ bars[i - 1] \in Bar
  OBVIOUS
<1>2. DOMAIN f = first..last /\ \A i \in first..last : f[i] \in Nat
  BY <1>1, TrueRangeNat
<1>3. IsFiniteSet(first..last)
  BY FS_Interval
<1>4. RangeSum(bars, first, last) = SumFunction(f)
  BY DEF RangeSum
<1> HIDE DEF f
<1> QED BY <1>2, <1>3, <1>4, SumNat

\* The series of N exists: it is the only one that its recursion allows.
NSeries(bars, b, n) ==
  n = [i \in (NPeriod + 1)..b |->
         IF i = NPeriod + 1 THEN RangeSum(bars, 2, i) \div NPeriod
         ELSE ((NPeriod - 1) * n[i - 1] + TrueRange(bars[i], bars[i - 1])) \div NPeriod]

LEMMA NSeriesExists ==
  ASSUME NEW bars \in Seq(Bar), Len(bars) >= NPeriod + 1
  PROVE  \E n : NSeries(bars, Len(bars), n)
<1> DEFINE a == NPeriod + 1
           P == {m \in Nat : \E n : NSeries(bars, a + m, n)}
<1>0. a \in Nat
  BY TurtleConstantsOK
<1>1. 0 \in P
  <2> DEFINE n == [i \in a..a |-> RangeSum(bars, 2, i) \div NPeriod]
  <2>1. \A i \in a..a : i = NPeriod + 1
    BY <1>0
  <2>2. a + 0 = a
    BY <1>0
  <2>3. NSeries(bars, a, n)
    BY <2>1 DEF NSeries
  <2> HIDE DEF n
  <2>4. NSeries(bars, a + 0, n)
    BY <2>2, <2>3
  <2> QED BY <2>4
<1>2. ASSUME NEW m \in Nat, m \in P PROVE m + 1 \in P
  <2>1. PICK n : NSeries(bars, a + m, n)
    BY <1>2
  <2> DEFINE D == a..(a + m)
             E == a..(a + (m + 1))
             Step(f, i) == IF i = a THEN RangeSum(bars, 2, i) \div NPeriod
                           ELSE ((NPeriod - 1) * f[i - 1] + TrueRange(bars[i], bars[i - 1])) \div NPeriod
             h == [i \in E |-> Step(n, i)]
  <2>2. D \subseteq E /\ \A i \in E : i # a => i - 1 \in D
    BY <1>0
  <2>3. \A i \in D : n[i] = Step(n, i)
    BY <2>1 DEF NSeries
  <2> HIDE DEF D, E
  <2>4. \A i \in D : h[i] = n[i]
    BY <2>2, <2>3
  <2>5. \A i \in E : h[i] = Step(h, i)
    BY <2>2, <2>4
  <2>6. h = [i \in E |-> Step(h, i)]
    <3>1. h = [i \in E |-> h[i]]
      OBVIOUS
    <3> HIDE DEF h, Step
    <3> QED BY <2>5, <3>1
  <2> HIDE DEF h
  <2>7. NSeries(bars, a + (m + 1), h)
    BY <2>6 DEF NSeries, E
  <2> QED BY <2>7
<1>3. Nat \subseteq P
  <2> HIDE DEF P
  <2> QED BY <1>1, <1>2, NumberInduction
<1>4. Len(bars) - a \in Nat /\ a + (Len(bars) - a) = Len(bars)
  BY <1>0
<1> HIDE DEF a
<1>5. PICK n : NSeries(bars, a + (Len(bars) - a), n)
  BY <1>3, <1>4
<1> QED BY <1>4, <1>5

LEMMA TurtleNNat ==
  ASSUME NEW bars \in Seq(Bar), Len(bars) >= NPeriod + 1
  PROVE  TurtleN(bars) \in Nat
<1> DEFINE a == NPeriod + 1
           n == CHOOSE k : NSeries(bars, Len(bars), k)
<1>1. TurtleN(bars) = n[Len(bars)]
  BY DEF TurtleN, NSeries
<1>2. NSeries(bars, Len(bars), n)
  BY NSeriesExists
<1> HIDE DEF n
<1> DEFINE P == {m \in Nat : a + m <= Len(bars) => n[a + m] \in Nat}
<1>0. a \in Nat /\ NPeriod \in Nat \ {0} /\ NPeriod - 1 \in Nat /\ Len(bars) \in Nat /\ a >= 2
  BY TurtleConstantsOK
<1>3. 0 \in P
  <2>1. a \in a..Len(bars) /\ a + 0 = a
    BY <1>0
  <2>2. n[a] = RangeSum(bars, 2, a) \div NPeriod
    BY <1>2, <2>1 DEF NSeries
  <2>3. RangeSum(bars, 2, a) \in Nat
    BY <1>0, RangeSumNat
  <2> QED BY <1>0, <2>1, <2>2, <2>3, QuotientNat
<1>4. ASSUME NEW m \in Nat, m \in P PROVE m + 1 \in P
  <2> SUFFICES ASSUME a + (m + 1) <= Len(bars) PROVE n[a + (m + 1)] \in Nat
    OBVIOUS
  <2> DEFINE i == a + (m + 1)
  <2>1. i \in a..Len(bars) /\ i # a /\ i - 1 = a + m /\ a + m <= Len(bars)
    BY <1>0
  <2>2. n[i] = ((NPeriod - 1) * n[i - 1] + TrueRange(bars[i], bars[i - 1])) \div NPeriod
    BY <1>2, <2>1 DEF NSeries
  <2>3. n[i - 1] \in Nat
    BY <1>4, <2>1
  <2>4. TrueRange(bars[i], bars[i - 1]) \in Nat
    <3>1. bars[i] \in Bar /\ bars[i - 1] \in Bar
      BY <1>0
    <3> QED BY <3>1, TrueRangeNat
  <2>5. (NPeriod - 1) * n[i - 1] \in Nat
    BY <1>0, <2>3, ProductNat
  <2>6. (NPeriod - 1) * n[i - 1] + TrueRange(bars[i], bars[i - 1]) \in Nat
    BY <2>4, <2>5
  <2> QED BY <1>0, <2>2, <2>6, QuotientNat
<1>5. Nat \subseteq P
  <2> HIDE DEF P
  <2> QED BY <1>3, <1>4, NumberInduction
<1>6. Len(bars) - a \in Nat /\ a + (Len(bars) - a) = Len(bars)
  BY <1>0
<1>7. Len(bars) - a \in P
  BY <1>5, <1>6
<1> HIDE DEF a
<1> QED BY <1>0, <1>1, <1>6, <1>7

\* N, when there is one, is a number; there is one after NPeriod + 1 bars.
LEMMA NNat ==
  ASSUME NEW bars \in Seq(Bar)
  PROVE  N(bars) \subseteq Nat /\ (Len(bars) >= NPeriod + 1 => N(bars) # {})
<1>1. ASSUME ~(Len(bars) < NPeriod + 1) PROVE AverageN(bars) \in Nat /\ TurtleN(bars) \in Nat
  <2>1. NPeriod \in Nat \ {0} /\ Len(bars) \in Nat /\ Len(bars) >= NPeriod + 1
    BY <1>1, TurtleConstantsOK
  <2> DEFINE first == Len(bars) - NPeriod + 1
  <2>2. first \in Nat /\ 2 <= first /\ Len(bars) <= Len(bars)
    BY <2>1
  <2>3. RangeSum(bars, first, Len(bars)) \in Nat
    <3> HIDE DEF first
    <3> QED BY <2>1, <2>2, RangeSumNat
  <2> QED BY <2>1, <2>3, QuotientNat, TurtleNNat DEF AverageN
<1>2. Len(bars) \in Nat /\ NPeriod \in Nat
  BY TurtleConstantsOK
<1> QED BY <1>1, <1>2 DEF N

-----------------------------------------------------------------------------
(* Signals *)

LEMMA ExitLevelPrices ==
  ASSUME NEW p, NEW bars \in Seq(Bar)
  PROVE  ExitLevel(p, bars) \subseteq Price
<1>1. ExitShort \in Nat \ {0} /\ ExitLong \in Nat \ {0}
  BY TurtleConstantsOK
<1> QED BY <1>1, Levels DEF ExitLevel

\* What a held position is told: to leave at a level that the price has reached
\* against it, or to add a unit where the price has moved with it.
LEMMA HeldTriggers ==
  ASSUME NEW p, NEW bars \in Seq(Bar), NEW price, p.stop \in Int, p.last \in Int, p.entryN \in Nat,
         NEW g \in HeldSignals(p, bars, price)
  PROVE  /\ g.trigger \in Int /\ g.system = p.system
         /\ g.kind \in {"STOP", "EXIT"} => /\ g.side = ExitSide(p.direction)
                                           /\ Adverse(p.direction, price, g.trigger)
         /\ g.kind \notin {"STOP", "EXIT"} =>
              /\ g.kind = "PYRAMID" /\ g.side = EntrySide(p.direction)
              /\ g.trigger = PyramidTrigger(p) /\ Favorable(p.direction, price, g.trigger)
<1>1. PyramidTrigger(p) \in Int
  <2>1. StepN * p.entryN \in Nat
    BY TurtleConstantsOK, ProductNat
  <2> QED BY <2>1 DEF PyramidTrigger
<1>2. CASE g = Signal("STOP", p.system, ExitSide(p.direction), p.stop) /\ StopHit(p, price)
  BY <1>2 DEF Signal, StopHit
<1>3. CASE \E level \in ExitLevel(p, bars) :
             /\ g = Signal("EXIT", p.system, ExitSide(p.direction), level)
             /\ ChannelExitHit(p, price, bars)
  <2>1. PICK level \in ExitLevel(p, bars) :
          /\ g = Signal("EXIT", p.system, ExitSide(p.direction), level)
          /\ ChannelExitHit(p, price, bars)
    BY <1>3
  <2>2. level \in Int
    BY ExitLevelPrices DEF Price
  <2>3. Adverse(p.direction, price, level)
    <3>1. PICK other \in ExitLevel(p, bars) : Adverse(p.direction, price, other)
      BY <2>1 DEF ChannelExitHit
    <3>2. \A x, y \in ExitLevel(p, bars) : x = y
      BY DEF ExitLevel, ChannelHigh, ChannelLow
    <3> QED BY <3>1, <3>2
  <2> QED BY <2>1, <2>2, <2>3 DEF Signal
<1>4. CASE /\ g = Signal("PYRAMID", p.system, EntrySide(p.direction), PyramidTrigger(p))
           /\ ShouldPyramid(p, price)
  BY <1>1, <1>4 DEF Signal, ShouldPyramid
<1>5. \/ g = Signal("STOP", p.system, ExitSide(p.direction), p.stop) /\ StopHit(p, price)
      \/ \E level \in ExitLevel(p, bars) :
             /\ g = Signal("EXIT", p.system, ExitSide(p.direction), level)
             /\ ChannelExitHit(p, price, bars)
      \/ /\ g = Signal("PYRAMID", p.system, EntrySide(p.direction), PyramidTrigger(p))
         /\ ShouldPyramid(p, price)
  BY DEF HeldSignals
<1> QED BY <1>2, <1>3, <1>4, <1>5

LEMMA BreakoutTriggers ==
  ASSUME NEW bars \in Seq(Bar), NEW price \in Int, NEW direction, NEW period \in Nat \ {0},
         NEW t \in Breakout(bars, price, direction, period)
  PROVE  t \in Int /\ Favorable(direction, price, t)
<1>1. ChannelHigh(bars, period) \subseteq Int /\ ChannelLow(bars, period) \subseteq Int
  BY Levels DEF Price
<1>2. MinimumTick \in Int
  BY TurtleConstantsOK
<1> QED BY <1>1, <1>2 DEF Breakout, Favorable

\* An entry is signalled where the price has moved beyond a channel.
LEMMA EntryTriggers ==
  ASSUME NEW key, NEW bars \in Seq(Bar), NEW price \in Int, NEW waiting,
         NEW g \in EntrySignals(key, bars, price, waiting)
  PROVE  /\ g.kind = "ENTRY" /\ g.side = EntrySide(key[2]) /\ g.system \in Systems
         /\ g.trigger \in Int /\ Favorable(key[2], price, g.trigger)
<1>1. PICK system \in Systems, period \in {EntryShort, EntryLong} :
        \E t \in Breakout(bars, price, key[2], period) : g = Signal("ENTRY", system, EntrySide(key[2]), t)
  BY DEF EntrySignals, Systems
<1>2. PICK t \in Breakout(bars, price, key[2], period) : g = Signal("ENTRY", system, EntrySide(key[2]), t)
  BY <1>1
<1>3. period \in Nat \ {0}
  BY TurtleConstantsOK
<1>4. t \in Int /\ Favorable(key[2], price, t)
  BY <1>3, BreakoutTriggers
<1> QED BY <1>2, <1>4 DEF Signal
=============================================================================
