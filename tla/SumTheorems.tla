---------------------------- MODULE SumTheorems ----------------------------
(***************************************************************************)
(* Induction and sums over finite sets, for the proofs of this project.     *)
(* The induction principles are stated for sets, not for predicates: a set  *)
(* of naturals has a least element by the well-foundedness of <, and what   *)
(* holds for the rest follows from that.                                    *)
(***************************************************************************)
EXTENDS Integers, FiniteSets, Functions, FiniteSetTheorems, TLAPS

\* A set of naturals with an element has a least one.
LEMMA LeastNatural ==
  ASSUME NEW S, S \subseteq Nat, S # {}
  PROVE  \E x \in S : \A y \in S : x <= y
<1>1. PICK x \in S : \A y \in S : <<y, x>> \notin OpToRel(<, Nat)
  BY NatLessThanWellFounded, WFMin
<1>2. \A y \in S : ~(y < x)
  BY <1>1 DEF OpToRel
<1> QED BY <1>2

\* A set with 0, and with the successor of each natural in it, has them all.
LEMMA NaturalInduction ==
  ASSUME NEW T, 0 \in T, \A n \in Nat : n \in T => n + 1 \in T
  PROVE  \A n \in Nat : n \in T
<1> SUFFICES ASSUME Nat \ T # {} PROVE FALSE
  OBVIOUS
<1>1. PICK x \in Nat \ T : \A y \in Nat \ T : x <= y
  BY LeastNatural
<1>2. x # 0 /\ x - 1 \in Nat
  OBVIOUS
<1>3. x - 1 \in T
  BY <1>1, <1>2
<1>4. x \in T
  BY <1>2, <1>3
<1> QED BY <1>4

\* A collection of sets that has {}, and has a subset of a finite set D when
\* it has all that lack one element of it, has every subset of D.
LEMMA FiniteInduction ==
  ASSUME NEW D, IsFiniteSet(D), NEW F, {} \in F,
         \A s \in SUBSET D : s # {} /\ (\A x \in s : s \ {x} \in F) => s \in F
  PROVE  \A s \in SUBSET D : s \in F
<1> DEFINE T == {n \in Nat : \A s \in SUBSET D : Cardinality(s) = n => s \in F}
<1>1. \A s \in SUBSET D : IsFiniteSet(s) /\ Cardinality(s) \in Nat
  BY FS_Subset, FS_CardinalityType
<1>2. 0 \in T
  BY <1>1, FS_EmptySet
<1>3. ASSUME NEW n \in Nat, n \in T PROVE n + 1 \in T
  <2> SUFFICES ASSUME NEW s \in SUBSET D, Cardinality(s) = n + 1 PROVE s \in F
    OBVIOUS
  <2>1. s # {}
    <3>1. Cardinality({}) = 0 /\ n + 1 # 0
      BY FS_EmptySet
    <3> QED BY <3>1
  <2>2. \A x \in s : Cardinality(s \ {x}) = n
    BY <1>1, FS_RemoveElement
  <2>3. \A x \in s : s \ {x} \in F
    BY <1>3, <2>2
  <2> QED BY <2>1, <2>3
<1> HIDE DEF T
<1>4. \A n \in Nat : n \in T
  BY <1>2, <1>3, NaturalInduction
<1> QED BY <1>1, <1>4 DEF T

\* A finite set of naturals with an element has a greatest one.
LEMMA GreatestNatural ==
  ASSUME NEW S, S \subseteq Nat, IsFiniteSet(S), S # {}
  PROVE  \E x \in S : \A y \in S : x >= y
<1> DEFINE F == {s \in SUBSET S : s # {} => \E x \in s : \A y \in s : x >= y}
<1>1. {} \in F
  OBVIOUS
<1>2. ASSUME NEW s \in SUBSET S, s # {}, \A x \in s : s \ {x} \in F PROVE s \in F
  <2>1. PICK x \in s : TRUE
    BY <1>2
  <2>2. CASE s \ {x} = {}
    <3>1. \A y \in s : y = x
      BY <2>2
    <3> QED BY <2>1, <3>1
  <2>3. CASE s \ {x} # {}
    <3>1. PICK z \in s \ {x} : \A y \in s \ {x} : z >= y
      BY <1>2, <2>1, <2>3
    <3>2. CASE z >= x
      <4>1. \A y \in s : z >= y
        BY <3>1, <3>2
      <4> QED BY <4>1
    <3>3. CASE ~(z >= x)
      <4>1. \A y \in s : x >= y
        BY <3>1, <3>3
      <4> QED BY <2>1, <4>1
    <3> QED BY <3>2, <3>3
  <2> QED BY <2>2, <2>3
<1> HIDE DEF F
<1>3. S \in F
  BY <1>1, <1>2, FiniteInduction
<1> QED BY <1>3 DEF F

-----------------------------------------------------------------------------
(***************************************************************************)
(* SumFunction adds the values of a function in an order that CHOOSE picks. *)
(* g is what its recursion computes for the subsets of f's domain.          *)
(***************************************************************************)
AnyOf(s) == CHOOSE x \in s : TRUE

SumsUp(g, f, D) ==
  g = [s \in SUBSET D |-> IF s = {} THEN 0 ELSE f[AnyOf(s)] + g[s \ {AnyOf(s)}]]

\* The recursion has a solution.
LEMMA SumsExist ==
  ASSUME NEW D, IsFiniteSet(D), NEW f \in [D -> Nat]
  PROVE  \E g : SumsUp(g, f, D)
<1> DEFINE U(k) == {s \in SUBSET D : Cardinality(s) <= k}
           Solves(g, k) ==
             \A s \in U(k) : g[s] = IF s = {} THEN 0 ELSE f[AnyOf(s)] + g[s \ {AnyOf(s)}]
           T == {k \in Nat : \E g \in [U(k) -> Nat] : Solves(g, k)}
<1>1. \A s \in SUBSET D : IsFiniteSet(s) /\ Cardinality(s) \in Nat
  BY FS_Subset, FS_CardinalityType
<1>2. \A s \in SUBSET D : s # {} => /\ AnyOf(s) \in s
                                    /\ s \ {AnyOf(s)} \in SUBSET D
                                    /\ Cardinality(s \ {AnyOf(s)}) = Cardinality(s) - 1
  BY <1>1, FS_RemoveElement DEF AnyOf
<1>3. 0 \in T
  <2>1. U(0) = {{}}
    BY <1>1, FS_EmptySet
  <2> DEFINE g == [s \in U(0) |-> 0]
  <2>2. g \in [U(0) -> Nat] /\ Solves(g, 0)
    BY <2>1
  <2> QED BY <2>2
<1>4. ASSUME NEW k \in Nat, k \in T PROVE k + 1 \in T
  <2>1. PICK h \in [U(k) -> Nat] : Solves(h, k)
    BY <1>4
  <2> DEFINE g == [s \in U(k + 1) |->
                     IF s = {} THEN 0 ELSE f[AnyOf(s)] + h[s \ {AnyOf(s)}]]
  <2>2. \A s \in U(k + 1) : s # {} => s \ {AnyOf(s)} \in U(k) /\ AnyOf(s) \in D
    BY <1>1, <1>2
  <2>3. g \in [U(k + 1) -> Nat]
    BY <2>2
  <2>4. \A s \in U(k) : s \in U(k + 1) /\ g[s] = h[s]
    BY <1>1, <2>1
  <2>5. Solves(g, k + 1)
    BY <2>2, <2>4
  <2> HIDE DEF g, U, Solves
  <2> QED BY <2>3, <2>5
<1> HIDE DEF T
<1>5. Cardinality(D) \in T
  BY <1>1, <1>3, <1>4, NaturalInduction
<1> USE DEF T
<1>6. PICK g \in [U(Cardinality(D)) -> Nat] : Solves(g, Cardinality(D))
  BY <1>5
<1>7. U(Cardinality(D)) = SUBSET D
  BY FS_Subset
<1>8. g = [s \in SUBSET D |-> IF s = {} THEN 0 ELSE f[AnyOf(s)] + g[s \ {AnyOf(s)}]]
  BY <1>6, <1>7
<1> QED BY <1>8 DEF SumsUp

\* It has one solution, which depends on the values in D only.
LEMMA SumsAgree ==
  ASSUME NEW D, IsFiniteSet(D), NEW E \in SUBSET D,
         NEW f \in [D -> Nat], NEW h, \A x \in E : h[x] = f[x],
         NEW g, SumsUp(g, f, D), NEW k, SumsUp(k, h, E)
  PROVE  k[E] = g[E] /\ g[E] \in Nat
<1> DEFINE F == {s \in SUBSET E : k[s] = g[s] /\ g[s] \in Nat}
<1>1. \A s \in SUBSET E : /\ g[s] = IF s = {} THEN 0 ELSE f[AnyOf(s)] + g[s \ {AnyOf(s)}]
                          /\ k[s] = IF s = {} THEN 0 ELSE h[AnyOf(s)] + k[s \ {AnyOf(s)}]
  BY DEF SumsUp
<1>2. {} \in F
  <2>1. {} \in SUBSET E
    OBVIOUS
  <2>2. g[{}] = 0 /\ k[{}] = 0
    BY <1>1, <2>1
  <2> QED BY <2>1, <2>2
<1>3. ASSUME NEW s \in SUBSET E, s # {}, \A x \in s : s \ {x} \in F PROVE s \in F
  <2> DEFINE c == AnyOf(s)
  <2>1. c \in s
    BY <1>3 DEF AnyOf
  <2>2. g[s] = f[c] + g[s \ {c}] /\ k[s] = h[c] + k[s \ {c}]
    BY <1>1, <1>3
  <2> HIDE DEF c
  <2>3. h[c] = f[c] /\ f[c] \in Nat
    BY <2>1
  <2>4. k[s \ {c}] = g[s \ {c}] /\ g[s \ {c}] \in Nat
    BY <1>3, <2>1
  <2> QED BY <2>2, <2>3, <2>4
<1>4. IsFiniteSet(E)
  BY FS_Subset
<1> HIDE DEF F
<1>5. E \in F
  BY <1>2, <1>3, <1>4, FiniteInduction
<1> QED BY <1>5 DEF F

\* Sums of naturals are naturals.
LEMMA SumsType ==
  ASSUME NEW D, IsFiniteSet(D), NEW f \in [D -> Nat], NEW g, SumsUp(g, f, D)
  PROVE  \A s \in SUBSET D : g[s] \in Nat
<1> DEFINE F == {s \in SUBSET D : g[s] \in Nat}
<1>1. \A s \in SUBSET D : g[s] = IF s = {} THEN 0 ELSE f[AnyOf(s)] + g[s \ {AnyOf(s)}]
  BY DEF SumsUp
<1>2. {} \in F
  BY <1>1
<1>3. ASSUME NEW s \in SUBSET D, s # {}, \A x \in s : s \ {x} \in F PROVE s \in F
  <2>1. AnyOf(s) \in s
    BY <1>3 DEF AnyOf
  <2>2. f[AnyOf(s)] \in Nat /\ g[s \ {AnyOf(s)}] \in Nat
    BY <1>3, <2>1
  <2>3. g[s] = f[AnyOf(s)] + g[s \ {AnyOf(s)}]
    BY <1>1, <1>3
  <2>4. g[s] \in Nat
    BY <2>2, <2>3
  <2> QED BY <2>4
<1> HIDE DEF F
<1>4. \A s \in SUBSET D : s \in F
  BY <1>2, <1>3, FiniteInduction
<1> QED BY <1>4 DEF F

\* It does not depend on the order.
LEMMA SumsAnyOrder ==
  ASSUME NEW D, IsFiniteSet(D), NEW f \in [D -> Nat], NEW g, SumsUp(g, f, D), NEW d \in D
  PROVE  g[D] = f[d] + g[D \ {d}]
<1> DEFINE Holds(s, x) == g[s] = f[x] + g[s \ {x}]
           F == {s \in SUBSET D : g[s] \in Nat /\ \A x \in s : Holds(s, x)}
<1>1. \A s \in SUBSET D : g[s] = IF s = {} THEN 0 ELSE f[AnyOf(s)] + g[s \ {AnyOf(s)}]
  BY DEF SumsUp
<1>2. {} \in F
  BY <1>1
<1>3. ASSUME NEW s \in SUBSET D, s # {}, \A x \in s : s \ {x} \in F PROVE s \in F
  <2> DEFINE c == AnyOf(s)
  <2>1. c \in s
    BY <1>3 DEF AnyOf
  <2>2. g[s] = f[c] + g[s \ {c}]
    BY <1>1, <1>3
  <2> HIDE DEF c
  <2>3. \A x \in s : f[x] \in Nat /\ g[s \ {x}] \in Nat
    BY <1>3
  <2>4. ASSUME NEW x \in s, x # c PROVE g[s] = f[x] + g[s \ {x}]
    <3>1. s \ {c} \in F /\ s \ {x} \in F
      BY <1>3, <2>1
    <3>2. g[s \ {c}] = f[x] + g[(s \ {c}) \ {x}]
      BY <2>4, <3>1
    <3>3. g[s \ {x}] = f[c] + g[(s \ {x}) \ {c}]
      BY <2>1, <2>4, <3>1
    <3>4. (s \ {c}) \ {x} = (s \ {x}) \ {c}
      OBVIOUS
    <3>5. f[x] \in Nat /\ f[c] \in Nat
      BY <2>1, <2>3
    <3>6. g[(s \ {x}) \ {c}] \in Int
      <4>1. (s \ {x}) \ {c} \in SUBSET D
        OBVIOUS
      <4> QED BY <4>1, SumsType
    <3> HIDE DEF F
    <3> QED BY <2>2, <3>2, <3>3, <3>4, <3>5, <3>6
  <2>5. g[s] \in Nat
    <3>1. f[c] \in Nat /\ g[s \ {c}] \in Nat
      BY <2>1, <2>3
    <3> QED BY <2>2, <3>1
  <2> QED BY <2>2, <2>4, <2>5
<1> HIDE DEF F
<1>4. D \in F
  BY <1>2, <1>3, FiniteInduction
<1> QED BY <1>4 DEF F

-----------------------------------------------------------------------------
(***************************************************************************)
(* What SumFunction computes.                                               *)
(***************************************************************************)
LEMMA SumIsSolution ==
  ASSUME NEW D, IsFiniteSet(D), NEW f \in [D -> Nat]
  PROVE  \E g : SumsUp(g, f, D) /\ SumFunction(f) = g[D]
<1> DEFINE G == CHOOSE g : SumsUp(g, f, D)
<1>1. SumsUp(G, f, D)
  BY SumsExist
<1>2. DOMAIN f = D
  OBVIOUS
<1>3. SumFunction(f) = G[D]
  BY <1>2 DEF SumFunction, SumFunctionOnSet, FoldFunctionOnSet, MapThenFoldSet, SumsUp, AnyOf
<1> QED BY <1>1, <1>3

LEMMA SumType ==
  ASSUME NEW D, IsFiniteSet(D), NEW f \in [D -> Nat]
  PROVE  SumFunction(f) \in Nat
BY SumIsSolution, SumsType

LEMMA SumEmpty ==
  ASSUME NEW f \in [{} -> Nat]
  PROVE  SumFunction(f) = 0
<1>1. IsFiniteSet({})
  BY FS_EmptySet
<1>2. PICK g : SumsUp(g, f, {}) /\ SumFunction(f) = g[{}]
  BY <1>1, SumIsSolution
<1>3. {} \in SUBSET {}
  OBVIOUS
<1>4. g[{}] = 0
  BY <1>2, <1>3 DEF SumsUp
<1> QED BY <1>2, <1>4

\* Taking any element out of a sum.
LEMMA SumSplit ==
  ASSUME NEW D, IsFiniteSet(D), NEW f \in [D -> Nat], NEW d \in D
  PROVE  SumFunction(f) = f[d] + SumFunction([x \in D \ {d} |-> f[x]])
<1> DEFINE E == D \ {d}
           h == [x \in E |-> f[x]]
<1>1. IsFiniteSet(E) /\ E \in SUBSET D /\ h \in [E -> Nat]
  BY FS_RemoveElement
<1>2. PICK g : SumsUp(g, f, D) /\ SumFunction(f) = g[D]
  BY SumIsSolution
<1>3. PICK k : SumsUp(k, h, E) /\ SumFunction(h) = k[E]
  BY <1>1, SumIsSolution
<1>4. \A x \in E : h[x] = f[x]
  OBVIOUS
<1> HIDE DEF E, h
<1>5. k[E] = g[E]
  BY <1>1, <1>2, <1>3, <1>4, SumsAgree
<1>6. g[D] = f[d] + g[E]
  BY <1>2, SumsAnyOrder DEF E
<1> QED BY <1>2, <1>3, <1>5, <1>6 DEF E, h

LEMMA SumElement ==
  ASSUME NEW D, IsFiniteSet(D), NEW f \in [D -> Nat], NEW d \in D
  PROVE  f[d] <= SumFunction(f)
<1>1. IsFiniteSet(D \ {d}) /\ [x \in D \ {d} |-> f[x]] \in [D \ {d} -> Nat]
  BY FS_RemoveElement
<1>2. SumFunction([x \in D \ {d} |-> f[x]]) \in Nat
  BY <1>1, SumType
<1>3. SumFunction(f) = f[d] + SumFunction([x \in D \ {d} |-> f[x]])
  BY SumSplit
<1> QED BY <1>2, <1>3

\* The same for a part of a function.
LEMMA PartSplit ==
  ASSUME NEW D, IsFiniteSet(D), NEW f \in [D -> Nat], NEW s \in SUBSET D
  PROVE  /\ IsFiniteSet(s)
         /\ SumFunction(Restrict(f, s)) \in Nat
         /\ s = {} => SumFunction(Restrict(f, s)) = 0
         /\ \A d \in s : SumFunction(Restrict(f, s)) = f[d] + SumFunction(Restrict(f, s \ {d}))
<1> DEFINE h == Restrict(f, s)
<1>1. IsFiniteSet(s)
  BY FS_Subset
<1>2. h \in [s -> Nat] /\ \A x \in s : h[x] = f[x]
  BY DEF Restrict
<1>3. SumFunction(h) \in Nat
  BY <1>1, <1>2, SumType
<1>4. s = {} => SumFunction(h) = 0
  BY <1>2, SumEmpty
<1>5. ASSUME NEW d \in s PROVE SumFunction(h) = f[d] + SumFunction(Restrict(f, s \ {d}))
  <2>1. SumFunction(h) = h[d] + SumFunction([x \in s \ {d} |-> h[x]])
    BY <1>1, <1>2, SumSplit
  <2>2. [x \in s \ {d} |-> h[x]] = Restrict(f, s \ {d})
    BY <1>2 DEF Restrict
  <2> HIDE DEF h
  <2> QED BY <1>2, <2>1, <2>2
<1> QED BY <1>1, <1>3, <1>4, <1>5

LEMMA WholePart ==
  ASSUME NEW D, NEW f \in [D -> Nat]
  PROVE  Restrict(f, D) = f
BY DEF Restrict

\* What is bounded value by value is bounded in sum.
LEMMA SumBound ==
  ASSUME NEW D, IsFiniteSet(D), NEW f \in [D -> Nat], NEW g \in [D -> Nat],
         NEW a \in Nat, NEW b \in Nat, NEW c \in Nat,
         \A x \in D : a * f[x] <= b * g[x] + c
  PROVE  a * SumFunction(f) <= b * SumFunction(g) + c * Cardinality(D)
<1> DEFINE A(s) == SumFunction(Restrict(f, s))
           B(s) == SumFunction(Restrict(g, s))
           Holds(s) == a * A(s) <= b * B(s) + c * Cardinality(s)
           F == {s \in SUBSET D : Holds(s)}
<1>1. \A s \in SUBSET D : A(s) \in Nat /\ B(s) \in Nat /\ Cardinality(s) \in Nat
  BY PartSplit, FS_Subset, FS_CardinalityType
<1>2. {} \in F
  <2>1. A({}) = 0 /\ B({}) = 0 /\ Cardinality({}) = 0
    BY PartSplit, FS_EmptySet
  <2> HIDE DEF A, B
  <2> QED BY <2>1
<1>3. ASSUME NEW s \in SUBSET D, s # {}, \A x \in s : s \ {x} \in F PROVE s \in F
  <2>1. PICK d \in s : TRUE
    BY <1>3
  <2>2. A(s) = f[d] + A(s \ {d}) /\ B(s) = g[d] + B(s \ {d})
    BY <2>1, PartSplit
  <2>3. Cardinality(s) = Cardinality(s \ {d}) + 1
    <3>1. IsFiniteSet(s)
      BY FS_Subset
    <3>2. Cardinality(s \ {d}) = Cardinality(s) - 1
      BY <2>1, <3>1, FS_RemoveElement
    <3>3. Cardinality(s) \in Nat
      BY <1>1
    <3> QED BY <3>2, <3>3
  <2>4. Holds(s \ {d}) /\ s \ {d} \in SUBSET D
    BY <1>3, <2>1
  <2>5. a * f[d] <= b * g[d] + c /\ f[d] \in Nat /\ g[d] \in Nat
    BY <2>1
  <2>6. /\ A(s \ {d}) \in Nat /\ B(s \ {d}) \in Nat /\ Cardinality(s \ {d}) \in Nat
    BY <1>1, <2>4
  <2> HIDE DEF A, B
  <2>7. a * A(s) = a * f[d] + a * A(s \ {d})
    BY <2>2, <2>5, <2>6
  <2>8. b * B(s) = b * g[d] + b * B(s \ {d})
    BY <2>2, <2>5, <2>6
  <2>9. c * Cardinality(s) = c * Cardinality(s \ {d}) + c
    BY <2>3, <2>6
  <2> DEFINE x1 == a * f[d]  x2 == a * A(s \ {d})  x3 == b * g[d]  x4 == b * B(s \ {d})
             x5 == c * Cardinality(s \ {d})
  <2>10. x1 \in Int /\ x2 \in Int /\ x3 \in Int /\ x4 \in Int /\ x5 \in Int
    BY <2>5, <2>6
  <2>11. x1 <= x3 + c /\ x2 <= x4 + x5
    BY <2>4, <2>5
  <2>12. a * A(s) = x1 + x2 /\ b * B(s) = x3 + x4 /\ c * Cardinality(s) = x5 + c
    BY <2>7, <2>8, <2>9
  <2> HIDE DEF x1, x2, x3, x4, x5
  <2>13. x1 + x2 <= (x3 + x4) + (x5 + c)
    BY <2>10, <2>11
  <2> QED BY <2>12, <2>13
<1> HIDE DEF F
<1>4. D \in F
  BY <1>2, <1>3, FiniteInduction
<1>5. Holds(D)
  BY <1>4 DEF F
<1> QED BY <1>5, WholePart

\* A part has no more than the whole, and as much when the rest has nothing.
LEMMA SumOfPart ==
  ASSUME NEW D, IsFiniteSet(D), NEW f \in [D -> Nat], NEW E \in SUBSET D
  PROVE  /\ SumFunction(Restrict(f, E)) <= SumFunction(f)
         /\ (\A x \in D \ E : f[x] = 0) => SumFunction(Restrict(f, E)) = SumFunction(f)
<1> DEFINE A(s) == SumFunction(Restrict(f, s))
           Nought == \A x \in D \ E : f[x] = 0
           Holds(s) == A(E \cap s) <= A(s) /\ (Nought => A(E \cap s) = A(s))
           F == {s \in SUBSET D : Holds(s)}
<1>1. \A s \in SUBSET D : A(s) \in Nat
  BY PartSplit
<1>2. {} \in F
  <2>1. E \cap {} = {}
    OBVIOUS
  <2>2. A({}) \in Nat
    BY <1>1
  <2> HIDE DEF A
  <2> QED BY <2>1, <2>2
<1>3. ASSUME NEW s \in SUBSET D, s # {}, \A x \in s : s \ {x} \in F PROVE s \in F
  <2>1. PICK d \in s : TRUE
    BY <1>3
  <2>2. A(s) = f[d] + A(s \ {d}) /\ f[d] \in Nat
    BY <2>1, PartSplit
  <2>3. Holds(s \ {d})
    BY <1>3, <2>1
  <2>4. A(s \ {d}) \in Nat /\ A(E \cap (s \ {d})) \in Nat
    BY <1>1
  <2>5. CASE d \in E
    <3>1. A(E \cap s) = f[d] + A((E \cap s) \ {d})
      BY <2>1, <2>5, PartSplit
    <3>2. (E \cap s) \ {d} = E \cap (s \ {d})
      OBVIOUS
    <3> HIDE DEF A
    <3> QED BY <2>2, <2>3, <2>4, <3>1, <3>2
  <2>6. CASE d \notin E
    <3>1. E \cap s = E \cap (s \ {d})
      BY <2>6
    <3>2. Nought => f[d] = 0
      BY <2>1, <2>6
    <3> HIDE DEF A, Nought
    <3> QED BY <2>2, <2>3, <2>4, <3>1, <3>2
  <2> QED BY <2>5, <2>6
<1> HIDE DEF F
<1>4. D \in F
  BY <1>2, <1>3, FiniteInduction
<1>5. Holds(D) /\ E \cap D = E
  BY <1>4 DEF F
<1> QED BY <1>5, WholePart
=============================================================================
