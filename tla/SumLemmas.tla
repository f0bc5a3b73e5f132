----------------------------- MODULE SumLemmas -----------------------------
(***************************************************************************)
(* Sums over finite sets, as the folds of the library compute them: one    *)
(* element after the other, in the order a CHOOSE picks them.  The sum     *)
(* does not depend on that order, and changes as its summands do.          *)
(***************************************************************************)
EXTENDS Integers, FiniteSetTheorems, WellFoundedInduction, TLAPS

\* A family of subsets of a finite set that is not empty has one that is smallest.
LEMMA SmallestSet ==
    ASSUME NEW X, IsFiniteSet(X), NEW family, family \subseteq SUBSET X, family # {}
    PROVE  \E Y \in family : \A x \in Y : Y \ {x} \notin family
<1>1. FiniteSubsetsOf(X) = SUBSET X
  BY FS_FiniteSubsetsOfFinite
<1>2. IsWellFoundedOn(StrictSubsetOrdering(X), SUBSET X)
  BY <1>1, FS_StrictSubsetOrderingWellFounded
<1>3. PICK Y \in family : \A Z \in family : <<Z, Y>> \notin StrictSubsetOrdering(X)
  BY <1>2, WFMin
<1>4. ASSUME NEW x \in Y, Y \ {x} \in family PROVE FALSE
  <2>1. Y \in SUBSET X /\ Y \ {x} \in SUBSET X /\ Y \ {x} # Y
    BY <1>4
  <2>2. <<Y \ {x}, Y>> \in StrictSubsetOrdering(X)
    BY <2>1 DEF StrictSubsetOrdering
  <2> QED BY <1>3, <1>4, <2>2
<1> QED BY <1>4

\* The element a fold takes next.
Next1(s) == CHOOSE x \in s : TRUE
\* The sums over the subsets of S, as a fold computes them.
Iterates(sum, f, S) ==
    sum = [s \in SUBSET S |-> IF s = {} THEN 0 ELSE f[Next1(s)] + sum[s \ {Next1(s)}]]

SumOver(f, S) == (CHOOSE sum : Iterates(sum, f, S))[S]

LEMMA Next1Is == \A s : s # {} => Next1(s) \in s
BY DEF Next1

LEMMA IteratesAt ==
    ASSUME NEW f, NEW S, NEW g, Iterates(g, f, S), NEW s \in SUBSET S
    PROVE  g[s] = IF s = {} THEN 0 ELSE f[Next1(s)] + g[s \ {Next1(s)}]
<1>1. g = [r \in SUBSET S |-> IF r = {} THEN 0 ELSE f[Next1(r)] + g[r \ {Next1(r)}]]
  BY DEF Iterates
<1> QED BY <1>1

LEMMA IteratesAgree ==
    ASSUME NEW f, NEW A, IsFiniteSet(A), NEW B, NEW g, NEW h, Iterates(g, f, A), Iterates(h, f, B)
    PROVE  \A s \in SUBSET A : s \subseteq B => g[s] = h[s]
<1> DEFINE family == {s \in SUBSET A : s \subseteq B /\ g[s] # h[s]}
<1> SUFFICES ASSUME family # {} PROVE FALSE
  OBVIOUS
<1>1. PICK Y \in family : \A x \in Y : Y \ {x} \notin family
  <2>1. family \subseteq SUBSET A
    OBVIOUS
  <2> HIDE DEF family
  <2> QED BY <2>1, SmallestSet
<1>2. Y \in SUBSET A /\ Y \in SUBSET B /\ g[Y] # h[Y]
  OBVIOUS
<1>3. CASE Y = {}
  <2>1. g[Y] = 0 /\ h[Y] = 0
    BY <1>2, <1>3, IteratesAt
  <2> QED BY <1>2, <2>1
<1>4. CASE Y # {}
  <2>1. Next1(Y) \in Y
    BY <1>4, Next1Is
  <2>2. g[Y \ {Next1(Y)}] = h[Y \ {Next1(Y)}]
    BY <1>1, <1>2, <2>1
  <2>3. g[Y] = f[Next1(Y)] + g[Y \ {Next1(Y)}]
    BY <1>2, <1>4, IteratesAt
  <2>4. h[Y] = f[Next1(Y)] + h[Y \ {Next1(Y)}]
    BY <1>2, <1>4, IteratesAt
  <2> QED BY <1>2, <2>2, <2>3, <2>4
<1> QED BY <1>3, <1>4

LEMMA IteratesExist ==
    ASSUME NEW f, NEW S, IsFiniteSet(S)
    PROVE  \E sum : Iterates(sum, f, S)
<1> DEFINE family == {T \in SUBSET S : ~ \E sum : Iterates(sum, f, T)}
<1> SUFFICES ASSUME family # {} PROVE FALSE
  OBVIOUS
<1>1. PICK Y \in family : \A x \in Y : Y \ {x} \notin family
  <2>1. family \subseteq SUBSET S
    OBVIOUS
  <2> HIDE DEF family
  <2> QED BY <2>1, SmallestSet
<1>2. Y \in SUBSET S /\ IsFiniteSet(Y)
  BY FS_Subset
<1>3. \A x \in Y : \E sum : Iterates(sum, f, Y \ {x})
  BY <1>1, <1>2
<1> DEFINE Part(x) == CHOOSE sum : Iterates(sum, f, Y \ {x})
           out(s) == CHOOSE x \in Y : x \notin s
           below == [s \in (SUBSET Y) \ {Y} |-> Part(out(s))[s]]
           all == [s \in SUBSET Y |->
                      IF s = {} THEN 0 ELSE
                      IF s = Y THEN f[Next1(Y)] + below[Y \ {Next1(Y)}] ELSE below[s]]
<1>4. \A x \in Y : Iterates(Part(x), f, Y \ {x})
  BY <1>3
<1>5. \A s \in (SUBSET Y) \ {Y} : out(s) \in Y /\ s \in SUBSET (Y \ {out(s)})
  OBVIOUS
<1> HIDE DEF Part, out
<1>a. ASSUME NEW x \in Y, NEW s \in SUBSET (Y \ {x})
      PROVE  Part(x)[s] = IF s = {} THEN 0 ELSE f[Next1(s)] + Part(x)[s \ {Next1(s)}]
  <2> DEFINE g == Part(x)  Z == Y \ {x}
  <2>1. Iterates(g, f, Z) /\ s \in SUBSET Z
    BY <1>4
  <2> HIDE DEF g, Z
  <2>2. g[s] = IF s = {} THEN 0 ELSE f[Next1(s)] + g[s \ {Next1(s)}]
    BY <2>1, IteratesAt
  <2> QED BY <2>2 DEF g
<1>b. ASSUME NEW x \in Y, NEW y \in Y, NEW s \in SUBSET (Y \ {x}), s \in SUBSET (Y \ {y})
      PROVE  Part(x)[s] = Part(y)[s]
  <2> DEFINE g == Part(x)  h == Part(y)  A == Y \ {x}  B == Y \ {y}
  <2>1. Iterates(g, f, A) /\ Iterates(h, f, B) /\ s \in SUBSET A /\ s \subseteq B
    BY <1>4, <1>b
  <2>2. IsFiniteSet(A)
    BY <1>2, FS_Subset
  <2> HIDE DEF g, h, A, B
  <2>3. g[s] = h[s]
    BY <2>1, <2>2, IteratesAgree
  <2> QED BY <2>3 DEF g, h
<1>6. ASSUME NEW s \in SUBSET Y, s # {} PROVE all[s] = f[Next1(s)] + all[s \ {Next1(s)}]
  <2>1. Next1(s) \in s /\ s \ {Next1(s)} \in (SUBSET Y) \ {Y}
    BY <1>6, Next1Is
  <2> DEFINE r == s \ {Next1(s)}
  <2>2. CASE r = {}
    <3>1. all[r] = 0
      BY <2>2
    <3>2. below[r] = 0
      <4>1. out(r) \in Y /\ r \in SUBSET (Y \ {out(r)}) /\ below[r] = Part(out(r))[r]
        BY <1>5, <2>1
      <4>2. Part(out(r))[r] = 0
        BY <1>a, <2>2, <4>1
      <4> QED BY <4>1, <4>2
    <3>3. CASE s = Y
      BY <1>6, <3>1, <3>2, <3>3
    <3>4. CASE s # Y
      <4>1. out(s) \in Y /\ s \in SUBSET (Y \ {out(s)}) /\ all[s] = Part(out(s))[s]
        BY <1>5, <1>6, <3>4
      <4>2. Part(out(s))[s] = f[Next1(s)] + Part(out(s))[r]
        BY <1>a, <1>6, <4>1
      <4>3. r \in SUBSET (Y \ {out(s)})
        BY <4>1
      <4>4. Part(out(s))[r] = 0
        BY <1>a, <2>2, <4>1, <4>3
      <4> QED BY <3>1, <4>1, <4>2, <4>4
    <3> QED BY <3>3, <3>4
  <2>3. CASE r # {}
    <3>1. all[r] = below[r] /\ below[r] = Part(out(r))[r]
      BY <2>1, <2>3
    <3>2. CASE s = Y
      BY <1>6, <3>1, <3>2
    <3>3. CASE s # Y
      <4>1. out(s) \in Y /\ s \in SUBSET (Y \ {out(s)}) /\ all[s] = Part(out(s))[s]
        BY <1>5, <1>6, <3>3
      <4>2. Part(out(s))[s] = f[Next1(s)] + Part(out(s))[r]
        BY <1>a, <1>6, <4>1
      <4>3. r \in SUBSET (Y \ {out(s)}) /\ out(r) \in Y /\ r \in SUBSET (Y \ {out(r)})
        BY <1>5, <2>1, <4>1
      <4>4. Part(out(s))[r] = Part(out(r))[r]
        BY <1>b, <4>1, <4>3
      <4> QED BY <3>1, <4>1, <4>2, <4>4
    <3> QED BY <3>2, <3>3
  <2> QED BY <2>2, <2>3
<1>7. Iterates(all, f, Y)
  <2>1. all[{}] = 0
    OBVIOUS
  <2>2. all = [s \in SUBSET Y |-> all[s]]
    OBVIOUS
  <2> HIDE DEF all
  <2>3. [s \in SUBSET Y |-> all[s]] =
            [s \in SUBSET Y |-> IF s = {} THEN 0 ELSE f[Next1(s)] + all[s \ {Next1(s)}]]
    BY <1>6, <2>1
  <2> QED BY <2>2, <2>3 DEF Iterates
<1> QED BY <1>1, <1>7

\* A sum begins with any fold of a larger set.
LEMMA SumIterates ==
    ASSUME NEW f, NEW S, IsFiniteSet(S), NEW T \in SUBSET S, NEW g, Iterates(g, f, S)
    PROVE  SumOver(f, T) = g[T]
<1> DEFINE h == CHOOSE sum : Iterates(sum, f, T)
<1>1. IsFiniteSet(T)
  BY FS_Subset
<1>2. Iterates(h, f, T)
  BY <1>1, IteratesExist
<1>3. SumOver(f, T) = h[T]
  BY DEF SumOver
<1> HIDE DEF h
<1>4. h[T] = g[T]
  BY <1>1, <1>2, IteratesAgree
<1> QED BY <1>3, <1>4

LEMMA SumEmpty == \A f : SumOver(f, {}) = 0
<1> SUFFICES ASSUME NEW f PROVE SumOver(f, {}) = 0
  OBVIOUS
<1>1. IsFiniteSet({})
  BY FS_EmptySet
<1>2. PICK g : Iterates(g, f, {})
  BY <1>1, IteratesExist
<1>3. g[{}] = 0
  BY <1>2, IteratesAt
<1> QED BY <1>1, <1>2, <1>3, SumIterates

LEMMA SumNext ==
    ASSUME NEW f, NEW S, IsFiniteSet(S), S # {}
    PROVE  SumOver(f, S) = f[Next1(S)] + SumOver(f, S \ {Next1(S)})
<1>1. PICK g : Iterates(g, f, S)
  BY IteratesExist
<1>2. g[S] = f[Next1(S)] + g[S \ {Next1(S)}]
  BY <1>1, IteratesAt
<1>3. SumOver(f, S) = g[S] /\ SumOver(f, S \ {Next1(S)}) = g[S \ {Next1(S)}]
  BY <1>1, SumIterates
<1> QED BY <1>2, <1>3

LEMMA SumInt ==
    ASSUME NEW f, NEW S, IsFiniteSet(S), \A x \in S : f[x] \in Int
    PROVE  SumOver(f, S) \in Int
<1> DEFINE family == {T \in SUBSET S : SumOver(f, T) \notin Int}
<1> SUFFICES ASSUME family # {} PROVE FALSE
  OBVIOUS
<1>1. PICK Y \in family : \A x \in Y : Y \ {x} \notin family
  <2>1. family \subseteq SUBSET S
    OBVIOUS
  <2> HIDE DEF family
  <2> QED BY <2>1, SmallestSet
<1>2. Y # {}
  BY <1>1, SumEmpty
<1>3. Next1(Y) \in Y /\ SumOver(f, Y \ {Next1(Y)}) \in Int
  BY <1>1, <1>2, Next1Is
<1>4. IsFiniteSet(Y)
  BY FS_Subset
<1>5. SumOver(f, Y) = f[Next1(Y)] + SumOver(f, Y \ {Next1(Y)})
  BY <1>2, <1>4, SumNext
<1> QED BY <1>3, <1>5

\* The summands may be taken in any order.
LEMMA SumAny ==
    ASSUME NEW f, NEW S, IsFiniteSet(S), \A x \in S : f[x] \in Int, NEW z \in S
    PROVE  SumOver(f, S) = f[z] + SumOver(f, S \ {z})
<1> DEFINE family == {T \in SUBSET S : \E x \in T : SumOver(f, T) # f[x] + SumOver(f, T \ {x})}
<1> SUFFICES ASSUME family # {} PROVE FALSE
  OBVIOUS
<1>1. PICK Y \in family : \A x \in Y : Y \ {x} \notin family
  <2>1. family \subseteq SUBSET S
    OBVIOUS
  <2> HIDE DEF family
  <2> QED BY <2>1, SmallestSet
<1>2. PICK x \in Y : SumOver(f, Y) # f[x] + SumOver(f, Y \ {x})
  BY <1>1
<1> DEFINE y == Next1(Y)
<1>3. Y \in SUBSET S /\ IsFiniteSet(Y) /\ y \in Y
  BY <1>1, <1>2, FS_Subset, Next1Is
<1>4. SumOver(f, Y) = f[y] + SumOver(f, Y \ {y})
  BY <1>2, <1>3, SumNext
<1> HIDE DEF y
<1>5. x # y
  BY <1>2, <1>4
<1>6. SumOver(f, Y \ {y}) = f[x] + SumOver(f, (Y \ {y}) \ {x})
  <2>1. Y \ {y} \in SUBSET S /\ Y \ {y} \notin family /\ x \in Y \ {y}
    BY <1>1, <1>3, <1>5
  <2> QED BY <2>1
<1>7. SumOver(f, Y \ {x}) = f[y] + SumOver(f, (Y \ {x}) \ {y})
  <2>1. Y \ {x} \in SUBSET S /\ Y \ {x} \notin family /\ y \in Y \ {x}
    BY <1>1, <1>2, <1>3, <1>5
  <2> QED BY <2>1
<1>8. (Y \ {x}) \ {y} = (Y \ {y}) \ {x}
  OBVIOUS
<1>9. SumOver(f, (Y \ {y}) \ {x}) \in Int
  <2>1. IsFiniteSet((Y \ {y}) \ {x})
    BY <1>3, FS_Subset
  <2>2. \A w \in (Y \ {y}) \ {x} : f[w] \in Int
    BY <1>3
  <2> QED BY <2>1, <2>2, SumInt
<1>10. f[x] \in Int /\ f[y] \in Int
  BY <1>2, <1>3
<1> DEFINE r == SumOver(f, (Y \ {y}) \ {x})  fx == f[x]  fy == f[y]
<1>11. SumOver(f, Y) = fy + (fx + r)
  BY <1>4, <1>6
<1>12. SumOver(f, Y \ {x}) = fy + r
  BY <1>7, <1>8
<1>13. r \in Int /\ fx \in Int /\ fy \in Int
  BY <1>9, <1>10
<1>14. SumOver(f, Y) # fx + SumOver(f, Y \ {x})
  BY <1>2
<1> HIDE DEF r, fx, fy
<1>15. fy + (fx + r) = fx + (fy + r)
  BY <1>13
<1> QED BY <1>11, <1>12, <1>14, <1>15

LEMMA SumSame ==
    ASSUME NEW f, NEW g, NEW S, IsFiniteSet(S), \A x \in S : f[x] = g[x]
    PROVE  SumOver(f, S) = SumOver(g, S)
<1> DEFINE family == {T \in SUBSET S : SumOver(f, T) # SumOver(g, T)}
<1> SUFFICES ASSUME family # {} PROVE FALSE
  OBVIOUS
<1>1. PICK Y \in family : \A x \in Y : Y \ {x} \notin family
  <2>1. family \subseteq SUBSET S
    OBVIOUS
  <2> HIDE DEF family
  <2> QED BY <2>1, SmallestSet
<1>2. Y # {} /\ IsFiniteSet(Y)
  BY <1>1, SumEmpty, FS_Subset
<1>3. Next1(Y) \in Y /\ SumOver(f, Y \ {Next1(Y)}) = SumOver(g, Y \ {Next1(Y)})
  BY <1>1, <1>2, Next1Is
<1>4. /\ SumOver(f, Y) = f[Next1(Y)] + SumOver(f, Y \ {Next1(Y)})
      /\ SumOver(g, Y) = g[Next1(Y)] + SumOver(g, Y \ {Next1(Y)})
  BY <1>2, SumNext
<1>5. f[Next1(Y)] = g[Next1(Y)] /\ SumOver(f, Y) # SumOver(g, Y)
  BY <1>1, <1>3
<1> QED BY <1>3, <1>4, <1>5

\* One summand changes.
LEMMA SumChange ==
    ASSUME NEW f, NEW g, NEW S, IsFiniteSet(S), \A x \in S : f[x] \in Int /\ g[x] \in Int,
           NEW z \in S, \A x \in S \ {z} : f[x] = g[x]
    PROVE  SumOver(g, S) = SumOver(f, S) + (g[z] - f[z])
<1>1. SumOver(f, S) = f[z] + SumOver(f, S \ {z}) /\ SumOver(g, S) = g[z] + SumOver(g, S \ {z})
  BY SumAny
<1>2. IsFiniteSet(S \ {z})
  BY FS_Subset
<1>3. SumOver(f, S \ {z}) = SumOver(g, S \ {z})
  BY <1>2, SumSame
<1>4. SumOver(f, S \ {z}) \in Int
  BY <1>2, SumInt
<1> QED BY <1>1, <1>3, <1>4

\* What is left out of a sum of naturals makes it no larger.
LEMMA SumLess ==
    ASSUME NEW f, NEW S, IsFiniteSet(S), \A x \in S : f[x] \in Nat, NEW R \in SUBSET S
    PROVE  SumOver(f, R) <= SumOver(f, S) /\ SumOver(f, R) \in Nat
<1> DEFINE family == {T \in SUBSET S : ~(SumOver(f, R \intersect T) <= SumOver(f, T)
                                          /\ SumOver(f, R \intersect T) \in Nat)}
<1>1. family = {}
  <2> SUFFICES ASSUME family # {} PROVE FALSE
    OBVIOUS
  <2>1. PICK Y \in family : \A x \in Y : Y \ {x} \notin family
    <3>1. family \subseteq SUBSET S
      OBVIOUS
    <3> HIDE DEF family
    <3> QED BY <3>1, SmallestSet
  <2>2. Y \in SUBSET S /\ IsFiniteSet(Y) /\ IsFiniteSet(R \intersect Y)
    BY <2>1, FS_Subset
  <2>3. Y # {}
    BY <2>1, SumEmpty
  <2> DEFINE y == Next1(Y)
  <2>4. y \in Y /\ Y \ {y} \notin family /\ Y \ {y} \in SUBSET S /\ f[y] \in Nat
    BY <2>1, <2>2, <2>3, Next1Is
  <2> HIDE DEF y
  <2>5. SumOver(f, Y) = f[y] + SumOver(f, Y \ {y})
    BY <2>2, <2>4, SumAny
  <2>6. /\ SumOver(f, R \intersect (Y \ {y})) <= SumOver(f, Y \ {y})
        /\ SumOver(f, R \intersect (Y \ {y})) \in Nat
    BY <2>4
  <2>7. SumOver(f, Y \ {y}) \in Int
    <3>1. IsFiniteSet(Y \ {y})
      BY <2>2, FS_Subset
    <3> QED BY <2>2, <3>1, SumInt
  <2>8. CASE y \in R
    <3>1. R \intersect (Y \ {y}) = (R \intersect Y) \ {y} /\ y \in R \intersect Y
      BY <2>4, <2>8
    <3>2. SumOver(f, R \intersect Y) = f[y] + SumOver(f, (R \intersect Y) \ {y})
      <4>1. \A x \in R \intersect Y : f[x] \in Int
        BY <2>2
      <4> QED BY <2>2, <3>1, <4>1, SumAny
    <3>3. /\ SumOver(f, R \intersect Y) <= SumOver(f, Y)
          /\ SumOver(f, R \intersect Y) \in Nat
      <4> DEFINE u == SumOver(f, R \intersect (Y \ {y}))  v == SumOver(f, Y \ {y})  w == f[y]
      <4>1. SumOver(f, R \intersect Y) = w + u /\ SumOver(f, Y) = w + v
        BY <2>5, <3>1, <3>2
      <4>2. u <= v /\ u \in Nat /\ v \in Int /\ w \in Nat
        BY <2>4, <2>6, <2>7
      <4> HIDE DEF u, v, w
      <4> QED BY <4>1, <4>2
    <3> QED BY <2>1, <3>3
  <2>9. CASE y \notin R
    <3>1. R \intersect (Y \ {y}) = R \intersect Y
      BY <2>9
    <3> QED BY <2>1, <2>4, <2>5, <2>6, <2>7, <3>1
  <2> QED BY <2>8, <2>9
<1>2. R \intersect S = R
  OBVIOUS
<1> QED BY <1>1, <1>2

\* A sum of smaller summands is no larger.
LEMMA SumBelow ==
    ASSUME NEW f, NEW g, NEW S, IsFiniteSet(S),
           \A x \in S : f[x] \in Int /\ g[x] \in Int /\ f[x] <= g[x]
    PROVE  SumOver(f, S) <= SumOver(g, S)
<1> DEFINE family == {T \in SUBSET S : ~(SumOver(f, T) <= SumOver(g, T))}
<1> SUFFICES ASSUME family # {} PROVE FALSE
  OBVIOUS
<1>1. PICK Y \in family : \A x \in Y : Y \ {x} \notin family
  <2>1. family \subseteq SUBSET S
    OBVIOUS
  <2> HIDE DEF family
  <2> QED BY <2>1, SmallestSet
<1>2. Y # {} /\ IsFiniteSet(Y)
  <2>1. SumOver(f, {}) <= SumOver(g, {})
    BY SumEmpty
  <2> QED BY <1>1, <2>1, FS_Subset
<1> DEFINE y == Next1(Y)  u == SumOver(f, Y \ {y})  v == SumOver(g, Y \ {y})
<1>3. y \in Y /\ u <= v /\ f[y] \in Int /\ g[y] \in Int /\ f[y] <= g[y]
  BY <1>1, <1>2, Next1Is
<1>4. SumOver(f, Y) = f[y] + u /\ SumOver(g, Y) = g[y] + v
  BY <1>2, SumNext
<1>5. u \in Int /\ v \in Int
  <2>1. IsFiniteSet(Y \ {y}) /\ \A x \in Y \ {y} : f[x] \in Int /\ g[x] \in Int
    BY <1>2, FS_Subset
  <2> QED BY <2>1, SumInt
<1>6. ~(SumOver(f, Y) <= SumOver(g, Y))
  BY <1>1
<1> HIDE DEF u, v, y, family
<1> QED BY <1>3, <1>4, <1>5, <1>6
=============================================================================
