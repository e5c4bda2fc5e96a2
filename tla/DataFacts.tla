------------------------------ MODULE DataFacts ------------------------------
(***************************************************************************)
(* Facts about sequences and numbers that the proofs about the readers     *)
(* need.  Induction is over a set of numbers, not over a predicate.        *)
(*                                                                         *)
(* Cat and Part are concatenation and SubSeq under names the provers do    *)
(* not expand, so that a fact about them applies to a term as it stands.   *)
(***************************************************************************)
EXTENDS Integers, SequenceTheorems, FiniteSetTheorems, WellFoundedInduction, TLAPS

Cat(x, y) == x \o y
Part(s, i, j) == SubSeq(s, i, j)
-----------------------------------------------------------------------------
(* Two sequences, one behind the other, are a sequence. *)
LEMMA CatType ==
  ASSUME NEW S, NEW x \in Seq(S), NEW y \in Seq(S)
  PROVE  /\ Cat(x, y) \in Seq(S)
         /\ Len(Cat(x, y)) = Len(x) + Len(y) /\ Len(x) \in Nat /\ Len(y) \in Nat
         /\ \A j \in 1 .. Len(x) : Cat(x, y)[j] = x[j]
         /\ \A j \in 1 .. Len(y) : Cat(x, y)[Len(x) + j] = y[j]
         /\ \A j \in Len(x) + 1 .. Len(x) + Len(y) : Cat(x, y)[j] = y[j - Len(x)]
BY DEF Cat

(* What two sequences, one behind the other, are. *)
LEMMA CatIs ==
  ASSUME NEW S, NEW x \in Seq(S), NEW y \in Seq(S), NEW z \in Seq(S),
         Len(z) = Len(x) + Len(y),
         \A j \in 1 .. Len(x) : z[j] = x[j],
         \A j \in 1 .. Len(y) : z[Len(x) + j] = y[j]
  PROVE  Cat(x, y) = z
<1>1. /\ x \o y \in Seq(S) /\ Len(x \o y) = Len(x) + Len(y)
      /\ \A i \in 1 .. Len(x) + Len(y) :
           (x \o y)[i] = IF i <= Len(x) THEN x[i] ELSE y[i - Len(x)]
  BY ConcatProperties
<1>2. \A i \in 1 .. Len(x \o y) : (x \o y)[i] = z[i]
  <2> TAKE i \in 1 .. Len(x \o y)
  <2>1. CASE i <= Len(x)
    BY <1>1, <2>1, LenProperties
  <2>2. CASE i > Len(x)
    <3>1. i - Len(x) \in 1 .. Len(y) /\ Len(x) + (i - Len(x)) = i
      BY <1>1, <2>2, LenProperties
    <3>2. QED
      BY <1>1, <2>2, <3>1, LenProperties
  <2>3. QED
    BY <2>1, <2>2, LenProperties
<1>3. x \o y = z
  BY <1>1, <1>2, SeqEqual
<1>4. QED
  BY <1>3 DEF Cat

(* A part of a sequence. *)
LEMMA PartType ==
  ASSUME NEW S, NEW s \in Seq(S), NEW i \in 1 .. Len(s) + 1, NEW j \in 0 .. Len(s),
         i <= j + 1
  PROVE  /\ Part(s, i, j) \in Seq(S) /\ Len(Part(s, i, j)) = j - i + 1
         /\ \A k \in 1 .. j - i + 1 : Part(s, i, j)[k] = s[i + k - 1]
BY DEF Part

(* All of a sequence, and nothing of it. *)
LEMMA PartAll ==
  ASSUME NEW S, NEW s \in Seq(S)
  PROVE  Part(s, 1, Len(s)) = s /\ Part(s, Len(s) + 1, Len(s)) = <<>>
BY DEF Part

(* The empty sequence adds nothing. *)
LEMMA CatEmpty ==
  ASSUME NEW S, NEW s \in Seq(S)
  PROVE  Cat(s, <<>>) = s /\ Cat(<<>>, s) = s
BY ConcatEmptySeq DEF Cat

(* A part from the start and the part behind it. *)
LEMMA PartNext ==
  ASSUME NEW S, NEW s \in Seq(S), NEW i \in 0 .. Len(s), NEW k \in 0 .. Len(s) - i
  PROVE  Cat(Part(s, 1, i), Part(s, i + 1, i + k)) = Part(s, 1, i + k)
<1>1. PICK m, n : m = i + 1 /\ n = i + k
  OBVIOUS
<1>2. /\ Len(s) \in Nat /\ i \in Nat /\ k \in Nat /\ i \in 0 .. Len(s) /\ n \in 0 .. Len(s)
      /\ 1 \in 1 .. Len(s) + 1 /\ m \in 1 .. Len(s) + 1
      /\ 1 <= i + 1 /\ m <= n + 1 /\ 1 <= n + 1
  BY <1>1, LenProperties
<1> DEFINE x == Part(s, 1, i)
           y == Part(s, m, n)
           z == Part(s, 1, n)
<1>3. /\ x \in Seq(S) /\ Len(x) = i - 1 + 1
      /\ \A j \in 1 .. i - 1 + 1 : x[j] = s[1 + j - 1]
  BY <1>2, PartType
<1>4. /\ y \in Seq(S) /\ Len(y) = n - m + 1
      /\ \A j \in 1 .. n - m + 1 : y[j] = s[m + j - 1]
  BY <1>2, PartType
<1>5. /\ z \in Seq(S) /\ Len(z) = n - 1 + 1
      /\ \A j \in 1 .. n - 1 + 1 : z[j] = s[1 + j - 1]
  BY <1>2, PartType
<1> HIDE DEF x, y, z
<1>6. /\ \A j \in 1 .. Len(x) : z[j] = x[j]
      /\ \A j \in 1 .. Len(y) : z[Len(x) + j] = y[j]
      /\ Len(z) = Len(x) + Len(y)
  <2>1. Len(x) = i /\ Len(y) = k /\ Len(z) = i + k
    <3>1. Len(x) = i - 1 + 1 /\ Len(y) = n - m + 1 /\ Len(z) = n - 1 + 1
      BY ONLY <1>3, <1>4, <1>5
    <3>2. i - 1 + 1 = i /\ n - m + 1 = k /\ n - 1 + 1 = i + k
      BY ONLY <1>1, <1>2
    <3>3. QED
      BY ONLY <3>1, <3>2
  <2>2. \A j \in 1 .. i : x[j] = s[j]
    BY <1>2, <1>3
  <2>3. \A j \in 1 .. k : y[j] = s[i + j]
    BY <1>1, <1>2, <1>4
  <2>4. \A j \in 1 .. i + k : z[j] = s[j]
    BY <1>1, <1>2, <1>5
  <2>5. \A j \in 1 .. i : z[j] = x[j]
    BY <1>2, <2>2, <2>4
  <2>6. \A j \in 1 .. k : z[i + j] = y[j]
    BY <1>2, <2>3, <2>4
  <2>7. QED
    BY <2>1, <2>5, <2>6
<1>7. Cat(x, y) = z
  BY <1>3, <1>4, <1>5, <1>6, CatIs
<1>8. QED
  BY <1>1, <1>7 DEF x, y, z
-----------------------------------------------------------------------------
(* Remainders.  (The provers know what a and b \in Int make of % when the  *)
(* modulus is a number, and little of it when it is not.)                  *)

(* A remainder is what is left of some multiple. *)
LEMMA ModIs ==
  ASSUME NEW a \in Int, NEW m \in Nat, m > 0, NEW q \in Int, NEW r \in 0 .. m - 1,
         a = m * q + r
  PROVE  a % m = r
OBVIOUS

(* And that multiple is the quotient. *)
LEMMA DivIs ==
  ASSUME NEW a \in Int, NEW m \in Nat, m > 0, NEW q \in Int, NEW r \in 0 .. m - 1,
         a = m * q + r
  PROVE  a \div m = q
OBVIOUS

(* Up to once around. *)
LEMMA ModSmall ==
  ASSUME NEW a \in Int, NEW m \in Nat, m > 0, -m <= a, a < m + m
  PROVE  /\ a < 0 => a % m = a + m
         /\ a >= 0 /\ a < m => a % m = a
         /\ a >= m => a % m = a - m
OBVIOUS

(* Every number is some multiple and its remainder. *)
LEMMA ModSplit ==
  ASSUME NEW a \in Int, NEW m \in Nat, m > 0
  PROVE  \E q \in Int, r \in 0 .. m - 1 : a = m * q + r /\ a % m = r
OBVIOUS

(* Remainders can be taken before they are added. *)
LEMMA ModAdd ==
  ASSUME NEW a \in Int, NEW b \in Int, NEW m \in Nat, m > 0
  PROVE  /\ a % m \in 0 .. m - 1
         /\ (a + b) % m = ((a % m) + b) % m
<1>1. PICK q \in Int, r \in 0 .. m - 1 : a = m * q + r /\ a % m = r
  BY ModSplit
<1>2. PICK c \in Int : c = r + b
  OBVIOUS
<1>3. PICK p \in Int, t \in 0 .. m - 1 : c = m * p + t /\ c % m = t
  BY ModSplit
<1>4. a + b = m * (q + p) + t
  <2>1. m * (q + p) = m * q + m * p
    BY <1>1, <1>3
  <2>2. QED
   BY <1>1, <1>2, <1>3, <2>1
<1>5. PICK x \in Int, y \in Int : x = a + b /\ y = q + p
  OBVIOUS
<1>6. x % m = t
  BY <1>4, <1>5, ModIs
<1>7. QED
  BY <1>1, <1>2, <1>3, <1>5, <1>6
-----------------------------------------------------------------------------
(* A set of numbers has a least member. *)
LEMMA Least ==
  ASSUME NEW T, T \subseteq Nat, T # {}
  PROVE  \E x \in T : \A y \in T : x <= y
<1> DEFINE D == {1 .. x : x \in T}
<1>1. D # {} /\ D \subseteq FiniteSubsetsOf(Nat)
  <2>1. \A x \in T : IsFiniteSet(1 .. x) /\ 1 .. x \in SUBSET Nat
    BY FS_Interval
  <2>2. QED
    BY <2>1 DEF FiniteSubsetsOf
<1>2. IsWellFoundedOn(StrictSubsetOrdering(Nat), FiniteSubsetsOf(Nat))
  BY FS_StrictSubsetOrderingWellFounded
<1>3. PICK d \in D : \A e \in D : ~(<<e, d>> \in StrictSubsetOrdering(Nat))
  BY ONLY <1>1, <1>2, WFMin
<1>4. PICK x \in T : d = 1 .. x
  BY <1>3
<1>5. ASSUME NEW y \in T PROVE x <= y
  <2>1. SUFFICES ASSUME y < x PROVE FALSE
    OBVIOUS
  <2>2. 1 .. y \subseteq 1 .. x /\ 1 .. y # 1 .. x
    <3>1. x \in 1 .. x /\ x \notin 1 .. y
      BY <2>1
    <3>2. QED
      BY <2>1, <3>1
  <2>3. <<1 .. y, d>> \in StrictSubsetOrdering(Nat)
    BY <1>4, <2>2 DEF StrictSubsetOrdering
  <2>4. QED
    BY <1>3, <2>3
<1>6. QED
  BY <1>5

(* Induction, over a set of numbers. *)
LEMMA Inductive ==
  ASSUME NEW S, 0 \in S, \A n \in Nat : n \in S => n + 1 \in S
  PROVE  \A n \in Nat : n \in S
<1> SUFFICES ASSUME Nat \ S # {} PROVE FALSE
  OBVIOUS
<1>1. PICK x \in Nat \ S : \A y \in Nat \ S : x <= y
  BY Least
<1>2. x # 0 /\ x - 1 \in Nat /\ (x - 1) + 1 = x
  BY <1>1
<1>3. x - 1 \in S
  BY <1>1, <1>2
<1>4. QED
  BY <1>1, <1>2, <1>3

\* the value for 0, and the others each from the one before
Recurs(g, first, step) == g[0] = first /\ \A k \in Nat : g[k + 1] = step[g[k]]
Recursive(first, step) == CHOOSE g : Recurs(g, first, step)

(* What is defined from the value for the number before is defined. *)
LEMMA Recursion ==
  ASSUME NEW first, NEW step
  PROVE  Recurs(Recursive(first, step), first, step)
<1> DEFINE Upto(g, n) == /\ g[0] = first
                        /\ \A k \in Nat : k < n => g[k + 1] = step[g[k]]
           S == {n \in Nat : \E g : Upto(g, n)}
           V(n) == CHOOSE g : Upto(g, n)
           G == [k \in Nat |-> V(k)[k]]
<1>1. \A n \in Nat : n \in S
  <2>1. 0 \in S
    <3>1. Upto([k \in Nat |-> first], 0)
      OBVIOUS
    <3>2. QED
      BY <3>1
  <2>2. ASSUME NEW n \in Nat, n \in S PROVE n + 1 \in S
    <3>1. PICK g : Upto(g, n)
      BY <2>2
    <3> DEFINE e == [k \in Nat |-> IF k = n + 1 THEN step[g[n]] ELSE g[k]]
    <3>2. e[0] = first
      BY <3>1
    <3>3. ASSUME NEW k \in Nat, k < n + 1 PROVE e[k + 1] = step[e[k]]
      BY <3>1, <3>3
    <3>4. Upto(e, n + 1)
      BY <3>2, <3>3
    <3> HIDE DEF e
    <3>5. \E h : Upto(h, n + 1)
      BY ONLY Zenon, <3>4
    <3>6. QED
      BY <3>5
  <2> HIDE DEF S
  <2>3. QED
    BY ONLY <2>1, <2>2, Inductive
<1>2. \A n \in Nat : Upto(V(n), n)
  BY <1>1
<1>3. ASSUME NEW n \in Nat PROVE \A k \in Nat : k <= n => V(n)[k] = V(n + 1)[k]
  <2> DEFINE E == {k \in Nat : k <= n => V(n)[k] = V(n + 1)[k]}
  <2>1. Upto(V(n), n) /\ Upto(V(n + 1), n + 1)
    BY <1>2
  <2> HIDE DEF V
  <2>2. 0 \in E
    BY <2>1
  <2>3. ASSUME NEW k \in Nat, k \in E PROVE k + 1 \in E
    BY <2>1, <2>3
  <2> HIDE DEF E
  <2>4. \A k \in Nat : k \in E
    BY ONLY <2>2, <2>3, Inductive
  <2>5. QED
    BY <2>4 DEF E
<1> HIDE DEF V
<1>4. G[0] = first
  BY <1>2
<1>5. ASSUME NEW k \in Nat PROVE G[k + 1] = step[G[k]]
  <2>1. V(k)[k] = V(k + 1)[k]
    BY <1>3
  <2>2. V(k + 1)[k + 1] = step[V(k + 1)[k]]
    BY <1>2
  <2>3. QED
    BY <2>1, <2>2
<1> HIDE DEF G
<1>6. Recurs(G, first, step)
  BY ONLY <1>4, <1>5 DEF Recurs
<1>7. QED
  BY ONLY Zenon, <1>6 DEF Recursive

(* What a finite set is mapped to is finite. *)
LEMMA ImageFinite ==
  ASSUME NEW S, IsFiniteSet(S), NEW map
  PROVE  IsFiniteSet({map[x] : x \in S})
<1> DEFINE T == {map[x] : x \in S}
           g == [x \in S |-> map[x]]
<1>1. g \in [S -> T] /\ \A y \in T : \E x \in S : g[x] = y
  OBVIOUS
<1>2. g \in Surjection(S, T)
  BY ONLY <1>1 DEF Surjection
<1>3. QED
  BY ONLY <1>2, IsFiniteSet(S), FS_Surjection
=============================================================================
