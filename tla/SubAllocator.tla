---------------------------- MODULE SubAllocator ----------------------------
(***************************************************************************)
(* subAllocator (ppm_model.go): the memory of the PPM model.               *)
(*                                                                         *)
(* Memory is counted in units; a unit holds one context or two states, and *)
(* unit 0 stands for nil.  Decoded text grows from the bottom of heap1,    *)
(* arrays of states from the bottom of heap2 and contexts from its top;    *)
(* freed blocks are kept in one list per size.  The code threads the lists *)
(* through the first state of each free block; here a list is a sequence,  *)
(* its head first.  A unit reads as a free block if it is the head of one  *)
(* when the lists are glued, or if it is unused and holds bytes of an      *)
(* older, larger memory that look like the mark (old).                     *)
(* The operators take the allocator as a record and return the changed     *)
(* one; those that allocate return it with the block, or with nil.         *)
(***************************************************************************)
EXTENDS Integers, Sequences, SequencesExt, FiniteSetsExt

CONSTANTS
  Steps,       \* n0, n1, ...: how many sizes grow by 0, by 1, by 2, ... units
  unitSize,    \* bytes of a unit
  GlueEvery,   \* 255: failed rare allocations between two glueings
  MaxRun,      \* math.MaxUint16: units the size field of a free block holds
  OldMarks     \* which units of an older memory look like free blocks of how many units

nil == 0
nIndexes == FoldLeft(LAMBDA x, y : x + y, 0, Steps)
Indexes == 0 .. nIndexes - 1

\* by how many units size i is larger than size i - 1
Step(i) == Cardinality({j \in 1 .. Len(Steps) :
             FoldLeft(LAMBDA x, y : x + y, 0, SubSeq(Steps, 1, j)) <= i})

\* index2Units: the units of a block of each size
index2Units == [i \in Indexes |-> FoldLeft(LAMBDA x, y : x + Step(y), 0, [j \in 1 .. i |-> j])]
MaxUnits == index2Units[nIndexes - 1]

\* units2Index: the least size that has u units
units2Index == [u \in 0 .. MaxUnits |-> Min({i \in Indexes : index2Units[i] >= u})]

(* What the code relies on in its table of sizes: the first is 0, the      *)
(* second 1, and what is left when a block is cut below the size that      *)
(* would hold it has a size of its own.                                    *)
ASSUME SizesAssumption ==
  /\ unitSize \in Nat \ {0} /\ GlueEvery \in Nat \ {0} /\ MaxRun >= MaxUnits
  /\ nIndexes > 1 /\ index2Units[0] = 0 /\ index2Units[1] = 1
  /\ \A o \in OldMarks : \A u \in DOMAIN o : o[u] \in Nat \ {0}
  /\ \A i \in 1 .. nIndexes - 1 : \A r \in 1 .. Step(i) - 1 :
       \E k \in Indexes : index2Units[k] = r
-----------------------------------------------------------------------------
\* the allocator for a new memory of so many bytes (subAllocator.init)
init(bytes) ==
  LET heap2Units == ((bytes \div 8) \div unitSize) * 7
      heap1MaxBytes == bytes - heap2Units * unitSize
      units == 1 + (heap1MaxBytes \div unitSize + 1) + heap2Units
  IN [heap1MaxBytes |-> heap1MaxBytes, units |-> units, cap |-> units, old |-> <<>>,
      heap1Lo |-> 0, heap1Hi |-> 0, heap2Lo |-> 0, heap2Hi |-> 0,
      glueCount |-> 0, freeList |-> [i \in Indexes |-> <<>>]]

\* init of one that is in use: a memory that has room enough is kept as it is
initAgain(a, bytes, o) ==
  LET b == init(bytes)
  IN IF a.cap > b.units THEN [b EXCEPT !.cap = a.cap, !.old = o] ELSE b

restart(a) ==
  LET hi == unitSize + (a.heap1MaxBytes \div unitSize + 1) * unitSize
  IN [a EXCEPT !.heap1Lo = unitSize + (unitSize - (a.heap1MaxBytes % unitSize)),
               !.heap1Hi = hi, !.heap2Lo = hi \div unitSize, !.heap2Hi = a.units,
               !.glueCount = 0, !.freeList = [i \in Indexes |-> <<>>]]

removeFreeBlock(a, i) ==
  IF a.freeList[i] = <<>> THEN [a |-> a, n |-> nil]
  ELSE [a |-> [a EXCEPT !.freeList[i] = Tail(@)], n |-> Head(a.freeList[i])]

addFreeBlock(a, n, i) == [a EXCEPT !.freeList[i] = <<n>> \o @]

\* u units from n on are free: one block of size i, the least that has them,
\* or a smaller one and the rest
FreeAs(a, n, u, i) ==
  LET low == index2Units[i - 1]
  IN IF u = index2Units[i] THEN addFreeBlock(a, n, i)
     ELSE addFreeBlock(addFreeBlock(a, n, i - 1), n + low, units2Index[u - low])
freeUnits(a, n, u) == FreeAs(a, n, u, units2Index[u])

\* the first pass of glueFreeBlocks: every free block, the last one marked first
Chain(a) == Reverse(FlattenSeq([i \in 1 .. nIndexes |-> a.freeList[i - 1]]))

\* the marked blocks with their sizes, and what looks like one
Marked(a) ==
  [n \in ToSet(Chain(a)) |->
     index2Units[CHOOSE i \in Indexes : n \in ToSet(a.freeList[i])]] @@ a.old

\* The second pass: block i takes in the marked block behind it, and the next,
\* as long as the size fits its field.  ends[k]: where it ends when it has
\* taken in k of them.
Absorb(m, i) ==
  LET count == Cardinality(DOMAIN m)
      ends[k \in 0 .. count] ==
        IF k = 0 THEN i + m[i]
        ELSE LET e == ends[k - 1]
             IN IF e \in DOMAIN m /\ e + m[e] - i <= MaxRun THEN e + m[e] ELSE e
      taken == {ends[k] : k \in 0 .. count} \ {ends[count]}
  IN [n \in DOMAIN m \ taken |-> IF n = i THEN ends[count] - i ELSE m[n]]

GlueOne(m, i) == IF i \in DOMAIN m THEN Absorb(m, i) ELSE m

\* the third pass: a glued block is filed again, in pieces of the largest size
Refile(a, n, u) ==
  LET pieces == (u - 1) \div MaxUnits
      cut == FoldLeft(LAMBDA b, j : addFreeBlock(b, n + (j - 1) * MaxUnits, nIndexes - 1),
                      a, [j \in 1 .. pieces |-> j])
  IN freeUnits(cut, n + pieces * MaxUnits, u - pieces * MaxUnits)

glueFreeBlocks(a) ==
  LET chain == Chain(a)
      glued == FoldLeft(GlueOne, Marked(a), chain)
  IN FoldLeft(LAMBDA b, n : Refile(b, n, glued[n]),
              [a EXCEPT !.freeList = [i \in Indexes |-> <<>>],
                        !.old = Restrict(@, DOMAIN a.old \cap DOMAIN glued)],
              SelectSeq(chain, LAMBDA n : n \in DOMAIN glued))

\* the smallest larger block that is free is cut in two
SplitLarger(a, index, i) ==
  LET r == removeFreeBlock(a, i)
  IN [a |-> freeUnits(r.a, r.n + index2Units[index], index2Units[i] - index2Units[index]),
      n |-> r.n]

FromHeap1(a, index) ==
  LET n == a.heap1Hi - index2Units[index] * unitSize
      b == [a EXCEPT !.glueCount = @ - 1]
  IN IF n > a.heap1Lo THEN [a |-> [b EXCEPT !.heap1Hi = n], n |-> n \div unitSize]
     ELSE [a |-> b, n |-> nil]

\* a larger block or the memory below the text, once the lists may be glued
FromLarger(a, index) ==
  LET larger == {i \in index + 1 .. nIndexes - 1 : a.freeList[i] # <<>>}
  IN IF larger # {} THEN SplitLarger(a, index, Min(larger)) ELSE FromHeap1(a, index)
FromGlued(a, index) ==
  IF a.freeList[index] # <<>> THEN removeFreeBlock(a, index) ELSE FromLarger(a, index)

allocUnitsRare(a, index) ==
  IF a.glueCount = 0 THEN FromGlued(glueFreeBlocks([a EXCEPT !.glueCount = GlueEvery]), index)
  ELSE FromLarger(a, index)

\* the unused memory is now from lo to hi; what leaves it is written
Unused(a, lo, hi) ==
  [a EXCEPT !.heap2Lo = lo, !.heap2Hi = hi, !.old = Restrict(@, DOMAIN a.old \cap (lo .. hi - 1))]

allocUnits(a, i) ==
  LET lo == a.heap2Lo + index2Units[i]
  IN IF a.freeList[i] # <<>> THEN removeFreeBlock(a, i)
     ELSE IF lo <= a.heap2Hi THEN [a |-> Unused(a, lo, a.heap2Hi), n |-> a.heap2Lo]
     ELSE allocUnitsRare(a, i)

\* the unit for a new context
newContext(a) ==
  IF a.heap2Lo < a.heap2Hi
  THEN [a |-> Unused(a, a.heap2Lo, a.heap2Hi - 1), n |-> a.heap2Hi - 1]
  ELSE IF a.freeList[1] # <<>> THEN removeFreeBlock(a, 1)
  ELSE allocUnitsRare(a, 1)

\* the size index of the array for ns states
StatesIndex(ns) == units2Index[(ns + 1) \div 2]

\* the block at n of size i goes when another one was allocated
Replacing(r, n, i) == IF r.n = nil THEN r ELSE [r EXCEPT !.a = addFreeBlock(@, n, i)]

\* the array at n goes from size i1 to the smaller i2
ShrinkTo(a, n, i1, i2) ==
  IF i1 = i2 THEN [a |-> a, n |-> n]
  ELSE IF a.freeList[i2] # <<>> THEN Replacing(removeFreeBlock(a, i2), n, i1)
  ELSE [a |-> freeUnits(a, n + index2Units[i2], index2Units[i1] - index2Units[i2]), n |-> n]

\* The array at n shrinks from ns states to size (shrinkStates): it goes, it
\* moves to a smaller block, or what it no longer needs is freed.
shrinkStates(a, n, ns, size) ==
  IF size = 1 THEN [a |-> addFreeBlock(a, n, StatesIndex(ns)), n |-> nil]
  ELSE ShrinkTo(a, n, StatesIndex(ns), StatesIndex(size))

\* seeded bug: the old array is not given back
ExpandLeaks(a, n, ns) ==
  IF ns = 1 THEN allocUnits(a, 1)
  ELSE IF ns % 2 = 0 /\ StatesIndex(ns) # StatesIndex(ns + 1)
  THEN allocUnits(a, StatesIndex(ns + 1))
  ELSE [a |-> a, n |-> n]
\* The array at n makes room for one state more (expandStates): a larger
\* block is allocated before the old one is freed.
expandStates(a, n, ns) ==
  LET i1 == StatesIndex(ns)
      i2 == StatesIndex(ns + 1)
  IN IF ns = 1 THEN allocUnits(a, 1)
     ELSE IF ns % 2 = 1 \/ i1 = i2 THEN [a |-> a, n |-> n]
     ELSE Replacing(allocUnits(a, i2), n, i1)
-----------------------------------------------------------------------------
\* the units of all free blocks, one set for each
FreeParts(a) ==
  {<<"free", <<i, j>>, a.freeList[i][j] .. a.freeList[i][j] + index2Units[i] - 1>> :
     <<i, j>> \in {q \in Indexes \X (1 .. a.units) : q[2] <= Len(a.freeList[q[1]])}}

(* The blocks in use (triples whose last part is the set of their units),  *)
(* the free blocks and the unused middle of heap2 are disjoint and make up *)
(* all the memory above the text.                                          *)
Partition(a, used) ==
  LET parts == used \cup FreeParts(a) \cup {<<"unused", 0, a.heap2Lo .. a.heap2Hi - 1>>}
      above == (a.heap1Hi \div unitSize) .. a.units - 1
  IN /\ UNION {q[3] : q \in parts} = above
     /\ FoldSet(LAMBDA q, n : n + Cardinality(q[3]), 0, parts) = Cardinality(above)
     /\ a.heap1Lo <= a.heap1Hi
=============================================================================
