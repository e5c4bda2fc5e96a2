--------------------------- MODULE AllocatorClient ---------------------------
(***************************************************************************)
(* Any client of subAllocator that calls it the way the PPM model does:    *)
(* contexts are never given back, arrays grow by one state and shrink to   *)
(* any size, and after a call that returns nil only a restart follows.     *)
(***************************************************************************)
EXTENDS SubAllocator

CONSTANTS
  Bytes,       \* the size of the memory
  MaxStates    \* states of the largest array

ASSUME ClientAssumption == MaxStates \in 2 .. 2 * MaxUnits

VARIABLES
  mem,         \* the allocator
  contexts,    \* the units of contexts
  arrays,      \* the arrays: where they lie |-> how many states they have
  full         \* a call returned nil

clientVars == <<mem, contexts, arrays, full>>

Without(n) == [x \in DOMAIN arrays \ {n} |-> arrays[x]]
With(f, n, ns) == [x \in DOMAIN f \cup {n} |-> IF x = n THEN ns ELSE f[x]]

\* the array at n, or a new one if n is nil, gets ns states at the block of r
Moves(n, ns, r) ==
  /\ mem' = r.a
  /\ full' = (r.n = nil)
  /\ arrays' = IF r.n = nil THEN arrays ELSE With(Without(n), r.n, ns)
  /\ UNCHANGED contexts

RestartMemory ==
  /\ mem' = restart(mem) /\ contexts' = {} /\ arrays' = <<>> /\ full' = FALSE

Adds(r) ==
  /\ mem' = r.a
  /\ full' = (r.n = nil)
  /\ contexts' = IF r.n = nil THEN contexts ELSE contexts \cup {r.n}
  /\ UNCHANGED arrays

NewContext == ~full /\ Adds(newContext(mem))

\* a context that had a single state gets an array
NewArray == ~full /\ Moves(nil, 2, expandStates(mem, nil, 1))

Grow(n) ==
  /\ ~full /\ arrays[n] < MaxStates
  /\ Moves(n, arrays[n] + 1, expandStates(mem, n, arrays[n]))

Shrink(n, size) ==
  /\ ~full /\ size > 1
  /\ Moves(n, size, shrinkStates(mem, n, arrays[n], size))

\* a context goes back to a single state
Drop(n) ==
  /\ ~full
  /\ mem' = shrinkStates(mem, n, arrays[n], 1).a
  /\ arrays' = Without(n)
  /\ UNCHANGED <<contexts, full>>

\* the memory may be what was kept of a larger one
ClientInit ==
  /\ \E o \in OldMarks : mem = restart([init(Bytes) EXCEPT !.old = o])
  /\ contexts = {} /\ arrays = <<>> /\ full = FALSE

ClientNext ==
  \/ RestartMemory
  \/ NewContext
  \/ NewArray
  \/ \E n \in DOMAIN arrays : Grow(n) \/ Drop(n)
                              \/ \E size \in 2 .. arrays[n] - 1 : Shrink(n, size)

ClientSpec == ClientInit /\ [][ClientNext]_clientVars

(* In whatever order contexts and arrays are allocated, grow, shrink and   *)
(* go, every unit is in one block, one free block or unused: no block that *)
(* is handed out overlaps another, and none is lost; as long as no old     *)
(* bytes look like a free block.                                           *)
ClientPartition ==
  Partition(mem, {<<"context", x, {x}>> : x \in contexts}
               \cup {<<"states", n, n .. n + index2Units[StatesIndex(arrays[n])] - 1>> :
                       n \in DOMAIN arrays})
=============================================================================
