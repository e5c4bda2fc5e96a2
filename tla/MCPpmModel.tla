----------------------------- MODULE MCPpmModel -----------------------------
(***************************************************************************)
(* The run Ppm: subAllocator under the PPM model, and in the same run      *)
(* under any client (AllocatorClient), which brings its memory into states *)
(* the model needs far more symbols for.  Which of the two uses it is      *)
(* chosen in the initial state.                                            *)
(***************************************************************************)
EXTENDS PpmModel, AllocatorClient

VARIABLE user

\* sizes of 0, 1, 2 and 4 units
SomeSteps == <<1, 2, 1>>

\* the order 1 is refused
SomeFormats == {[order |-> 2, bytes |-> 30], [order |-> 3, bytes |-> 40],
                [order |-> 1, bytes |-> 30]}

\* no bytes of an older memory look like a free block
NoMarks == {<<>>}

\* one unit does
FreeLooking == {[u \in {v} |-> 1] : v \in 5 .. 7}

MCInit == user \in {"model", "any client"} /\ Init /\ ClientInit

MCNext ==
  /\ \/ user = "model" /\ Next /\ UNCHANGED clientVars
     \/ user = "any client" /\ ClientNext /\ UNCHANGED vars
  /\ UNCHANGED user

MCSpec == MCInit /\ [][MCNext]_<<vars, clientVars, user>>

(* No block of subAllocator overlaps another and none is lost, through all *)
(* splits, moves, glueings and restarts, in the model and in any client,   *)
(* as the list of free blocks says of its entries, that each is the        *)
(* beginning of a free block.  Old bytes of a larger memory that look like *)
(* one break it (FreeLooking): glueFreeBlocks takes the unused memory      *)
(* behind a free block for a part of it.                                   *)
MemoryPartition == ModelPartition /\ ClientPartition
=============================================================================
