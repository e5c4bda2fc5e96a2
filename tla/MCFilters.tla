------------------------------ MODULE MCFilters ------------------------------
(***************************************************************************)
(* Filters for V3Filters, and what they should do.  A block also says the  *)
(* filter it is meant for (of), and for a standard filter the data that    *)
(* its writer had (plain).                                                 *)
(***************************************************************************)
EXTENDS VmPrograms

Edge == {0, 1, W \div 2 - 1, W \div 2, W - 1}
WordsOf(ns) == FlattenSeq([i \in DOMAIN ns |-> BytesOf(ns[i], 2)])
NoRegs == [i \in {} |-> 0]

Block1(code, data) ==
  [num |-> 0, len |-> Len(data), regs |-> NoRegs, code |-> code, glob |-> <<>>, data |-> data,
   off |-> 0, of |-> 1, plain |-> <<>>]

(* One program on one block.                                               *)
Pairs(rest) == {WordsOf(<<a, b>> \o rest) : a, b \in Edge}
Single(name, cmds, datas) ==
  LET code == Code(name, cmds, <<>>, FALSE, 0)
  IN {<<Block1(code, x)>> : x \in datas}
WithRegs(regs, sc) == {<<[s1[1] EXCEPT !.regs = regs]>> : s1 \in sc}

Arithmetic ==
  Single("WideAdd", WideAdd, {WordsOf(<<a, b, x, y, 0>>) : a, x \in Edge, b, y \in {0, W \div 2, W - 1}}) \cup
  Single("WideSub", WideSub, {WordsOf(<<a, b, x, y, 0>>) : a, x \in Edge, b, y \in {0, W \div 2, W - 1}}) \cup
  WithRegs((0 :> 700), Single("ByteAdd", ByteAdd, {<<a, b, x, y, 0, 0>> : a, x \in {0, 1, 15, 16, 31}, b, y \in {0, 16, 31}})) \cup
  Single("ByteSub", ByteSub, {<<a, b, x, y>> : a, x \in {0, 1, 15, 16, 31}, b, y \in {0, 16, 31}}) \cup
  Single("Shifts", Shifts, {WordsOf(<<a, n, 0, 0, 0, 0, 0, 0>>) : a \in Edge \cup {341}, n \in {0, 1, 3, 9, 10, 11, W - 1}}) \cup
  Single("MulDiv", MulDiv, Pairs(<<0>>)) \cup
  Single("Widen", Widen, {WordsOf(<<a, 0, 0, b, b, 0>>) : a, b \in Edge \cup {15, 16}}) \cup
  Single("Logic", Logic, {WordsOf(<<a, b, 0, 0>>) : a, b \in Edge \cup {341, 186}})

Control ==
  Single("Compare", Compare(FALSE), Pairs(<<0>>)) \cup
  Single("CompareBytes", Compare(TRUE), {<<a, 1, b, 2, 0, 0>> : a, b \in {0, 1, 15, 16, 31}}) \cup
  WithRegs((0 :> 5), Single("SwapByStack", SwapByStack, Pairs(<<9>>))) \cup
  Single("SumBytes", SumBytes, {<<31>>, <<0, 31, 31>>, <<1, 2, 3, 4, 5>>}) \cup
  Single("Outside", Outside, {<<1, 2>>}) \cup
  Single("Endless", Endless, {<<>>, <<1, 2>>}) \cup
  {<<Block1(Code("Far", Far, <<>>, abs, pad), <<1, 2, 3>>)>> : abs \in BOOLEAN, pad \in {0, 4, 7}}

(* Several filters and executions; of the numbers and lengths some are     *)
(* given, some are the ones before.                                        *)
CounterCode == Code("Counter", Counter, <<>>, FALSE, 7)
KeepCode == Code("KeepAll", KeepAll, <<7, 1>>, FALSE, 3)
SumCode == Code("SumBytes", SumBytes, <<>>, FALSE, 0)
CountBlock(num, len, glob) ==
  [Block1(CounterCode, <<4, 5, 6, 7>>) EXCEPT !.num = num, !.len = len, !.glob = glob]
KeepBlock(num, len) ==
  [Block1(KeepCode, <<1, 2, 3>>) EXCEPT !.num = num, !.len = len, !.of = 2, !.glob = <<9, 9>>]
SumBlock(num, len) == [Block1(SumCode, <<8, 9, 10>>) EXCEPT !.num = num, !.len = len, !.of = 3]

Tables ==
  { <<CountBlock(-1, 4, <<3, 1>>), CountBlock(-1, -1, <<9, 9>>), CountBlock(1, 2, <<>>), CountBlock(-1, -1, <<>>)>>,
    <<CountBlock(0, 3, <<31, 31>>), KeepBlock(2, 2), CountBlock(1, -1, <<>>), KeepBlock(2, -1), KeepBlock(-1, 3),
      CountBlock(1, 4, <<>>)>>,
    <<KeepBlock(1, 2), SumBlock(2, 3), KeepBlock(1, -1), SumBlock(2, -1)>>,
    <<CountBlock(0, 4, <<3, 1>>), SumBlock(0, 2), SumBlock(1, -1), [CountBlock(0, 3, <<1, 0>>) EXCEPT !.of = 4]>>,
    <<SumBlock(0, 2), KeepBlock(2, 2), CountBlock(3, 2, <<3, 1>>), SumBlock(1, -1)>> }

Faulty == { <<CountBlock(3, 2, <<>>)>>, <<SumBlock(0, 2), CountBlock(3, 2, <<>>)>>,
            <<CountBlock(0, 2, [i \in 1 .. 9 |-> 0])>>,
            <<SumBlock(0, 2), SumBlock(2, 2), SumBlock(3, 2), SumBlock(4, 2), SumBlock(5, 2)>>,
            <<[CountBlock(0, 2, <<>>) EXCEPT !.code.ok = FALSE]>>,
            <<[CountBlock(0, 2, <<>>) EXCEPT !.code.bits = <<1, 0, 0, 0, 0, 1, 1>>]>>,
            <<Block1(CounterCode, [i \in 1 .. 65 |-> 1])>> }

(* Standard filters.                                                       *)
StdBlock(std, regs, off, x, y) ==
  [Block1([std |-> std, ok |-> TRUE, name |-> std, bits |-> <<>>, cmds |-> <<>>], y) EXCEPT
     !.regs = regs, !.off = off, !.plain = x]

Rels == {0, 1, 2, 3, 29, 30, 62, 63, 64, 65, 100, 511, 512, 513, 900, 923, 924, 959, 960, 961, 962, 994, 1022, 1023}
Calls ==
  UNION {{<<StdBlock("e8" \o v, NoRegs, off, x, E8Written(x, {2}, off, v = "v5"))>>,
          <<StdBlock("e8e9" \o v, NoRegs, off, z, E8Written(z, {1, 5}, off, v = "v5"))>>} :
    v \in {"", "v5"}, off \in {0, 1, 30, 62, 63, 64, 100, 200},
    x \in {<<3, OpE8>> \o BytesOf(r, 2) \o <<1, 2, OpE8, 4>> : r \in Rels},
    z \in {<<OpE9>> \o BytesOf(r, 2) \o <<1, OpE8>> \o BytesOf(1023 - r, 2) : r \in Rels}}

Samples(n) == [1 .. n -> {0, 15, 31}] \cup {[i \in 1 .. n |-> (i * i * 7) % Base]}
Sampled ==
  {<<StdBlock("delta", (0 :> n), 0, x, DeltaWritten(x, n))>> : n \in 1 .. 3, x \in UNION {Samples(l) : l \in {0, 1, 4}}} \cup
  {<<StdBlock("delta5", (0 :> 1), 0, x, DeltaWritten(x, 2))>> : x \in Samples(5)} \cup
  {<<StdBlock("audio", (0 :> n), 0, x, AudioWritten(x, n))>> :
     n \in 1 .. 2, x \in Samples(4) \cup {[i \in 1 .. 9 |-> (a * i * i + b * i) % Base] : a, b \in {1, 7, 30}}} \cup
  {<<StdBlock("rgb", (0 :> line + 3 @@ 1 :> posR), 0, x, RGBWritten(x, line, posR))>> :
     line \in {3, 6}, posR \in 0 .. 2,
     x \in {[i \in 1 .. 14 |-> (a * i * i + b * i) % Base] : a, b \in {1, 7, 30}}}

Branches ==
  {<<StdBlock("arm", NoRegs, off, x, ArmWritten(x, off))>> :
     off \in {0, 4, 7, 200}, x \in {<<a, b, 31, OpBranch, 1, 2, 3, 4, b, a, 0, OpBranch, OpBranch>> : a, b \in {0, 1, 31}}} \cup
  {<<StdBlock("itanium", NoRegs, off, x, ItaniumWritten(x, off))>> :
     off \in {0, 16, 120},
     x \in {[k \in 1 .. 3 |-> [template |-> t, op |-> (0 :> 5 @@ 1 :> o @@ 2 :> 5),
                               imm |-> (0 :> 0 @@ 1 :> k @@ 2 :> 7)]] : t \in {2, 16, 18, 21, 22, 31}, o \in {4, 5}}}

MCScenarios == Arithmetic \cup Control \cup Tables \cup Faulty \cup Calls \cup Sampled \cup Branches
-----------------------------------------------------------------------------
\* the earlier blocks for the same filter as block i, and itself
Same(i) == {j \in 1 .. i : results[j].decl.of = results[i].decl.of}

(* Every block comes out as its writer meant it: what a program computes   *)
(* is the arithmetic it was written for, with the global data and the      *)
(* count of executions its own filter left, though other filters and       *)
(* declarations come in between; what a standard filter returns is the     *)
(* data its writer had (filters.go, vm.go).                                *)
FilterComputes ==
  \A i \in DOMAIN results :
    LET b == results[i]
    IN b.out = IF b.decl.code.std # "none" THEN b.decl.plain
               ELSE Intended(b.decl.code.name, SubSeq(b.decl.data, 1, b.length),
                             Cardinality(Same(i)) - 1, results[Min(Same(i))].decl)

(* A block without a length has the last one that was given for its own    *)
(* filter since the table was made (decode29.go: parseVMFilter).           *)
LengthOfItsFilter ==
  \A i \in DOMAIN results :
    LET given == {j \in Same(i) : results[j].decl.len >= 0}
    IN given # {} => results[i].length = results[Max(given)].decl.len

(* A block waits for the program that was written for it: the commands     *)
(* read from the bits are the ones written, and no more of them, whatever  *)
(* bits fill up the last byte (vm.go: readCommands, decodeArg, fixJumpOp). *)
LoadsProgram ==
  phase # "load" =>
    \A k \in DOMAIN queue :
      queue[k].f # 0 => /\ made[queue[k].f].std = queue[k].decl.code.std
                        /\ made[queue[k].f].code = queue[k].decl.code.cmds

(* Filtering ends: with each step less is left to do of what was declared, *)
(* of the bits of a program, or of the commands one execution may take, so *)
(* a program that never ends is stopped; and there is always a next step   *)
(* until all blocks are done or an error stops the file (vm.go: execute,   *)
(* readCommands).                                                          *)
LeftHere ==
  CASE phase = "failed" -> <<-2, 0>>
    [] phase = "load" -> <<1, Len(Last(queue).decl.code.bits) - reading>>
    [] phase = "decode" -> <<0, 0>>
    [] phase = "run" -> <<-1, maxCommands - ran>>
Less(x, y) == \E i \in DOMAIN x : x[i] < y[i] /\ \A j \in 1 .. i - 1 : x[j] = y[j]
Left == <<Len(todo), Len(queue)>> \o LeftHere
FiltersReturn == [][Less(Left', Left) /\ Left'[4] >= 0]_vars
=============================================================================
