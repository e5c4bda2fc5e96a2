------------------------------ MODULE V3Filters ------------------------------
(***************************************************************************)
(* Filters at work: the table of filters that decoder29 keeps, the loading *)
(* of a filter's program and its execution on a block of data              *)
(* (decode29.go: parseVMFilter; filters.go: getV3Filter, vmFilter.execute; *)
(* vm.go: readCommands, vm.execute), and the filters of RAR 5.             *)
(*                                                                         *)
(* A block in todo is a filter declaration with the data that the filter   *)
(* gets in the end:                                                        *)
(*   num   the filter number, 0 to begin a new table, or -1 for none       *)
(*   len   the length, or -1 for none                                      *)
(*   regs  initial registers     code  the program of a new filter         *)
(*   glob  global data           data, off  what is filtered, and where    *)
(* A program is [std, bits, ok]: the standard filter the code has the      *)
(* checksum of, or "none" and the bits behind the checksum byte; ok says   *)
(* that this byte is right.  Further fields of a block say what its writer *)
(* meant, and only properties read them.                                   *)
(***************************************************************************)
EXTENDS Vm

CONSTANTS
  vmGlobalAddr, vmGlobalSize,
  maxCommands, maxUniqueFilters,
  Scenarios        \* sequences of blocks

FixedWords == 16
vmFixedGlobalSize == FixedWords * WordBytes

ASSUME V3Assumption ==
  /\ vmGlobalSize > vmFixedGlobalSize /\ vmGlobalAddr + vmGlobalSize <= vmSize
  /\ {maxCommands, maxUniqueFilters} \subseteq Nat

VARIABLES
  todo,       \* blocks still to come
  phase,      \* "decode", "load", "run", "failed"
  made,       \* the filters that have been made; a block keeps the one it has
  fnum, flen,
  filters,    \* the table: indices into made
  queue,      \* blocks that wait for their data, [decl, length, f]
  reading,    \* the position in the bits of a program that is loaded
  mach,       \* the machine
  ran,        \* commands it has run
  results     \* history: the blocks done, with their output out

table == <<fnum, flen, filters>>
vars == <<todo, phase, made, table, queue, reading, mach, ran, results>>

NoMachine == [ip |-> 0, fl |-> 0, r |-> <<>>, m |-> <<>>]

Init ==
  /\ todo \in Scenarios
  /\ phase = "decode" /\ made = <<>>
  /\ fnum = 0 /\ flen = <<>> /\ filters = <<>>
  /\ queue = <<>> /\ reading = 0
  /\ mach = NoMachine /\ ran = 0
  /\ results = <<>>
-----------------------------------------------------------------------------
(* parseVMFilter, up to the code of a new filter.                          *)
V5 == {"delta5", "e8v5", "e8e9v5", "arm"}
ForV5(d) == d.code.std \in V5

\* seeded bug: the length is kept for the filter before
NumberedLate(d) ==
  LET reset == d.num = 0
      k == IF d.num < 0 THEN fnum ELSE IF reset THEN 0 ELSE d.num - 1
      old == IF reset THEN <<>> ELSE flen
      lens == IF k = Len(old) THEN Append(old, 0) ELSE old
  IN [fnum |-> k, filters |-> IF reset THEN <<>> ELSE filters,
      flen |-> IF d.len < 0 THEN lens ELSE [lens EXCEPT ![fnum + 1] = d.len]]

\* the table with the filter number and the length of declaration d
Numbered(d) ==
  LET reset == d.num = 0
      k == IF d.num < 0 THEN fnum ELSE IF reset THEN 0 ELSE d.num - 1
      old == IF reset THEN <<>> ELSE flen
      lens == IF k = Len(old) THEN Append(old, 0) ELSE old
  IN [fnum |-> k, filters |-> IF reset THEN <<>> ELSE filters,
      flen |-> IF d.len < 0 THEN lens ELSE [lens EXCEPT ![k + 1] = d.len]]

BadNumber(d) == d.num > 0 /\ (d.num - 1 > maxUniqueFilters \/ d.num - 1 > Len(filters))

\* readVMCode: the checksum byte and the size of the code of a new filter
readVMCode(d) == d.code.ok

NewFilter(static) == [std |-> "none", static |-> static, code |-> <<>>, execCount |-> 0, global |-> <<>>]

\* getV3Filter: the static data in front of the commands, [static, p]
readStatic(bits) ==
  LET flag == readBits(bits, 0, 1)
      m == readUint32(bits, flag.p)
      n == Word(m.n + 1)
  IN IF flag.n = 0 THEN [static |-> <<>>, p |-> flag.p]
     ELSE [static |-> [i \in 1 .. n |-> readBits(bits, m.p + (i - 1) * ByteBits, ByteBits).n],
           p |-> m.p + n * ByteBits]

\* getV3Filter fails if the static data is not all there
StaticCut(code) == code.std = "none" /\ readStatic(code.bits).p > Len(code.bits)

Refused(d) ==
  \/ BadNumber(d)
  \/ /\ Numbered(d).fnum = Len(Numbered(d).filters)
     /\ ~readVMCode(d) \/ StaticCut(d.code)
  \/ Len(d.glob) > vmGlobalSize - vmFixedGlobalSize

parseVMFilter ==
  /\ phase = "decode" /\ todo # <<>> /\ ~ForV5(Head(todo))
  /\ LET d == Head(todo)
         t == Numbered(d)
         new == t.fnum = Len(t.filters)
         length == t.flen[t.fnum + 1]
         st == readStatic(d.code.bits)
         f == IF new THEN Len(made) + 1 ELSE t.filters[t.fnum + 1]
     IN IF Refused(d)
        THEN /\ phase' = "failed"
             /\ UNCHANGED <<todo, made, table, queue, reading, mach, ran, results>>
        ELSE /\ todo' = Tail(todo)
             /\ fnum' = t.fnum
             /\ filters' = IF new THEN Append(t.filters, f) ELSE t.filters
             /\ flen' = IF new THEN Append(t.flen, length) ELSE t.flen
             /\ queue' = Append(queue, [decl |-> d, length |-> length, f |-> f])
             /\ IF ~new THEN UNCHANGED <<phase, made, reading>>
                ELSE IF d.code.std # "none"
                THEN /\ made' = Append(made, [NewFilter(<<>>) EXCEPT !.std = d.code.std])
                     /\ UNCHANGED <<phase, reading>>
                ELSE /\ made' = Append(made, NewFilter(st.static))
                     /\ reading' = st.p
                     /\ phase' = "load"
             /\ UNCHANGED <<mach, ran, results>>

(* readCommands, one command; the end of the bits ends the program, and    *)
(* what is there of a further command is dropped.                          *)
ReadCommand ==
  /\ phase = "load"
  /\ LET bits == Last(queue).decl.code.bits
         n == Len(made)
         next == readCommand(bits, reading, Len(made[n].code))
     IN IF AtEnd(bits, next.p) THEN /\ phase' = "decode" /\ reading' = 0
                                    /\ UNCHANGED made
        ELSE /\ made' = [made EXCEPT ![n].code = Append(@, next.cmd)]
             /\ reading' = next.p
             /\ UNCHANGED phase
  /\ UNCHANGED <<todo, table, queue, mach, ran, results>>

(* decoder50's readFilter: no table, and always a length.                  *)
readFilter ==
  /\ phase = "decode" /\ todo # <<>> /\ ForV5(Head(todo))
  /\ queue' = Append(queue, [decl |-> Head(todo), length |-> Head(todo).len, f |-> 0])
  /\ todo' = Tail(todo)
  /\ UNCHANGED <<phase, made, table, reading, mach, ran, results>>
-----------------------------------------------------------------------------
(* vmFilter.execute, once the data of the first block is there.            *)
Block == Head(queue)
Buffer == SubSeq(Block.decl.data, 1, Min({Block.length, Len(Block.decl.data)}))
Cur == made[Block.f]
Std == IF Block.f = 0 THEN Block.decl.code.std ELSE Cur.std

Return(out) ==
  /\ results' = Append(results, [decl |-> Block.decl, length |-> Block.length, out |-> out])
  /\ queue' = Tail(queue)

\* words as the bytes of a memory block
Bytes(ws) == FlattenSeq([i \in DOMAIN ws |-> [k \in 1 .. WordBytes |-> (ws[i] \div Base ^ (k - 1)) % Base]])

Reg(f, d, i, len) ==
  IF i \in DOMAIN d.regs THEN d.regs[i]
  ELSE IF i = 3 THEN vmGlobalAddr ELSE IF i = 4 THEN len ELSE IF i = 5 THEN f.execCount
  ELSE IF i = sp THEN vmSize ELSE 0

\* the fixed globals: seven registers, length, start, offset (two words),
\* the count of executions and the size of the saved global data
FixedGlobals(f, d, len) ==
  Bytes([i \in 1 .. vmRegs - 1 |-> Reg(f, d, i - 1, len)]
        \o <<len, 0, Word(d.off), Word(d.off \div W), f.execCount, 0, 0, 0, 0>>)

\* seeded bug: the global data of the block replaces what was saved
GlobalsReplaced(f, d) == (IF d.glob # <<>> THEN d.glob ELSE f.global) \o f.static

\* the global data, saved or of the block, and the static data behind it
Globals(f, d) == (IF f.global # <<>> THEN f.global ELSE d.glob) \o f.static

Machine(f, d, buf) ==
  LET g == FixedGlobals(f, d, Len(buf)) \o Globals(f, d)
      Here(ys, i) == IF i \in 1 .. Len(ys) THEN ys[i] ELSE 0
  IN [ip |-> 0, fl |-> 0,
      r |-> [i \in 0 .. vmRegs - 1 |-> IF i = 6 THEN Word(d.off) ELSE Reg(f, d, i, Len(buf))],
      m |-> [p \in 0 .. vmSize + WordBytes - 1 |->
               IF p < vmGlobalAddr THEN Here(buf, p + 1)
               ELSE IF p < vmGlobalAddr + vmGlobalSize THEN Here(g, p - vmGlobalAddr + 1) ELSE 0]]

ExecuteVm ==
  /\ phase = "decode" /\ queue # <<>> /\ Std = "none"
  /\ IF Len(Buffer) > vmGlobalAddr THEN phase' = "failed" /\ UNCHANGED mach
     ELSE phase' = "run" /\ mach' = Machine(Cur, Block.decl, Buffer)
  /\ ran' = 0
  /\ UNCHANGED <<todo, made, table, queue, reading, results>>

\* seeded bug: a program may run for ever
RunningOn == mach.ip < Len(Cur.code)

Running == ran < maxCommands /\ mach.ip < Len(Cur.code)

Step ==
  /\ phase = "run" /\ Running
  /\ mach' = Exec(mach, Cur.code[mach.ip + 1])
  /\ ran' = ran + 1
  /\ UNCHANGED <<todo, phase, made, table, queue, reading, results>>

GlobalWord(m, i) == Load(m, vmGlobalAddr + i * WordBytes, FALSE)
Piece(m, from, len) == [i \in 1 .. len |-> m[from + i - 1]]

\* the global data to keep for the next execution
Saved(m) ==
  LET most == vmGlobalSize - vmFixedGlobalSize
      size == GlobalWord(m, 12)
  IN Piece(m, vmGlobalAddr + vmFixedGlobalSize, IF size > most THEN most ELSE size)

\* the output; none if it lies outside of the memory
Output(m) ==
  LET length == GlobalWord(m, 7) % vmSize
      start == GlobalWord(m, 8) % vmSize
  IN IF start + length > vmSize THEN <<>> ELSE Piece(m, start, length)

Finish ==
  /\ phase = "run" /\ ~Running
  /\ made' = [made EXCEPT ![Block.f] =
                [@ EXCEPT !.execCount = Word(@ + 1), !.global = Saved(mach.m)]]
  /\ Return(Output(mach.m))
  /\ phase' = "decode"
  /\ mach' = NoMachine /\ ran' = 0
  /\ UNCHANGED <<todo, table, reading>>
-----------------------------------------------------------------------------
(* Standard filters, which are functions of the data.                      *)
Standard(std, regs, buf, off) ==
  LET R(i) == IF i \in DOMAIN regs THEN regs[i] ELSE 0
  IN CASE std = "e8" -> filterE8(OpE8, FALSE, buf, off)
       [] std = "e8e9" -> filterE8(OpE9, FALSE, buf, off)
       [] std = "itanium" -> itaniumFilter(buf, off)
       [] std = "delta" -> filterDelta(R(0), buf)
       [] std = "rgb" -> filterRGB(Word(R(0) - 3), R(1), buf)
       [] std = "audio" -> filterAudio(R(0), buf)
       [] std = "e8v5" -> filterE8(OpE8, TRUE, buf, off)
       [] std = "e8e9v5" -> filterE8(OpE9, TRUE, buf, off)
       [] std = "delta5" -> filterDelta(R(0) + 1, buf)
       [] std = "arm" -> filterArm(buf, off)

ExecuteStandard ==
  /\ phase = "decode" /\ queue # <<>> /\ Std # "none"
  /\ Return(Standard(Std, Block.decl.regs, Buffer, Block.decl.off))
  /\ UNCHANGED <<todo, phase, made, table, reading, mach, ran>>

\* every block is filtered, or an error has ended the file
Returned == phase = "failed" \/ (phase = "decode" /\ todo = <<>> /\ queue = <<>>)
End == Returned /\ UNCHANGED vars

Next == \/ parseVMFilter \/ ReadCommand \/ readFilter
        \/ ExecuteVm \/ Step \/ Finish \/ ExecuteStandard \/ End

Spec == Init /\ [][Next]_vars
=============================================================================
