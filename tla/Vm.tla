---------------------------------- MODULE Vm ----------------------------------
(***************************************************************************)
(* The virtual machine of RAR 3 filters (vm.go): operands, instructions    *)
(* and the reading of programs.  A machine is a record                     *)
(* [ip, fl, r, m]; ip has already moved on when an instruction has been    *)
(* run (the code's ipMod).  A command is [f, bm, op], an operand           *)
(* [k, n, i]: immediate, direct, register, register indirect, base plus    *)
(* index.                                                                  *)
(***************************************************************************)
EXTENDS StandardFilters

CONSTANTS
  vmSize,      \* bytes of memory; WordBytes more follow
  ByteBits     \* 8: the bits of a byte immediate

ASSUME VmAssumption ==
  /\ vmSize \in Nat \ {0} /\ (Base ^ WordBytes) % vmSize = 0
  /\ 2 ^ ByteBits = Base

vmRegs == 8
sp == 7                                     \* r[7], the stack pointer
flagC == 1
flagZ == 2
flagS == W \div 2
WordBits == ByteBits * WordBytes

Bit(n, k) == (n \div 2 ^ k) % 2
And(x, y) == FoldLeft(LAMBDA n, k : n + 2 ^ k * Bit(x, k) * Bit(y, k), 0, Numbers(WordBits))
Or(x, y) == x + y - And(x, y)
Xor(x, y) == x + y - 2 * And(x, y)
Shl(x, n) == IF n >= WordBits THEN 0 ELSE Word(x * 2 ^ n)
Shr(x, n) == IF n >= WordBits THEN 0 ELSE x \div 2 ^ n
Sar(x, n) == Word(Signed(x, W) \div 2 ^ (IF n < WordBits THEN n ELSE WordBits))
Has(fl, flag) == And(fl, flag) > 0
-----------------------------------------------------------------------------
(* Memory and operands.  Positions in memory count from 0.                 *)
Load(m, at, bm) ==
  IF bm THEN m[at]
  ELSE FoldLeft(LAMBDA x, k : x + m[at + k] * Base ^ k, 0, Numbers(WordBytes))

Store(m, at, bm, n) ==
  IF bm THEN [m EXCEPT ![at] = Byte(n)]
  ELSE [p \in DOMAIN m |-> IF p \in at .. at + WordBytes - 1
                           THEN (Word(n) \div Base ^ (p - at)) % Base ELSE m[p]]

Addr(v, op) ==
  CASE op.k = "direct" -> op.n
    [] op.k = "indirect" -> v.r[op.n] % vmSize
    [] op.k = "index" -> (v.r[op.n] + op.i) % vmSize

Get(v, op, bm) ==
  CASE op.k = "immediate" -> op.n
    [] op.k = "register" -> IF bm THEN Byte(v.r[op.n]) ELSE v.r[op.n]
    [] OTHER -> Load(v.m, Addr(v, op), bm)

Set(v, op, bm, n) ==
  CASE op.k = "immediate" -> v
    [] op.k = "register" ->
         [v EXCEPT !.r[op.n] = IF bm THEN @ - Byte(@) + Byte(n) ELSE n]
    [] OTHER -> [v EXCEPT !.m = Store(v.m, Addr(v, op), bm, n)]

Stack == [k |-> "indirect", n |-> sp, i |-> 0]
-----------------------------------------------------------------------------
(* Instructions.                                                           *)
ZeroSign(r) == IF r = 0 THEN flagZ ELSE And(r, flagS)
Carry(is) == IF is THEN flagC ELSE 0

\* seeded bug: the carry that comes in is not part of the carry that goes out
AddFlagsPlain(v1, r, fc, signBit) ==
  Carry(r < v1) + (IF r = 0 THEN flagZ ELSE IF Has(r, signBit) THEN flagS ELSE 0)

AddFlags(v1, r, fc, signBit) ==
  Carry(r < v1 \/ (r = v1 /\ fc > 0))
  + (IF r = 0 THEN flagZ ELSE IF Has(r, signBit) THEN flagS ELSE 0)

\* what a calculation with v1 and v2 comes to, and the flags it leaves
Alu(f, v1, v2, bm, fl) ==
  LET Size(n) == IF bm THEN Byte(n) ELSE Word(n)
      fc == And(fl, flagC)
      With(r, flags) == [r |-> r, fl |-> flags]
      diff == Word(v1 - v2)
      Logic(r) == With(r, ZeroSign(r))
      ShiftBy(r, c) == With(r, ZeroSign(r) + Carry(c))
  IN CASE f \in {"cmp", "sub"} ->
            With(diff, IF diff = 0 THEN flagZ ELSE Carry(diff > v1) + And(diff, flagS))
       [] f = "add" ->
            With(Size(v1 + v2), AddFlags(v1, Size(v1 + v2), 0, IF bm THEN Base \div 2 ELSE flagS))
       [] f = "adc" -> With(Size(v1 + v2 + fc), AddFlags(v1, Size(v1 + v2 + fc), fc, flagS))
       [] f = "sbb" ->
            LET r == Size(v1 - v2 - fc)
            IN With(r, ZeroSign(r) + Carry(r > v1 \/ (r = v1 /\ fc > 0)))
       [] f \in {"and", "test"} -> Logic(And(v1, v2))
       [] f = "or" -> Logic(Or(v1, v2))
       [] f = "xor" -> Logic(Xor(v1, v2))
       [] f = "shl" -> ShiftBy(Shl(v1, v2), Has(Shl(v1, Word(v2 - 1)), flagS))
       [] f = "shr" -> ShiftBy(Shr(v1, v2), Has(Shr(v1, Word(v2 - 1)), 1))
       [] f = "sar" -> ShiftBy(Sar(v1, v2), Has(Shr(v1, Word(v2 - 1)), 1))
       [] f = "mul" -> With(Word(v1 * v2), fl)
       [] f = "div" -> With(IF v2 = 0 THEN v1 ELSE v1 \div v2, fl)
       [] f = "mov" -> With(v2, fl)
       [] f = "inc" -> Logic(Size(v1 + 1))
       [] f = "dec" -> Logic(Word(v1 - 1))
       [] f = "neg" -> With(Word(-v1), IF v1 = 0 THEN flagZ ELSE Or(And(Word(-v1), flagS), flagC))
       [] f = "not" -> With(W - 1 - v1, fl)

Binary == {"mov", "cmp", "add", "sub", "xor", "and", "or", "test", "shl", "shr", "sar", "mul",
           "div", "adc", "sbb"}
Unary == {"inc", "dec", "not", "neg"}
OnlyFlags == {"cmp", "test"}

Calculate(v, cmd) ==
  LET v2 == IF cmd.f \in Unary THEN 0 ELSE Get(v, cmd.op[2], cmd.bm)
      a == Alu(cmd.f, Get(v, cmd.op[1], cmd.bm), v2, cmd.bm, v.fl)
      u == IF cmd.f \in OnlyFlags THEN v ELSE Set(v, cmd.op[1], cmd.bm, a.r)
  IN [u EXCEPT !.fl = a.fl, !.ip = @ + 1]

\* jumps: the flags that have one taken
Taken(f, fl) ==
  \/ f = "jmp"
  \/ f = "jz" /\ Has(fl, flagZ)
  \/ f = "jnz" /\ ~Has(fl, flagZ)
  \/ f = "js" /\ Has(fl, flagS)
  \/ f = "jns" /\ ~Has(fl, flagS)
  \/ f = "jb" /\ Has(fl, flagC)
  \/ f = "jbe" /\ Has(fl, flagC + flagZ)
  \/ f = "ja" /\ ~Has(fl, flagC + flagZ)
  \/ f = "jae" /\ ~Has(fl, flagC)

Jumps == {"jmp", "jz", "jnz", "js", "jns", "jb", "jbe", "ja", "jae"}

Jump(v, cmd) ==
  [v EXCEPT !.ip = IF Taken(cmd.f, v.fl) THEN Get(v, cmd.op[1], FALSE) ELSE @ + 1]

\* a word is pushed once the stack pointer has moved
Push(v, n) ==
  LET u == [v EXCEPT !.r[sp] = Word(@ - WordBytes)] IN Set(u, Stack, FALSE, n)
Moved(v) == [v EXCEPT !.r[sp] = Word(@ - WordBytes)]
Popped(v) == [v EXCEPT !.r[sp] = Word(@ + WordBytes)]

pusha(v) ==
  LET At(j) == (v.r[sp] - (j + 1) * WordBytes) % vmSize
  IN [v EXCEPT !.m = FoldLeft(LAMBDA m, j : Store(m, At(j), FALSE, v.r[j]), v.m, Numbers(vmRegs)),
               !.r[sp] = At(vmRegs - 1)]

\* The addresses behind the first one are taken modulo the memory.  A stack
\* pointer outside of the memory is an index out of range in the code, and
\* has no value here.
popa(v) ==
  LET At(j) == IF j = vmRegs - 1 THEN v.r[sp]
               ELSE (v.r[sp] + (vmRegs - 1 - j) * WordBytes) % vmSize
  IN [v EXCEPT !.r = [j \in 0 .. vmRegs - 1 |-> Load(v.m, At(j), FALSE)]]

StackOp(v, cmd) ==
  LET next == [v EXCEPT !.ip = @ + 1]
      Top(u) == Get(u, Stack, FALSE)
  IN CASE cmd.f = "push" -> Push(next, Get(Moved(next), cmd.op[1], FALSE))
       [] cmd.f = "pop" -> Popped(Set(next, cmd.op[1], FALSE, Top(v)))
       [] cmd.f = "pushf" -> Push(next, v.fl)
       [] cmd.f = "popf" -> [Popped(next) EXCEPT !.fl = Top(v)]
       [] cmd.f = "pusha" -> pusha(next)
       [] cmd.f = "popa" -> popa(next)
       [] cmd.f = "call" ->
            LET u == Push(v, v.ip + 1) IN [u EXCEPT !.ip = Get(u, cmd.op[1], FALSE)]
       [] cmd.f = "ret" ->
            IF v.r[sp] >= vmSize THEN [v EXCEPT !.ip = W - 1]   \* the end of the program
            ELSE [Popped(v) EXCEPT !.ip = Load(v.m, v.r[sp], FALSE)]

StackOps == {"push", "pop", "pushf", "popf", "pusha", "popa", "call", "ret"}

Extend(v, cmd) ==
  LET b == Get(v, cmd.op[2], TRUE)
      n == IF cmd.f = "movsx" THEN Word(Signed(b, Base)) ELSE b
  IN [Set(v, cmd.op[1], FALSE, n) EXCEPT !.ip = @ + 1]

Exchange(v, cmd) ==
  LET u == Set(v, cmd.op[1], cmd.bm, Get(v, cmd.op[2], cmd.bm))
  IN [Set(u, cmd.op[2], cmd.bm, Get(v, cmd.op[1], cmd.bm)) EXCEPT !.ip = @ + 1]

\* one instruction
Exec(v, cmd) ==
  CASE cmd.f \in Binary \cup Unary -> Calculate(v, cmd)
    [] cmd.f \in Jumps -> Jump(v, cmd)
    [] cmd.f \in StackOps -> StackOp(v, cmd)
    [] cmd.f \in {"movzx", "movsx"} -> Extend(v, cmd)
    [] cmd.f = "xchg" -> Exchange(v, cmd)
    [] cmd.f = "print" -> [v EXCEPT !.ip = @ + 1]
-----------------------------------------------------------------------------
(* Reading a program.  A read behind the end of the bits goes to a place   *)
(* behind it, where all further reads stay.                                *)
readBits(bits, p, n) ==
  IF p + n > Len(bits) THEN [n |-> 0, p |-> Len(bits) + 1]
  ELSE [n |-> FoldLeft(LAMBDA x, k : 2 * x + bits[p + k + 1], 0, Numbers(n)), p |-> p + n]
AtEnd(bits, p) == p > Len(bits)

Plus(x, r) == [r EXCEPT !.n = Word(x + @)]

\* seeded bug: small negative numbers are read as positive ones
EightBitsUnsigned(bits, hi) == Plus(16 * hi.n, readBits(bits, hi.p, IF hi.n = 0 THEN 8 ELSE 4))

\* a number of eight bits, of which hi are read: one below 16 is negative
EightBits(bits, hi) ==
  IF hi.n = 0 THEN Plus(-256, readBits(bits, hi.p, 8))
  ELSE Plus(16 * hi.n, readBits(bits, hi.p, 4))

\* the number behind its kind k
NumberOf(bits, k) ==
  IF k.n = 1 THEN EightBits(bits, readBits(bits, k.p, 4))
  ELSE Plus(0, readBits(bits, k.p, 4 * 2 ^ k.n))

readUint32(bits, p) == NumberOf(bits, readBits(bits, p, 2))

\* operands with their number r, or with the register r and the index x
Plain(kind, r) == [op |-> [k |-> kind, n |-> r.n, i |-> 0], p |-> r.p]
Indexed(r, x) == [op |-> [k |-> "index", n |-> r.n, i |-> x.n], p |-> x.p]

\* an operand begins with 1 for a register, 00 immediate, 010 register
\* indirect, 0110 base plus index, 0111 direct
decodeArg(bits, p, bm) ==
  LET b == SubSeq(bits, p + 1, p + 4)
      reg(q) == readBits(bits, q, 3)
      num(q) == readUint32(bits, q)
  IN IF p + 4 > Len(bits) THEN Plain("immediate", [n |-> 0, p |-> Len(bits) + 1])
     ELSE IF b[1] = 1 THEN Plain("register", reg(p + 1))
     ELSE IF b[2] = 0
     THEN Plain("immediate", IF bm THEN readBits(bits, p + 2, ByteBits) ELSE num(p + 2))
     ELSE IF b[3] = 0 THEN Plain("indirect", reg(p + 3))
     ELSE IF b[4] = 0 THEN Indexed(reg(p + 4), num(p + 7))
     ELSE [Plain("direct", num(p + 4)) EXCEPT !.op.n = @ % vmSize]

\* the target of a jump in command off is absolute, or relative in four ways
fixJumpOp(op, off) ==
  LET n == op.n
  IN IF op.k # "immediate" THEN op
     ELSE [op EXCEPT !.n =
             Word(IF n >= 256 THEN n - 256
                  ELSE off + (IF n >= 136 THEN n - 264 ELSE IF n >= 16 THEN n - 8
                              ELSE IF n >= 8 THEN n - 16 ELSE n))]

ops == <<"mov", "cmp", "add", "sub", "jz", "jnz", "inc", "dec", "jmp", "xor", "and", "or",
         "test", "js", "jns", "jb", "jbe", "ja", "jae", "push", "pop", "call", "ret", "not",
         "shl", "shr", "sar", "neg", "pusha", "popa", "pushf", "popf", "movzx", "movsx",
         "xchg", "mul", "div", "adc", "sbb", "print">>
ByteMode == Binary \cup Unary \cup {"xchg"}
Nops(f) == IF f \in Binary \cup {"movzx", "movsx", "xchg"} THEN 2
           ELSE IF f \in Unary \cup Jumps \cup {"push", "pop", "call"} THEN 1 ELSE 0
IsJump(f) == f \in Jumps \cup {"call"}

\* the operands at p, n of them
Operands(bits, p, bm, n) ==
  FoldLeft(LAMBDA st, j :
             LET a == decodeArg(bits, st.p, bm) IN [op |-> Append(st.op, a.op), p |-> a.p],
           [op |-> <<>>, p |-> p], Numbers(n))

\* the command f, whose byte mode is m and whose operands are os
Command(f, m, os, off) ==
  [p |-> os.p,
   cmd |-> [f |-> f, bm |-> m.n > 0,
            op |-> IF IsJump(f) THEN <<fixJumpOp(os.op[1], off)>> ELSE os.op]]

CommandAt(bits, f, m, off) == Command(f, m, Operands(bits, m.p, m.n > 0, Nops(f)), off)

\* a code is four bits, or six if the first is set
LongCode(hi, r) == [r EXCEPT !.n = 4 * hi + @ - 24]
OpCode(bits, r) == IF r.n >= 8 THEN LongCode(r.n, readBits(bits, r.p, 2)) ELSE r

ByteModeAt(bits, f, p) ==
  IF f \in ByteMode THEN readBits(bits, p, 1) ELSE [n |-> 0, p |-> p]

\* The command at p, where off are read already.  All 40 codes that the
\* bits can give are instructions, so ErrInvalidVMInstruction never occurs.
readCommand(bits, p, off) ==
  LET code == OpCode(bits, readBits(bits, p, 4))
      f == ops[code.n + 1]
  IN CommandAt(bits, f, ByteModeAt(bits, f, code.p), off)
=============================================================================
