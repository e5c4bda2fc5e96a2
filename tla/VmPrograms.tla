------------------------------ MODULE VmPrograms ------------------------------
(***************************************************************************)
(* Programs for the machine of V3Filters, the way they are written down in *)
(* bits, and what each is meant to do to its data, in plain arithmetic.    *)
(***************************************************************************)
EXTENDS V3Filters

R(n) == [k |-> "register", n |-> n, i |-> 0]
I(n) == [k |-> "immediate", n |-> n, i |-> 0]
D(n) == [k |-> "direct", n |-> n, i |-> 0]
At(n) == [k |-> "indirect", n |-> n, i |-> 0]
Ix(n, i) == [k |-> "index", n |-> n, i |-> i]
C0(f) == [f |-> f, bm |-> FALSE, op |-> <<>>]
C1(f, a) == [f |-> f, bm |-> FALSE, op |-> <<a>>]
C2(f, a, b) == [f |-> f, bm |-> FALSE, op |-> <<a, b>>]
B2(f, a, b) == [f |-> f, bm |-> TRUE, op |-> <<a, b>>]
-----------------------------------------------------------------------------
(* The writer of programs, the other side of readCommands.                 *)
BitsOf(n, w) == [i \in 1 .. w |-> (n \div 2 ^ (w - i)) % 2]

Num(n) == IF n < 16 THEN <<0, 0>> \o BitsOf(n, 4)
          ELSE IF n >= W - 256 THEN <<0, 1, 0, 0, 0, 0>> \o BitsOf(n - (W - 256), 8)
          ELSE IF n < 256 THEN <<0, 1>> \o BitsOf(n, 8)
          ELSE IF n = W \div 2 THEN <<1, 1>> \o [i \in 1 .. 16 |-> 0] \o BitsOf(n, 16)
          ELSE <<1, 0>> \o BitsOf(n, 16)

OpBits(op, bm) ==
  CASE op.k = "register" -> <<1>> \o BitsOf(op.n, 3)
    [] op.k = "immediate" -> <<0, 0>> \o (IF bm THEN BitsOf(op.n, ByteBits) ELSE Num(op.n))
    [] op.k = "indirect" -> <<0, 1, 0>> \o BitsOf(op.n, 3)
    [] op.k = "index" -> <<0, 1, 1, 0>> \o BitsOf(op.n, 3) \o Num(op.i)
    [] op.k = "direct" -> <<0, 1, 1, 1>> \o Num(op.n)

\* the operand for a jump from command off to command to
Target(to, off, abs) ==
  LET d == to - off
  IN IF abs THEN to + 256
     ELSE IF d >= 8 THEN d + 8 ELSE IF d >= 0 THEN d ELSE IF d >= -8 THEN d + 16 ELSE d + 264

CmdBits(cmd, off, abs) ==
  LET code == CHOOSE c \in 0 .. Len(ops) - 1 : ops[c + 1] = cmd.f
      Operand(j) == IF IsJump(cmd.f) /\ cmd.op[j].k = "immediate"
                    THEN OpBits(I(Target(cmd.op[j].n, off, abs)), FALSE)
                    ELSE OpBits(cmd.op[j], cmd.bm)
  IN (IF code < 8 THEN BitsOf(code, 4) ELSE BitsOf(code + 24, 6))
     \o (IF cmd.f \in ByteMode THEN IF cmd.bm THEN <<1>> ELSE <<0>> ELSE <<>>)
     \o FlattenSeq([j \in DOMAIN cmd.op |-> Operand(j)])

StaticBits(st) ==
  IF st = <<>> THEN <<0>>
  ELSE <<1>> \o Num(Len(st) - 1) \o FlattenSeq([i \in DOMAIN st |-> BitsOf(st[i], ByteBits)])

Code(name, cmds, st, abs, pad) ==
  [std |-> "none", ok |-> TRUE, name |-> name, cmds |-> cmds,
   bits |-> StaticBits(st) \o FlattenSeq([i \in DOMAIN cmds |-> CmdBits(cmds[i], i - 1, abs)])
            \o [i \in 1 .. pad |-> 0]]
-----------------------------------------------------------------------------
(* The programs.                                                           *)
GW(i) == vmGlobalAddr + i * WordBytes       \* a fixed global
GlobalData == vmGlobalAddr + vmFixedGlobalSize

WideAdd == <<C2("mov", R(0), D(0)), C2("add", R(0), D(4)), C2("mov", D(0), R(0)),
             C2("mov", R(0), D(2)), C2("adc", R(0), D(6)), C2("mov", D(2), R(0)),
             C2("adc", D(8), I(0))>>
WideSub == <<C2("sub", D(0), D(4)), C2("sbb", D(2), D(6)), C2("sbb", D(8), I(0))>>
ByteAdd == <<B2("mov", R(0), At(1)), B2("add", R(0), Ix(1, 2)), B2("mov", At(1), R(0)),
             C0("pushf"), C1("inc", R(1)), C0("popf"),
             B2("mov", R(0), At(1)), B2("adc", R(0), Ix(1, 2)), B2("mov", At(1), R(0)),
             C2("mov", Ix(1, 3), R(0))>>
ByteSub == <<B2("sub", D(0), D(2)), B2("sbb", D(1), D(3))>>

Conditions == <<"jz", "jnz", "js", "jns", "jb", "jbe", "ja", "jae">>
Compare(bm) ==
  <<C2("mov", R(1), I(0))>>
  \o FlattenSeq([j \in 1 .. 8 |->
       <<[f |-> "cmp", bm |-> bm, op |-> <<D(0), D(2)>>],
         C1(Conditions[j], I(3 * j + 1)), C2("or", R(1), I(2 ^ (j - 1)))>>])
  \o <<C2("mov", D(4), R(1))>>

SwapByStack ==
  <<C2("cmp", D(0), D(2)), C0("pushf"), C1("push", D(0)), C1("push", D(2)), C0("pusha"),
    C1("call", I(13)), C0("popa"), C1("pop", D(0)), C1("pop", D(2)), C0("popf"),
    C1("jb", I(12)), C2("mov", D(4), R(0)), C0("ret"),
    C2("mov", R(0), I(77)), C2("mov", R(6), R(0)), C2("test", R(0), R(0)), C0("ret")>>

Counter == <<C1("inc", D(GlobalData)), C2("mov", D(GW(12)), I(2)), C2("add", D(0), D(GlobalData)),
             C2("add", D(0), R(5))>>
KeepAll == <<C2("add", D(0), D(GlobalData + 2)), C2("add", D(0), I(W - 3)), C2("mov", D(GW(12)), I(100))>>

Shifts == FlattenSeq([j \in 1 .. 3 |->
  <<C2("mov", R(0), D(0)), C2(<<"shl", "shr", "sar">>[j], R(0), D(2)),
    C2("mov", D(4 * j), R(0)), C2("adc", D(4 * j + 2), I(0))>>])
MulDiv == <<C2("mov", R(0), D(0)), C2("mul", R(0), D(2)), C2("mov", D(4), R(0)),
            C2("div", D(0), D(2))>>
Widen == <<C2("movzx", D(2), D(0)), C2("movsx", D(4), D(0)), C1("neg", D(6)), C2("adc", D(10), I(0)),
           C1("not", D(8))>>
Logic == <<C2("xor", D(0), D(2)), C2("xor", D(2), D(0)), C2("xor", D(0), D(2)),
           C2("mov", R(0), D(0)), C2("and", R(0), D(2)), C2("mov", R(1), D(0)),
           C2("or", R(1), D(2)), C2("xchg", R(0), R(1)), C2("mov", D(4), R(0)),
           C2("mov", D(6), R(1))>>

SumBytes == <<C2("movzx", R(2), At(1)), C2("add", R(0), R(2)), C1("inc", R(1)), C1("dec", R(4)),
              C1("jnz", I(0)), C2("mov", D(GW(7)), I(2)), C2("mov", D(GW(8)), I(110)),
              C2("mov", D(110), R(0))>>
Outside == <<C2("mov", D(GW(7)), I(vmSize - 1)), C2("mov", D(GW(8)), I(2))>>
Endless == <<C0("print"), C1("jmp", I(0))>>
Far == <<C1("jmp", I(12)), C2("mov", D(0), I(W \div 2)), C0("ret")>>
       \o [i \in 1 .. 9 |-> C0("print")] \o <<C1("jmp", I(1))>>
-----------------------------------------------------------------------------
(* What they are for.  x is the data, n the executions before, off the     *)
(* offset, and first the first declaration.                                *)
Val(x, i, k) == FoldLeft(LAMBDA s, j : s + x[i + j] * Base ^ (j - 1), 0, [j \in 1 .. k |-> j])
BytesOf(n, k) == [j \in 1 .. k |-> (n \div Base ^ (j - 1)) % Base]
With(x, i, ys) == [p \in DOMAIN x |-> IF p \in i + 1 .. i + Len(ys) THEN ys[p - i] ELSE x[p]]
Ones(x, y, Q(_, _)) ==
  FoldLeft(LAMBDA s, k : s + IF Q(Bit(x, k) = 1, Bit(y, k) = 1) THEN 2 ^ k ELSE 0, 0, Numbers(WordBits))
Both(p, q) == p /\ q
Either(p, q) == p \/ q

CompareMeans(a, b, negative) ==
  LET taken == <<a = b, a # b, negative, ~negative, a < b, a <= b, a > b, a >= b>>
  IN FoldLeft(LAMBDA s, j : s + IF taken[j] THEN 0 ELSE 2 ^ (j - 1), 0, [j \in 1 .. 8 |-> j])

\* the bit a shift by n drops last, from the top or from the bottom
Dropped(x, n, up) ==
  IF n \in 1 .. WordBits THEN Bit(x, IF up THEN WordBits - n ELSE n - 1) ELSE 0

Intended(name, x, n, first) ==
  LET a == Val(x, 0, 2)
      b == Val(x, 2, 2)
      words(ws) == FlattenSeq([i \in DOMAIN ws |-> BytesOf(ws[i] % W, 2)])
  IN CASE name = "WideAdd" ->
            With(With(x, 0, BytesOf(Val(x, 0, 4) + Val(x, 4, 4), 4)),
                 8, words(<<(Val(x, 0, 4) + Val(x, 4, 4)) \div W ^ 2>>))
       [] name = "WideSub" ->
            With(With(x, 0, BytesOf((Val(x, 0, 4) - Val(x, 4, 4)) % W ^ 2, 4)),
                 8, words(<<(Val(x, 0, 4) - Val(x, 4, 4)) \div W ^ 2>>))
       [] name = "ByteAdd" -> With(With(x, 0, words(<<a + b>>)), 4, <<Byte((a + b) \div Base), 21>>)
       [] name = "ByteSub" -> With(x, 0, words(<<a - b>>))
       [] name = "Compare" -> With(x, 4, words(<<CompareMeans(a, b, (a - b) % W >= W \div 2)>>))
       [] name = "CompareBytes" -> With(x, 4, words(<<CompareMeans(x[1], x[3], x[1] < x[3])>>))
       [] name = "SwapByStack" -> words(<<b, a, IF a < b THEN Val(x, 4, 2) ELSE 5>>)
       [] name = "Counter" -> With(x, 0, words(<<a + Val(first.glob, 0, 2) + n + 1 + n>>))
       [] name = "KeepAll" -> With(x, 0, words(<<a + 39 - 3>>))
       [] name = "Shifts" ->
            words(<<a, b, IF b >= WordBits THEN 0 ELSE a * 2 ^ b, Dropped(a, b, TRUE),
                    IF b >= WordBits THEN 0 ELSE a \div 2 ^ b, Dropped(a, b, FALSE),
                    IF b >= WordBits THEN IF a >= W \div 2 THEN -1 ELSE 0
                    ELSE Signed(a, W) \div 2 ^ b, Dropped(a, b, FALSE)>>)
       [] name = "MulDiv" -> words(<<IF b = 0 THEN a ELSE a \div b, b, a * b>>)
       [] name = "Widen" ->
            words(<<a, x[1], IF x[1] >= Base \div 2 THEN x[1] - Base ELSE x[1],
                    -Val(x, 6, 2), -1 - Val(x, 8, 2), IF Val(x, 6, 2) = 0 THEN 0 ELSE 1>>)
       [] name = "Logic" -> words(<<b, a, Ones(a, b, Either), Ones(a, b, Both)>>)
       [] name = "SumBytes" -> words(<<FoldLeft(LAMBDA s, y : s + y, 0, x)>>)
       [] name = "Outside" -> <<>>
       [] name = "Endless" -> x
       [] name = "Far" -> With(x, 0, words(<<W \div 2>>))
-----------------------------------------------------------------------------
(* The writers of the standard filters' input, from the data before.       *)
\* addresses in calls; o is the place behind the opcode
E8Absolute(rel, o) ==
  IF rel >= -o /\ rel < fileSize - o THEN rel + o
  ELSE IF rel >= fileSize - o /\ rel < fileSize THEN rel - fileSize ELSE rel
E8Written(x, places, off, v5) ==
  FoldSet(LAMBDA i, y : With(y, i, BytesOf(Word(E8Absolute(Signed(Val(x, i, 2), W),
                                    IF v5 THEN (off + i) % fileSize ELSE off + i)), 2)),
          x, places)

\* n channels one after the other, as differences to a prediction
Channels(x, n, diff(_)) ==
  FlattenSeq([j \in 1 .. n |->
    LET count == Cardinality({p \in DOMAIN x : p % n = j % n})
    IN [q \in 1 .. count |-> Byte(diff(j + (q - 1) * n) - x[j + (q - 1) * n])]])
DeltaWritten(x, n) == Channels(x, n, LAMBDA p : IF p <= n THEN 0 ELSE x[p - n])

\* of left, above and above left the one nearest to left + above - aboveleft
Nearest(left, above, al) ==
  LET dist == [v \in {left, above, al} |-> Abs(left + above - al - v)]
      least == Min({dist[v] : v \in DOMAIN dist})
  IN IF dist[left] = least THEN left ELSE IF dist[above] = least THEN above ELSE al
RGBWritten(x, line, posR) ==
  LET y == AddGreen(x, posR, -1)
      Left(p) == IF p <= 3 THEN 0 ELSE y[p - 3]
      Guess(p) == IF p - line < 4 THEN Left(p) ELSE Nearest(Left(p), y[p - line], y[p - line - 3])
  IN LET differ(p) == Byte(Guess(p) - y[p])
     IN FlattenSeq([j \in 1 .. 3 |->
          [q \in 1 .. ((Len(x) - j) \div 3) + 1 |-> differ(j + (q - 1) * 3)]])

\* the predictor of filterAudio, which the writer runs on the samples
AudioWritten(x, n) ==
  LET Channel(j) ==
        FoldLeft(LAMBDA st, q :
          LET sample == x[j + (q - 1) * n]
              pred == AudioPredict(st.c)
              cur == Signed(pred - sample, Base)
          IN [c |-> [AudioNext(st.c, pred, cur) EXCEPT !.prev = Signed(sample, Base)],
              y |-> Append(st.y, Byte(cur))],
          [c |-> Silence, y |-> <<>>],
          [q \in 1 .. ((Len(x) - j) \div n) + 1 |-> q]).y
  IN FlattenSeq([j \in 1 .. n |-> Channel(j)])

ArmWritten(x, off) ==
  FoldSet(LAMBDA i, y : With(y, i, BytesOf((Val(x, i, 3) + (off + i) \div 4) % Base ^ 3, 3)),
          x, {i \in 0 .. Len(x) - 4 : i % 4 = 0 /\ x[i + 4] = OpBranch})

ItaniumWritten(x, off) ==
  [k \in DOMAIN x |-> [x[k] EXCEPT !.imm = [i \in 0 .. 2 |->
     IF k < Len(x) /\ i \in Slots(x[k]) THEN (@[i] + off \div 16 + k - 1) % Immediates ELSE @[i]]]]
=============================================================================
