--------------------------- MODULE StandardFilters ---------------------------
(***************************************************************************)
(* The standard filters of filters.go.  A buffer is a sequence of bytes,   *)
(* which have Base values; a word has WordBytes of them, the least first.  *)
(* The loops over a buffer are folds over the positions they visit, which  *)
(* count from 0 as in the code.                                            *)
(***************************************************************************)
EXTENDS Integers, Sequences, SequencesExt, FiniteSetsExt

CONSTANTS
  Base,        \* 256: the values of a byte
  WordBytes,   \* 4: the bytes of a word
  fileSize,    \* 0x1000000: the addresses of filterE8
  AudioPeriod, \* 32: samples between two changes of the weights
  Immediates   \* 2^20: the values of an Itanium immediate

ASSUME FilterAssumption ==
  /\ Base % 8 = 0 /\ WordBytes \in Nat \ {0, 1}
  /\ fileSize \in 1 .. (Base ^ WordBytes) \div 2 /\ (Base ^ WordBytes) % fileSize = 0
  /\ AudioPeriod \in Nat \ {0} /\ Immediates \in Nat \ {0}

W == Base ^ WordBytes
Byte(n) == n % Base
Word(n) == n % W
Signed(n, size) == IF n % size >= size \div 2 THEN (n % size) - size ELSE n % size
Abs(n) == IF n < 0 THEN -n ELSE n

\* the word at position i, and a buffer with another one there
GetWord(b, i) == FoldLeft(LAMBDA x, k : x + b[i + k] * Base ^ (k - 1), 0,
                          [k \in 1 .. WordBytes |-> k])
PutWord(b, i, n) ==
  [p \in DOMAIN b |-> IF p \in i + 1 .. i + WordBytes
                      THEN (Word(n) \div Base ^ (p - i - 1)) % Base ELSE b[p]]

Numbers(n) == [i \in 1 .. n |-> i - 1]     \* 0 .. n - 1 in order
-----------------------------------------------------------------------------
(* filterE8: the operands of calls (0xe8, and jumps 0xe9 if c is that) are *)
(* addresses and become distances again.                                   *)
OpE8 == Base - 1
OpE9 == Base - 2

\* seeded bug: negative operands are left as they are
RelocateForward(addr, off) == IF addr >= 0 /\ addr < fileSize THEN addr - off ELSE addr

Relocate(addr, off) ==
  IF addr < 0 THEN IF Signed(addr + off, W) >= 0 THEN addr + fileSize ELSE addr
  ELSE IF addr < fileSize THEN addr - off ELSE addr

\* Go's %: the sign is that of x
Rem(x, y) == IF x < 0 THEN -((-x) % y) ELSE x % y

\* one round of the loop, with next byte at position i; the state has the
\* position the loop goes on at and the offset it counts
E8Round(c, v5, st, i) ==
  LET off == Signed(st.off + 1, W)
      o == IF v5 THEN Rem(off, fileSize) ELSE off
  IN IF i < st.next \/ Len(st.buf) - i < WordBytes + 1 THEN st
     ELSE IF st.buf[i + 1] \notin {OpE8, c} THEN [st EXCEPT !.off = off, !.next = i + 1]
     ELSE [buf |-> PutWord(st.buf, i + 1, Relocate(Signed(GetWord(st.buf, i + 1), W), o)),
           off |-> o + WordBytes, next |-> i + 1 + WordBytes]

filterE8(c, v5, buf, offset) ==
  FoldLeft(LAMBDA st, i : E8Round(c, v5, st, i),
           [buf |-> buf, off |-> Signed(offset, W), next |-> 0], Numbers(Len(buf))).buf
-----------------------------------------------------------------------------
(* itaniumFilterV3.  A buffer is a sequence of bundles of 16 bytes         *)
(* [template, op, imm], where op and imm are what getBits and setBits see  *)
(* of the three slots; the last bundle lacks the bytes behind it that the  *)
(* loop wants and is left alone.                                           *)
byteMask == <<{2}, {2}, {1, 2}, {1, 2}, {}, {}, {0, 1, 2}, {0, 1, 2},
              {2}, {2}, {}, {}, {2}, {2}, {}, {}>>

Slots(b) == IF b.template < 16 THEN {} ELSE {i \in byteMask[b.template - 15] : b.op[i] = 5}

itaniumFilter(buf, offset) ==
  [k \in DOMAIN buf |->
     IF k = Len(buf) THEN buf[k]
     ELSE [buf[k] EXCEPT !.imm = [i \in 0 .. 2 |->
             IF i \in Slots(buf[k]) THEN (@[i] - (offset \div 16 + k - 1)) % Immediates
             ELSE @[i]]]]

OpBranch == Base - 1     \* 0xeb
\* filterArm: the branches' addresses, in groups of four bytes
filterArm(buf, offset) ==
  [p \in DOMAIN buf |->
     LET i == ((p - 1) \div 4) * 4
         n == buf[i + 1] + buf[i + 2] * Base + buf[i + 3] * Base ^ 2 - (offset + i) \div 4
     IN IF i + 4 > Len(buf) \/ p = i + 4 \/ buf[i + 4] # OpBranch THEN buf[p]
        ELSE (n \div Base ^ (p - i - 1)) % Base]
-----------------------------------------------------------------------------
(* Filters that go through the channels one after the other: the input is  *)
(* read from the front, position i of the result is i of its channel.      *)
Places(l, n) ==
  FlattenSeq([j \in 1 .. n |->
    [q \in 1 .. ((l - j) \div n) + 1 |-> j - 1 + (q - 1) * n]])

First(i, n) == i < n      \* position i is the first of its channel

\* filterDelta: the sums of differences, of n channels
filterDelta(n, buf) ==
  FoldLeft(LAMBDA st, i :
             LET x == Byte((IF First(i, n) THEN 0 ELSE st.prev) - buf[st.i])
             IN [res |-> [st.res EXCEPT ![i + 1] = x], prev |-> x, i |-> st.i + 1],
           [res |-> buf, prev |-> 0, i |-> 1], Places(Len(buf), n)).res

\* filterRGBV3: a pixel is predicted from the ones to the left and above
RGBPredict(res, i, width, prev) ==
  LET up == i - width
      above == res[up + 1]
      left == res[up - 2]
      p == prev + above - left
      pa == Abs(p - prev)
      pb == Abs(p - above)
      pc == Abs(p - left)
  IN IF up < 3 THEN prev
     ELSE IF pa <= pb /\ pa <= pc THEN prev
     ELSE IF pb <= pc THEN above ELSE left

\* red and blue are relative to green, from posR on
AddGreen(res, posR, sign) ==
  [p \in DOMAIN res |->
     LET i == p - 1 - posR
     IN IF i >= 0 /\ i % 3 = 0 /\ p + 2 <= Len(res) THEN Byte(res[p] + sign * res[p + 1])
        ELSE IF i >= 2 /\ i % 3 = 2 THEN Byte(res[p] + sign * res[p - 1])
        ELSE res[p]]

filterRGB(width, posR, buf) ==
  LET done == FoldLeft(LAMBDA st, i :
                LET prev == IF First(i, 3) THEN 0 ELSE st.prev
                    x == Byte(RGBPredict(st.res, i, width, prev) - buf[st.i])
                IN [res |-> [st.res EXCEPT ![i + 1] = x], prev |-> x, i |-> st.i + 1],
              [res |-> buf, prev |-> 0, i |-> 1], Places(Len(buf), 3)).res
  IN IF width < 0 \/ posR < 0 THEN buf ELSE AddGreen(done, posR, 1)

(* filterAudioV3: a sample is predicted from the ones before it with       *)
(* weights k, of which one changes every AudioPeriod samples.              *)
Silence == [prev |-> 0, count |-> 0, diff |-> [j \in 0 .. 6 |-> 0],
            d |-> [j \in 0 .. 2 |-> 0], k |-> [j \in 0 .. 2 |-> 0]]

AudioPredict(c) ==
  Signed((8 * c.prev + c.k[0] * c.d[0] + c.k[1] * c.d[1] + c.k[2] * c.d[2]) \div 8, Base)

\* the weight that the smallest difference says
Weights(c, diff) ==
  LET least == Min({diff[j] : j \in 0 .. 6})
      n == Min({j \in 0 .. 6 : diff[j] = least}) - 1
      m == n \div 2
  IN IF n < 0 THEN c.k
     ELSE IF n % 2 = 0 THEN [c.k EXCEPT ![m] = IF @ >= -16 THEN @ - 1 ELSE @]
     ELSE [c.k EXCEPT ![m] = IF @ < 16 THEN @ + 1 ELSE @]

\* the channel after the difference cur gave the sample pred - cur
AudioNext(c, pred, cur) ==
  LET dd == 8 * cur
      diff == [j \in 0 .. 6 |-> c.diff[j] +
                 Abs(IF j = 0 THEN dd ELSE IF j % 2 = 1 THEN dd - c.d[(j - 1) \div 2]
                     ELSE dd + c.d[(j - 1) \div 2])]
      delta == Signed(pred - cur - c.prev, Base)
      turn == c.count % AudioPeriod = 0
  IN [prev |-> pred - cur, count |-> c.count + 1,
      diff |-> IF turn THEN Silence.diff ELSE diff,
      d |-> [j \in 0 .. 2 |-> <<delta, delta - c.d[0], c.d[1]>>[j + 1]],
      k |-> IF turn THEN Weights(c, diff) ELSE c.k]

filterAudio(chans, buf) ==
  FoldLeft(LAMBDA st, i :
             LET c == IF First(i, chans) THEN Silence ELSE st.c
                 pred == AudioPredict(c)
                 cur == Signed(buf[st.i], Base)
             IN [res |-> [st.res EXCEPT ![i + 1] = Byte(pred - cur)],
                 c |-> AudioNext(c, pred, cur), i |-> st.i + 1],
           [res |-> buf, c |-> Silence, i |-> 1], Places(Len(buf), chans)).res
=============================================================================
