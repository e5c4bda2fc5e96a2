------------------------- MODULE SymbolReaderProofs -------------------------
(***************************************************************************)
(* What holds of BitReader, as SymbolReader uses it without tables, for    *)
(* inputs of every length, all limits and any mix of its calls.            *)
(***************************************************************************)
EXTENDS SymbolReader, DataFacts

(* A block of length zero gives a negative limit: it is left out.          *)
NoNegativeLimit == Limits \subseteq Nat

Fields == [at : Nat, v : Seq(Int), n : Nat, l : Int]

(* The last n bits of v are the ones of the input behind e. *)
EndsIn(v, n, e) ==
  n <= Len(v) /\ \A i \in 1 .. n : v[Len(v) - n + i] = e + i

(* The last bits of b.v are those that are unread behind k that may be     *)
(* given back, t of the ones behind s being handed out.                    *)
Cached(b, s, t, k) == b.n + k < 256 /\ EndsIn(b.v, b.n + k, s + t - k)

(* Where the reader is in its input, and how far the limit is away. *)
Placed(b, s, t, k) ==
  /\ b.at <= bytes
  /\ ~limited => s = 0 /\ t + b.n = ByteBits * b.at
  /\ limited =>
       \/ /\ b.l > 0 /\ s + t + b.n = ByteBits * b.at
          /\ t + b.n + b.l = limit
       \/ /\ b.l = 0 /\ s + t + b.n <= ByteBits * b.at
          /\ ByteBits * b.at < s + t + b.n + ByteBits
          /\ t + b.n = limit \/ (b.n = 0 /\ k = 0 /\ t >= limit)

Sound(b, s, t, k) ==
  /\ b \in Fields /\ {s, t, k} \subseteq Nat /\ k <= t
  /\ Cached(b, s, t, k) /\ Placed(b, s, t, k)

ReaderInv ==
  /\ limited \in BOOLEAN /\ bytes \in Nat /\ limit \in Nat
  /\ Sound(br, start, taken, back)

IInv == codeLengths = NoTable => ReaderInv /\ InOrder /\ StopsAtLimit
-----------------------------------------------------------------------------
(* A byte that is shifted in. *)
LEMMA Shifted ==
  ASSUME NEW v \in Seq(Int), NEW n \in Nat, NEW a \in Nat, NEW e \in Nat,
         e + n = ByteBits * a, EndsIn(v, n, e)
  PROVE  /\ Cat(v, Byte(a)) \in Seq(Int) /\ Len(Cat(v, Byte(a))) = Len(v) + ByteBits
         /\ EndsIn(Cat(v, Byte(a)), n + ByteBits, e)
<1>1. ByteBits \in Nat /\ ByteBits * a \in Nat
  BY BitAssumption
<1>2. PICK y : y = Byte(a)
  OBVIOUS
<1>3. /\ y \in Seq(Int) /\ Len(y) = ByteBits
      /\ \A i \in 1 .. ByteBits : y[i] = ByteBits * a + i
  <2>1. PICK B \in Nat, c \in Nat : B = ByteBits /\ c = ByteBits * a
    BY <1>1
  <2>2. y = [j \in 1 .. B |-> c + j]
    BY ONLY <1>2, <2>1 DEF Byte
  <2>3. y \in Seq(Int)
    BY ONLY <2>2, B \in Nat, c \in Nat
  <2>4. Len(y) = B
    BY ONLY <2>2, B \in Nat
  <2>5. \A i \in 1 .. B : y[i] = c + i
    BY ONLY <2>2
  <2>6. QED
    BY ONLY <2>1, <2>3, <2>4, <2>5
<1> DEFINE x == Cat(v, y)
<1>4. /\ x \in Seq(Int) /\ Len(x) = Len(v) + ByteBits /\ Len(v) \in Nat
      /\ \A i \in 1 .. Len(v) : x[i] = v[i]
      /\ \A i \in 1 .. ByteBits : x[Len(v) + i] = y[i]
  <2>1. PICK S : S = Int
    OBVIOUS
  <2>2. v \in Seq(S) /\ y \in Seq(S)
    BY ONLY <1>3, <2>1, v \in Seq(Int)
  <2>3. x \in Seq(S) /\ Len(x) = Len(v) + Len(y) /\ Len(v) \in Nat
    BY ONLY <2>2, CatType
  <2>4. \A i \in 1 .. Len(v) : x[i] = v[i]
    BY ONLY <2>2, CatType
  <2>5. \A i \in 1 .. Len(y) : x[Len(v) + i] = y[i]
    BY ONLY <2>2, CatType
  <2>6. \A i \in 1 .. ByteBits : x[Len(v) + i] = y[i]
    BY ONLY <1>3, <2>5
  <2>7. QED
    BY ONLY <1>3, <2>1, <2>3, <2>4, <2>6
<1>5. n <= Len(v) /\ \A i \in 1 .. n : v[Len(v) - n + i] = e + i
  BY DEF EndsIn
<1> HIDE DEF x
<1>6. ASSUME NEW i \in 1 .. n + ByteBits
      PROVE  x[Len(x) - (n + ByteBits) + i] = e + i
  <2>1. CASE i <= n
    <3>1. Len(v) - n + i \in 1 .. Len(v) /\ i \in 1 .. n
          /\ Len(x) - (n + ByteBits) + i = Len(v) - n + i
      BY ONLY <1>1, <1>4, <1>5, <2>1, n \in Nat, i \in 1 .. n + ByteBits
    <3>2. x[Len(v) - n + i] = v[Len(v) - n + i]
      BY ONLY <1>4, <3>1
    <3>3. QED
      BY ONLY <1>5, <3>1, <3>2
  <2>2. CASE i > n
    <3>1. PICK m \in 1 .. ByteBits : i = n + m
      BY ONLY <1>1, <2>2, n \in Nat, i \in 1 .. n + ByteBits
    <3>2. Len(x) - (n + ByteBits) + i = Len(v) + m
      BY ONLY <1>1, <1>4, <3>1, n \in Nat
    <3>3. x[Len(v) + m] = ByteBits * a + m
      BY ONLY <1>3, <1>4, m \in 1 .. ByteBits
    <3>4. QED
      BY ONLY <1>1, <3>1, <3>2, <3>3, e + n = ByteBits * a, e \in Nat, n \in Nat
  <2>3. QED
    BY ONLY <1>1, <2>1, <2>2, n \in Nat, i \in 1 .. n + ByteBits
<1>7. n + ByteBits <= Len(x)
  BY ONLY <1>1, <1>4, <1>5, n \in Nat
<1>8. EndsIn(x, n + ByteBits, e)
  BY ONLY <1>6, <1>7 DEF EndsIn
<1>9. x = Cat(v, Byte(a))
  BY ONLY <1>2 DEF x
<1>10. QED
  BY ONLY <1>4, <1>8, <1>9

(* The last bits that are dropped. *)
LEMMA Dropped ==
  ASSUME NEW w \in Seq(Int), NEW n \in Nat, NEW e \in Nat, EndsIn(w, n, e),
         NEW x \in 0 .. n
  PROVE  /\ Part(w, 1, Len(w) - x) \in Seq(Int)
         /\ EndsIn(Part(w, 1, Len(w) - x), n - x, e)
<1>1. Len(w) \in Nat /\ n <= Len(w) /\ \A i \in 1 .. n : w[Len(w) - n + i] = e + i
  BY DEF EndsIn
<1>2. PICK S, m : S = Int /\ m = Len(w) - x
  OBVIOUS
<1>3. w \in Seq(S) /\ m \in 0 .. Len(w) /\ 1 \in 1 .. Len(w) + 1 /\ 1 <= m + 1 /\ n - x <= m
  BY ONLY <1>1, <1>2, w \in Seq(Int), x \in 0 .. n, n \in Nat
<1> DEFINE y == Part(w, 1, m)
<1>4. y \in Seq(S) /\ Len(y) = m - 1 + 1
  BY ONLY <1>3, PartType
<1>5. \A k \in 1 .. m - 1 + 1 : y[k] = w[1 + k - 1]
  BY ONLY <1>3, PartType
<1> HIDE DEF y
<1>6. Len(y) = m
  BY ONLY <1>3, <1>4
<1>7. ASSUME NEW i \in 1 .. m PROVE y[i] = w[i]
  <2>1. i \in 1 .. m - 1 + 1 /\ 1 + i - 1 = i
    BY ONLY <1>3, i \in 1 .. m
  <2>2. QED
    BY ONLY <1>5, <2>1
<1>8. ASSUME NEW i \in 1 .. n - x PROVE y[Len(y) - (n - x) + i] = e + i
  <2>1. /\ i \in 1 .. n /\ Len(y) - (n - x) + i = Len(w) - n + i
        /\ Len(w) - n + i \in 1 .. m
    BY ONLY <1>1, <1>2, <1>3, <1>6, i \in 1 .. n - x, x \in 0 .. n, n \in Nat
  <2>2. QED
    BY ONLY <1>1, <1>7, <2>1
<1>9. EndsIn(y, n - x, e)
  BY ONLY <1>3, <1>6, <1>8 DEF EndsIn
<1>10. QED
  BY ONLY <1>2, <1>4, <1>9 DEF y

(* The first bits of those that are the end of v are taken. *)
LEMMA Fewer ==
  ASSUME NEW v \in Seq(Int), NEW n \in Nat, NEW e \in Int, EndsIn(v, n, e), NEW k \in 0 .. n
  PROVE  EndsIn(v, n - k, e + k)
<1>1. Len(v) \in Nat /\ n <= Len(v) /\ \A i \in 1 .. n : v[Len(v) - n + i] = e + i
  BY DEF EndsIn
<1>2. ASSUME NEW i \in 1 .. n - k PROVE v[Len(v) - (n - k) + i] = e + k + i
  <2>1. PICK j \in 1 .. n : j = k + i
    BY ONLY i \in 1 .. n - k, k \in 0 .. n, n \in Nat
  <2>2. Len(v) - (n - k) + i = Len(v) - n + j /\ e + k + i = e + j
    BY ONLY <1>1, <2>1, i \in 1 .. n - k, k \in 0 .. n, n \in Nat, e \in Int
  <2>3. QED
    BY ONLY <1>1, <2>1, <2>2
<1>3. n - k <= Len(v)
  BY ONLY <1>1, k \in 0 .. n, n \in Nat
<1>4. QED
  BY ONLY <1>2, <1>3 DEF EndsIn

(* What is cached, when nothing is to be given back. *)
LEMMA CachedNow ==
  ASSUME NEW b, NEW s \in Nat, NEW t \in Nat, b.n \in Nat
  PROVE  Cached(b, s, t, 0) <=> b.n < 256 /\ EndsIn(b.v, b.n, s + t)
<1>1. b.n + 0 = b.n /\ s + t - 0 = s + t
  OBVIOUS
<1>2. QED
  BY ONLY <1>1 DEF Cached

(* A reader in its fields, when nothing is to be given back. *)
LEMMA SoundIs ==
  ASSUME NEW A \in Nat, NEW V \in Seq(Int), NEW N \in Nat, NEW L \in Int,
         NEW s \in Nat, NEW t \in Nat, N < 256, EndsIn(V, N, s + t),
         NEW b, b = [at |-> A, v |-> V, n |-> N, l |-> L], Placed(b, s, t, 0)
  PROVE  Sound(b, s, t, 0)
<1>1. b.at = A /\ b.v = V /\ b.n = N /\ b.l = L
  BY ONLY b = [at |-> A, v |-> V, n |-> N, l |-> L]
<1>2. b \in Fields
  BY DEF Fields
<1>3. Cached(b, s, t, 0)
  BY ONLY <1>1, N < 256, N \in Nat, EndsIn(V, N, s + t), s \in Nat, t \in Nat, CachedNow
<1>4. QED
  BY <1>2, <1>3 DEF Sound

(* And the other way round. *)
LEMMA OfSound ==
  ASSUME NEW b, NEW s, NEW t, Sound(b, s, t, 0)
  PROVE  /\ s \in Nat /\ t \in Nat
         /\ b.at \in Nat /\ b.v \in Seq(Int) /\ b.n \in Nat /\ b.l \in Int
         /\ b = [at |-> b.at, v |-> b.v, n |-> b.n, l |-> b.l]
         /\ b.n < 256 /\ EndsIn(b.v, b.n, s + t) /\ Placed(b, s, t, 0)
<1>1. b \in Fields /\ s \in Nat /\ t \in Nat /\ Cached(b, s, t, 0) /\ Placed(b, s, t, 0)
  BY DEF Sound
<1>2. /\ b.at \in Nat /\ b.v \in Seq(Int) /\ b.n \in Nat /\ b.l \in Int
      /\ b = [at |-> b.at, v |-> b.v, n |-> b.n, l |-> b.l]
  BY ONLY <1>1 DEF Fields
<1>3. b.n < 256 /\ EndsIn(b.v, b.n, s + t)
  BY ONLY <1>1, <1>2, CachedNow
<1>4. QED
  BY ONLY <1>1, <1>2, <1>3

(* readBits loads a byte, and past the limit drops the bits behind it. *)
LEMMA LoadSound ==
  ASSUME limited \in BOOLEAN, bytes \in Nat, limit \in Nat,
         NEW b, NEW s, NEW t, Sound(b, s, t, 0),
         b.at < bytes, limited => b.l # 0, b.n + ByteBits < 256
  PROVE  Sound(LoadByte(b), s, t, 0) /\ LoadByte(b).at = b.at + 1
<1>1. PICK A, V, N, L : A = b.at /\ V = b.v /\ N = b.n /\ L = b.l
  OBVIOUS
<1>2. s \in Nat /\ t \in Nat /\ A \in Nat /\ V \in Seq(Int) /\ N \in Nat /\ L \in Int
  BY ONLY <1>1, Sound(b, s, t, 0), OfSound
<1>3. b = [at |-> A, v |-> V, n |-> N, l |-> L]
  BY ONLY <1>1, Sound(b, s, t, 0), OfSound
<1>4. EndsIn(V, N, s + t)
  BY ONLY <1>1, Sound(b, s, t, 0), OfSound
<1>5. ByteBits \in Nat /\ ByteBits > 0 /\ ByteBits < 128
  BY BitAssumption
<1>6. A < bytes /\ N + ByteBits < 256 /\ (limited => L # 0)
  BY <1>1
<1>7. PICK p \in Nat : p = ByteBits * A /\ p + ByteBits = ByteBits * (A + 1)
  BY ONLY <1>2, <1>5
<1>8. /\ ~limited => s = 0 /\ t + N = p
      /\ limited => L > 0 /\ s + t + N = p /\ t + N + L = limit
  BY ONLY <1>1, <1>6, <1>7, Sound(b, s, t, 0) DEF Sound, Placed
<1>9. s + t + N = p
  BY ONLY <1>2, <1>8
<1>10. PICK e \in Nat : e = s + t
  BY ONLY <1>2
<1> PICK w : w = Cat(V, Byte(A))
  OBVIOUS
<1> PICK M \in Nat : M = N + ByteBits
  BY ONLY <1>2, <1>5
<1> PICK A1 \in Nat : A1 = A + 1
  BY ONLY <1>2
<1> PICK q \in Nat : q = p + ByteBits
  BY ONLY <1>5, p \in Nat
<1>11. w = Cat(V, Byte(A)) /\ M = N + ByteBits /\ A1 = A + 1 /\ q = p + ByteBits
  OBVIOUS
<1>12. w \in Seq(Int) /\ EndsIn(w, M, e)
  <2>1. e + N = ByteBits * A /\ EndsIn(V, N, e)
    BY ONLY <1>4, <1>7, <1>9, <1>10
  <2>2. QED
    BY ONLY <1>2, <1>11, <2>1, e \in Nat, Shifted
<1>13. PICK u : u = [at |-> A1, v |-> w, n |-> M, l |-> L]
  OBVIOUS
<1>14. PICK c : c = [at |-> A1, v |-> w, n |-> M, l |-> L - ByteBits]
  OBVIOUS
<1>15. LoadByte(b) = IF limited THEN Overshot(c) ELSE u
  <2>1. b.at + 1 = A1 /\ b.n + ByteBits = M
    BY ONLY <1>1, <1>11
  <2>2. b.v \o Byte(b.at) = w
    BY ONLY <1>1, <1>11 DEF Cat
  <2>3. PICK x : x = [b EXCEPT !.at = b.at + 1, !.v = b.v \o Byte(b.at), !.n = b.n + ByteBits]
    OBVIOUS
  <2>4. x = [b EXCEPT !.at = A1, !.v = w, !.n = M]
    BY ONLY Zenon, <2>1, <2>2, <2>3
  <2>5. [b EXCEPT !.at = A1, !.v = w, !.n = M] = u
    <3>1. PICK x1 : x1 = [b EXCEPT !.at = A1]
      OBVIOUS
    <3>2. PICK x2 : x2 = [x1 EXCEPT !.v = w]
      OBVIOUS
    <3>3. PICK x3 : x3 = [x2 EXCEPT !.n = M]
      OBVIOUS
    <3>4. x1 = [at |-> A1, v |-> V, n |-> N, l |-> L]
      BY ONLY <3>1, <1>3
    <3>5. x2 = [at |-> A1, v |-> w, n |-> N, l |-> L]
      BY ONLY <3>2, <3>4
    <3>6. x3 = [at |-> A1, v |-> w, n |-> M, l |-> L]
      BY ONLY <3>3, <3>5
    <3>7. [b EXCEPT !.at = A1, !.v = w, !.n = M] = x3
      BY ONLY <3>1, <3>2, <3>3
    <3>8. QED
      BY ONLY <3>6, <3>7, <1>13
  <2>6. [u EXCEPT !.l = u.l - ByteBits] = c
    BY ONLY <1>13, <1>14
  <2>7. LoadByte(b) = IF limited THEN Overshot([x EXCEPT !.l = x.l - ByteBits]) ELSE x
    BY ONLY <2>3 DEF LoadByte
  <2>8. x = u
    BY ONLY <2>4, <2>5
  <2>9. QED
    BY ONLY <2>6, <2>7, <2>8
<1>16. A1 <= bytes /\ q = ByteBits * A1 /\ M < 256
  BY ONLY <1>2, <1>6, <1>7, <1>11, bytes \in Nat
<1>17. CASE ~limited
  <2>1. LoadByte(b) = u
    BY ONLY <1>15, <1>17
  <2>2. Placed(u, s, t, 0)
    <3>1. t + M = q /\ s = 0
      BY ONLY <1>2, <1>5, <1>8, <1>11, <1>17
    <3>2. u.at = A1 /\ u.n = M
      BY ONLY <1>13
    <3>3. QED
      BY ONLY <1>16, <1>17, <3>1, <3>2 DEF Placed
  <2>3. Sound(u, s, t, 0)
    BY ONLY <1>2, <1>10, <1>11, <1>12, <1>13, <1>16, <2>2, SoundIs
  <2>4. u.at = b.at + 1
    BY ONLY <1>1, <1>11, <1>13
  <2>5. QED
    BY ONLY <2>1, <2>3, <2>4
<1>18. CASE limited
  <2>1. L > 0 /\ t + N + L = limit
    BY ONLY <1>8, <1>18
  <2>2. LoadByte(b) = Overshot(c)
    BY ONLY <1>15, <1>18
  <2>3. c.l = L - ByteBits /\ c.n = M /\ c.v = w /\ c.at = A1
    BY ONLY <1>14
  <2>4. CASE L >= ByteBits
    <3>1. LoadByte(b) = c
      BY ONLY <1>2, <1>5, <2>2, <2>3, <2>4 DEF Overshot
    <3>2. s + t + M = q /\ t + M + (L - ByteBits) = limit
          /\ L - ByteBits \in Int /\ L - ByteBits >= 0
      BY ONLY <1>2, <1>5, <1>9, <1>11, <2>1, <2>4
    <3>3. Placed(c, s, t, 0)
      BY ONLY <1>2, <1>5, <1>16, <1>18, <2>3, <3>2, M \in Nat, q \in Nat, limit \in Nat DEF Placed
    <3>4. PICK L1 \in Int : L1 = L - ByteBits
      BY ONLY <3>2
    <3>5. Sound(c, s, t, 0)
      BY ONLY <1>2, <1>10, <1>11, <1>12, <1>14, <1>16, <3>3, <3>4, SoundIs
    <3>6. c.at = b.at + 1
      BY ONLY <1>1, <1>11, <2>3
    <3>7. QED
      BY ONLY <3>1, <3>5, <3>6
  <2>5. CASE L < ByteBits
    <3>1. PICK x \in Nat : x = ByteBits - L /\ x > 0 /\ x < ByteBits
      BY ONLY <1>2, <1>5, <2>1, <2>5
    <3>2. (0 - c.l) % 256 = x
      <4>1. 0 - c.l = x
        BY ONLY <1>2, <1>5, <2>3, <3>1
      <4>2. x % 256 = x
        BY ONLY <1>5, <3>1
      <4>3. QED
        BY ONLY <4>1, <4>2
    <3>3. PICK m \in Nat : m = M - x
      BY ONLY <1>2, <1>5, <1>11, <3>1
    <3>4. (c.n + 256 - x) % 256 = m
      <4>1. c.n + 256 - x = m + 256 /\ m < 256
        BY ONLY <1>16, <2>3, <3>1, <3>3, M \in Nat
      <4>2. (m + 256) % 256 = m
        BY ONLY <4>1, m \in Nat
      <4>3. QED
        BY ONLY <4>1, <4>2
    <3>5. PICK y : y = Part(w, 1, Len(w) - x)
      OBVIOUS
    <3>6. Len(w) \in Nat /\ x \in 0 .. M /\ x < Len(w)
      BY ONLY <1>2, <1>5, <1>11, <1>12, <3>1 DEF EndsIn
    <3>7. y \in Seq(Int) /\ EndsIn(y, m, e)
      BY ONLY <1>12, <3>3, <3>5, <3>6, e \in Nat, M \in Nat, Dropped
    <3>8. PICK d : d = [at |-> A1, v |-> y, n |-> m, l |-> 0]
      OBVIOUS
    <3>9. LoadByte(b) = d
      <4>1. ~(c.l >= 0)
        BY ONLY <1>2, <1>5, <2>3, <2>5
      <4>2. SubSeq(c.v, 1, IF x < Len(c.v) THEN Len(c.v) - x ELSE 0) = y
        BY ONLY <2>3, <3>5, <3>6 DEF Part
      <4>3. Overshot(c) = [c EXCEPT !.l = 0, !.n = m, !.v = y]
        <5>1. Overshot(c) = Without(c, x)
          BY ONLY <3>2, <4>1 DEF Overshot
        <5>2. Without(c, x) = [c EXCEPT !.l = 0, !.n = m, !.v = y]
          BY ONLY <3>4, <4>2 DEF Without
        <5>3. QED
          BY ONLY <5>1, <5>2
      <4>4. [c EXCEPT !.l = 0, !.n = m, !.v = y] = d
        <5>1. PICK x1 : x1 = [c EXCEPT !.l = 0]
          OBVIOUS
        <5>2. PICK x2 : x2 = [x1 EXCEPT !.n = m]
          OBVIOUS
        <5>3. PICK x3 : x3 = [x2 EXCEPT !.v = y]
          OBVIOUS
        <5>4. x1 = [at |-> A1, v |-> w, n |-> M, l |-> 0]
          BY ONLY <5>1, <1>14
        <5>5. x2 = [at |-> A1, v |-> w, n |-> m, l |-> 0]
          BY ONLY <5>2, <5>4
        <5>6. x3 = [at |-> A1, v |-> y, n |-> m, l |-> 0]
          BY ONLY <5>3, <5>5
        <5>7. [c EXCEPT !.l = 0, !.n = m, !.v = y] = x3
          BY ONLY <5>1, <5>2, <5>3
        <5>8. QED
          BY ONLY <5>6, <5>7, <3>8
      <4>5. QED
        BY ONLY <2>2, <4>3, <4>4
    <3>10. s + t + m <= q /\ q < s + t + m + ByteBits /\ t + m = limit /\ m < 256
      BY ONLY <1>2, <1>5, <1>9, <1>11, <1>16, <2>1, <3>1, <3>3
    <3>11. Placed(d, s, t, 0)
      <4>1. d.at = A1 /\ d.n = m /\ d.l = 0
        BY ONLY <3>8
      <4>2. QED
        BY ONLY <1>16, <1>18, <3>10, <4>1 DEF Placed
    <3>12. EndsIn(y, m, s + t) /\ 0 \in Int
      BY ONLY <1>10, <3>7
    <3>13. Sound(d, s, t, 0)
      BY ONLY <1>2, <1>11, <3>3, <3>7, <3>8, <3>10, <3>11, <3>12, SoundIs
    <3>14. d.at = b.at + 1
      BY ONLY <1>1, <1>11, <3>8
    <3>15. QED
      BY ONLY <3>9, <3>13, <3>14
  <2>6. QED
    BY ONLY <1>2, <1>5, <2>4, <2>5
<1>19. QED
  BY ONLY Zenon, <1>17, <1>18, limited \in BOOLEAN

(* Where the loop of readBits ends. *)
Stopped(b, k) == b.n >= k \/ (limited /\ b.l = 0) \/ b.at = bytes

(* The loop of readBits loads until there are enough bits, or no more. *)
LEMMA LoadedSound ==
  ASSUME limited \in BOOLEAN, bytes \in Nat, limit \in Nat,
         NEW b, NEW s, NEW t, Sound(b, s, t, 0), NEW k \in Nat, k + ByteBits <= 256
  PROVE  Sound(Loaded(b, k), s, t, 0) /\ Stopped(Loaded(b, k), k)
<1> DEFINE X == {x \in Fields : Sound(x, s, t, 0)}
           After(x) == IF Stopped(x, k) THEN x ELSE LoadByte(x)
           step == [x \in X |-> After(x)]
           Def(g) == g = [j \in Nat |-> IF j = 0 THEN b ELSE After(g[j - 1])]
<1>1. ASSUME NEW x, Sound(x, s, t, 0), ~Stopped(x, k)
      PROVE  Sound(LoadByte(x), s, t, 0) /\ LoadByte(x).at = x.at + 1
  <2>1. x.at \in Nat /\ x.n \in Nat /\ x.l \in Int /\ x.at <= bytes
    BY ONLY <1>1, OfSound DEF Placed
  <2>2. x.at < bytes /\ (limited => x.l # 0) /\ x.n < k
    BY ONLY <1>1, <2>1, bytes \in Nat, k \in Nat DEF Stopped
  <2>3. x.n + ByteBits < 256
    BY <2>1, <2>2, BitAssumption
  <2>4. QED
    BY ONLY <1>1, <2>2, <2>3, LoadSound, limited \in BOOLEAN, bytes \in Nat, limit \in Nat
<1>2. ASSUME NEW g, g[0] = b, \A j \in Nat : g[j + 1] = step[g[j]] \/ g[j + 1] = After(g[j])
      PROVE  \A j \in Nat : /\ Sound(g[j], s, t, 0)
                            /\ Stopped(g[j], k) \/ g[j].at >= j
  <2> DEFINE S == {j \in Nat : Sound(g[j], s, t, 0) /\ (Stopped(g[j], k) \/ g[j].at >= j)}
  <2>1. 0 \in S
    <3>1. b.at \in Nat
      BY OfSound
    <3>2. QED
      BY <1>2, <3>1
  <2>2. ASSUME NEW j \in Nat, j \in S PROVE j + 1 \in S
    <3>1. Sound(g[j], s, t, 0) /\ (Stopped(g[j], k) \/ g[j].at >= j)
      BY <2>2
    <3>2. g[j] \in X
      BY <3>1 DEF Sound
    <3>3. g[j + 1] = After(g[j])
      BY <1>2, <3>2
    <3>4. CASE Stopped(g[j], k)
      <4>1. g[j + 1] = g[j]
        BY ONLY <3>3, <3>4
      <4>2. QED
        BY <3>1, <3>4, <4>1
    <3>5. CASE ~Stopped(g[j], k)
      <4>1. g[j + 1] = LoadByte(g[j])
        BY ONLY <3>3, <3>5
      <4>2. Sound(LoadByte(g[j]), s, t, 0) /\ LoadByte(g[j]).at = g[j].at + 1
        BY ONLY <1>1, <3>1, <3>5
      <4>3. g[j].at \in Nat /\ g[j].at >= j
        BY ONLY <3>1, <3>5, OfSound
      <4>4. QED
        BY <4>1, <4>2, <4>3
    <3>6. QED
      BY <3>4, <3>5
  <2> HIDE DEF S
  <2>3. \A j \in Nat : j \in S
    BY ONLY <2>1, <2>2, Inductive
  <2>4. QED
    BY <2>3 DEF S
<1>3. \E g : Def(g)
  <2>1. PICK c, f : c = b /\ f = step
    OBVIOUS
  <2>2. PICK r : r = Recursive(c, f)
    OBVIOUS
  <2>3. Recurs(r, c, f)
    BY ONLY <2>2, Recursion
  <2>4. r[0] = b /\ \A j \in Nat : r[j + 1] = step[r[j]]
    BY ONLY <2>1, <2>3 DEF Recurs
  <2>5. \A j \in Nat : Sound(r[j], s, t, 0)
    BY ONLY <1>2, <2>4
  <2>6. ASSUME NEW j \in Nat PROVE r[j + 1] = After(r[j])
    <3>1. r[j] \in X
      BY ONLY <2>5, j \in Nat DEF Sound
    <3>2. QED
      BY <2>4, <3>1
  <2> DEFINE g == [j \in Nat |-> r[j]]
  <2>7. ASSUME NEW j \in Nat PROVE g[j] = IF j = 0 THEN b ELSE After(g[j - 1])
    <3>1. CASE j # 0
      <4>1. PICK i \in Nat : i = j - 1 /\ i + 1 = j
        BY <3>1
      <4>2. g[j] = After(g[i])
        BY ONLY <2>6, <4>1, j \in Nat, i \in Nat
      <4>3. QED
        BY ONLY <3>1, <4>1, <4>2
    <3>2. QED
      BY ONLY <2>4, <3>1
  <2>8. Def(g)
    BY ONLY <2>7
  <2>9. QED
    BY ONLY Zenon, <2>8
<1>4. PICK H : H = CHOOSE g : Def(g)
  OBVIOUS
<1>5. Loaded(b, k) = H[bytes]
  BY ONLY <1>4 DEF Loaded, Stopped
<1>6. Def(H)
  BY ONLY Zenon, <1>3, <1>4
<1> HIDE DEF step
<1>7. H[0] = b /\ \A j \in Nat : H[j + 1] = After(H[j])
  <2>1. H[0] = b
    BY ONLY <1>6
  <2>2. ASSUME NEW j \in Nat PROVE H[j + 1] = After(H[j])
    <3>1. PICK i \in Nat : i = j + 1 /\ i # 0 /\ i - 1 = j
      OBVIOUS
    <3>2. H[i] = After(H[i - 1])
      BY ONLY <1>6, <3>1, i \in Nat
    <3>3. QED
      BY ONLY <3>1, <3>2
  <2>3. QED
    BY ONLY <2>1, <2>2
<1>8. Sound(H[bytes], s, t, 0) /\ (Stopped(H[bytes], k) \/ H[bytes].at >= bytes)
  BY ONLY <1>2, <1>7, bytes \in Nat
<1>9. H[bytes].at \in Nat /\ H[bytes].at <= bytes
  BY ONLY <1>8, OfSound DEF Placed
<1>10. Stopped(H[bytes], k)
  BY ONLY <1>8, <1>9, bytes \in Nat DEF Stopped
<1>11. QED
  BY ONLY <1>5, <1>8, <1>10

(* What could have been given back no longer can. *)
LEMMA Forget ==
  ASSUME NEW b, NEW s, NEW t, NEW k, Sound(b, s, t, k)
  PROVE  Sound(b, s, t, 0)
<1>1. /\ b \in Fields /\ s \in Nat /\ t \in Nat /\ k \in Nat /\ k <= t
      /\ Cached(b, s, t, k) /\ Placed(b, s, t, k)
  BY DEF Sound
<1>2. b.v \in Seq(Int) /\ b.n \in Nat
  BY ONLY <1>1 DEF Fields
<1> PICK V : V = b.v
  OBVIOUS
<1>3. PICK n \in Nat, e \in Nat : n = b.n + k /\ e = s + t - k /\ V = b.v
  BY ONLY <1>1, <1>2, V = b.v
<1>4. V \in Seq(Int) /\ EndsIn(V, n, e) /\ n < 256
  BY ONLY <1>1, <1>2, <1>3 DEF Cached
<1>5. k \in 0 .. n /\ n - k = b.n /\ e + k = s + t
  BY ONLY <1>1, <1>2, <1>3
<1>6. EndsIn(V, n - k, e + k)
  BY ONLY <1>4, <1>5, n \in Nat, e \in Nat, Fewer
<1>7. b.n < 256 /\ EndsIn(b.v, b.n, s + t)
  BY ONLY <1>1, <1>2, <1>3, <1>4, <1>5, <1>6
<1>8. Cached(b, s, t, 0)
  BY ONLY <1>1, <1>2, <1>7, CachedNow
<1>9. Placed(b, s, t, 0)
  BY ONLY <1>1 DEF Placed
<1>10. QED
  BY ONLY <1>1, <1>8, <1>9 DEF Sound

(* r has the next m bits, and if k were asked for the right error. *)
NextBits(r, s, t, k, m) ==
  /\ Len(r.got) = m /\ r.got = [j \in 1 .. m |-> s + t + j]
  /\ Sound(r.br, s, t + m, m)
  /\ limited /\ k > 0 => /\ r.err = "nil" => t + m <= limit
                         /\ r.err = "EOF" => t + m + k > limit

(* readBits returns the next bits. *)
LEMMA BitsAre ==
  ASSUME limited \in BOOLEAN, bytes \in Nat, limit \in Nat,
         NEW b, NEW s, NEW t, Sound(b, s, t, 0), NEW k \in Nat, k + ByteBits <= 256,
         NEW r, r = BitsOf(b, k)
  PROVE  \E m \in Nat : NextBits(r, s, t, k, m)
<1>1. PICK x : x = Loaded(b, k)
  OBVIOUS
<1>2. Sound(x, s, t, 0) /\ Stopped(x, k)
  BY ONLY <1>1, LoadedSound, limited \in BOOLEAN, bytes \in Nat, limit \in Nat,
          Sound(b, s, t, 0), k \in Nat, k + ByteBits <= 256
<1>3. PICK A, V, N, L : A = x.at /\ V = x.v /\ N = x.n /\ L = x.l
  OBVIOUS
<1>4. /\ s \in Nat /\ t \in Nat /\ A \in Nat /\ V \in Seq(Int) /\ N \in Nat /\ L \in Int
      /\ x = [at |-> A, v |-> V, n |-> N, l |-> L]
  BY ONLY <1>2, <1>3, OfSound
<1>5. N < 256 /\ EndsIn(V, N, s + t)
  BY ONLY <1>2, <1>3, OfSound
<1>6. /\ A <= bytes
      /\ ~limited => s = 0 /\ t + N = ByteBits * A
      /\ limited =>
           \/ L > 0 /\ s + t + N = ByteBits * A /\ t + N + L = limit
           \/ /\ L = 0 /\ s + t + N <= ByteBits * A /\ ByteBits * A < s + t + N + ByteBits
              /\ t + N = limit \/ (N = 0 /\ t >= limit)
  BY ONLY <1>2, <1>3 DEF Sound, Placed
<1>7. PICK p \in Int : p = ByteBits * A
  BY <1>4, BitAssumption
<1>8. CASE N >= k
  <2>1. PICK n \in Nat : n = N - k
    BY ONLY <1>4, <1>8, k \in Nat
  <2>2. PICK u : u = [at |-> A, v |-> V, n |-> n, l |-> L]
    OBVIOUS
  <2>3. PICK G : G = [j \in 1 .. k |-> s + t + j]
    OBVIOUS
  <2>4. r = [br |-> [x EXCEPT !.n = N - k], got |-> Window(V, k, N - k), err |-> "nil"]
    BY ONLY <1>1, <1>3, <1>8, r = BitsOf(b, k) DEF BitsOf
  <2>5. [x EXCEPT !.n = N - k] = u
    BY ONLY <1>4, <2>1, <2>2
  <2>6. Window(V, k, N - k) = G
    <3>1. N <= Len(V) /\ Len(V) \in Nat /\ \A i \in 1 .. N : V[Len(V) - N + i] = s + t + i
      BY ONLY <1>4, <1>5 DEF EndsIn
    <3>2. ASSUME NEW j \in 1 .. k
          PROVE  (LET i == Len(V) - (N - k) - k + j IN IF i >= 1 THEN V[i] ELSE 0) = s + t + j
      <4>1. PICK m : m = Len(V) - (N - k) - k + j
        OBVIOUS
      <4>2. m = Len(V) - N + j /\ m >= 1 /\ j \in 1 .. N
        BY ONLY <1>4, <1>8, <3>1, <4>1, k \in Nat, j \in 1 .. k, N \in Nat
      <4>3. V[m] = s + t + j
        BY ONLY <3>1, <4>2
      <4>4. QED
        BY ONLY <4>1, <4>2, <4>3
    <3>3. QED
      BY ONLY <2>3, <3>2 DEF Window
  <2>7. r.br = u /\ r.got = G /\ r.err = "nil"
    BY ONLY <2>4, <2>5, <2>6
  <2>8. Len(G) = k
    BY ONLY <2>3, k \in Nat
  <2>9. Sound(u, s, t + k, k)
    <3>1. u.at = A /\ u.v = V /\ u.n = n /\ u.l = L
      BY ONLY <2>2
    <3>2. u \in Fields
      BY ONLY <1>4, <2>2, n \in Nat DEF Fields
    <3>3. n + k = N /\ s + (t + k) - k = s + t /\ t + k \in Nat /\ k <= t + k
      BY ONLY <1>4, <2>1, k \in Nat
    <3>4. Cached(u, s, t + k, k)
      BY ONLY <1>5, <3>1, <3>3 DEF Cached
    <3>5. ~limited => t + k + n = p /\ s = 0
      BY ONLY <1>4, <1>6, <1>7, <2>1, k \in Nat
    <3>6. limited => \/ L > 0 /\ s + (t + k) + n = p /\ t + k + n + L = limit
                     \/ /\ L = 0 /\ s + (t + k) + n <= p /\ p < s + (t + k) + n + ByteBits
                        /\ t + k + n = limit \/ (n = 0 /\ k = 0 /\ t + k >= limit)
      BY ONLY <1>4, <1>6, <1>7, <1>8, <2>1, k \in Nat
    <3>7. Placed(u, s, t + k, k)
      BY ONLY <1>6, <1>7, <3>1, <3>5, <3>6 DEF Placed
    <3>8. QED
      BY ONLY <1>4, <3>2, <3>3, <3>4, <3>7, k \in Nat DEF Sound
  <2>10. limited /\ k > 0 => t + k <= limit
    BY ONLY <1>4, <1>6, <1>8, k \in Nat
  <2>11. QED
    <3>1. r.err # "EOF" /\ Len(r.got) = k
      BY ONLY <2>7, <2>8
    <3>2. r.got = [j \in 1 .. k |-> s + t + j]
      BY ONLY <2>3, <2>7
    <3>3. Sound(r.br, s, t + k, k)
      BY ONLY <2>7, <2>9
    <3>4. QED
      BY ONLY <2>10, <3>1, <3>2, <3>3, k \in Nat DEF NextBits
<1>9. CASE ~(N >= k)
  <2>1. r = [br |-> x, got |-> <<>>,
             err |-> IF limited /\ L # 0 THEN "ErrDecoderOutOfData" ELSE "EOF"]
    BY ONLY <1>1, <1>3, <1>9, r = BitsOf(b, k) DEF BitsOf
  <2>2. r.br = x /\ r.got = <<>> /\ r.err # "nil" /\ (limited /\ r.err = "EOF" => L = 0)
    BY ONLY <2>1
  <2>3. t + 0 = t
    BY ONLY <1>4
  <2>4. Sound(r.br, s, t + 0, 0)
    BY ONLY <1>2, <2>2, <2>3
  <2>5. limited /\ r.err = "EOF" => t + 0 + k > limit
    BY ONLY <1>4, <1>6, <1>9, <2>2, k \in Nat, limit \in Nat
  <2>6. Len(r.got) = 0 /\ r.got = [j \in 1 .. 0 |-> s + t + j]
    BY ONLY <2>2
  <2>7. QED
    BY ONLY <2>2, <2>4, <2>5, <2>6 DEF NextBits
<1>10. QED
  BY ONLY <1>8, <1>9
-----------------------------------------------------------------------------
(* What a step does to a sound reader, one that is used without tables. *)
Kept == ReaderInv' /\ InOrder' /\ StopsAtLimit'

(* Bits in their order are in order. *)
LEMMA Ordered ==
  ASSUME NEW s \in Nat, NEW t \in Nat, NEW m \in Nat, NEW g, Len(g) = m,
         g = [j \in 1 .. m |-> s + t + j], NEW u, u = t + m
  PROVE  g = [j \in 1 .. Len(g) |-> s + u - Len(g) + j]
<1>1. \A j \in 1 .. m : s + u - m + j = s + t + j
  OBVIOUS
<1>2. [j \in 1 .. m |-> s + u - m + j] = [j \in 1 .. m |-> s + t + j]
  BY ONLY <1>1
<1>3. QED
  BY ONLY <1>2, Len(g) = m, g = [j \in 1 .. m |-> s + t + j]

(* A sound reader, its parts. *)
LEMMA SoundReader ==
  ASSUME ReaderInv
  PROVE  /\ limited \in BOOLEAN /\ bytes \in Nat /\ limit \in Nat
         /\ start \in Nat /\ taken \in Nat /\ back \in Nat /\ back <= taken
         /\ Sound(br, start, taken, back) /\ Sound(br, start, taken, 0)
<1>1. limited \in BOOLEAN /\ bytes \in Nat /\ limit \in Nat /\ Sound(br, start, taken, back)
  BY DEF ReaderInv
<1>2. start \in Nat /\ taken \in Nat /\ back \in Nat /\ back <= taken
  BY ONLY <1>1 DEF Sound
<1>3. Sound(br, start, taken, 0)
  BY ONLY <1>1, Forget
<1>4. QED
  BY ONLY <1>1, <1>2, <1>3

(* The limit and the input are the same in the next state. *)
LEMMA Again ==
  ASSUME limited \in BOOLEAN, bytes \in Nat, limit \in Nat,
         limited' = limited, bytes' = bytes, limit' = limit,
         Sound(br', start', taken', back')
  PROVE  ReaderInv'
<1>1. limited' \in BOOLEAN
  BY ONLY Zenon, limited \in BOOLEAN, limited' = limited
<1>2. bytes' \in Nat /\ limit' \in Nat
  OBVIOUS
<1>3. /\ br' \in Fields /\ {start', taken', back'} \subseteq Nat /\ back' <= taken'
      /\ Cached(br', start', taken', back') /\ Placed(br', start', taken', back')
  BY ONLY Sound(br', start', taken', back') DEF Sound
<1>4. Placed(br, start, taken, back)'
  <2>1. limited' <=> limited
    BY ONLY Zenon, limited' = limited
  <2>2. QED
    BY ONLY <1>3, <2>1, bytes' = bytes, limit' = limit DEF Placed
<1>5. Sound(br, start, taken, back)'
  BY ONLY <1>3, <1>4 DEF Sound, Fields, Cached, EndsIn
<1>6. QED
  BY ONLY Zenon, <1>1, <1>2, <1>5 DEF ReaderInv

(* What is not of readBits keeps the limit. *)
LEMMA NotAsked ==
  ASSUME asked' = 0
  PROVE  StopsAtLimit'
BY DEF StopsAtLimit

(* readBits keeps the reader sound and hands out the bits that come next. *)
LEMMA ReadBitsKeeps ==
  ASSUME ReaderInv, NEW k \in Nat, k + ByteBits <= 256, readBits(k)
  PROVE  Kept
<1>1. /\ limited \in BOOLEAN /\ bytes \in Nat /\ limit \in Nat
      /\ start \in Nat /\ taken \in Nat /\ Sound(br, start, taken, 0)
  BY SoundReader
<1>2. PICK r : r = BitsOf(br, k)
  OBVIOUS
<1>3. /\ br' = r.br /\ got' = r.got /\ ret' = r.err /\ back' = Len(r.got) /\ asked' = k
      /\ taken' = taken + Len(got')
      /\ start' = start /\ limit' = limit /\ limited' = limited /\ bytes' = bytes
  BY <1>2 DEF readBits, Returns
<1> PICK m \in Nat : NextBits(r, start, taken, k, m)
  BY ONLY Zenon, <1>1, <1>2, k \in Nat, k + ByteBits <= 256, BitsAre
<1>4. /\ Len(r.got) = m /\ r.got = [j \in 1 .. m |-> start + taken + j]
      /\ Sound(r.br, start, taken + m, m)
      /\ limited /\ k > 0 => /\ r.err = "nil" => taken + m <= limit
                             /\ r.err = "EOF" => taken + m + k > limit
  BY ONLY NextBits(r, start, taken, k, m) DEF NextBits
<1>5. taken' = taken + m /\ back' = m
  BY ONLY <1>3, <1>4
<1>6. Sound(br', start', taken', back')
  BY ONLY <1>3, <1>4, <1>5
<1>7. ReaderInv'
  BY ONLY Zenon, <1>1, <1>3, <1>6, Again
<1>8. InOrder'
  <2>1. PICK g, u : g = got' /\ u = taken'
    OBVIOUS
  <2>2. Len(g) = m /\ g = [j \in 1 .. m |-> start + taken + j] /\ u = taken + m
    BY ONLY <1>3, <1>4, <1>5, <2>1
  <2>3. g = [j \in 1 .. Len(g) |-> start + u - Len(g) + j]
    BY ONLY <1>1, <2>2, m \in Nat, Ordered
  <2>4. QED
    BY ONLY Zenon, <1>3, <2>1, <2>3 DEF InOrder
<1>9. StopsAtLimit'
  BY ONLY <1>3, <1>4, <1>5 DEF StopsAtLimit
<1>10. QED
  BY ONLY <1>7, <1>8, <1>9 DEF Kept

(* No bits are handed out. *)
LEMMA Silent ==
  ASSUME got' = <<>>, asked' = 0
  PROVE  InOrder' /\ StopsAtLimit'
<1>1. InOrder'
  <2>1. [j \in 1 .. 0 |-> start' + taken' - 0 + j] = <<>>
    OBVIOUS
  <2>2. Len(got') = 0
    OBVIOUS
  <2>3. QED
    BY <2>1, <2>2 DEF InOrder
<1>2. QED
  BY <1>1 DEF StopsAtLimit

(* unreadBits keeps the reader sound. *)
LEMMA UnreadKeeps ==
  ASSUME ReaderInv, NEW k \in Nat \ {0}, unreadBits(k)
  PROVE  Kept
<1>1. /\ limited \in BOOLEAN /\ bytes \in Nat /\ limit \in Nat
      /\ start \in Nat /\ taken \in Nat /\ back \in Nat /\ back <= taken
      /\ Sound(br, start, taken, back)
  BY SoundReader
<1>2. /\ k <= back /\ br' = [br EXCEPT !.n = br.n + k]
      /\ taken' = taken - k /\ back' = 0 /\ got' = <<>> /\ asked' = 0
      /\ start' = start /\ limit' = limit /\ limited' = limited /\ bytes' = bytes
  BY DEF unreadBits
<1>3. /\ br \in Fields /\ br.n + back < 256 /\ EndsIn(br.v, br.n + back, start + taken - back)
      /\ Placed(br, start, taken, back)
  BY ONLY <1>1 DEF Sound, Cached
<1>4. PICK A, V, N, L : br = [at |-> A, v |-> V, n |-> N, l |-> L]
  BY ONLY <1>3 DEF Fields
<1>5. A \in Nat /\ V \in Seq(Int) /\ N \in Nat /\ L \in Int
  BY ONLY <1>3, <1>4 DEF Fields
<1>6. br.at = A /\ br.v = V /\ br.n = N /\ br.l = L
  BY ONLY <1>4
<1>7. k <= back /\ start \in Nat /\ taken \in Nat /\ back \in Nat /\ back <= taken
  BY ONLY <1>1, <1>2
<1>8. PICK n \in Nat : n = N + k
  BY ONLY <1>5, k \in Nat \ {0}
<1>9. PICK u \in Nat : u = taken - k
  BY ONLY <1>1, <1>2, k \in Nat \ {0}
<1>10. PICK c : c = [at |-> A, v |-> V, n |-> n, l |-> L]
  OBVIOUS
<1>11. br' = c
  BY ONLY <1>2, <1>4, <1>6, <1>8, <1>10
<1>12. EndsIn(V, n, start + u) /\ n < 256
  <2>1. PICK m \in Nat, e \in Nat : m = N + back /\ e = start + taken - back
    BY ONLY <1>1, <1>5
  <2>2. EndsIn(V, m, e)
    BY ONLY <1>3, <1>6, <2>1
  <2>3. PICK d \in 0 .. m : d = back - k
    BY ONLY <1>5, <1>7, <2>1, k \in Nat \ {0}
  <2>4. EndsIn(V, m - d, e + d)
    BY ONLY <1>5, <2>2, m \in Nat, e \in Nat, d \in 0 .. m, Fewer
  <2>5. m - d = n /\ e + d = start + u /\ n < 256
    <3>1. N + back < 256 /\ k <= back
      BY ONLY <1>2, <1>3, <1>6
    <3>2. start \in Nat /\ taken \in Nat /\ back \in Nat
      BY ONLY <1>1
    <3>3. QED
      BY ONLY <1>5, <1>8, <1>9, <2>1, <2>3, <3>1, <3>2, k \in Nat \ {0}
  <2>6. QED
    BY ONLY <2>4, <2>5
<1>13. Placed(c, start, u, 0)
  <2>1. c.at = A /\ c.n = n /\ c.l = L
    BY ONLY <1>10
  <2>2. PICK p \in Int : p = ByteBits * A
    BY <1>5, BitAssumption
  <2>3. u + n = taken + N /\ start + u + n = start + taken + N /\ back # 0
    BY ONLY <1>5, <1>8, <1>9, <1>7, k \in Nat \ {0}
  <2>4. /\ A <= bytes
        /\ ~limited => start = 0 /\ taken + N = p
        /\ limited =>
             \/ L > 0 /\ start + taken + N = p /\ taken + N + L = limit
             \/ /\ L = 0 /\ start + taken + N <= p /\ p < start + taken + N + ByteBits
                /\ taken + N = limit
    BY ONLY <1>3, <1>6, <2>2, <2>3 DEF Placed
  <2>5. QED
    BY ONLY <2>1, <2>2, <2>3, <2>4 DEF Placed
<1>14. Sound(c, start, u, 0)
  BY ONLY <1>1, <1>5, <1>10, <1>12, <1>13, n \in Nat, u \in Nat, SoundIs
<1>15. Sound(br', start', taken', back')
  BY ONLY <1>2, <1>9, <1>11, <1>14
<1>16. ReaderInv'
  BY ONLY Zenon, <1>1, <1>2, <1>15, Again
<1>17. QED
  BY ONLY <1>2, <1>16, Silent DEF Kept

(* Where the next byte starts. *)
LEMMA NextByteIs ==
  ASSUME NEW x \in Nat, x = start + taken, NEW q \in Int, NEW p \in Int, p = ByteBits * q,
         x <= p, p < x + ByteBits
  PROVE  NextByte = p
<1>1. ByteBits \in Nat /\ ByteBits > 0
  BY BitAssumption
<1>2. PICK a \in Int, r \in 0 .. ByteBits - 1 : a = x + ByteBits - 1 /\ r = a - p
  BY ONLY <1>1, x \in Nat, p \in Int, x <= p, p < x + ByteBits
<1>3. a = ByteBits * q + r
  BY ONLY <1>2, p = ByteBits * q, p \in Int
<1>4. a \div ByteBits = q
  BY ONLY <1>1, <1>2, <1>3, q \in Int, DivIs
<1>5. NextByte = (a \div ByteBits) * ByteBits
  BY ONLY <1>2, x = start + taken DEF NextByte
<1>6. q * ByteBits = ByteBits * q
  BY ONLY <1>1, q \in Int
<1>7. QED
  BY ONLY <1>4, <1>5, <1>6, p = ByteBits * q

(* A reader without bits, and where it is. *)
LEMMA Drained ==
  ASSUME ReaderInv, br.n = 0, limited => br.l = 0
  PROVE  /\ br.at \in Nat /\ br.at <= bytes /\ ByteBits * br.at \in Nat
         /\ start + taken <= ByteBits * br.at /\ ByteBits * br.at < start + taken + ByteBits
         /\ ~limited => start = 0 /\ taken = ByteBits * br.at
         /\ limited => taken >= limit
<1>1. /\ limited \in BOOLEAN /\ bytes \in Nat /\ limit \in Nat
      /\ start \in Nat /\ taken \in Nat /\ Sound(br, start, taken, 0)
  BY SoundReader
<1>2. br.at \in Nat /\ Placed(br, start, taken, 0)
  BY ONLY <1>1, OfSound
<1>3. PICK p \in Nat : p = ByteBits * br.at
  BY <1>2, BitAssumption
<1>4. ByteBits \in Nat /\ ByteBits > 0
  BY BitAssumption
<1>5. /\ br.at <= bytes
      /\ ~limited => start = 0 /\ taken + 0 = p
      /\ limited => /\ start + taken + 0 <= p /\ p < start + taken + 0 + ByteBits
                    /\ taken + 0 = limit \/ taken >= limit
  BY ONLY <1>2, <1>3, br.n = 0, limited => br.l = 0 DEF Placed
<1>6. QED
  BY ONLY <1>1, <1>2, <1>3, <1>4, <1>5

(* Whole bytes that come from r itself. *)
LEMMA DirectKeeps ==
  ASSUME ReaderInv, br.n = 0, limited => br.l = 0, NEW m \in Nat, br.at + m <= bytes,
         br' = [br EXCEPT !.at = br.at + m],
         got' = [j \in 1 .. ByteBits * m |-> ByteBits * br.at + j],
         taken' = ByteBits * br.at + ByteBits * m - start, back' = 0, asked' = 0,
         UNCHANGED <<start, limit, limited, bytes>>
  PROVE  Kept
<1>1. /\ limited \in BOOLEAN /\ bytes \in Nat /\ limit \in Nat
      /\ start \in Nat /\ taken \in Nat /\ Sound(br, start, taken, 0)
  BY SoundReader
<1>2. /\ br.at \in Nat /\ br.at <= bytes /\ ByteBits * br.at \in Nat
      /\ start + taken <= ByteBits * br.at /\ ByteBits * br.at < start + taken + ByteBits
      /\ ~limited => start = 0 /\ taken = ByteBits * br.at
      /\ limited => taken >= limit
  BY Drained
<1> ByteBits \in Nat /\ ByteBits > 0
  BY ONLY BitAssumption
<1> PICK A \in Nat : A = br.at
  BY ONLY <1>2
<1> PICK p \in Nat : p = ByteBits * A
  BY ONLY <1>2, A = br.at
<1> PICK B \in Nat : B = ByteBits * m
  BY ONLY m \in Nat, ByteBits \in Nat
<1>3. A = br.at /\ p = ByteBits * A /\ B = ByteBits * m
  OBVIOUS
<1>4. PICK V, L : br = [at |-> A, v |-> V, n |-> 0, l |-> L] /\ V = br.v /\ L = br.l
  BY ONLY <1>1, <1>3, OfSound, br.n = 0
<1>5. V \in Seq(Int) /\ L \in Int
  BY ONLY <1>1, <1>4, OfSound
<1>6. PICK A1 \in Nat, u \in Nat : A1 = A + m /\ u = p + B - start
  BY ONLY <1>1, <1>2, <1>3, m \in Nat
<1>7. PICK c : c = [at |-> A1, v |-> V, n |-> 0, l |-> L]
  OBVIOUS
<1>8. br' = c
  BY ONLY <1>3, <1>4, <1>6, <1>7, br' = [br EXCEPT !.at = br.at + m]
<1>9. ByteBits * A1 = p + B
  BY ONLY <1>3, <1>6, ByteBits \in Nat, A \in Nat, m \in Nat
<1>10. Placed(c, start, u, 0)
  <2>1. c.at = A1 /\ c.n = 0 /\ c.l = L
    BY ONLY <1>7
  <2>2. A1 <= bytes /\ (limited => L = 0)
    BY ONLY <1>3, <1>4, <1>6, br.at + m <= bytes, limited => br.l = 0
  <2>3. start + u + 0 = p + B /\ u >= taken
    BY ONLY <1>1, <1>2, <1>3, <1>6, p \in Nat, B \in Nat
  <2>4. ~limited => start = 0 /\ u + 0 = p + B
    BY ONLY <1>2, <1>3, <1>6, <2>3, p \in Nat, B \in Nat, u \in Nat
  <2>5. limited => u >= limit
    BY ONLY <1>1, <1>2, <2>3, u \in Nat
  <2>6. QED
    BY ONLY <1>1, <1>3, <1>9, <2>1, <2>2, <2>3, <2>4, <2>5, u \in Nat,
            ByteBits \in Nat, ByteBits > 0, p \in Nat, B \in Nat DEF Placed
<1>11. EndsIn(V, 0, start + u)
  BY ONLY <1>5 DEF EndsIn
<1>12. Sound(c, start, u, 0)
  BY ONLY <1>1, <1>5, <1>7, <1>10, <1>11, A1 \in Nat, u \in Nat, SoundIs
<1>13. taken' = u /\ start' = start /\ limited' = limited /\ bytes' = bytes /\ limit' = limit
  BY <1>3, <1>6
<1>14. Sound(br', start', taken', back')
  BY ONLY <1>8, <1>12, <1>13, back' = 0
<1>15. ReaderInv'
  BY ONLY Zenon, <1>1, <1>13, <1>14, Again
<1>16. InOrder'
  <2> PICK t \in Nat : t = p - start
    BY ONLY <1>1, <1>2, <1>3
  <2> PICK g : g = [j \in 1 .. B |-> start + t + j]
    OBVIOUS
  <2>1. Len(g) = B
    BY ONLY B \in Nat, g = [j \in 1 .. B |-> start + t + j]
  <2>2. \A j \in 1 .. B : p + j = start + t + j
    BY ONLY <1>1, p \in Nat, B \in Nat, t = p - start
  <2>3. [j \in 1 .. B |-> p + j] = [j \in 1 .. B |-> start + t + j]
    BY ONLY <2>2
  <2>4. got' = g
    BY ONLY <1>3, <2>3, g = [j \in 1 .. B |-> start + t + j],
            got' = [j \in 1 .. ByteBits * m |-> ByteBits * br.at + j]
  <2>5. u = t + B
    BY ONLY <1>1, <1>6, p \in Nat, B \in Nat, t = p - start
  <2>6. g = [j \in 1 .. Len(g) |-> start + u - Len(g) + j]
    BY ONLY <1>1, <2>1, <2>5, t \in Nat, B \in Nat, g = [j \in 1 .. B |-> start + t + j],
            Ordered
  <2>7. QED
    BY ONLY Zenon, <1>13, <2>4, <2>6 DEF InOrder
<1>17. QED
  BY ONLY <1>15, <1>16, NotAsked, asked' = 0 DEF Kept

(* ReadByte keeps the reader sound, with and without bits in the cache. *)
LEMMA ReadByteKeeps ==
  ASSUME ReaderInv, ReadByte
  PROVE  Kept
<1>1. ByteBits \in Nat /\ ByteBits > 0 /\ ByteBits < 128
  BY BitAssumption
<1>2. CASE br.n # 0 /\ readBits(ByteBits)
  BY ONLY <1>1, <1>2, ReaderInv, ReadBitsKeeps
<1>3. CASE /\ br.n = 0 /\ (limited => br.l = 0)
           /\ br.at < bytes /\ br' = [br EXCEPT !.at = br.at + 1]
           /\ got' = Byte(br.at) /\ taken' = NextByte - start + ByteBits
           /\ asked' = 0 /\ back' = 0 /\ UNCHANGED <<start, limit, limited, bytes>>
  <2>1. start \in Nat /\ taken \in Nat /\ bytes \in Nat
    BY SoundReader
  <2>2. /\ br.at \in Nat /\ ByteBits * br.at \in Nat
        /\ start + taken <= ByteBits * br.at /\ ByteBits * br.at < start + taken + ByteBits
    BY ONLY <1>3, ReaderInv, Drained
  <2>3. PICK x \in Nat, q \in Int, p \in Int : x = start + taken /\ q = br.at /\ p = ByteBits * q
    BY ONLY <2>1, <2>2
  <2>4. NextByte = ByteBits * br.at
    BY ONLY <2>2, <2>3, x \in Nat, q \in Int, p \in Int, NextByteIs
  <2>5. br.at + 1 <= bytes /\ ByteBits * 1 = ByteBits
    BY ONLY <1>1, <1>3, <2>1, <2>2
  <2>6. taken' = ByteBits * br.at + ByteBits * 1 - start
    BY ONLY <1>1, <1>3, <2>1, <2>2, <2>4, <2>5
  <2>7. got' = [j \in 1 .. ByteBits * 1 |-> ByteBits * br.at + j]
    BY ONLY <1>3, <2>5 DEF Byte
  <2>8. QED
    BY ONLY Zenon, <1>3, <2>5, <2>6, <2>7, ReaderInv, DirectKeeps, 1 \in Nat
<1>4. CASE /\ got' = <<>> /\ UNCHANGED <<br, taken>>
           /\ asked' = 0 /\ back' = 0 /\ UNCHANGED <<start, limit, limited, bytes>>
  <2>1. /\ limited \in BOOLEAN /\ bytes \in Nat /\ limit \in Nat
        /\ Sound(br, start, taken, 0)
    BY SoundReader
  <2>2. Sound(br', start', taken', back')
    BY ONLY <1>4, <2>1
  <2>3. ReaderInv'
    BY ONLY Zenon, <1>4, <2>1, <2>2, Again
  <2>4. QED
    BY ONLY <1>4, <2>3, Silent DEF Kept
<1>5. QED
  BY ONLY <1>2, <1>3, <1>4, ReadByte DEF ReadByte

(* setLimit starts anew where the last limit was. *)
LEMMA SetLimitKeeps ==
  ASSUME ReaderInv, NEW k \in Nat, setLimit(k)
  PROVE  Kept
<1>1. /\ limited \in BOOLEAN /\ bytes \in Nat /\ limit \in Nat
      /\ start \in Nat /\ taken \in Nat /\ Sound(br, start, taken, 0)
  BY SoundReader
<1>2. /\ limited /\ br.n = 0 /\ br.l = 0 /\ br' = [br EXCEPT !.l = k, !.n = 0]
      /\ start' = ByteBits * br.at /\ limit' = k /\ taken' = 0 /\ asked' = 0 /\ back' = 0
      /\ got' = <<>> /\ limited' = limited /\ bytes' = bytes
  BY DEF setLimit
<1>3. br.at \in Nat /\ br.at <= bytes /\ ByteBits * br.at \in Nat
  BY ONLY <1>2, ReaderInv, Drained
<1> ByteBits \in Nat /\ ByteBits > 0
  BY ONLY BitAssumption
<1> PICK A \in Nat : A = br.at
  BY ONLY <1>3
<1> PICK p \in Nat : p = ByteBits * A
  BY ONLY <1>3, A = br.at
<1>4. PICK V : br = [at |-> A, v |-> V, n |-> 0, l |-> 0] /\ V = br.v
  BY ONLY <1>1, <1>2, OfSound, A = br.at
<1>5. V \in Seq(Int)
  BY ONLY <1>1, <1>4, OfSound
<1>6. PICK c : c = [at |-> A, v |-> V, n |-> 0, l |-> k]
  OBVIOUS
<1>7. br' = c
  <2>1. PICK x : x = [br EXCEPT !.l = k]
    OBVIOUS
  <2>2. x = c
    BY ONLY <1>4, <1>6, <2>1
  <2>3. br' = [x EXCEPT !.n = 0]
    BY ONLY <1>2, <2>1
  <2>4. [x EXCEPT !.n = 0] = c
    BY ONLY <1>6, <2>2
  <2>5. QED
    BY ONLY <2>3, <2>4
<1>8. c.at = A /\ c.n = 0 /\ c.v = V /\ c.l = k
  BY ONLY <1>6
<1>9. c \in Fields
  BY ONLY <1>5, <1>6, A \in Nat, k \in Nat DEF Fields
<1>10. Cached(c, p, 0, 0)
  BY ONLY <1>5, <1>8, p \in Nat DEF Cached, EndsIn
<1>11. Placed(br, start, taken, back)'
  <2>1. /\ br'.at = A /\ br'.n = 0 /\ br'.l = k /\ limited' /\ start' = p /\ taken' = 0
        /\ back' = 0 /\ limit' = k /\ bytes' = bytes
    BY ONLY Zenon, <1>2, <1>7, <1>8, p = ByteBits * A, A = br.at
  <2>2. A <= bytes
    BY ONLY <1>3, A = br.at
  <2>3. QED
    BY ONLY <2>1, <2>2, p = ByteBits * A, p \in Nat, k \in Nat, ByteBits \in Nat, ByteBits > 0
       DEF Placed
<1>12. br' = c /\ start' = p /\ taken' = 0 /\ back' = 0
  BY ONLY <1>2, <1>7, p = ByteBits * A, A = br.at
<1>13. Sound(br, start, taken, back)'
  <2>1. br' \in Fields /\ {start', taken', back'} \subseteq Nat /\ back' <= taken'
    BY ONLY <1>9, <1>12, p \in Nat
  <2>2. Cached(br', start', taken', back')
    BY ONLY <1>10, <1>12
  <2>3. Cached(br, start, taken, back)'
    BY ONLY <2>2 DEF Cached, EndsIn
  <2>4. QED
    BY ONLY <1>11, <2>1, <2>3 DEF Sound, Fields
<1>14. ReaderInv'
  <2>1. limited' \in BOOLEAN
    BY ONLY Zenon, <1>1, <1>2
  <2>2. bytes' \in Nat /\ limit' \in Nat
    BY ONLY <1>1, <1>2, k \in Nat
  <2>3. QED
    BY ONLY Zenon, <1>13, <2>1, <2>2 DEF ReaderInv
<1>15. QED
  BY ONLY <1>2, <1>14, Silent DEF Kept

(* alignByte drops no more than the rest of a byte. *)
LEMMA AlignByteKeeps ==
  ASSUME ReaderInv, alignByte
  PROVE  Kept
<1>1. /\ limited \in BOOLEAN /\ bytes \in Nat /\ limit \in Nat
      /\ start \in Nat /\ taken \in Nat /\ Sound(br, start, taken, 0)
  BY SoundReader
<1>2. /\ ~limited /\ br' = [br EXCEPT !.n = Aligned(br.n)]
      /\ taken' = NextByte - start /\ asked' = 0 /\ back' = 0 /\ got' = <<>>
      /\ start' = start /\ limit' = limit /\ limited' = limited /\ bytes' = bytes
  BY DEF alignByte
<1> ByteBits \in Nat /\ ByteBits > 0
  BY ONLY BitAssumption
<1>3. PICK A, V, N, L : A = br.at /\ V = br.v /\ N = br.n /\ L = br.l
  OBVIOUS
<1>4. /\ A \in Nat /\ V \in Seq(Int) /\ N \in Nat /\ L \in Int
      /\ br = [at |-> A, v |-> V, n |-> N, l |-> L]
  BY ONLY <1>1, <1>3, OfSound
<1>5. N < 256 /\ EndsIn(V, N, start + taken) /\ Placed(br, start, taken, 0)
  BY ONLY <1>1, <1>3, OfSound
<1>6. A <= bytes /\ start = 0 /\ taken + N = ByteBits * A
  BY ONLY <1>2, <1>3, <1>5 DEF Placed
<1>7. PICK q \in Int, r \in 0 .. ByteBits - 1 : N = ByteBits * q + r /\ N % ByteBits = r
  <2>1. PICK a \in Int, m \in Nat : a = N /\ m = ByteBits
    BY ONLY <1>4, ByteBits \in Nat
  <2>2. \E q \in Int, r \in 0 .. m - 1 : a = m * q + r /\ a % m = r
    BY ONLY <2>1, a \in Int, m \in Nat, ByteBits > 0, ModSplit
  <2>3. QED
    BY ONLY <2>1, <2>2
<1>8. r \in Nat /\ r \in 0 .. N
  <2>1. N % ByteBits <= N
    BY ONLY <1>4, ByteBits \in Nat, ByteBits > 0
  <2>2. QED
    BY ONLY <1>4, <1>7, <2>1, ByteBits \in Nat
<1> PICK n \in Nat : n = N - r
  BY ONLY <1>4, <1>8
<1> PICK u \in Nat : u = taken + r
  BY ONLY <1>1, <1>8
<1>9. Aligned(N) = n
  BY ONLY <1>7, n = N - r DEF Aligned
<1> PICK p \in Int, a \in Int : p = ByteBits * a /\ a = A - q
  BY ONLY <1>4, q \in Int, ByteBits \in Nat
<1>10. u = p
  <2>1. ByteBits * (A - q) = ByteBits * A - ByteBits * q
    BY ONLY <1>4, q \in Int, ByteBits \in Nat
  <2>2. PICK x \in Int, y \in Int : x = ByteBits * A /\ y = ByteBits * q
    BY ONLY <1>4, q \in Int, ByteBits \in Nat
  <2>3. p = x - y /\ taken + N = x /\ N = y + r
    BY ONLY <1>6, <1>7, <2>1, <2>2, p = ByteBits * a, a = A - q
  <2>4. QED
    BY ONLY <1>1, <1>4, <1>8, <2>3, u = taken + r, p \in Int, x \in Int, y \in Int
<1>11. NextByte = u
  <2>1. PICK x \in Nat : x = start + taken
    BY ONLY <1>1
  <2>2. x <= p /\ p < x + ByteBits
    BY ONLY <1>1, <1>6, <1>7, <1>10, <2>1, u = taken + r, ByteBits \in Nat
  <2>3. NextByte = p
    BY ONLY <2>1, <2>2, x \in Nat, a \in Int, p \in Int, p = ByteBits * a, NextByteIs
  <2>4. QED
    BY ONLY <1>10, <2>3
<1>12. taken' = u
  BY ONLY <1>2, <1>6, <1>11, u \in Nat
<1>13. PICK c : c = [at |-> A, v |-> V, n |-> n, l |-> L]
  OBVIOUS
<1>14. br' = c
  BY ONLY <1>2, <1>3, <1>4, <1>9, <1>13
<1>15. EndsIn(V, n, start + u)
  <2>1. PICK e \in Nat : e = start + taken
    BY ONLY <1>1
  <2>2. EndsIn(V, N - r, e + r)
    BY ONLY <1>4, <1>5, <1>8, <2>1, e \in Nat, Fewer
  <2>3. N - r = n /\ e + r = start + u
    BY ONLY <1>1, <1>8, <2>1, n = N - r, u = taken + r
  <2>4. QED
    BY ONLY <2>2, <2>3
<1>16. Placed(c, start, u, 0)
  <2>1. c.at = A /\ c.n = n /\ c.l = L
    BY ONLY <1>13
  <2>2. u + n = ByteBits * A
    <3>1. u + n = taken + N
      BY ONLY <1>1, <1>4, <1>8, n = N - r, u = taken + r
    <3>2. QED
      BY ONLY <1>6, <3>1
  <2>3. QED
    BY ONLY <1>2, <1>6, <2>1, <2>2 DEF Placed
<1>17. n < 256
  BY ONLY <1>4, <1>5, <1>8, n = N - r
<1>18. Sound(c, start, u, 0)
  BY ONLY <1>1, <1>4, <1>13, <1>15, <1>16, <1>17, n \in Nat, u \in Nat, SoundIs
<1>19. Sound(br', start', taken', back')
  BY ONLY <1>2, <1>12, <1>14, <1>18
<1>20. ReaderInv'
  BY ONLY Zenon, <1>1, <1>2, <1>19, Again
<1>21. QED
  BY ONLY <1>2, <1>20, Silent DEF Kept

(* reset starts anew at the first byte. *)
LEMMA ResetKeeps ==
  ASSUME ReaderInv, reset
  PROVE  Kept
<1>1. /\ limited \in BOOLEAN /\ bytes \in Nat /\ limit \in Nat
      /\ start \in Nat /\ taken \in Nat /\ Sound(br, start, taken, 0)
  BY SoundReader
<1>2. /\ ~limited /\ br' = [br EXCEPT !.at = 0, !.v = <<>>, !.n = 0]
      /\ taken' = 0 /\ asked' = 0 /\ back' = 0 /\ got' = <<>>
      /\ start' = start /\ limit' = limit /\ limited' = limited /\ bytes' = bytes
  BY DEF reset
<1>3. PICK A, V, N, L : br = [at |-> A, v |-> V, n |-> N, l |-> L] /\ L \in Int
  BY ONLY <1>1, OfSound
<1>4. PICK c : c = [at |-> 0, v |-> <<>>, n |-> 0, l |-> L]
  OBVIOUS
<1>5. br' = c
  <2>1. PICK x1 : x1 = [br EXCEPT !.at = 0]
    OBVIOUS
  <2>2. PICK x2 : x2 = [x1 EXCEPT !.v = <<>>]
    OBVIOUS
  <2>3. PICK x3 : x3 = [x2 EXCEPT !.n = 0]
    OBVIOUS
  <2>4. x1 = [at |-> 0, v |-> V, n |-> N, l |-> L]
    BY ONLY <1>3, <2>1
  <2>5. x2 = [at |-> 0, v |-> <<>>, n |-> N, l |-> L]
    BY ONLY <2>2, <2>4
  <2>6. x3 = [at |-> 0, v |-> <<>>, n |-> 0, l |-> L]
    BY ONLY <2>3, <2>5
  <2>7. br' = x3
    BY ONLY <1>2, <2>1, <2>2, <2>3
  <2>8. QED
    BY ONLY <1>4, <2>6, <2>7
<1>6. Placed(c, start, 0, 0)
  <2>1. start = 0
    BY ONLY <1>1, <1>2, OfSound DEF Placed
  <2>2. c.at = 0 /\ c.n = 0 /\ ByteBits * 0 = 0
    BY <1>4, BitAssumption
  <2>3. QED
    BY ONLY <1>1, <1>2, <2>1, <2>2 DEF Placed
<1>7. <<>> \in Seq(Int) /\ EndsIn(<<>>, 0, start + 0)
  BY ONLY <1>1 DEF EndsIn
<1>8. PICK z \in Nat, V0 \in Seq(Int) : z = 0 /\ V0 = <<>>
  BY ONLY <1>7
<1>9. Sound(c, start, z, 0)
  <2>1. c = [at |-> z, v |-> V0, n |-> z, l |-> L] /\ EndsIn(V0, z, start + z) /\ z < 256
    BY ONLY <1>4, <1>7, <1>8
  <2>2. Placed(c, start, z, 0)
    BY ONLY <1>6, <1>8
  <2>3. QED
    BY ONLY <1>1, <1>3, <2>1, <2>2, z \in Nat, V0 \in Seq(Int), SoundIs
<1>10. Sound(br', start', taken', back')
  BY ONLY <1>2, <1>5, <1>8, <1>9
<1>11. ReaderInv'
  BY ONLY Zenon, <1>1, <1>2, <1>10, Again
<1>12. QED
  BY ONLY <1>2, <1>11, Silent DEF Kept

Errors == {"nil", "EOF", "ErrDecoderOutOfData"}

(* What Read has so far. *)
ReadSoFar(x) ==
  /\ x \in [br : Fields, got : Seq(Int), err : Errors]
  /\ x.got = [j \in 1 .. Len(x.got) |-> start + taken + j]
  /\ Sound(x.br, start, taken + Len(x.got), 0)

(* Read takes one byte more. *)
LEMMA ReadGoesOn ==
  ASSUME ReaderInv, NEW x, ReadSoFar(x), NEW r, r = BitsOf(x.br, ByteBits),
         NEW y, y = [r EXCEPT !.got = x.got \o r.got]
  PROVE  ReadSoFar(y)
<1>1. /\ limited \in BOOLEAN /\ bytes \in Nat /\ limit \in Nat
      /\ start \in Nat /\ taken \in Nat
  BY SoundReader
<1> ByteBits \in Nat /\ ByteBits > 0 /\ ByteBits + ByteBits <= 256
  BY ONLY BitAssumption
<1>2. PICK b, g : b = x.br /\ g = x.got
  OBVIOUS
<1>3. /\ g \in Seq(Int) /\ Len(g) \in Nat /\ g = [j \in 1 .. Len(g) |-> start + taken + j]
      /\ Sound(b, start, taken + Len(g), 0)
  <2>1. g \in Seq(Int)
    BY ONLY <1>2, ReadSoFar(x) DEF ReadSoFar
  <2>2. Len(g) \in Nat
    BY ONLY <2>1
  <2>3. QED
    BY ONLY <1>2, <2>1, <2>2, ReadSoFar(x) DEF ReadSoFar
<1> PICK n \in Nat : n = Len(g)
  BY ONLY <1>3
<1> PICK t \in Nat : t = taken + n
  BY ONLY <1>1, n \in Nat
<1>4. Sound(b, start, t, 0)
  BY ONLY <1>3, n = Len(g), t = taken + n
<1>5. r = BitsOf(b, ByteBits)
  BY ONLY <1>2, r = BitsOf(x.br, ByteBits)
<1> PICK m \in Nat : NextBits(r, start, t, ByteBits, m)
  BY ONLY Zenon, <1>1, <1>4, <1>5, ByteBits \in Nat, ByteBits + ByteBits <= 256, BitsAre
<1>6. Len(r.got) = m /\ r.got = [j \in 1 .. m |-> start + t + j] /\ Sound(r.br, start, t + m, m)
  BY ONLY NextBits(r, start, t, ByteBits, m) DEF NextBits
<1>7. Sound(r.br, start, t + m, 0)
  BY ONLY <1>6, Forget
<1>8. r = [br |-> r.br, got |-> r.got, err |-> r.err] /\ r.err \in Errors
  <2>1. PICK p : p = Loaded(b, ByteBits)
    OBVIOUS
  <2>2. CASE p.n >= ByteBits
    <3>1. PICK u, w : /\ u = [p EXCEPT !.n = p.n - ByteBits]
                      /\ w = Window(p.v, ByteBits, p.n - ByteBits)
      OBVIOUS
    <3>2. r = [br |-> u, got |-> w, err |-> "nil"]
      BY ONLY <1>5, <2>1, <2>2, <3>1 DEF BitsOf
    <3>3. QED
      BY ONLY <3>2 DEF Errors
  <2>3. CASE ~(p.n >= ByteBits)
    <3>1. r = [br |-> p, got |-> <<>>,
               err |-> IF limited /\ p.l # 0 THEN "ErrDecoderOutOfData" ELSE "EOF"]
      BY ONLY <1>5, <2>1, <2>3 DEF BitsOf
    <3>2. QED
      BY ONLY <3>1 DEF Errors
  <2>4. QED
    BY ONLY <2>2, <2>3
<1> DEFINE h1 == r.got
           z == [j \in 1 .. n + m |-> start + taken + j]
<1>9. h1 \in Seq(Int) /\ z \in Seq(Int) /\ Len(z) = n + m
  <2>1. h1 \in Seq(Int)
    BY ONLY <1>1, <1>6, m \in Nat, t \in Nat
  <2>2. z \in Seq(Int)
    BY ONLY <1>1, m \in Nat, n \in Nat
  <2>3. Len(z) = n + m
    BY ONLY m \in Nat, n \in Nat
  <2>4. QED
    BY ONLY <2>1, <2>2, <2>3
<1>10. Cat(g, h1) = z
  <2>1. PICK S : S = Int
    OBVIOUS
  <2>2. \A j \in 1 .. Len(g) : z[j] = g[j]
    BY ONLY <1>3, n = Len(g), n \in Nat, m \in Nat
  <2>3. \A j \in 1 .. Len(h1) : z[Len(g) + j] = h1[j]
    <3>1. ASSUME NEW j \in 1 .. m PROVE z[n + j] = h1[j]
      <4>1. n + j \in 1 .. n + m /\ start + taken + (n + j) = start + t + j
        BY ONLY <1>1, n \in Nat, m \in Nat, j \in 1 .. m, t = taken + n
      <4>2. QED
        BY ONLY <1>6, <4>1, j \in 1 .. m
    <3>2. QED
      BY ONLY <1>6, <3>1, n = Len(g)
  <2>4. g \in Seq(S) /\ h1 \in Seq(S) /\ z \in Seq(S) /\ Len(z) = Len(g) + Len(h1)
    BY ONLY <1>3, <1>6, <1>9, <2>1, n = Len(g)
  <2> HIDE DEF z, h1
  <2>5. QED
    BY ONLY <2>2, <2>3, <2>4, CatIs
<1>11. y.got = z /\ y.br = r.br /\ y.err = r.err /\ y = [br |-> r.br, got |-> z, err |-> r.err]
  <2>1. y = [r EXCEPT !.got = z]
    BY ONLY <1>2, <1>10, y = [r EXCEPT !.got = x.got \o r.got] DEF Cat
  <2> HIDE DEF z
  <2>2. y = [br |-> r.br, got |-> z, err |-> r.err]
    BY ONLY <1>8, <2>1
  <2>3. QED
    BY ONLY <2>2
<1>12. r.br \in Fields
  BY ONLY <1>7 DEF Sound
<1> HIDE DEF h1
<1>13. z = [j \in 1 .. Len(z) |-> start + taken + j]
  BY ONLY <1>9
<1> HIDE DEF z
<1>14. y \in [br : Fields, got : Seq(Int), err : Errors]
  BY ONLY <1>8, <1>9, <1>11, <1>12
<1>15. Sound(y.br, start, taken + Len(y.got), 0)
  <2>1. taken + Len(y.got) = t + m
    BY ONLY <1>1, <1>9, <1>11, t = taken + n, n \in Nat, m \in Nat
  <2>2. QED
    BY ONLY <1>7, <1>11, <2>1
<1>16. QED
  BY ONLY <1>11, <1>13, <1>14, <1>15 DEF ReadSoFar

(* Read keeps the reader sound, with and without bits in the cache. *)
LEMMA ReadKeeps ==
  ASSUME ReaderInv, NEW k \in Nat, Read(k)
  PROVE  Kept
<1>1. /\ limited \in BOOLEAN /\ bytes \in Nat /\ limit \in Nat
      /\ start \in Nat /\ taken \in Nat /\ Sound(br, start, taken, 0)
  BY SoundReader
<1>2. /\ ~limited /\ taken' = taken + Len(got') /\ asked' = 0 /\ back' = 0
      /\ UNCHANGED <<start, limit, limited, bytes>>
  BY DEF Read
<1>3. CASE br.n = 0
  <2>1. PICK m \in 0 .. k :
          /\ br.at + m <= bytes /\ br' = [br EXCEPT !.at = br.at + m]
          /\ got' = [j \in 1 .. ByteBits * m |-> ByteBits * br.at + j]
    BY ONLY <1>3, Read(k) DEF Read
  <2> ByteBits \in Nat
    BY ONLY BitAssumption
  <2> PICK B \in Nat : B = ByteBits * m
    BY ONLY m \in 0 .. k, k \in Nat, ByteBits \in Nat
  <2>2. start = 0 /\ taken = ByteBits * br.at
    BY ONLY <1>2, <1>3, ReaderInv, Drained
  <2>3. Len(got') = B
    BY ONLY <2>1, B \in Nat, B = ByteBits * m
  <2>4. taken' = ByteBits * br.at + ByteBits * m - start
    BY ONLY <1>1, <1>2, <2>2, <2>3, B = ByteBits * m, B \in Nat
  <2>5. m \in Nat
    BY ONLY m \in 0 .. k, k \in Nat
  <2>6. QED
    BY ONLY Zenon, <1>2, <1>3, <2>1, <2>4, <2>5, ReaderInv, DirectKeeps
<1>4. CASE br.n # 0
  <2> DEFINE First == [br |-> br, got |-> <<>>, err |-> "nil"]
             After(x) == IF x.err # "nil" THEN x
                         ELSE LET r == BitsOf(x.br, ByteBits)
                              IN [r EXCEPT !.got = x.got \o r.got]
             X == {x \in [br : Fields, got : Seq(Int), err : Errors] : ReadSoFar(x)}
             step == [x \in X |-> After(x)]
             Def(f) == f = [j \in Nat |-> IF j = 0 THEN First ELSE After(f[j - 1])]
  <2>1. ReadSoFar(First)
    <3>1. taken + 0 = taken
      BY ONLY <1>1
    <3>2. br \in Fields
      BY ONLY <1>1 DEF Sound
    <3>3. First.br = br /\ First.got = <<>> /\ Len(First.got) = 0
      OBVIOUS
    <3>4. First \in [br : Fields, got : Seq(Int), err : Errors]
      <4>1. PICK f, g : f = br /\ g = <<>>
        OBVIOUS
      <4>2. f \in Fields /\ g \in Seq(Int) /\ "nil" \in Errors
        <5>1. f \in Fields
          BY ONLY <3>2, <4>1
        <5>2. g \in Seq(Int)
          BY ONLY <4>1
        <5>3. "nil" \in Errors
          BY ONLY TRUE DEF Errors
        <5>4. QED
          BY ONLY <5>1, <5>2, <5>3
      <4>3. [br |-> f, got |-> g, err |-> "nil"] \in [br : Fields, got : Seq(Int), err : Errors]
        BY ONLY <4>2
      <4>4. QED
        BY ONLY <4>1, <4>3
    <3>5. <<>> = [j \in 1 .. 0 |-> start + taken + j]
      OBVIOUS
    <3> HIDE DEF First
    <3>6. QED
      BY ONLY <1>1, <3>1, <3>3, <3>4, <3>5 DEF ReadSoFar
  <2>2. ASSUME NEW x, ReadSoFar(x) PROVE ReadSoFar(After(x))
    <3>1. CASE x.err # "nil"
      BY ONLY <2>2, <3>1
    <3>2. CASE ~(x.err # "nil")
      <4>1. PICK r : r = BitsOf(x.br, ByteBits)
        OBVIOUS
      <4>2. PICK y : y = [r EXCEPT !.got = x.got \o r.got]
        OBVIOUS
      <4>3. After(x) = y
        BY ONLY <3>2, <4>1, <4>2
      <4>4. ReadSoFar(y)
        BY ONLY Zenon, <2>2, <4>1, <4>2, ReaderInv, ReadGoesOn
      <4>5. QED
        BY ONLY <4>3, <4>4
    <3>3. QED
      BY ONLY <3>1, <3>2
  <2>3. PICK H : H = CHOOSE f : Def(f)
    OBVIOUS
  <2>4. br' = H[k].br /\ got' = H[k].got
    BY ONLY <1>4, <2>3, Read(k) DEF Read
  <2> HIDE DEF First, After
  <2>5. ASSUME NEW g, g[0] = First, \A j \in Nat : g[j + 1] = step[g[j]] \/ g[j + 1] = After(g[j])
        PROVE  \A j \in Nat : ReadSoFar(g[j])
    <3> DEFINE S == {j \in Nat : ReadSoFar(g[j])}
    <3>1. 0 \in S
      BY ONLY <2>1, <2>5
    <3>2. ASSUME NEW j \in Nat, j \in S PROVE j + 1 \in S
      <4>1. ReadSoFar(g[j])
        BY ONLY <3>2
      <4>2. g[j] \in X
        BY ONLY <4>1 DEF ReadSoFar
      <4>3. g[j + 1] = After(g[j])
        BY ONLY <2>5, <4>2, j \in Nat
      <4>4. ReadSoFar(After(g[j]))
        BY ONLY <2>2, <4>1
      <4>5. QED
        BY ONLY <4>3, <4>4, j \in Nat
    <3> HIDE DEF S
    <3>3. \A j \in Nat : j \in S
      BY ONLY <3>1, <3>2, Inductive
    <3>4. QED
      BY ONLY <3>3 DEF S
  <2>6. \E f : Def(f)
    <3>1. PICK c, f : c = First /\ f = step
      OBVIOUS
    <3>2. PICK r : r = Recursive(c, f)
      OBVIOUS
    <3>3. Recurs(r, c, f)
      BY ONLY <3>2, Recursion
    <3>4. r[0] = First /\ \A j \in Nat : r[j + 1] = step[r[j]]
      BY ONLY <3>1, <3>3 DEF Recurs
    <3>5. \A j \in Nat : ReadSoFar(r[j])
      BY ONLY <2>5, <3>4
    <3>6. ASSUME NEW j \in Nat PROVE r[j + 1] = After(r[j])
      <4>1. r[j] \in X
        BY ONLY <3>5, j \in Nat DEF ReadSoFar
      <4>2. QED
        BY ONLY <3>4, <4>1, j \in Nat
    <3> DEFINE g == [j \in Nat |-> r[j]]
    <3>7. ASSUME NEW j \in Nat PROVE g[j] = IF j = 0 THEN First ELSE After(g[j - 1])
      <4>1. CASE j # 0
        <5>1. PICK i \in Nat : i = j - 1 /\ i + 1 = j
          BY ONLY <4>1, j \in Nat
        <5>2. g[j] = After(g[i])
          BY ONLY <3>6, <5>1, j \in Nat, i \in Nat
        <5>3. QED
          BY ONLY <4>1, <5>1, <5>2
      <4>2. QED
        BY ONLY <3>4, <4>1
    <3>8. Def(g)
      BY ONLY <3>7
    <3>9. QED
      BY ONLY Zenon, <3>8
  <2>7. Def(H)
    BY ONLY Zenon, <2>3, <2>6
  <2> HIDE DEF step
  <2>8. H[0] = First
    BY ONLY <2>7
  <2>9. ASSUME NEW j \in Nat PROVE H[j + 1] = After(H[j])
    <3>1. PICK i \in Nat : i = j + 1 /\ i # 0 /\ i - 1 = j
      BY ONLY j \in Nat
    <3>2. H[i] = After(H[i - 1])
      BY ONLY <2>7, <3>1, i \in Nat
    <3>3. QED
      BY ONLY <3>1, <3>2
  <2>10. ReadSoFar(H[k])
    BY ONLY <2>5, <2>8, <2>9, k \in Nat
  <2>11. PICK g : g = got'
    OBVIOUS
  <2>12. g \in Seq(Int) /\ g = [j \in 1 .. Len(g) |-> start + taken + j]
        /\ Sound(br', start, taken + Len(g), 0)
    BY ONLY <2>4, <2>10, <2>11 DEF ReadSoFar
  <2>13. Sound(br', start', taken', back')
    BY ONLY <1>2, <2>11, <2>12
  <2>14. ReaderInv'
    BY ONLY Zenon, <1>1, <1>2, <2>13, Again
  <2>15. InOrder'
    <3> g \in Seq(Int)
      BY ONLY Zenon, <2>12
    <3> PICK n \in Nat : n = Len(g)
      BY ONLY g \in Seq(Int)
    <3> PICK u : u = taken + n
      OBVIOUS
    <3>1. g = [j \in 1 .. Len(g) |-> start + u - Len(g) + j]
      BY ONLY <1>1, <2>12, n = Len(g), n \in Nat, u = taken + n, Ordered
    <3>2. taken' = u /\ start' = start /\ got' = g
      BY ONLY <1>2, <2>11, n = Len(g), u = taken + n
    <3>3. QED
      BY ONLY Zenon, <3>1, <3>2 DEF InOrder
  <2>16. QED
    BY ONLY <1>2, <2>14, <2>15, NotAsked DEF Kept
<1>5. QED
  BY ONLY <1>3, <1>4

(* A reader is sound before it is used. *)
LEMMA InitSound ==
  ASSUME Init
  PROVE  IInv
<1>1. /\ bytes \in Nat /\ limit \in Nat /\ limited \in BOOLEAN /\ (limited \/ limit = 0)
  <2>1. CASE bytes = RawBytes /\ limited \in BOOLEAN /\ limit = 0
    BY <2>1, InputAssumption
  <2>2. CASE bytes = SymBytes /\ limit \in SymLimits /\ limited = (limit # 0)
    <3>1. bytes \in Nat /\ limit \in Nat
      BY ONLY <2>2, InputAssumption
    <3>2. limited <=> limit # 0
      BY ONLY Zenon, <2>2
    <3>3. limited \in BOOLEAN
      BY ONLY Zenon, <2>2
    <3>4. QED
      BY ONLY <3>1, <3>2, <3>3
  <2>3. QED
    BY ONLY <2>1, <2>2, Init DEF Init
<1>2. /\ br = [at |-> 0, v |-> <<>>, n |-> 0, l |-> limit]
      /\ start = 0 /\ taken = 0 /\ asked = 0 /\ back = 0 /\ got = <<>>
  BY ONLY Init DEF Init, BitsInit
<1>3. Placed(br, 0, 0, 0)
  <2>1. br.at = 0 /\ br.n = 0 /\ br.l = limit
    BY ONLY <1>2
  <2>2. ByteBits * 0 = 0 /\ ByteBits > 0 /\ ByteBits \in Nat
    BY ONLY BitAssumption
  <2>3. QED
    BY ONLY <1>1, <2>1, <2>2 DEF Placed
<1> PICK V \in Seq(Int) : V = <<>>
  BY ONLY EmptySeq
<1>4. PICK z \in Nat, L \in Int : z = 0 /\ V = <<>> /\ L = limit
  BY ONLY <1>1, V = <<>>
<1>5. Sound(br, z, z, 0)
  <2>1. br = [at |-> z, v |-> V, n |-> z, l |-> L] /\ z < 256 /\ Placed(br, z, z, 0)
    BY ONLY <1>2, <1>3, <1>4
  <2>2. EndsIn(V, z, z + z)
    BY ONLY <1>4 DEF EndsIn
  <2>3. QED
    BY ONLY <2>1, <2>2, z \in Nat, V \in Seq(Int), L \in Int, SoundIs
<1>6. ReaderInv
  BY ONLY Zenon, <1>1, <1>2, <1>4, <1>5 DEF ReaderInv
<1>7. InOrder
  <2>1. [j \in 1 .. 0 |-> start + taken - 0 + j] = <<>> /\ Len(<<>>) = 0
    OBVIOUS
  <2>2. QED
    BY ONLY <1>2, <2>1 DEF InOrder
<1>8. StopsAtLimit
  BY ONLY <1>2 DEF StopsAtLimit
<1>9. QED
  BY ONLY <1>6, <1>7, <1>8 DEF IInv

(* No step makes it unsound. *)
LEMMA NextSound ==
  ASSUME NoNegativeLimit, IInv, [Next]_vars
  PROVE  IInv'
<1>1. CASE readSym
  BY ONLY <1>1 DEF readSym, IInv
<1>2. CASE \E k \in 1 .. 2 : ReadFirst(k)
  BY ONLY <1>2 DEF ReadFirst, IInv
<1>3. CASE UseReader
  <2>1. codeLengths = NoTable /\ ReaderInv
    BY ONLY <1>3, IInv DEF UseReader, IInv
  <2>2. BitsNext
    BY ONLY <1>3 DEF UseReader
  <2>3. Kept
    <3>1. ASSUME NEW k \in Sizes, readBits(k) PROVE Kept
      <4>1. k \in Nat /\ k + ByteBits <= 256
        BY ONLY BitAssumption, k \in Sizes
      <4>2. QED
        BY ONLY <2>1, <3>1, <4>1, ReadBitsKeeps
    <3>2. ASSUME NEW k \in 1 .. MaxUnread, unreadBits(k) PROVE Kept
      <4>1. k \in Nat \ {0}
        BY ONLY BitAssumption, k \in 1 .. MaxUnread
      <4>2. QED
        BY ONLY Zenon, <2>1, <3>2, <4>1, UnreadKeeps
    <3>3. CASE ReadByte
      BY ONLY Zenon, <2>1, <3>3, ReadByteKeeps
    <3>4. CASE Read(2)
      <4>1. 2 \in Nat
        OBVIOUS
      <4>2. QED
        BY ONLY Zenon, <2>1, <3>4, <4>1, ReadKeeps
    <3>5. ASSUME NEW k \in Limits, setLimit(k) PROVE Kept
      <4>1. k \in Nat
        BY ONLY NoNegativeLimit, k \in Limits DEF NoNegativeLimit
      <4>2. QED
        BY ONLY Zenon, <2>1, <3>5, <4>1, SetLimitKeeps
    <3>6. CASE alignByte
      BY ONLY Zenon, <2>1, <3>6, AlignByteKeeps
    <3>7. CASE reset
      BY ONLY Zenon, <2>1, <3>7, ResetKeeps
    <3>8. QED
      BY ONLY Zenon, <2>2, <3>1, <3>2, <3>3, <3>4, <3>5, <3>6, <3>7 DEF BitsNext
  <2>4. QED
    BY <2>3 DEF Kept, IInv
<1>4. CASE UNCHANGED vars
  <2>1. /\ limited' = limited /\ bytes' = bytes /\ br' = br /\ start' = start /\ limit' = limit
        /\ taken' = taken /\ asked' = asked /\ back' = back /\ got' = got /\ ret' = ret
        /\ codeLengths' = codeLengths
    BY ONLY <1>4 DEF vars, bitVars
  <2>2. ASSUME ReaderInv PROVE ReaderInv'
    <3>1. limited \in BOOLEAN /\ bytes \in Nat /\ limit \in Nat /\ Sound(br, start, taken, back)
      BY ONLY <2>2 DEF ReaderInv
    <3>2. Sound(br', start', taken', back')
      BY ONLY <2>1, <3>1
    <3>3. QED
      BY ONLY Zenon, <2>1, <3>1, <3>2, Again
  <2>3. InOrder => InOrder'
    BY ONLY Zenon, <2>1 DEF InOrder
  <2>4. StopsAtLimit => StopsAtLimit'
    <3>1. limited' <=> limited
      BY ONLY Zenon, <2>1
    <3>2. QED
      BY ONLY <2>1, <3>1 DEF StopsAtLimit
  <2>5. QED
    BY ONLY <2>1, <2>2, <2>3, <2>4, IInv DEF IInv
<1>5. QED
  BY ONLY <1>1, <1>2, <1>3, <1>4, [Next]_vars DEF Next

(* A reader without tables always knows where it is in its input, and what *)
(* is left of the limit (bit_reader.go), whatever is asked of it.          *)
THEOREM Invariance ==
  ASSUME NoNegativeLimit
  PROVE  Spec => []IInv
<1>1. Init => IInv
  BY InitSound
<1>2. IInv /\ [Next]_vars => IInv'
  BY NextSound, NoNegativeLimit
<1>3. QED
  BY <1>1, <1>2, PTL DEF Spec

(* readBits, unreadBits, ReadByte, Read, setLimit, alignByte and reset in  *)
(* any order hand the bits of the input out in its order.                  *)
THEOREM BitsInOrder ==
  ASSUME NoNegativeLimit
  PROVE  Spec => [](codeLengths = NoTable => InOrder)
<1>1. IInv => (codeLengths = NoTable => InOrder)
  BY DEF IInv
<1>2. Spec => []IInv
  BY Invariance, NoNegativeLimit
<1>3. QED
  BY <1>1, <1>2, PTL

(* readBits of rar5BitReader stops at the limit, and not in front of it.   *)
THEOREM LimitKept ==
  ASSUME NoNegativeLimit
  PROVE  Spec => [](codeLengths = NoTable => StopsAtLimit)
<1>1. IInv => (codeLengths = NoTable => StopsAtLimit)
  BY DEF IInv
<1>2. Spec => []IInv
  BY Invariance, NoNegativeLimit
<1>3. QED
  BY <1>1, <1>2, PTL
=============================================================================
